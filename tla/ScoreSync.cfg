SPECIFICATION AllSpec
CONSTANTS
    Fixtures = {group}
    Knockout = {}
    Syncs = {sched, post}
    Scheduler = sched
    MaxFetches = 1
    Edits = {"live"}
    Corrections = {TRUE}
    Final = final
    CupEdits = {"live", "postponed"}
    CupCorrections = {TRUE, FALSE}
PROPERTIES
    ResultsStand
    VerifiedOverwrittenOnlyStale
    PointsAreSignalled
    CupTieIsSettled
