SPECIFICATION FairSpec
CONSTANTS
    Entries = {e1}
    Users = {u1}
    Nobody = Nobody
    Complete = {a}
    Partial = Partial
    MaxEntriesChoices = {2}
    AllowWithdrawal = TRUE
    AllowDuplicate = FALSE
    BlockUnpaid = FALSE
    Sessions = {s1, s2}
PROPERTIES
    LateJoinersWereInTime
    PicksChangeFromDraft
    OnlyStaleWritesTear
    NoDraftSurvives
