SPECIFICATION KnockoutSpec
CONSTANTS
    Matches <- MCMatches
    Round <- MCRound
    Rounds = 3
    Source <- MCSource
    FirstLineup <- MCFirstLineup
    Slot <- MCSlot
    TopTeams <- MCTopTeams
    Over0 <- MCOver0
    Named0 <- MCNamed0
    GroupScore0 <- MCGroupScore0
    Truths <- MCTruths
    Entries <- MCEntries
    Picks <- MCPicks
    Advance <- MCAdvance
    Questions <- MCQuestions
    Category <- MCCategory
    Worth <- MCWorth
    Answer <- MCAnswer
    AnswerSets <- MCAnswerSets
    Forecast <- MCForecast
    GroupScores <- MCGroupScores
    OutcomePoints = 5
    ExactPoints = 10
    Cap = 3
    Surprise <- MCSurprise
    MaxEdits = 1
INVARIANTS
    RoundsAreTrue
    BoardIsSound
PROPERTIES
    TotalsStand
CHECK_DEADLOCK FALSE
