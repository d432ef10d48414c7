SPECIFICATION FeedsSpec
CONSTANTS
    Matches <- MCMatches
    Round <- MCRound
    Feeders <- MCFeeders
    FirstPair <- MCFirstPair
    Teams <- MCTeams
    TopTeams <- MCTopTeams
    Entries <- MCEntries
    Picks <- MCPicks
    Worth <- MCWorth
    Fixed <- MCFixed
    Questions <- MCQuestions
    Bonus <- MCBonus
    BonusWorth <- MCBonusWorth
    AnswerSets <- MCAnswerSets
    Quotes <- MCQuotes
    MaxEdits = 2
    MaxGoals = 1
    MaxKicks = 1
    MaxVersion = 2
    Priced = {i, j}
    MaxRound = 3
INVARIANTS
    OddsAddUp
    CountedOnce
    ForecastIsCurrent
    ReportsAreTrue
    SheetIsCurrent
PROPERTIES
    PricesStay
