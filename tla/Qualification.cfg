SPECIFICATION FairSpec
CONSTANTS
    A1 = a1
    A2 = a2
    A3 = a3
    B1 = b1
    B2 = b2
    B3 = b3
    C1 = c1
    C2 = c2
    C3 = c3
    Groups = {"A", "B", "C"}
    Fixture <- MCFixture
    GoalPairs <- MCGoalPairs
    Orders <- MCOrders
    Truths <- MCTruths
    Played0 <- MCPlayed0
    Qualifiers = 2
    Slots <- MCSlots
    Batches <- MCBatches
    AnnexC <- MCAnnexC
    Lags <- MCLags
    MaxMistakes = 1
    MaxReverts = 1
    MaxEvents = 1
INVARIANTS
    BracketIsTrue
    OutIsOut
PROPERTIES
    SeedsStand
    SeedsAppear
CHECK_DEADLOCK FALSE
