SPECIFICATION FairSpec
CONSTANTS
    A = a
    B = b
    C = c
    D = d
    Teams <- MCTeams
    Rounds = 2
    Places <- MCPlaces
    Brackets <- MCBrackets
    Fixtures = {f1}
    Scores <- MCScores
    Goals = {0, 1}
    Questions = {q}
    Retired = {old}
    Sessions = {s1, s2}
    Parts = {"scores", "bracket", "bonus"}
    Phase2Parts = {"scores"}
INVARIANTS
    PicksAreWhole
PROPERTIES
    WritesStand
    PicksSettle
