SPECIFICATION ReadersSpec
CONSTANTS
    Sides = {a, b}
    NoTeam = NoTeam
    Players = {e, f}
    Results <- MCResults
    MaxDay = 2
INVARIANTS
    LiveInv
    BoardsAgree
PROPERTIES
    SnapshotsStand
