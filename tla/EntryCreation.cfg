SPECIFICATION FairCreation
CONSTANTS
    Requests = {r1, r2, r3}
    Players = {u1, u2}
    NoPlayer = NoPlayer
    Free = Free
    MaxEntries = 2
    MaxRows = 3
INVARIANTS
    NumbersInOrder
PROPERTIES
    EveryRequestEnds
