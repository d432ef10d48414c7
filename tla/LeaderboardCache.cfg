SPECIFICATION FairSpec
CONSTANTS
    Keys = {overall}
    Overall = overall
    Requests = {sched, admin}
    Scheduler = sched
    Writers = {sync}
    TTL = 2
    MaxVersion = 2
    MaxFailures = 1
    Free = Free
INVARIANTS
    FreshIsRecent
PROPERTIES
    ImplementsServedBoard
    EventuallyRecent
    EveryWaiterReturns
