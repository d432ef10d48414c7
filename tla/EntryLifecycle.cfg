SPECIFICATION FairLifecycle
CONSTANTS
    Entries = {e1, e2}
    Users = {u1}
    Nobody = Nobody
    Complete = {a, b}
    Partial = Partial
    MaxEntriesChoices = {1, 2}
    AllowWithdrawal = TRUE
    AllowDuplicate = TRUE
    BlockUnpaid = TRUE
INVARIANTS
    StatusMatchesStamp
PROPERTIES
    TwinsOnlyByAdmin
    DraftsEventuallyWithdrawn
