SPECIFICATION FairSpec
CONSTANTS
    c1 = c1
    c2 = c2
    Chats = {c1, c2}
    Inputs <- MCInputs
    PendingLimit = 2
    Concurrency = 1
    MaxAttempts = 2
    MaxSent = 3
    MaxMixed = 2
    MaxChanges = 2
INVARIANTS
    TypeOK
    StreamsInOrder
    OneLiveObject
PROPERTY
    EveryMessageSettled
CHECK_DEADLOCK FALSE
