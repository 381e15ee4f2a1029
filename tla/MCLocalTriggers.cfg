SPECIFICATION FairSpec
CONSTANTS
    Triggers = {t1}
    MaxDeliveries = 2
    BatchSize = 2
    MaxDeliveryAttempts = 3
    MaxStops = 2
    MaxStoreErrors = 1
    NoFile = NoFile
INVARIANTS
    TypeOK
    NoDeliveryLost
    RerunOnlyAfterFault
    DeletedTriggerStaysQuiet
PROPERTY
    EveryDeliveryLeavesTheQueue
CHECK_DEADLOCK FALSE
