SPECIFICATION Spec
CONSTANTS
    MaxCalls = 3
    Slots <- MCSlots
    LimitUsd = 4
    LimitTokens = 5
    TagLimit <- MCTagLimit
    AllowUnpriced = TRUE
    Estimates <- MCEstimates
    Events <- MCEvents
    MaxSpend = 6
    MaxTokens = 6
    None = None
INVARIANTS
    TypeOK
    ReservedMatchesHeld
    CapHolds
PROPERTY
    OnlyPricedReleaseFreesExposure
CHECK_DEADLOCK FALSE
