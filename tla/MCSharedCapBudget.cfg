SPECIFICATION Spec
CONSTANTS
    MaxCalls = 2
    Slots <- MCSlots
    LimitUsd = 3
    LimitTokens = 4
    TagLimit <- MCTagLimit
    AllowUnpriced = FALSE
    Estimates <- MCEstimates
    Events <- MCEvents
    Procs = {p1, p2}
    MaxAttempts = 2
    MaxCrashes = 1
    None = None
    Nobody = Nobody
SYMMETRY Symmetry
INVARIANTS
    TypeOK
    CapsNeverLoosen
    CapHolds
PROPERTY
    ImplementsCapBudget
CHECK_DEADLOCK FALSE
