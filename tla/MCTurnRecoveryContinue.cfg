SPECIFICATION FairSpec
CONSTANTS
    MaxMsgs = 1
    MaxTools = 1
    MaxFaults = 1
    MaxStops = 0
    MaxLate = 0
    LateActions = {"continue"}
PROPERTY ContinuationResolved
CHECK_DEADLOCK FALSE
