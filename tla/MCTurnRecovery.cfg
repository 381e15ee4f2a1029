SPECIFICATION FairSpec
CONSTANTS
    MaxMsgs = 2
    MaxTools = 2
    MaxFaults = 2
    MaxStops = 1
    MaxLate = 1
    LateActions = {"continue", "dismiss"}
INVARIANTS TypeOK HistoryWellFormed LastCallVisible FollowupsKept ResumeNeedsClick
PROPERTY GoalContinuationResolved
CHECK_DEADLOCK FALSE
