CONSTANTS
    Jobs = {"once", "often"}
    OneShot = {"once"}
    DeleteAfterRun = {"once"}
    Period = 1
    MaxSleep = 2
    MaxTime = 3
    MaxFaults = 1
    MaxSaveErrors = 1
    MaxCalls = 3
    MaxManual = 1
SPECIFICATION FairSpec
INVARIANTS TypeOK SchedulerAlive ChangesSurvive
PROPERTIES DueJobRuns OccurrenceRunsOnce RevokedStaysQuiet
CHECK_DEADLOCK FALSE
