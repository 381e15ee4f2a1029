SPECIFICATION FairSpec
CONSTANTS
    Sessions = {s1, s2}
    MaxMessages = 3
    Commands = {"new"}
    MaxCommands = 1
    Permits = 1
    Nobody = Nobody
PROPERTIES
    EveryInputHandled
    EverySubmitterAnswered
CHECK_DEADLOCK FALSE
