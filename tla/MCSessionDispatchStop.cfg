SPECIFICATION FairSpec
CONSTANTS
    Sessions = {s1}
    MaxMessages = 2
    Commands = {"stop"}
    MaxCommands = 1
    Permits = 1
    Nobody = Nobody
PROPERTY
    EverySubmitterAnswered
CHECK_DEADLOCK FALSE
