SPECIFICATION Spec
CONSTANTS
    Sessions = {s1}
    MaxMessages = 4
    Commands = {"stop", "new"}
    MaxCommands = 1
    Permits = 1
    Nobody = Nobody
INVARIANTS
    TypeOK
    EachMessageOnce
    InputInOrder
CHECK_DEADLOCK FALSE
