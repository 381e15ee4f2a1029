SPECIFICATION Spec
CONSTANTS
    Procs = {p1, p2, p3}
    Caps = {c1, c2}
    None = None
    ReadsFail = TRUE
    MaxConstructions = 4
INVARIANT
    CheckedObjectsAgree
CHECK_DEADLOCK FALSE
