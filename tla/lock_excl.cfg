SPECIFICATION Spec
CONSTANTS
    Clients = {c1, c2}
    StaleAfter = 2
    MaxTime = 0
    DiskFull = FALSE
    Operator = FALSE
INVARIANTS
    MutualExclusion
CHECK_DEADLOCK FALSE
