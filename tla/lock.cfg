SPECIFICATION Spec
CONSTANTS
    Clients = {c1, c2, c3}
    StaleAfter = 2
    MaxTime = 4
    DiskFull = TRUE
    Operator = TRUE
SYMMETRY ClientSymmetry
INVARIANTS
    ExclusiveUnlessRobbed
    NoLeakedLock
PROPERTIES
    ReleaseRemovesOwnLock
CHECK_DEADLOCK FALSE
