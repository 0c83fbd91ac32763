SPECIFICATION Spec
CONSTANTS
    MaxRelease = 3
    Keep = 2
    Retention = "warm"
    Conds <- AllConds
    FailAt <- Nowhere
    CrashAt <- Nowhere
    Overlap = FALSE
INVARIANTS
    ServesHealthy
CHECK_DEADLOCK FALSE
