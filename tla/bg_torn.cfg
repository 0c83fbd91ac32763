SPECIFICATION Spec
CONSTANTS
    MaxRelease = 3
    Keep = 2
    Retention = "warm"
    Conds <- OnlyHealthy
    FailAt <- Nowhere
    CrashAt <- AtStateWrite
    Overlap = FALSE
INVARIANTS
    NeverDark
CHECK_DEADLOCK FALSE
