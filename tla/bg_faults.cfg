SPECIFICATION Spec
CONSTANTS
    MaxRelease = 3
    Keep = 1
    Retention = "warm"
    Conds <- AllConds
    FailAt <- Everywhere
    CrashAt <- Everywhere
    Overlap = FALSE
INVARIANTS
    RecordedReleaseLaunchesColour
    SuccessfulDeployConverged
CHECK_DEADLOCK FALSE
