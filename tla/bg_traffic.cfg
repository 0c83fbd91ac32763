SPECIFICATION Spec
CONSTANTS
    MaxRelease = 3
    Keep = 2
    Retention = "rollback"
    Conds <- CleanOutcomes
    FailAt <- NoLeftover
    CrashAt <- NoLeftover
    Overlap = FALSE
PROPERTIES
    TrafficSpec
CHECK_DEADLOCK FALSE
