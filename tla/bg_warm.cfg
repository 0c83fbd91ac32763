SPECIFICATION FairSpec
CONSTANTS
    MaxRelease = 3
    Keep = 2
    Retention = "warm"
    Conds <- AllConds
    FailAt <- Handled
    CrashAt <- OutsideFlip
    Overlap = FALSE
INVARIANTS
    TypeOK
    NeverDark
    ServingReleaseOnDisk
PROPERTIES
    DeployLeavesTrafficUntilReload
    WorkersFollowHealth
    RollbackUndone
    CurrentFollowsTraffic
    DeployReleasesLock
CHECK_DEADLOCK FALSE
