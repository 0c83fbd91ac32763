SPECIFICATION Spec
CONSTANTS
    Clients = {c1, c2}
    Workspaces <- Loaded
    Overlapped <- Pair
    MaxCommands <- TwoOrThree
    FailAt <- Anywhere
    CrashAt <- Dying
INVARIANTS
    DependenciesFirst
    DependencyReachable
    DatabaseOnOneServer
    MigratedBeforeServing
    ReportTruthful
    OneScheduler
    LockIffWorking
    FleetAfterAccessories
PROPERTIES
    ContractsConverged
    ReplicasSwitchTraffic
CHECK_DEADLOCK FALSE
