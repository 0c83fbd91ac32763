SPECIFICATION Spec
CONSTANTS
    Host <- TwoHosts
    Domain = {"shop", "blog"}
    SshName = "ssh"
    MaxTunnel = 3
    Key = {"k1", "k2"}
    RootKeys = {"k1"}
    Port = {"pg", "redis"}
    Source = {"a", "b", "c"}
    Declared <- Layouts
    MaxRuns = 3
INVARIANTS
    InitReachesEveryApp
    ConfigHasCredentials
    SetupKeepsAccess
PROPERTIES
    RestrictedToConsumers
CHECK_DEADLOCK FALSE
