SPECIFICATION FairSpec
CONSTANTS
    Sessions <- Shipping
    MaxEdits = 2
    Mishaps = {"fail", "drop", "other"}
    MaxMishaps = 2
    MaxSignals = 2
INVARIANTS
    CtrlCReleases
PROPERTIES
    EditsReachServer
    LockRespected
    CtrlCExits
CHECK_DEADLOCK FALSE
