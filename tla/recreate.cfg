SPECIFICATION Spec
CONSTANTS
    MaxRelease = 3
    Keep = 2
    Runtimes <- Both
    Configs <- Either
    Faults <- OneFault
    FailAt <- Chosen
    MaxEvents = 2
PROPERTIES
    SuccessRunsCurrent
    RebootRestoresDeploy
    FailedDeployRestores
CHECK_DEADLOCK FALSE
