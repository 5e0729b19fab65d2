CONSTANTS
    Configs <- MCConfigs
    Drivers <- MCDrivers
    InTreeName <- MCInTreeName
    ControllerRefs <- MCControllerRefs
    Stuck <- NoStuck
    Nil = Nil
SPECIFICATION ShutSpec
CHECK_DEADLOCK FALSE
INVARIANT ExitWaitsForCalls
