CONSTANTS
    Configs <- MCConfigs
    Drivers <- MCDrivers
    InTreeName <- MCInTreeName
    ControllerRefs <- MCControllerRefs
    Nil = Nil
SPECIFICATION Spec
CHECK_DEADLOCK FALSE
INVARIANT TopologyAbsentWithoutCapability
