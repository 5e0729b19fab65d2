CONSTANTS
    Configs <- MCConfigs
    Drivers <- MCDrivers
    InTreeName <- MCInTreeName
    ControllerRefs <- MCControllerRefs
    Stuck <- NoStuck
    Nil = Nil
SPECIFICATION LifeSpec
CHECK_DEADLOCK FALSE
PROPERTY FollowsSpecifiedOrder
