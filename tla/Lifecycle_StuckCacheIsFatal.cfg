CONSTANTS
    Configs <- MCConfigs
    Drivers <- MCDrivers
    InTreeName <- MCInTreeName
    ControllerRefs <- MCControllerRefs
    Stuck <- OneStuck
    Nil = Nil
SPECIFICATION FairLifeSpec
CHECK_DEADLOCK FALSE
PROPERTY StuckCacheIsFatal
