\* Every configuration against every driver: the assembled architecture.
CONSTANTS
    Configs <- MCConfigs
    Drivers <- MCDrivers
    InTreeName <- MCInTreeName
    ControllerRefs <- MCControllerRefs
    Nil = Nil
SPECIFICATION Spec
\* main() ends: with an exit status, or with the controllers assembled.
CHECK_DEADLOCK FALSE
INVARIANTS
    TypeOK
    LiveConnection
    MetricsFollowConnection
    NodeLocalWatchesNoNodes
    FixedTopologyAgrees
    OwnedAsRequested
