CONSTANTS
    Configs <- MCConfigs
    Drivers <- MCDrivers
    InTreeName <- MCInTreeName
    ControllerRefs <- MCControllerRefs
    Stuck <- NoStuck
    Nil = Nil
SPECIFICATION FairLifeSpec
\* a process that runs its controllers, or has ended, takes no further step
CHECK_DEADLOCK FALSE
INVARIANTS
    LifeTypeOK
    ReadyBeforeRun
    HealthCheckIsServed
PROPERTIES
    ImplementsCoordinator
    ImplementsReplica
    NeverHangs
