CONSTANTS
    Replicas <- MCReplicas
    Populations <- MCNodeLocalElecting
    MaxCrashes = 3
    MaxTime = 1
    Rand <- MCUnseeded
    Nil = Nil
SPECIFICATION Spec
\* with every process leading or waiting, and no failure left, nothing moves
CHECK_DEADLOCK FALSE
INVARIANTS
    TypeOK
    ReplicasExclude
    NodesIdentifyApart
PROPERTIES
    Takeover
