CONSTANTS
    Replicas <- MCReplicas
    Populations <- MCNodeLocalElecting
    MaxCrashes = 3
    MaxTime = 1
    Rand <- MCRand
    Nil = Nil
SPECIFICATION Spec
CHECK_DEADLOCK FALSE
INVARIANT NodesDoNotWaitForEachOther
