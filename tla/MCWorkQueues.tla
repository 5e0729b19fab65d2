---------------------------- MODULE MCWorkQueues -----------------------------
(***************************************************************************)
(* WorkQueues for TLC: two claims for the provision controller, one for    *)
(* cloning protection, one node for the topology and one storage class for *)
(* the capacity controller.                                                *)
(***************************************************************************)
EXTENDS WorkQueues

MCKeys ==
    [q \in Queues |-> CASE q = ProvisionQueue -> {"uid-1", "uid-2"}
                        [] q = ClaimQueue     -> {"ns/claim"}
                        [] q = TopologyQueue  -> {"node"}
                        [] q = CapacityQueue  -> {"class"}]

\* Intervals of 1 and 2 units are the least with a doubling and a maximum
\* that is reached.  The first command line is of a driver that clones; the
\* second has the bounds the wrong way round and the capacity controller; the
\* third doubles twice, with one worker for two claims; the fourth has no
\* worker for cloning protection and a capacity count above the largest int.
MCFlags ==
    { [retryIntervalStart |-> 1, retryIntervalMax |-> 2, workerThreads |-> 2,
       finalizerThreads |-> 1, capacityThreads |-> 1,
       cloning |-> TRUE, enableCapacity |-> FALSE, enableNodeDeployment |-> FALSE],
      [retryIntervalStart |-> 2, retryIntervalMax |-> 1, workerThreads |-> 1,
       finalizerThreads |-> 1, capacityThreads |-> 1,
       cloning |-> FALSE, enableCapacity |-> TRUE, enableNodeDeployment |-> FALSE],
      [retryIntervalStart |-> 1, retryIntervalMax |-> 4, workerThreads |-> 1,
       finalizerThreads |-> 1, capacityThreads |-> 1,
       cloning |-> FALSE, enableCapacity |-> TRUE, enableNodeDeployment |-> TRUE],
      [retryIntervalStart |-> 1, retryIntervalMax |-> 2, workerThreads |-> 1,
       finalizerThreads |-> 0, capacityThreads |-> 2^Width - 1,
       cloning |-> TRUE, enableCapacity |-> TRUE, enableNodeDeployment |-> TRUE] }
=============================================================================
