------------------------------ MODULE WorkQueues ------------------------------
(***************************************************************************)
(* The work queues of the controllers and the rate limiter behind them.    *)
(*                                                                         *)
(* main() decides four things about them: the bounds of the limiter, that  *)
(* every queue uses this one limiter, that the provision controller never  *)
(* gives an item up, and how many workers drain each queue (lines 71-75,   *)
(* 353-363, 432-444, 470, 542-545).  The queues, the limiter and the       *)
(* workers are libraries; they are modelled as sections 5, 7 and 8 of      *)
(* the specification describe them.  An item is a pair of its queue and    *)
(* its key: the controllers use keys of different forms.                   *)
(***************************************************************************)
EXTENDS Integers, Sequences, FiniteSets, FiniteSetsExt, SequencesExt

CONSTANTS
    Flags,         \* the command lines explored (records)
    Keys,          \* queue -> the keys of the objects its controller handles
    Width,         \* the bits of an int
    MaxFailures,   \* bound on the failures in a row of one item
    Nil

\* The queues given the limiter, each where main() makes it.
ClaimQueue     == "claims"               \* NewNamedRateLimitingQueue (354)
ProvisionQueue == "provisioner"          \* controller.RateLimiter (362)
TopologyQueue  == "csitopology"          \* NewNamedRateLimitingQueue (432)
CapacityQueue  == "csistoragecapacity"   \* NewNamedRateLimitingQueue (470)

Queues == {ProvisionQueue, ClaimQueue, TopologyQueue, CapacityQueue}
Items  == UNION {{q} \X Keys[q] : q \in Queues}

ASSUME
    /\ DOMAIN Keys = Queues
    /\ \A f \in Flags :
          /\ {f.cloning, f.enableCapacity, f.enableNodeDeployment} \subseteq BOOLEAN
          /\ {f.workerThreads, f.finalizerThreads, f.capacityThreads}
                 \subseteq 0..(2^Width - 1)          \* flag.Uint

VARIABLES
    flags,
    ready,         \* queue -> the items waiting for a worker, first in first out
    busy,          \* queue -> the items a worker is handling
    timers,        \* item -> the time left until it is added again, or Nil
    failures,      \* the limiter: item -> its failures in a row
    owed           \* the items that failed and were not attempted since

vars == <<flags, ready, busy, timers, failures, owed>>

-----------------------------------------------------------------------------
\* What main() decides.

\* mutant: the bounds of the limiter in the other order
LimiterSwapped ==
    [start |-> flags.retryIntervalMax, max |-> flags.retryIntervalStart]

\* NewItemExponentialFailureRateLimiter(*retryIntervalStart, *retryIntervalMax),
\* the one limiter of all queues
Limiter == [start |-> flags.retryIntervalStart, max |-> flags.retryIntervalMax]

\* mutant: the provision controller gives up after the first failure
ThresholdOne(q) == IF q = ProvisionQueue THEN 1 ELSE 0

\* FailedProvisionThreshold(0), FailedDeleteThreshold(0): no threshold; the
\* other controllers have none
Threshold(q) == 0

\* mutant: every queue has its controller
ServedAlways(q) == TRUE

\* if nodeDeployment == nil, inside if *enableCapacity: the live topology,
\* which alone is given a queue
LiveTopology == flags.enableCapacity /\ ~flags.enableNodeDeployment

\* if capacityController != nil, if csiClaimController != nil: the capacity
\* controller is there with --enable-capacity, the cloning protection
\* controller for a driver that clones.  A queue whose controller is not run
\* is never added to.
Served(q) ==
    /\ q = ClaimQueue => flags.cloning
    /\ q = CapacityQueue => flags.enableCapacity
    /\ q = TopologyQueue => LiveTopology

\* int(u) of an unsigned flag: a count above the largest int comes out
\* negative
AsInt(u) == IF u < 2^(Width - 1) THEN u ELSE u - 2^Width

\* mutant: one worker is kept back
ProvisionThreadsButOne == AsInt(flags.workerThreads) - 1

\* controller.Threadiness(int(*workerThreads))
ProvisionThreads == AsInt(flags.workerThreads)

\* go capacityController.Run(ctx, int(*capacityThreads))
CapacityThreads == AsInt(flags.capacityThreads)

\* go csiClaimController.Run(ctx, int(*finalizerThreads))
FinalizerThreads == AsInt(flags.finalizerThreads)

\* go topologyInformer.RunWorker(context.Background()): one goroutine
TopologyThreads == 1

\* The count a controller is run with.  It starts that many workers: none
\* when the count is zero or less.
Threads(q) ==
    CASE q = ProvisionQueue -> ProvisionThreads
      [] q = ClaimQueue     -> FinalizerThreads
      [] q = CapacityQueue  -> CapacityThreads
      [] q = TopologyQueue  -> TopologyThreads

-----------------------------------------------------------------------------
\* The limiter, the queues and the workers.

\* The interval after n failures in a row: it starts at the lower bound of
\* the limiter and doubles with each failure, up to the upper bound.
RECURSIVE When(_)
When(n) ==
    IF n = 0 THEN Min({Limiter.start, Limiter.max})
             ELSE Min({2 * When(n - 1), Limiter.max})

Idle(i) == ~Contains(ready[i[1]], i) /\ i \notin busy[i[1]] /\ timers[i] = Nil

Init ==
    /\ flags \in Flags
    /\ ready = [q \in Queues |-> <<>>]
    /\ busy = [q \in Queues |-> {}]
    /\ timers = [i \in Items |-> Nil]
    /\ failures = [i \in Items |-> 0]
    /\ owed = {}

\* An event of an informer: the controller adds the key of the object.
Enqueue(i) ==
    /\ Served(i[1]) /\ Idle(i)
    /\ ready' = [ready EXCEPT ![i[1]] = Append(@, i)]
    /\ UNCHANGED <<flags, busy, timers, failures, owed>>

\* A worker that is free takes the first item.
Get(q) ==
    /\ ready[q] # <<>> /\ Cardinality(busy[q]) < Threads(q)
    /\ busy' = [busy EXCEPT ![q] = @ \cup {Head(ready[q])}]
    /\ ready' = [ready EXCEPT ![q] = Tail(@)]
    /\ owed' = owed \ {Head(ready[q])}
    /\ UNCHANGED <<flags, timers, failures>>

\* The item is done, or the driver says it can never be: the limiter forgets
\* the item.
Finish(i) ==
    /\ i \in busy[i[1]]
    /\ busy' = [busy EXCEPT ![i[1]] = @ \ {i}]
    /\ failures' = [failures EXCEPT ![i] = 0]
    /\ UNCHANGED <<flags, ready, timers, owed>>

\* A call failed or timed out: the item is added again after the interval
\* of the limiter, unless the controller has a threshold and it is reached.
FailTransient(i) ==
    /\ i \in busy[i[1]] /\ failures[i] < MaxFailures
    /\ busy' = [busy EXCEPT ![i[1]] = @ \ {i}]
    /\ owed' = owed \cup {i}
    /\ IF Threshold(i[1]) # 0 /\ failures[i] + 1 >= Threshold(i[1])
       THEN failures' = [failures EXCEPT ![i] = 0] /\ UNCHANGED timers
       ELSE /\ failures' = [failures EXCEPT ![i] = @ + 1]
            /\ timers' = [timers EXCEPT ![i] = When(failures[i])]
    /\ UNCHANGED <<flags, ready>>

\* The interval of an item is over.
Fire(i) ==
    /\ timers[i] = 0
    /\ timers' = [timers EXCEPT ![i] = Nil]
    /\ ready' = [ready EXCEPT ![i[1]] = Append(@, i)]
    /\ UNCHANGED <<flags, busy, failures, owed>>

\* Time passes, by one unit, for every interval that is not over.
Tick ==
    /\ \E i \in Items : timers[i] # Nil
    /\ \A i \in Items : timers[i] # 0
    /\ timers' = [i \in Items |-> IF timers[i] = Nil THEN Nil ELSE timers[i] - 1]
    /\ UNCHANGED <<flags, ready, busy, failures, owed>>

Next ==
    \/ Tick
    \/ \E q \in Queues : Get(q)
    \/ \E i \in Items : Enqueue(i) \/ Finish(i) \/ FailTransient(i) \/ Fire(i)

\* Workers run, timers fire, and a call ends, at its timeout at the latest.
\* Nothing says that an object changes or that a call fails.
Fairness ==
    /\ WF_vars(Tick)
    /\ \A q \in Queues : WF_vars(Get(q))
    /\ \A i \in Items : WF_vars(Fire(i)) /\ WF_vars(Finish(i) \/ FailTransient(i))

Spec == Init /\ [][Next]_vars /\ Fairness

-----------------------------------------------------------------------------
Waiting(i) == Contains(ready[i[1]], i) \/ timers[i] # Nil

TypeOK ==
    /\ flags \in Flags
    /\ \A q \in Queues :
          /\ ready[q] \in Seq({q} \X Keys[q]) /\ IsInjective(ready[q])
          /\ busy[q] \subseteq {q} \X Keys[q]
          /\ Cardinality(busy[q]) <= Max({0, Threads(q)})
    /\ timers \in [Items -> {Nil} \cup Nat]
    /\ failures \in [Items -> 0..MaxFailures]
    /\ owed \subseteq Items
    /\ \A i \in Items : ~(i \in busy[i[1]] /\ Waiting(i))
    /\ \A i \in Items : failures[i] > 0 => Waiting(i) \/ i \in busy[i[1]]
    /\ ~flags.cloning => ready[ClaimQueue] = <<>>
    /\ ~flags.enableCapacity => ready[CapacityQueue] = <<>>
    /\ ~LiveTopology => ready[TopologyQueue] = <<>>

\* The flags --retry-interval-start and --retry-interval-max: the interval
\* "doubles with each failure, up to retry-interval-max" (lines 71-72), and
\* the limiter is made from them at line 353.  Every interval a failure
\* starts is the first interval doubled as often as the item has failed in a
\* row, and never above the maximum; after a success it starts again.
IntervalDoublesToMax ==
    [][\A i \in Items :
          (timers[i] = Nil /\ timers'[i] # Nil) =>
              timers'[i] = Min({flags.retryIntervalStart * 2^failures[i],
                                flags.retryIntervalMax})]_vars

\* A transient failure is never the end of an item: whatever failed is
\* attempted again, with other items failing and being added at the same time
\* (thresholds of 0 at lines 360-361, specification sections 5 and 7).
FailedIsRetried == \A i \in Items : (i \in owed) ~> (i \in busy[i[1]])

\* The count a flag asks for: --worker-threads, --cloning-protection-threads,
\* --capacity-threads; the topology has no flag.
Asked(q) ==
    CASE q = ProvisionQueue -> flags.workerThreads
      [] q = ClaimQueue     -> flags.finalizerThreads
      [] q = CapacityQueue  -> flags.capacityThreads
      [] q = TopologyQueue  -> 1

\* The worker counts of lines 363, 542 and 545 are unsigned flags turned into
\* an int, and main() accepts every value.  A controller asked for a count
\* between 1 and the largest int gives every item that was added a worker,
\* however many items wait and fail before it.  A count of 0, or one above
\* the largest int, leaves the queue of that controller without a worker
\* (TypeOK); the other controllers are not held up by it.
AddedIsHandled ==
    \A i \in Items :
        Asked(i[1]) \in 1..(2^(Width - 1) - 1) =>
            (Contains(ready[i[1]], i) ~> (i \in busy[i[1]]))

=============================================================================
