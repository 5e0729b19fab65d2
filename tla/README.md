# TLA+ models of csi-provisioner start-up and coordination

The program is `main()` of `src/cmd/csi-provisioner/csi-provisioner.go`: the
start-up and coordination layer of the CSI external-provisioner sidecar. It
does not provision volumes itself. It connects to a CSI driver, finds out what
the driver can do, and from that and from its flags decides which caches exist,
which controllers are built, which data sources are live and which are static,
and then runs the controllers, alone or behind leader election.

## 1. Inventory

| Part | Lines | State it holds | Operations | Talks to |
|---|---|---|---|---|
| Process configuration | 64-147 | flags, `NODE_NAME`, `NAMESPACE`, `POD_NAME` | feature gates, node name check, `--version`, endpoint exclusion | everything reads it |
| Kubernetes clients | 149-187 | `config`, `clientset`, `snapClient`, `serverVersion` | four constructors, each fatal on error | API server |
| CapabilityProbe | 189-261 | `metricsManager`, `grpcClient`, `provisionerName`, `supportsMigrationFromInTreePluginName`, `gatherers`, the two capability sets | Connect, Probe, GetDriverName, migration detection, reconnect, second Probe, GetDriverCapabilities | CSI driver, csi-translation-lib |
| Identity | 263-268 | `identity` | time stamp + random number + driver name (+ node) | the CSI provisioner |
| Listers | 270-349 | `factory`, `scLister`, `claimLister`, `vaLister`, `nodeDeployment`, `csiNodeLister`, `nodeLister`, the static store | lister construction by capability and deployment mode, NodeGetInfo | CSI driver, shared informer factory |
| Provisioner | 351-398 | `rateLimiter`, `claimQueue`, `provisionerOptions`, `csiProvisioner` | option list, `NewCSIProvisioner` | pkg/controller |
| Work queues | 71-75, 353-363, 432, 470, 541-546 | the limiter, the queues, the worker counts | one limiter for every queue, thresholds, `int()` of the counts | client-go workqueue |
| OwnershipResolver | 400-423 | `controller` (owner reference) | environment checks, `owner.Lookup` | API server |
| TopologyProvider | 425-444 | `topologyInformer` | live or fixed variant, `go RunWorker` | shared factory |
| Capacity controller | 446-484 | `managedByID`, `factoryForNamespace`, `capacityController`, wrapped `csiProvisioner` | construction | pkg/capacity |
| Controllers | 486-500 | `provisionController`, `csiClaimController` | construction | library, pkg/controller |
| Diagnostics HTTP | 502-525, 564-566 | `mux`, `gatherers`, server goroutine | handler registration, `go ListenAndServe`, health check registration | scrapers, kubelet probes |
| ReadinessGate | 527-539 | sync flags of the informers | start factories, wait, fatal on a failed sync | informers |
| ExecutionCoordinator | 541-575 | running controllers, leadership | start controllers, standalone run, leader election | lease object, other replicas |

What makes it hard:

* the architecture is chosen at run time from facts that are discovered in
  sequence (driver name, migration, capabilities, node info), and several
  decisions depend on the same fact in different places;
* every step may fail, with three different exit paths (`os.Exit(0)`,
  `os.Exit(1)`, `klog.Fatal`);
* a connection and a metrics manager are replaced half way, while other
  objects keep references to them;
* from line 444 on there is more than one thread: the topology worker, the
  HTTP server, the informers, up to three controllers, and the replicas of
  the sidecar competing for one lease.

## 2. Plan

Modules, in the order they are written:

1. **Bootstrap** (lines 64-500): one process from the parsed command line to
   the assembled controllers. *Done.*
2. **Lifecycle** (lines 502-575), extending Bootstrap beyond `Assembled`: the
   HTTP server goroutine, the run closure (readiness gate, start of the
   controllers), standalone or leader-elected execution of one process.
   **Coordinator** is the abstract phase machine of section 4.6 of the
   specification, which Lifecycle implements under a refinement mapping.
   *Done.*
3. **Election**: several processes, the lock each competes for as `main()`
   names it, exits, restarts and leases running out. *Done.*
4. **WorkQueues**: the exponential back-off limiter `main()` shares between
   its queues, the thresholds and the worker counts it sets (71-75, 353-363,
   470, 541-546), with the queues and workers modelled from the
   specification; the limiter is a recursive operator checked against its
   closed form. *Done*, with the four queues `main()` names.
5. **OwnerLookup**: the recursive walk of the owner chain behind the call at
   line 413, modelled from the specification and checked in the `bootstrap`
   run against the chains written as functions. *Done.*
6. **Identity** (263-268), as part of Election: what keeps the identities of
   processes apart. *Done.*
7. **Shutdown**, extending Lifecycle with the calls in flight: what the
   specification says of `ShuttingDown` against a process whose every exit
   is `klog.Fatal`. *Done* for the calls in flight; queues that stop
   accepting items are behaviour of the libraries and are left out.

Compositions: Bootstrap extends OwnerLookup and calls it where `main()`
calls `owner.Lookup`; Lifecycle extends Bootstrap (one state, one process);
Shutdown extends Lifecycle with one variable, every step of Lifecycle
leaving it unchanged; Election takes one process as its phases and puts
several side by side, and Lifecycle is checked to be such a process
(`ImplementsReplica`).
WorkQueues stands alone: it begins where Lifecycle ends, with the
controllers running.

## 3. Bootstrap

`Bootstrap.tla` models `main()` as one sequential process. `pc` names the
stretch that runs next, `exit` is `Nil` while the process runs and its exit
status afterwards. An action is one stretch of `main()` that ends in a call
which can fail; its disjuncts are the outcomes of that call.

| Variable | Code |
|---|---|
| `config` | the flags and environment variables main() branches on |
| `driver` | what the CSI driver answers: name, capabilities, node info |
| `managers`, `metricsManager` | the two `CSIMetricsManager`s and the variable that refers to the current one |
| `conns`, `grpcClient` | the gRPC connections dialled, open or closed, and the variable `grpcClient` |
| `gatherers` | `prometheus.Gatherers` |
| `rpcs` | the calls made to the driver, with the connection used |
| `provisionerName`, `inTreePluginName`, `pluginCapabilities`, `controllerCapabilities` | same names (`supportsMigrationFromInTreePluginName`) |
| `factory` | the kinds of object for which an informer was requested from the shared factory |
| `listers` | `scLister`, `claimLister`, `vaLister`, `nodeLister`, `csiNodeLister`: `Nil`, backed by the factory, or backed by the static store |
| `nodeDeployment`, `static` | `*ctrl.NodeDeployment`; the fake `CSINode` and `Node` |
| `provisionerOptions`, `csiProvisioner`, `provisionController`, `csiClaimController` | same names |
| `capacityOwner`, `topologyInformer`, `goroutines`, `factoryForNamespace`, `capacityController` | `controller`, `topologyInformer`, the goroutine of line 444, same names |

`OwnerLookup.tla` is the walk behind `owner.Lookup` (line 413), which is
code of pkg/owner and modelled from section 4.3 of the specification: the
constant `ControllerRefs` gives every object of the cluster its owner
references marked as controller, `Lookup(object, levels)` goes up `levels`
times and is empty when a level has no such reference or more than one. The
action `CapacityOwner` takes its result or exits fatally.

Data is abstracted to what the decisions read: a flag value is empty or not,
a driver name is migrated or not, a topology is a map over at most two keys.
`managedByID` is a sequence instead of a string joined with `-`. Go's
unspecified map iteration order is a choice among all orders of the keys.

### Runs

| Run | Config | What it shows |
|---|---|---|
| `bootstrap` | `Bootstrap.cfg` | the invariants below hold for every configuration, driver and failure |
| `podname_before_rpc` | `Bootstrap_MisconfigurationFailsBeforeRPC.cfg` | violated: a process that ends for the missing `POD_NAME` (408) has called the driver three times before |
| `topology_without_capability` | `Bootstrap_TopologyAbsentWithoutCapability.cfg` | violated: the capacity controller gets a topology informer without the capability |

Invariants of `bootstrap`:

* `TypeOK`: the shapes of the state, and that the process ends with 0, 1 or
  255 only.
* `LiveConnection`: at most one connection is open; `grpcClient`, the CSI
  provisioner and the capacity controller all hold the open one.
* `MetricsFollowConnection`: the registry the endpoint serves is the one the
  open connection reports to, labelled with the driver name, and marked
  migrated exactly for a migrated driver.
* `NodeLocalWatchesNoNodes`: with `--node-deployment` no informer for `Node`
  or `CSINode` is ever requested from the shared factory.
* `FixedTopologyAgrees`: fixed segment, fake `Node` labels and fake `CSINode`
  topology keys are the reported segments, whatever order Go ranged in.
* `OwnedAsRequested`: a capacity controller that was built has no owner
  for a negative level, and otherwise the object at exactly the requested
  level of the pod's chain of single controllers. The chains are written as
  functions `0..level -> objects`, not by the recursion `Lookup` uses.

### Bounds

`MCBootstrap.tla` enumerates the flags as the set of all records over two
values per string (empty, set), both booleans, and owner levels -1 to 2.
`POD_NAME` is unset or one of three pods: `web-0` with a chain of length 1,
`app-1` with a chain of length 2, `odd-0` with two controllers. Level 2 is
beyond the chain of `web-0` and at the end of the chain of `app-1`.
Values the code never reads under a configuration are fixed to one value
(`NAMESPACE` without `--enable-capacity`, the node name without
`--node-deployment`), which removes copies of the same behaviour and no
behaviour. Drivers: one plain and one migrated name, every subset of the
capabilities main() tests, node info without topology, with an empty map,
with one and with two keys (two keys are the least with two iteration
orders). 31,920 initial states, 494,224 states.

`CHECK_DEADLOCK FALSE`: the process ends (exit) or reaches `Assembled`,
where this module stops.

### Fairness

Bootstrap has safety properties only; no fairness is assumed.

## 4. Lifecycle and Coordinator

`Lifecycle.tla` extends Bootstrap with what `main()` does after the
controllers exist. From there the process has several threads, and each is a
group of actions:

| Thread | Actions | Code |
|---|---|---|
| `main()` | `Boot` (all of Bootstrap), `StartHTTP`, `Coordinate` | 502-525, 550-575 |
| the run closure | `StartFactories`, `WaitForCacheSync`, `StartControllers` | 527-548 |
| the HTTP server goroutine | `ServerFails` | 518-524 |
| each informer | `InformerSyncs(k)` | client-go |
| the elector | `Acquire`, `LoseLease`, `StoppedLeading` | csi-lib-utils, client-go |

| Variable | Code |
|---|---|
| `mux`, `http` | the paths registered on the mux; whether the server goroutine runs |
| `leading` | where the elector is: not started, awaiting the lease, leader, lease lost |
| `ctx` | the context `run` was called with: `context.TODO()`, the elector's, cancelled |
| `run` | the statement of `run()` that is next |
| `started`, `synced` | informers started by the two factories; those whose first sync is complete |
| `running` | controllers whose `Run` was called |

The informers and the elector are libraries. They are modelled by what their
documentation promises: an informer that was started syncs at some point
unless it is in the constant `Stuck`; the elector calls `run` with a context
it cancels when the lease is lost, and then calls the callback that ends the
process.

`Coordinator.tla` is the phase machine of section 4.6: `Bootstrapping`,
`CacheSyncing`, `AwaitingLeadership`, `Leading`, `ShuttingDown`, with
controllers started in `Leading` only and any phase free to abort. The order
of the phases is a parameter. `SpecifiedOrder` is the order as section 4.6
writes it; `SyncAsLeaderOrder` has the caches synced by the process that
leads. Lifecycle maps its state to the machine by `Phase` (from `exit`, `run`
and `leading`), `gated` to `--leader-election` and `active` to `running`.

### Runs

| Run | Config | What it shows |
|---|---|---|
| `lifecycle` | `Lifecycle.cfg` | the properties below hold, with the server failing, informers syncing in any order and the lease acquired and lost at any point |
| `gate_covers_every_cache` | `Lifecycle_GateCoversEveryCache.cfg` | violated: `factoryForNamespace` is started and not waited for |
| `stuck_cache_is_fatal` | `Lifecycle_StuckCacheIsFatal.cfg` | violated: without leader election a cache that never syncs blocks the process for ever |
| `specified_order` | `Lifecycle_FollowsSpecifiedOrder.cfg` | violated: with leader election the caches are synced after the lease was acquired |

Properties of `lifecycle`:

* `LifeTypeOK`: shapes, and that only controllers that were built run.
* `ReadyBeforeRun`: a controller runs only when every informer requested from
  the shared factory during bootstrap has synced, also when the lease is lost
  while `run()` waits.
* `HealthCheckIsServed`: once the leadership health check is registered
  (564-566, under `--http-endpoint` alone) a server is listening, and at
  `--http-endpoint`. The server was started before, on `addr`, which prefers
  `--metrics-address` (144-147, 518); the two tests agree only because
  `CheckEndpoints` (140-143) ends a process that was given both addresses.
* `ImplementsCoordinator`: every behaviour of the process is a behaviour of
  the Coordinator with `SyncAsLeaderOrder`.
* `ImplementsReplica`: every behaviour of the process is a behaviour of one
  replica of `Election` (the instance `AsReplica`). Election knows of a
  process only its phase, its lease, its identity and that it exited; the
  mapping gives these from `exit`, `leading`, `run` and `pc`. The process
  has its identity before it coordinates, leads without a lease only when
  it was not told to elect, and after a lost lease does nothing that
  Election would see but end. What the `election` run shows of replicas is
  thereby shown of processes that run `main()`.
* `NeverHangs`: the process ends, waits for leadership, or runs its
  controllers; it does not block in `WaitForCacheSync`.

### Bounds

`MCLifecycle.tla`: 32 configurations (central or node-local, neither, one,
the other or both of `--metrics-address` and `--http-endpoint`, capacity on
or off, leader election on or off), one driver name with every subset of the
capabilities, one topology key. The combinations of Bootstrap that differ
only in what the wiring invariants read are left to the `bootstrap` run.
The configurations with both addresses end at `CheckEndpoints`; they are in
the instance so that a check that let them pass would be seen. 18,144
states.

`CHECK_DEADLOCK FALSE`: a process that exited, that waits for a lease nobody
gives it, or whose controllers run, takes no further step here.

### Fairness

Weak fairness of `main()`, of the run closure, of the callback for stopped
leading and of each informer's sync: Go schedules a goroutine that can run,
and client-go completes the first sync of an informer whose API server
answers. No fairness of `Acquire`, `LoseLease` or `ServerFails`: nothing in
the code makes a lease come or go, or the server fail. `StuckCacheIsFatal`
is checked under the same fairness with one informer in `Stuck`.

### Shutdown

`Shutdown.tla` is Lifecycle with one more variable, `inflight`: the
controllers that have a call to the driver in flight. `Process` is any step
of Lifecycle, which leaves the calls alone; `CallStarts(c)` and
`CallEnds(c)` are the workers of a running controller, modelled from
section 5 of the specification, a call ending at its timeout at the latest
(weak fairness of `CallEnds`). The run `exit_waits_for_calls`
(`Shutdown_ExitWaitsForCalls.cfg`, the instance of `lifecycle`) asks whether
a process that ends has no call in flight, as section 4.6 says of
`ShuttingDown`. It is violated: the HTTP server goroutine ends the process
while the provision controller waits for the driver.

## 5. Election

`Election.tla` has several processes. A process is reduced to its phase, as
Lifecycle maps it; what is kept of `main()` is the lock it names: the driver
name with `/` replaced by `-` (line 555), in `--leader-election-namespace`
or, without it, the namespace of the pod (568-570); and its identity
(263-268), the sequence of time stamp, random number, driver name and, in a
node deployment, node. `Identify(r)` makes it once per start from the clock
`now`, which `Tick` advances for all processes, and a number of the constant
`Rand`. `Coordinate(r)` is the
end of `main()`: lead at once without leader election, otherwise wait for
the lease or exit on an error. The lease is the election primitive of the
specification: one holder, free again when the holder has stopped and its
lease has run out (`Expire`). A process that is down is started again
(`Restart`), as section 4.1 expects of the surroundings.

| Run | Config | What it shows |
|---|---|---|
| `election` | `Election.cfg` | the properties below hold in five deployments |
| `node_local_election` | `Election_NodesDoNotWaitForEachOther.cfg` | violated: with `--node-deployment` and `--leader-election` the instance of one node waits for another node's |
| `identity_is_unique` | `Election_IdentityIsUnique.cfg` | violated: two replicas started in the same millisecond that draw the same number have one identity |

Properties of `election`:

* `TypeOK`: shapes, and that a process without leader election never waits.
* `ReplicasExclude`: two processes of one driver that elect in one namespace
  never lead together, through any exits, restarts and expired leases.
* `NodesIdentifyApart`: instances of one driver on different nodes never
  have the same identity, also when they start at the same time and draw the
  same number.
* `Takeover`: once failures stop, every lease that processes compete for has
  a leader for good.

Bounds (`MCElection.tla`): three processes; deployments with two replicas of
one driver beside another driver whose name contains `/`, with a replica
electing in a namespace of its own, node-local without and with leader
election, and a replica pair beside a standalone process. `MaxCrashes = 3`
exits in a behaviour: enough for a leader to fail, its successor to fail,
and the first to fail again after its restart. `MaxTime = 1`: two values of
the clock, so that processes start in the same millisecond and in different
ones. `Rand` is one number in the passing run, the case of a generator that
is never seeded and gives every process the same first number, which is the
hardest case for the identities; the two violation runs have two numbers.
42,901 states.

Fairness: weak fairness of every step of a process other than failing, of
`Expire` and of `Restart`. A lease that is not renewed runs out after its
duration; a pod restarts its container. Failures are never forced.

The replacement of `/` is not injective: drivers named `a/b` and `a-b`
would share a lock. The model has it so; no deployment explored has such a
pair.

## 6. WorkQueues

`WorkQueues.tla` begins where the controllers run. `main()` decides four
things about their queues, and these are translated from the source:

| Definition | Code |
|---|---|
| `Limiter` | `NewItemExponentialFailureRateLimiter(*retryIntervalStart, *retryIntervalMax)`, one for every queue (353) |
| `Threshold(q)` | `FailedProvisionThreshold(0)`, `FailedDeleteThreshold(0)` (360-361) |
| `ClaimQueue`, `ProvisionQueue`, `TopologyQueue`, `CapacityQueue` | the four queues given the limiter, each where it is made (354, 362, 432, 470) |
| `AsInt(u)` | `int()` of an unsigned flag: a count above the largest `int` comes out negative |
| `ProvisionThreads`, `CapacityThreads`, `FinalizerThreads`, `TopologyThreads` | `int(*workerThreads)` (363), `int(*capacityThreads)` (542), `int(*finalizerThreads)` (545), the one `go topologyInformer.RunWorker` (444); `Threads(q)` picks the count of a queue |
| `Served(q)` | `if capacityController != nil`, `if csiClaimController != nil` (541-546) |
| `LiveTopology` | `if nodeDeployment == nil` inside `if *enableCapacity`: the live topology and its queue `csitopology` (426-433), drained by the one worker of line 444 |

The limiter, the queues and the workers are client-go and library code. They
are modelled from sections 5 and 7 of the specification: an item that is
added waits in its queue, first in first out (`Enqueue`); a free worker
takes the first (`Get`); the item is done (`Finish`) or its call fails
(`FailTransient`), and then it is added again after the interval of the
limiter (`Tick`, `Fire`), which starts at the lower bound and doubles with
each failure in a row up to the upper bound (`When`, by recursion). A
success makes the limiter forget the item.

| Variable | Code |
|---|---|
| `flags` | `--retry-interval-start`, `--retry-interval-max`, the three thread counts, `--enable-capacity`, `--node-deployment`, and whether the driver clones |
| `ready`, `busy` | per queue: the items waiting, the items a worker holds |
| `timers` | per item: the time left of its interval |
| `failures` | the limiter: per item, its failures in a row |
| `owed` | the items that failed and were not attempted since (history, for `FailedIsRetried`) |

An item is a pair of its queue and its key: the model gives every queue
keys of its own. The one limiter of line 353 counts failures per item
whatever queue the item is in, so two queues holding equal keys would share
a count. Which keys a controller uses is decided outside the source, and
nothing in `main()` shows two queues with equal keys.

Properties of the run `workqueues` (`WorkQueues.cfg`):

* `TypeOK`: shapes; an item is in one place at a time; no more items are
  handled than there are workers, and none where the count is 0 or
  negative; a queue whose controller is not run stays empty.
* `IntervalDoublesToMax`: every interval that a failure starts is
  `min(start * 2^n, max)` for the `n` failures the item had in a row, and
  depends on nothing else: not on the other items of the limiter, not on
  failures before its last success. The closed form is the text of the flag
  (line 71); the model computes the interval by recursion from `Limiter`.
* `FailedIsRetried`: whatever failed is attempted again.
* `AddedIsHandled`: in a queue whose flag asks for a count between 1 and
  the largest `int`, whatever waits gets a worker, with one worker for
  several items that fail and come back. The premise is over the flag, not
  over `Threads`: a conversion that loses a worker breaks the property.

Bounds (`MCWorkQueues.tla`): two claims for the provision controller, one
for cloning protection, one node for the topology, one storage class for
the capacity controller. Four command lines: intervals from 1 to 2 with
two workers and cloning; from 2 to 1 (the bounds the wrong way round) with
one worker and capacity in a central deployment, where all of provisioner,
topology and capacity queues are served; from 1 to 4 with one worker for two
claims and capacity in a node-local deployment, where the topology is fixed
and has no queue; and one with `--cloning-protection-threads=0` and
`--capacity-threads` at the largest unsigned value, which `int()` turns
into -1. `MaxFailures = 3` failures in a row of one
item: enough for two doublings to 4, and for the maximum of 2 to be reached
and held. After that many failures the call of the item succeeds. `Width = 4`
bits for an `int`; a thread count is any value of an unsigned flag of that
width, as `main()` accepts them all. With a count of 0 or less the library
starts no worker (specification, section 5: N workers drain a queue): the
items of that controller wait for ever, nothing reports it, and the other
controllers go on, which the deadlock check and `AddedIsHandled` for their
queues show. 63,825 states, in about a minute.

Fairness: weak fairness of `Tick`, of `Get(q)`, of `Fire(i)` and of the end
of a call, `Finish(i)` or `FailTransient(i)`. A worker that is free takes an
item, a timer that has run out fires, and a call ends at its timeout at the
latest (section 5). That an object changes is never forced, and neither is a
failure.

## 7. What the runs have found

| Where | Kind | What |
|---|---|---|
| line 408 | specification and code differ | `POD_NAME` is checked after the driver was called |
| line 426 | specification and code differ | the capacity controller gets a topology informer without the capability |
| line 532 | specification and code differ | the namespaced factory is not part of the readiness gate |
| line 534 | specification and code differ | no timeout on the cache sync of a standalone process |
| line 563 | specification and code differ | caches are synced after leadership, not before |
| line 522 | specification and code differ | the process ends with calls in flight; nothing drains or cancels them |
| line 555 | gap in the specification | node-local instances with leader election share one lock |
| line 265 | comment and code differ | the identity called unique is the same for replicas started in the same millisecond that draw the same number |

Two more differences were met while modelling; no run is spent on them,
the `lifecycle` run passes through both:

* Section 7 of the specification names "both or neither of two mutually
  exclusive endpoints set" as a fatal configuration. `main()` rejects both
  (140-143) and accepts neither: the process then runs with no server.
* Section 6 promises a leadership health-check path whenever leader election
  is active. `main()` registers it under `--http-endpoint` alone (564): an
  electing process started with `--metrics-address`, or with no address,
  has none.

## 8. Mutated definitions

Each property of a passing run has, in `PROJECT.json`, a mutated form of one
definition that models code: the definition as a plausible bug would have
it (a connection closed after the variable was re-pointed, a gate that waits
for the wrong set, a flag read without its negation, two addresses not
checked against each other). A mutated form is as small as the statement it
changes: where an action has one, the statement is a definition of its own
(`BothEndpoints`, `Found`, `Elects`, `ElectorFails`). The mutated forms are
the definitions marked `mutant` in the modules; no specification uses them.
With the mutated form in place of the definition TLC finds the property
violated, which shows that the property depends on that code.

## 9. Not modelled

Flag parsing and logging; the numeric knobs that main() only hands on
(timeouts, QPS, burst); the wire behaviour of gRPC and of the metrics
endpoint; the informer implementation; the logic of the provision, capacity
and cloning protection controllers. They are not in the source, and the
specification describes them at their interface only.

What the provisioner does with the identity is in pkg/controller. The
topology worker is started at line 444 with a context nothing cancels, in
every process, leader or not, before any cache is started. Its queue and
its single worker are in WorkQueues; what the worker does with an item, and
whether it can meet one before the informers of `run()` have started, is in
pkg/capacity/topology, which is neither in the source nor described by the
specification. The hazard is listed without a property: a model of it would
be invented. The keys the four queues behind the one limiter hold are
decided in the same packages. The limiter of created volumes (364) is the default of client-go
and takes nothing from `main()`.

Three components stay partly modelled, and for the same reason. Of the
topology provider, of the work queues and of the shutdown, `main()` holds
the construction, the parameters and the order of the calls, and those are
modelled line by line; the behaviour behind the calls (how the informer
turns node events into segments, how the limiter ages a failure count, how
a controller drains its queue when its context ends) belongs to packages
outside this source. The models give them the interface the specification
states and nothing beyond it.
