------------------------------ MODULE Lifecycle ------------------------------
(***************************************************************************)
(* The rest of main(): the diagnostics HTTP server, the run closure with   *)
(* its readiness gate, and the choice between running at once and running  *)
(* as the elected leader (lines 502-575 of csi-provisioner.go).            *)
(*                                                                         *)
(* From here on main() is no longer alone.  The HTTP server is a goroutine *)
(* that can end the process whenever it fails; the informers sync in the   *)
(* background, each at its own pace; with leader election the run closure  *)
(* is a goroutine of the elector, and the lease can be lost at any point   *)
(* of it.  The informers and the elector are libraries: their steps are    *)
(* modelled from their documented behaviour.                               *)
(***************************************************************************)
EXTENDS Bootstrap

CONSTANT Stuck   \* the informers whose first sync never completes

ASSUME \A c \in Configs : c.enableLeaderElection \in BOOLEAN

VARIABLES
    mux,         \* the paths the HTTP mux has a handler for
    http,        \* TRUE once the server goroutine has been started
    leading,     \* "no", "awaiting", "leader", "lost"
    ctx,         \* the context of run(): Nil, "todo", "live", "done"
    run,         \* the statement of run() that is next, Nil before it is called
    started,     \* informers started
    synced,      \* informers that have completed their first sync
    running      \* controllers whose Run has been called

lifeVars == <<mux, http, leading, ctx, run, started, synced, running>>
allVars  == <<vars, lifeVars>>

Controllers == {"provision", "capacity", "claim"}
Informers   == Kinds \cup {"CSIStorageCapacity"}

LifeInit ==
    /\ Init
    /\ mux = {} /\ http = FALSE
    /\ leading = "no" /\ ctx = Nil /\ run = Nil
    /\ started = {} /\ synced = {} /\ running = {}

\* Start-up as in Bootstrap; nothing of this module moves before Assembled.
Boot == Next /\ UNCHANGED lifeVars

-----------------------------------------------------------------------------
\* The HTTP server.

\* addr := *metricsAddress; if addr == "" { addr = *httpEndpoint }
Addr ==
    IF config.metricsAddress # "" THEN config.metricsAddress
                                  ELSE config.httpEndpoint

\* The metrics handler gathers from its own registry as well; the server is
\* started whether or not this process will lead.
StartHTTP ==
    /\ At("Assembled")
    /\ IF Addr # ""
       THEN /\ gatherers' = gatherers \cup {"handler"}
            /\ mux' = mux \cup {"metrics"}
            /\ http' = TRUE
       ELSE UNCHANGED <<gatherers, mux, http>>
    /\ Goto("Coordinate")
    /\ UNCHANGED <<config, driver, managers, metricsManager, conns, grpcClient,
                   rpcs, idVars, built, leading, ctx, run, started, synced,
                   running>>

\* http.ListenAndServe returns only with an error, and the goroutine then
\* ends the process, whatever main() and the others are doing.
ServerFails ==
    /\ http /\ exit = Nil
    /\ Fatal
    /\ UNCHANGED <<config, driver, connVars, idVars, built, lifeVars>>

-----------------------------------------------------------------------------
\* run(ctx): the readiness gate, then the controllers.

NamespacedInformers ==
    IF factoryForNamespace # Nil THEN {"CSIStorageCapacity"} ELSE {}

\* factory.Start and factoryForNamespace.Start
StartFactories ==
    /\ run = "Start" /\ exit = Nil
    /\ started' = factory \cup NamespacedInformers
    /\ run' = "Wait"
    /\ UNCHANGED <<vars, mux, http, leading, ctx, synced, running>>

\* mutant: the gate waits for the claims alone
AwaitedClaims == {"PersistentVolumeClaim"}

\* mutant: the gate waits for every kind of informer there is
AwaitedKinds == Kinds

\* factory.WaitForCacheSync: the informers of the shared factory
Awaited == factory

\* WaitForCacheSync returns when all it waits for have synced or the context
\* is done; one informer reported as not synced is fatal.
WaitForCacheSync ==
    /\ run = "Wait" /\ exit = Nil
    /\ Awaited \subseteq synced \/ ctx = "done"
    /\ IF Awaited \subseteq synced
       THEN run' = "Controllers" /\ UNCHANGED <<pc, exit>>
       ELSE Fatal /\ UNCHANGED run
    /\ UNCHANGED <<config, driver, connVars, idVars, built, mux, http, leading,
                   ctx, started, synced, running>>

\* mutant: Run is called on whatever the variables hold
EveryController == Controllers

\* if capacityController != nil, if csiClaimController != nil
Runnable ==
    {"provision"} \cup {c \in {"capacity"} : capacityController # Nil}
                  \cup {c \in {"claim"} : csiClaimController # Nil}

\* Two goroutines and provisionController.Run, which does not return.
StartControllers ==
    /\ run = "Controllers" /\ exit = Nil
    /\ running' = Runnable
    /\ run' = "Provisioning"
    /\ UNCHANGED <<vars, mux, http, leading, ctx, started, synced>>

-----------------------------------------------------------------------------
\* Standalone or behind leader election.

\* mutant: run is called at once, whatever --leader-election says
ElectsNever == FALSE

\* if !*enableLeaderElection { ... } else { ... }
Elects == config.enableLeaderElection

\* Without leader election main() calls run itself, with a context nothing
\* cancels.  With it main() makes the elector, registers the health check
\* when there is an --http-endpoint, and blocks in le.Run().
Coordinate ==
    /\ At("Coordinate")
    /\ IF ~Elects
       THEN /\ run' = "Start" /\ ctx' = "todo"
            /\ Goto("InRun")
            /\ UNCHANGED <<mux, leading>>
       ELSE /\ UNCHANGED <<run, ctx>>
            /\ \/ Fatal /\ UNCHANGED <<mux, leading>>    \* no client
               \/ /\ mux' = mux \cup {p \in {"healthz"} : config.httpEndpoint # ""}
                  /\ \/ Fatal /\ UNCHANGED leading       \* le.Run() failed
                     \/ leading' = "awaiting" /\ Goto("Elect")
    /\ UNCHANGED <<config, driver, connVars, idVars, built, http, started,
                   synced, running>>

-----------------------------------------------------------------------------
\* The libraries.

\* An informer that was started completes its first sync, unless its stop
\* channel is closed first.
InformerSyncs(k) ==
    /\ k \in started \ (synced \cup Stuck)
    /\ exit = Nil /\ ctx # "done"
    /\ synced' = synced \cup {k}
    /\ UNCHANGED <<vars, mux, http, leading, ctx, run, started, running>>

\* The elector acquires the lease and calls run in a goroutine of its own,
\* with a context it cancels when the lease is lost.
Acquire ==
    /\ leading = "awaiting" /\ exit = Nil
    /\ leading' = "leader"
    /\ ctx' = "live" /\ run' = "Start"
    /\ UNCHANGED <<vars, mux, http, started, synced, running>>

\* Renewing the lease fails: the context of run is cancelled ...
LoseLease ==
    /\ leading = "leader" /\ exit = Nil
    /\ leading' = "lost"
    /\ ctx' = "done"
    /\ UNCHANGED <<vars, mux, http, run, started, synced, running>>

\* ... and the callback for stopped leading ends the process.
StoppedLeading ==
    /\ leading = "lost" /\ exit = Nil
    /\ Fatal
    /\ UNCHANGED <<config, driver, connVars, idVars, built, lifeVars>>

-----------------------------------------------------------------------------
Main == Boot \/ StartHTTP \/ Coordinate
RunClosure == StartFactories \/ WaitForCacheSync \/ StartControllers

LifeNext ==
    \/ Main \/ RunClosure
    \/ ServerFails
    \/ \E k \in Informers : InformerSyncs(k)
    \/ Acquire \/ LoseLease \/ StoppedLeading

LifeSpec == LifeInit /\ [][LifeNext]_allVars

\* Go schedules every goroutine that can run, and an informer that can sync
\* does.  Nothing says that the lease is ever acquired, kept or lost, or that
\* the server fails.
Fairness ==
    /\ WF_allVars(Main)
    /\ WF_allVars(RunClosure)
    /\ WF_allVars(StoppedLeading)
    /\ \A k \in Informers : WF_allVars(InformerSyncs(k))

FairLifeSpec == LifeSpec /\ Fairness

-----------------------------------------------------------------------------
LifeTypeOK ==
    /\ pc \in Labels \cup {"Coordinate", "InRun", "Elect"}
    /\ mux \subseteq {"metrics", "healthz"}
    /\ http \in BOOLEAN
    /\ leading \in {"no", "awaiting", "leader", "lost"}
    /\ ctx \in {Nil, "todo", "live", "done"}
    /\ run \in {Nil, "Start", "Wait", "Controllers", "Provisioning"}
    /\ synced \subseteq started /\ started \subseteq Informers
    /\ running \subseteq {c \in Controllers :
                             /\ c = "capacity" => capacityController # Nil
                             /\ c = "claim" => csiClaimController # Nil}

\* The readiness gate: a controller runs only when every informer that was
\* requested from the shared factory, at whatever point of start-up and for
\* whatever reason, has synced.  The set of informers grows during bootstrap
\* by capability, deployment mode and capacity (lines 276-282, 346-347,
\* 430-431); run() starts and awaits them (528-539) and the context may be
\* cancelled while it waits.
ReadyBeforeRun == running # {} => factory \subseteq synced

\* The phase of section 4.6 the process is in.
Phase ==
    CASE exit # Nil                          -> "ShuttingDown"
      [] run \in {"Start", "Wait"}           -> "CacheSyncing"
      [] run \in {"Controllers", "Provisioning"} -> "Leading"
      [] leading = "awaiting"                -> "AwaitingLeadership"
      [] OTHER                               -> "Bootstrapping"

Abstract ==
    INSTANCE Coordinator WITH gated <- config.enableLeaderElection,
                              phase <- Phase,
                              active <- IF exit # Nil THEN {} ELSE running

\* main() implements the coordinator: it passes through the phases in the
\* order in which the leader, and only the leader, syncs its caches, and no
\* controller is started outside Leading (lines 527-575, with the elector
\* calling run).
ImplementsCoordinator == Abstract!SyncAsLeader

-----------------------------------------------------------------------------
\* The process as one replica of Election.

Self == "self"
PodNamespace == "kube-system"     \* the elector reads it, not main()

ReplicaFlags(c, d) ==
    [ driver |-> <<d.name>>, enableLeaderElection |-> c.enableLeaderElection,
      leaderElectionNamespace |-> "", namespace |-> PodNamespace,
      enableNodeDeployment |-> c.enableNodeDeployment, node |-> c.node ]

\* Election over the flags alone, for the names it gives the lock and the
\* process.
Names ==
    INSTANCE Election WITH Replicas <- {Self}, Populations <- {}, MaxCrashes <- 0,
                           MaxTime <- 0, Rand <- {0},
                           flags <- [r \in {Self} |-> ReplicaFlags(config, driver)],
                           phase <- Nil, lease <- Nil, crashes <- 0,
                           identity <- Nil, now <- 0

\* The identity is made at lines 263-268, after the capabilities are known.
IdentityMade ==
    pc \notin {"SetFeatureGates", "CheckNodeName", "ShowVersion", "CheckEndpoints",
               "NewClients", "Connect", "Probe", "GetDriverName", "DetectMigration",
               "Reconnect", "ReProbe", "GetDriverCapabilities"}

\* A process leads, in the sense of Election, from the call of run() on; it
\* holds the lease from OnStartedLeading on, and beyond its own end.
ReplicaPhase ==
    CASE exit # Nil           -> "ShuttingDown"
      [] leading = "lost"     -> "Lost"
      [] run # Nil            -> "Leading"
      [] leading = "awaiting" -> "AwaitingLeadership"
      [] OTHER                -> "Bootstrapping"

AsReplica ==
    INSTANCE Election WITH
        Replicas <- {Self}, MaxCrashes <- 1, MaxTime <- 0, Rand <- {0},
        Populations <- {[r \in {Self} |-> ReplicaFlags(c, d)] :
                           c \in Configs, d \in Drivers},
        flags <- [r \in {Self} |-> ReplicaFlags(config, driver)],
        phase <- [r \in {Self} |-> ReplicaPhase],
        lease <- [l \in {Names!Lock(Self)} |->
                     IF leading \in {"leader", "lost"} THEN Self ELSE Nil],
        crashes <- IF exit # Nil \/ leading = "lost" THEN 1 ELSE 0,
        identity <- [r \in {Self} |->
                        IF IdentityMade THEN Names!Identity(Self, 0, 0) ELSE Nil],
        now <- 0

\* Election puts several processes side by side and knows of each only its
\* phase, its lease and its identity.  Every behaviour of main() with its
\* goroutines is a behaviour of one such process: it has its identity before
\* it coordinates (263 before 550), leads without a lease only when it was
\* not told to elect, and after a lost lease or a failed start of the
\* elector does nothing but end (558-574).  What Election shows of replicas
\* is therefore shown of processes that run this code.
ImplementsReplica ==
    AsReplica!Init /\ [][AsReplica!Next]_(AsReplica!vars)

\* A process never hangs: it ends, or it waits for leadership, or its
\* controllers run.  It could hang in WaitForCacheSync (line 534), which
\* returns only when everything it waits for has synced; what it waits for
\* must be what was started.
NeverHangs ==
    <>(exit # Nil \/ leading = "awaiting" \/ "provision" \in running)

\* The leadership health check is answered where the operator asked for it:
\* once its handler is registered (lines 564-566, under --http-endpoint
\* alone) a server is listening, and at --http-endpoint.  The server was
\* started long before, on an address that prefers --metrics-address (lines
\* 144-147, 518); only the check of lines 140-143 keeps the two apart.
HealthCheckIsServed == "healthz" \in mux => http /\ Addr = config.httpEndpoint

-----------------------------------------------------------------------------
\* Properties the specification states and main() does not have.

\* Specification, sections 3 and 8: the readiness gate never lets a
\* controller begin while any registered cache reports not synced.  run()
\* starts factoryForNamespace and does not wait for it (lines 529-534).
GateCoversEveryCache == running # {} => started \subseteq synced

\* Specification, section 8: with a cache that never syncs the process
\* reports a fatal bootstrap error.  WaitForCacheSync has no timeout, and
\* the context of a process without leader election is never cancelled.
StuckCacheIsFatal == (started \cap Stuck # {}) ~> (exit # Nil)

\* Specification, section 4.6: Bootstrapping, CacheSyncing, then Standalone
\* or AwaitingLeadership, then Leading.  The caches are synced inside run(),
\* which the elector calls after the lease was acquired.
FollowsSpecifiedOrder == Abstract!Specified

=============================================================================
