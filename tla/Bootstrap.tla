------------------------------ MODULE Bootstrap ------------------------------
(***************************************************************************)
(* Start-up of the csi-provisioner sidecar: main() of                      *)
(* cmd/csi-provisioner/csi-provisioner.go from the validation of flags and *)
(* environment to the point where every controller is constructed.         *)
(*                                                                         *)
(* main() is one sequential thread until then.  Each action is one stretch *)
(* of it that ends in a call which may fail; pc names the stretch that     *)
(* runs next and exit holds the status the process ended with.  What the   *)
(* command line, the environment and the CSI driver are is chosen in Init  *)
(* and never changes.                                                      *)
(***************************************************************************)
EXTENDS Integers, FiniteSets, Sequences, SequencesExt, OwnerLookup

CONSTANTS
    Configs,     \* the command lines and environments explored (records)
    Drivers,     \* the CSI drivers that may be behind the socket (records)
    InTreeName,  \* csi-translation-lib: migrated CSI driver name -> in-tree name
    Nil          \* a nil pointer, an unset variable

ASSUME
    /\ \A c \in Configs : c.capacityOwnerrefLevel \in Int
    /\ \A c \in Configs : c.podName \in {""} \cup DOMAIN ControllerRefs
    /\ \A d \in Drivers : d.name # ""
    /\ \A n \in DOMAIN InTreeName : InTreeName[n] # ""

VARIABLES
    config,                 \* flags and environment variables
    driver,                 \* what the driver answers when it is asked
    pc,                     \* the stretch of main() that runs next
    exit,                   \* Nil while running, else the exit status
    managers,               \* metrics manager -> driver name it labels with
    metricsManager,         \* the manager main() currently refers to
    conns,                  \* gRPC connections, in the order they were dialled
    grpcClient,             \* index into conns, 0 for nil
    gatherers,              \* registries merged by the metrics endpoint
    rpcs,                   \* log of the calls made to the driver
    provisionerName,
    inTreePluginName,       \* supportsMigrationFromInTreePluginName
    pluginCapabilities,
    controllerCapabilities,
    factory,                \* kinds of object the shared informer factory watches
    listers,                \* lister -> the store it reads: "factory", "static", Nil
    nodeDeployment,         \* *ctrl.NodeDeployment, Nil in a central deployment
    static,                 \* the objects put into the never-started factory
    provisionerOptions,
    csiProvisioner,
    capacityOwner,          \* owner reference of CSIStorageCapacity objects
    topologyInformer,
    goroutines,             \* background goroutines started so far
    factoryForNamespace,
    capacityController,
    provisionController,
    csiClaimController

connVars == <<managers, metricsManager, conns, grpcClient, gatherers, rpcs>>
idVars   == <<provisionerName, inTreePluginName, pluginCapabilities,
              controllerCapabilities>>
cacheVars == <<factory, listers, nodeDeployment, static>>
capVars  == <<capacityOwner, topologyInformer, goroutines, factoryForNamespace,
              capacityController>>
ctrlVars == <<provisionerOptions, csiProvisioner, provisionController,
              csiClaimController>>
built    == <<cacheVars, capVars, ctrlVars>>
vars     == <<config, driver, pc, exit, connVars, idVars, built>>

ManagerIds == {"sidecar", "migrated"}
RPCs == {"Probe", "GetPluginInfo", "GetCapabilities", "NodeGetInfo"}
Listers == {"sc", "claim", "va", "node", "csiNode"}

-----------------------------------------------------------------------------
\* Control: a stretch runs when pc names it and the process has not exited.
At(label)    == pc = label /\ exit = Nil
Goto(label)  == pc' = label /\ UNCHANGED exit
Exit(status) == exit' = status /\ UNCHANGED pc
FatalAsError == Exit(2)                \* mutant: a status nothing documents
Fatal        == Exit(255)              \* klog.Fatal ends the process with 255

\* mutant: every connection reports to the first manager
DialledWithFirst(m) == Append(conns, [metrics |-> "sidecar", open |-> TRUE])

\* ctrl.Connect dials the socket; the connection reports to the manager m.
Dialled(m) == Append(conns, [metrics |-> m, open |-> TRUE])

\* One call to the driver over the current connection.
Call(rpc) == rpcs' = Append(rpcs, [rpc |-> rpc, conn |-> grpcClient])

Init ==
    /\ config \in Configs
    /\ driver \in Drivers
    /\ pc = "SetFeatureGates"
    /\ exit = Nil
    /\ managers = [m \in ManagerIds |-> Nil]
    /\ metricsManager = Nil
    /\ conns = <<>>
    /\ grpcClient = 0
    /\ gatherers = {}
    /\ rpcs = <<>>
    /\ provisionerName = ""
    /\ inTreePluginName = ""
    /\ pluginCapabilities = Nil
    /\ controllerCapabilities = Nil
    /\ factory = {}
    /\ listers = [l \in Listers |-> Nil]
    /\ nodeDeployment = Nil
    /\ static = Nil
    /\ provisionerOptions = Nil
    /\ csiProvisioner = Nil
    /\ capacityOwner = Nil
    /\ topologyInformer = Nil
    /\ goroutines = {}
    /\ factoryForNamespace = Nil
    /\ capacityController = Nil
    /\ provisionController = Nil
    /\ csiClaimController = Nil

-----------------------------------------------------------------------------
\* Validation of the command line and the environment.

\* A stretch that only decides whether and where main() goes on.
Only(outcome) ==
    outcome /\ UNCHANGED <<config, driver, connVars, idVars, built>>

\* an unknown gate in --feature-gates is fatal
SetFeatureGates == At("SetFeatureGates") /\ Only(Fatal \/ Goto("CheckNodeName"))

CheckNodeName ==
    /\ At("CheckNodeName")
    /\ Only(IF config.enableNodeDeployment /\ config.node = ""
            THEN Fatal ELSE Goto("ShowVersion"))

ShowVersion ==
    /\ At("ShowVersion")
    /\ Only(IF config.showVersion THEN Exit(0) ELSE Goto("CheckEndpoints"))

\* mutant: the two addresses are not checked against each other
EitherEndpoint(c) == FALSE

\* if *metricsAddress != "" && *httpEndpoint != ""
BothEndpoints(c) == c.metricsAddress # "" /\ c.httpEndpoint # ""

CheckEndpoints ==
    /\ At("CheckEndpoints")
    /\ Only(IF BothEndpoints(config) THEN Exit(1) ELSE Goto("NewClients"))

\* The kube config, the two clientsets and the server version: four calls,
\* and the first that fails ends the process.
NewClients == At("NewClients") /\ Only(Fatal \/ Goto("Connect"))

-----------------------------------------------------------------------------
\* CapabilityProbe: connect, probe, name, migration, capabilities.

Connect ==
    /\ At("Connect")
    /\ managers' = [managers EXCEPT !["sidecar"] = ""]
    /\ metricsManager' = "sidecar"
    /\ \/ /\ Exit(1)
          /\ UNCHANGED <<conns, grpcClient>>
       \/ /\ conns' = Dialled("sidecar")
          /\ grpcClient' = Len(conns')
          /\ Goto("Probe")
    /\ UNCHANGED <<config, driver, gatherers, rpcs, idVars, built>>

\* ctrl.Probe over the current connection, before main() goes on at next
Probed(next) ==
    /\ Call("Probe")
    /\ Exit(1) \/ Goto(next)
    /\ UNCHANGED <<config, driver, managers, metricsManager, conns, grpcClient,
                   gatherers, idVars, built>>

Probe == At("Probe") /\ Probed("GetDriverName")

GetDriverName ==
    /\ At("GetDriverName")
    /\ Call("GetPluginInfo")
    /\ \/ /\ Fatal
          /\ UNCHANGED <<provisionerName, managers>>
       \/ /\ provisionerName' = driver.name
          /\ managers' = [managers EXCEPT ![metricsManager] = driver.name]
          /\ Goto("DetectMigration")
    /\ UNCHANGED <<config, driver, metricsManager, conns, grpcClient, gatherers,
                   inTreePluginName, pluginCapabilities, controllerCapabilities,
                   built>>

DetectMigration ==
    /\ At("DetectMigration")
    /\ IF provisionerName \in DOMAIN InTreeName
       THEN \/ /\ Fatal
               /\ UNCHANGED inTreePluginName
            \/ /\ inTreePluginName' = InTreeName[provisionerName]
               /\ Goto("Reconnect")
       ELSE /\ Goto("GetDriverCapabilities")
            /\ UNCHANGED inTreePluginName
    /\ UNCHANGED <<config, driver, connVars, provisionerName,
                   pluginCapabilities, controllerCapabilities, built>>

\* mutant: the two statements in the other order close the new connection
AdoptThenClose(cs, old, new) ==
    [client |-> new, conns |-> [cs EXCEPT ![new].open = FALSE]]

\* grpcClient.Close(); grpcClient = migratedGrpcClient
Adopt(cs, old, new) == [client |-> new, conns |-> [cs EXCEPT ![old].open = FALSE]]

\* A migrated driver gets a second manager, which labels its metrics as
\* migrated, and a second connection that reports to it.
Reconnect ==
    /\ At("Reconnect")
    /\ managers' = [managers EXCEPT !["migrated"] = provisionerName]
    /\ metricsManager' = "migrated"
    /\ \/ /\ Exit(1)
          /\ UNCHANGED <<conns, grpcClient>>
       \/ LET swapped == Adopt(Dialled(metricsManager'), grpcClient, Len(conns) + 1)
          IN  /\ conns' = swapped.conns
              /\ grpcClient' = swapped.client
              /\ Goto("ReProbe")
    /\ UNCHANGED <<config, driver, gatherers, rpcs, idVars, built>>

ReProbe == At("ReProbe") /\ Probed("GetDriverCapabilities")

\* The registries the metrics endpoint will merge, then the capabilities.
GetDriverCapabilities ==
    /\ At("GetDriverCapabilities")
    /\ gatherers' = {"legacy", metricsManager}
    /\ Call("GetCapabilities")
    /\ \/ /\ Fatal
          /\ UNCHANGED <<pluginCapabilities, controllerCapabilities>>
       \/ /\ pluginCapabilities' = driver.pluginCapabilities
          /\ controllerCapabilities' = driver.controllerCapabilities
          /\ Goto("BuildListers")
    /\ UNCHANGED <<config, driver, managers, metricsManager, conns, grpcClient,
                   provisionerName, inTreePluginName, built>>

-----------------------------------------------------------------------------
\* Listers and the deployment mode.

PUBLISH  == "PUBLISH_UNPUBLISH_VOLUME"
CLONE    == "CLONE_VOLUME"
TOPOLOGY == "VOLUME_ACCESSIBILITY_CONSTRAINTS"

\* Asking the shared factory for a lister registers the informer with it.
BuildListers ==
    /\ At("BuildListers")
    /\ LET watchVA == PUBLISH \in controllerCapabilities
       IN  /\ factory' = {"StorageClass", "PersistentVolumeClaim"}
                           \cup (IF watchVA THEN {"VolumeAttachment"} ELSE {})
           /\ listers' = [listers EXCEPT !.sc = "factory", !.claim = "factory",
                                         !.va = IF watchVA THEN "factory" ELSE Nil]
    /\ Goto("GetNodeInfo")
    /\ UNCHANGED <<config, driver, connVars, idVars, nodeDeployment, static,
                   capVars, ctrlVars>>

GetNodeInfo ==
    /\ At("GetNodeInfo")
    /\ IF config.enableNodeDeployment
       THEN /\ Call("NodeGetInfo")
            /\ \/ /\ Fatal
                  /\ UNCHANGED nodeDeployment
               \/ /\ nodeDeployment' = [NodeName |-> config.node,
                                        NodeInfo |-> driver.nodeInfo]
                  /\ Goto("BuildTopologyListers")
       ELSE /\ Goto("BuildTopologyListers")
            /\ UNCHANGED <<rpcs, nodeDeployment>>
    /\ UNCHANGED <<config, driver, managers, metricsManager, conns, grpcClient,
                   gatherers, idVars, factory, listers, static, capVars, ctrlVars>>

\* The segments NodeGetInfo reported, an empty map when it reported none.
Segments(nodeInfo) ==
    IF nodeInfo.AccessibleTopology = Nil THEN <<>> ELSE nodeInfo.AccessibleTopology

\* The fake CSINode and Node of a node-local deployment.  Go ranges over the
\* segment map in no fixed order: keys is one of its orders.
StaticObjects(nd, keys) ==
    [ csiNode |-> [Name |-> nd.NodeName, Driver |-> provisionerName,
                   NodeID |-> nd.NodeInfo.NodeId, TopologyKeys |-> keys],
      node    |-> [Name |-> nd.NodeName,
                   Labels |-> nd.NodeInfo.AccessibleTopology] ]

BuildTopologyListers ==
    /\ At("BuildTopologyListers")
    /\ IF TOPOLOGY \notin pluginCapabilities
       THEN UNCHANGED <<factory, listers, static>>
       ELSE IF nodeDeployment # Nil
       THEN /\ \E keys \in SetToSeqs(DOMAIN Segments(nodeDeployment.NodeInfo)) :
                  static' = StaticObjects(nodeDeployment, keys)
            /\ listers' = [listers EXCEPT !.csiNode = "static", !.node = "static"]
            /\ UNCHANGED factory
       ELSE /\ factory' = factory \cup {"CSINode", "Node"}
            /\ listers' = [listers EXCEPT !.csiNode = "factory", !.node = "factory"]
            /\ UNCHANGED static
    /\ Goto("BuildProvisioner")
    /\ UNCHANGED <<config, driver, connVars, idVars, nodeDeployment, capVars,
                   ctrlVars>>

\* The options of the provision controller and the CSI provisioner, which
\* keeps the connection and the listers it is given.
BuildProvisioner ==
    /\ At("BuildProvisioner")
    /\ provisionerOptions' =
           [ NodesLister |-> listers.node,
             AdditionalProvisionerNames |->
                 IF inTreePluginName # "" THEN {inTreePluginName} ELSE {} ]
    /\ csiProvisioner' = [client |-> grpcClient, listers |-> listers,
                          nodeDeployment |-> nodeDeployment, wrapped |-> FALSE]
    /\ Goto("CapacityOwner")
    /\ UNCHANGED <<config, driver, connVars, idVars, cacheVars, capVars,
                   provisionController, csiClaimController>>

-----------------------------------------------------------------------------
\* The capacity controller, when --enable-capacity is set.

\* mutant: a failed lookup leaves the controller without an owner
FoundOrNone == {Nil} \cup Lookup(config.podName, config.capacityOwnerrefLevel)

\* owner.Lookup from the pod: the owner it returns when it returns one
Found == Lookup(config.podName, config.capacityOwnerrefLevel)

\* NAMESPACE and, for an owner, POD_NAME must be set; owner.Lookup fails when
\* a request to the API server fails or the chain has no such level.
CapacityOwner ==
    /\ At("CapacityOwner")
    /\ IF ~config.enableCapacity
       THEN Goto("BuildControllers") /\ UNCHANGED capacityOwner
       ELSE IF config.namespace = "" THEN Fatal /\ UNCHANGED capacityOwner
       ELSE IF config.capacityOwnerrefLevel < 0
       THEN Goto("CapacityTopology") /\ UNCHANGED capacityOwner
       ELSE IF config.podName = "" THEN Fatal /\ UNCHANGED capacityOwner
       ELSE \/ Fatal /\ UNCHANGED capacityOwner
            \/ capacityOwner' \in Found /\ Goto("CapacityTopology")
    /\ UNCHANGED <<config, driver, connVars, idVars, cacheVars, topologyInformer,
                   goroutines, factoryForNamespace, capacityController, ctrlVars>>

\* mutant: the key is stored as the value too
FixedSegmentsOfKeys(nodeInfo) ==
    SetToSeqs({ [Key |-> k, Value |-> k] : k \in DOMAIN Segments(nodeInfo) })

\* The entries of the fixed segment, in the orders Go may range over the map.
FixedSegments(nodeInfo) ==
    SetToSeqs({ [Key |-> k, Value |-> Segments(nodeInfo)[k]] :
                    k \in DOMAIN Segments(nodeInfo) })

\* mutant: node-local is recognised by the static listers, which exist only
\* for a driver with topology
UsesStaticListers == listers.node = "static"

\* if nodeDeployment == nil { live } else { fixed }
UsesFixedTopology == nodeDeployment # Nil

\* topology.NewNodeTopology asks the shared factory for the Node and CSINode
\* informers; the fixed topology watches nothing.  Its worker is started here,
\* with a context nothing cancels.
CapacityTopology ==
    /\ At("CapacityTopology")
    /\ IF ~UsesFixedTopology
       THEN /\ topologyInformer' = [kind |-> "live"]
            /\ factory' = factory \cup {"Node", "CSINode"}
       ELSE /\ \E segment \in FixedSegments(nodeDeployment.NodeInfo) :
                  topologyInformer' = [kind |-> "fixed", segment |-> segment]
            /\ UNCHANGED factory
    /\ goroutines' = goroutines \cup {"topologyWorker"}
    /\ Goto("BuildCapacity")
    /\ UNCHANGED <<config, driver, connVars, idVars, listers, nodeDeployment,
                   static, capacityOwner, factoryForNamespace,
                   capacityController, ctrlVars>>

\* "external-provisioner", followed by the node in a node-local deployment
ManagedByID ==
    <<"external-provisioner">>
        \o (IF config.enableNodeDeployment THEN <<config.node>> ELSE <<>>)

\* The capacity controller watches its own objects only: one namespace, the
\* labels of this driver and this instance.  It wraps the CSI provisioner.
BuildCapacity ==
    /\ At("BuildCapacity")
    /\ factoryForNamespace' =
           [ namespace |-> config.namespace,
             selector  |-> [driver |-> provisionerName, managedBy |-> ManagedByID] ]
    /\ capacityController' =
           [ client |-> grpcClient, owner |-> capacityOwner,
             managedByID |-> ManagedByID, namespace |-> config.namespace,
             topology |-> topologyInformer ]
    /\ csiProvisioner' = [csiProvisioner EXCEPT !.wrapped = TRUE]
    /\ Goto("BuildControllers")
    /\ UNCHANGED <<config, driver, connVars, idVars, cacheVars, capacityOwner,
                   topologyInformer, goroutines, provisionerOptions,
                   provisionController, csiClaimController>>

-----------------------------------------------------------------------------
\* The provision controller, and the cloning protection controller, which
\* exists only for a driver that can clone.
BuildControllers ==
    /\ At("BuildControllers")
    /\ provisionController' =
           [ names       |-> {provisionerName}
                               \cup provisionerOptions.AdditionalProvisionerNames,
             provisioner |-> csiProvisioner ]
    /\ csiClaimController' =
           IF CLONE \in controllerCapabilities
           THEN [claimLister |-> listers.claim] ELSE Nil
    /\ Goto("Assembled")
    /\ UNCHANGED <<config, driver, connVars, idVars, cacheVars, capVars,
                   provisionerOptions, csiProvisioner>>

-----------------------------------------------------------------------------
Next ==
    \/ SetFeatureGates \/ CheckNodeName \/ ShowVersion \/ CheckEndpoints
    \/ NewClients
    \/ Connect \/ Probe \/ GetDriverName \/ DetectMigration \/ Reconnect
    \/ ReProbe \/ GetDriverCapabilities
    \/ BuildListers \/ GetNodeInfo \/ BuildTopologyListers \/ BuildProvisioner
    \/ CapacityOwner \/ CapacityTopology \/ BuildCapacity \/ BuildControllers

Spec == Init /\ [][Next]_vars

-----------------------------------------------------------------------------
Labels ==
    {"SetFeatureGates", "CheckNodeName", "ShowVersion", "CheckEndpoints",
     "NewClients", "Connect", "Probe", "GetDriverName", "DetectMigration",
     "Reconnect", "ReProbe", "GetDriverCapabilities",
     "BuildListers", "GetNodeInfo", "BuildTopologyListers", "BuildProvisioner",
     "CapacityOwner", "CapacityTopology", "BuildCapacity", "BuildControllers",
     "Assembled"}
DriverNames == {d.name : d \in Drivers}
Kinds == {"StorageClass", "PersistentVolumeClaim", "VolumeAttachment",
          "CSINode", "Node"}
OrNil(S) == S \cup {Nil}

TypeOK ==
    /\ config \in Configs
    /\ driver \in Drivers
    /\ pc \in Labels
    /\ exit \in {Nil, 0, 1, 255}
    /\ managers \in [ManagerIds -> OrNil({""} \cup DriverNames)]
    /\ metricsManager \in OrNil(ManagerIds)
    /\ conns \in Seq([metrics : ManagerIds, open : BOOLEAN]) /\ Len(conns) <= 2
    /\ grpcClient \in 0..Len(conns)
    /\ gatherers \subseteq {"legacy"} \cup ManagerIds
    /\ rpcs \in Seq([rpc : RPCs, conn : 1..2])
    /\ provisionerName \in {""} \cup DriverNames
    /\ inTreePluginName \in {""} \cup Range(InTreeName)
    /\ pluginCapabilities \in OrNil(SUBSET {TOPOLOGY})
    /\ controllerCapabilities \in OrNil(SUBSET {PUBLISH, CLONE})
    /\ factory \subseteq Kinds
    /\ listers \in [Listers -> OrNil({"factory", "static"})]
    /\ nodeDeployment \in OrNil([NodeName : {config.node},
                                 NodeInfo : {driver.nodeInfo}])
    /\ static # Nil => static.node.Name = static.csiNode.Name
    /\ capacityOwner \in OrNil(DOMAIN ControllerRefs)
    /\ topologyInformer # Nil => topologyInformer.kind \in {"live", "fixed"}
    /\ goroutines \subseteq {"topologyWorker"}
    /\ provisionerOptions # Nil =>
           provisionerOptions.AdditionalProvisionerNames \subseteq Range(InTreeName)
    /\ csiProvisioner # Nil => csiProvisioner.wrapped \in BOOLEAN
    /\ csiClaimController \in OrNil([claimLister : {"factory"}])

\* The chains of n controller references above an object.
OwnerChains(object, n) ==
    { s \in [0..n -> DOMAIN ControllerRefs] :
        s[0] = object /\ \A i \in 1..n : ControllerRefs[s[i - 1]] = {s[i]} }

\* A capacity controller exists only with the owner that was asked for: none
\* below level 0, else the object reached from the pod over exactly
\* --capacity-ownerref-level controller references, each the only one of its
\* object.  A chain that is too short or forks, and a lookup that fails,
\* end the process (lines 406-421): no controller publishes objects that
\* nothing owns, or that the wrong object owns.
OwnedAsRequested ==
    capacityController # Nil =>
        LET level == config.capacityOwnerrefLevel IN
        IF level < 0 THEN capacityController.owner = Nil
        ELSE \E s \in OwnerChains(config.podName, level) :
                 capacityController.owner = s[level]

Open == {i \in DOMAIN conns : conns[i].open}

\* Whatever holds a connection to the driver holds the one open connection.
\* main() dials a second connection for a migrated driver and closes the
\* first (lines 229-235); the CSI provisioner and the capacity controller
\* keep the client they were constructed with, so a client taken before the
\* swap, or a swap that closes the wrong one, leaves them with a dead
\* connection, and a first connection never closed is a leak.
LiveConnection ==
    /\ Cardinality(Open) <= 1
    /\ grpcClient # 0 => Open = {grpcClient}
    /\ csiProvisioner # Nil => csiProvisioner.client \in Open
    /\ capacityController # Nil => capacityController.client \in Open

\* The metrics endpoint gathers from the manager that the open connection
\* reports to, and that manager labels with the driver's name, and as
\* migrated exactly for a driver with an in-tree name.  The gatherers are put
\* together (lines 246-256) after the manager may have been replaced
\* (line 225): CSI calls over the second connection would otherwise be
\* counted in a registry nothing serves.
MetricsFollowConnection ==
    gatherers # {} =>
        LET m == conns[grpcClient].metrics
        IN  /\ m \in gatherers
            /\ managers[m] = provisionerName
            /\ (m = "migrated") <=> (inTreePluginName # "")

\* A node-local instance never watches the cluster's Node and CSINode
\* objects.  Both the listers of the provisioner (lines 305-348) and the
\* topology of the capacity controller (lines 426-443) have to choose the
\* static variant, for every combination of driver capabilities.
NodeLocalWatchesNoNodes ==
    config.enableNodeDeployment => factory \cap {"Node", "CSINode"} = {}

Entries(segment) == {<<e.Key, e.Value>> : e \in ToSet(segment)}

\* In a node-local deployment the fixed segment of the capacity controller
\* (lines 435-440), the labels of the fake Node and the topology keys of the
\* fake CSINode (lines 327-332) are the segments NodeGetInfo reported: the
\* same pairs, every key once, in whatever order Go ranged over the map each
\* time.
FixedTopologyAgrees ==
    (topologyInformer # Nil /\ topologyInformer.kind = "fixed") =>
        LET segment  == topologyInformer.segment
            reported == Segments(nodeDeployment.NodeInfo)
        IN  /\ Entries(segment) = {<<k, reported[k]>> : k \in DOMAIN reported}
            /\ Len(segment) = Cardinality(DOMAIN reported)
            /\ static # Nil =>
                   /\ ToSet(static.csiNode.TopologyKeys) = DOMAIN reported
                   /\ Len(static.csiNode.TopologyKeys) = Len(segment)
                   /\ \A e \in ToSet(segment) :
                          static.node.Labels[e.Key] = e.Value

-----------------------------------------------------------------------------
\* Properties the specification states and main() does not have.

\* if podName == "" { klog.Fatalf(...) }: the process ends at line 408, for
\* POD_NAME and nothing else
EndedForPodName ==
    /\ pc = "CapacityOwner" /\ exit # Nil
    /\ config.enableCapacity /\ config.namespace # ""
    /\ config.capacityOwnerrefLevel >= 0 /\ config.podName = ""

\* Specification, section 8: with capacity publishing enabled and an owner
\* level of 0 or more but POD_NAME unset, bootstrap must fail before any call
\* to the driver is made.  main() tests POD_NAME at line 408, while it
\* constructs the capacity controller: a process that ends there has called
\* Probe, GetPluginInfo and the capability calls before.
MisconfigurationFailsBeforeRPC == EndedForPodName => rpcs = <<>>

\* Specification, section 4.2: for a driver without topology support the
\* topology provider is absent.  main() constructs the topology informer of
\* the capacity controller whatever the plugin capabilities are (line 426).
TopologyAbsentWithoutCapability ==
    (pluginCapabilities # Nil /\ TOPOLOGY \notin pluginCapabilities) =>
        /\ topologyInformer = Nil
        /\ factory \cap {"Node", "CSINode"} = {}

=============================================================================
