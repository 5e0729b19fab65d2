----------------------------- MODULE MCLifecycle -----------------------------
(***************************************************************************)
(* Lifecycle for TLC.  What start-up leaves behind differs in the informers *)
(* requested, the controllers built, the HTTP address and leader election; *)
(* the configurations and drivers below produce every combination of       *)
(* these.  What only start-up reads has one value.                         *)
(***************************************************************************)
EXTENDS Lifecycle

\* The pod of the process belongs to a StatefulSet.
MCControllerRefs == [o \in {"web-0", "web"} |-> IF o = "web-0" THEN {"web"} ELSE {}]

\* --metrics-address and --http-endpoint: neither, one, the other, both
Endpoints == {"", ":8080"} \X {"", ":8081"}

MCConfigs ==
    { [ enableNodeDeployment  |-> local,
        node                  |-> IF local THEN "node-1" ELSE "",
        showVersion           |-> FALSE,
        metricsAddress        |-> e[1],
        httpEndpoint          |-> e[2],
        enableCapacity        |-> capacity,
        namespace             |-> IF capacity THEN "kube-system" ELSE "",
        podName               |-> IF capacity THEN "web-0" ELSE "",
        capacityOwnerrefLevel |-> 1,
        enableLeaderElection  |-> election ] :
      local \in BOOLEAN, e \in Endpoints, capacity \in BOOLEAN,
      election \in BOOLEAN }

MCDrivers ==
    [ name                   : {"csi.example.org"},
      pluginCapabilities     : SUBSET {TOPOLOGY},
      controllerCapabilities : SUBSET {PUBLISH, CLONE},
      nodeInfo : {[NodeId |-> "id-1", AccessibleTopology |-> [k \in {"zone"} |-> "here"]]} ]

MCInTreeName == [n \in {"ebs.csi.aws.com"} |-> "kubernetes.io/aws-ebs"]

NoStuck  == {}
OneStuck == {"PersistentVolumeClaim"}
=============================================================================
