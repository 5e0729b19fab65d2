----------------------------- MODULE MCBootstrap -----------------------------
(***************************************************************************)
(* Bootstrap for TLC: every combination of the flags and environment       *)
(* variables that main() branches on, against every kind of driver.        *)
(***************************************************************************)
EXTENDS Bootstrap

\* The owners in the namespace: a pod of a StatefulSet, a pod of a Deployment
\* behind its ReplicaSet, and a pod that two controllers claim.
MCControllerRefs ==
    [ o \in {"web-0", "web", "app-1", "app-rs", "app", "odd-0"} |->
        CASE o = "web-0"  -> {"web"}
          [] o = "app-1"  -> {"app-rs"}
          [] o = "app-rs" -> {"app"}
          [] o = "odd-0"  -> {"web", "app"}
          [] OTHER        -> {} ]

Pods == {"web-0", "app-1", "odd-0"}

\* "" is an unset flag or environment variable, as in the Go code.
AllConfigs ==
    [ enableNodeDeployment  : BOOLEAN,
      node                  : {"", "node-1"},
      showVersion           : BOOLEAN,
      metricsAddress        : {"", ":8080"},
      httpEndpoint          : {"", ":8081"},
      enableCapacity        : BOOLEAN,
      namespace             : {"", "kube-system"},
      podName               : {""} \cup Pods,
      capacityOwnerrefLevel : -1..2 ]

\* A value main() never reads under a configuration is left at one value:
\* NODE_NAME without --node-deployment, the capacity settings without
\* --enable-capacity, and everything after the version with --version.
MCConfigs ==
    { c \in AllConfigs :
        /\ ~c.enableNodeDeployment => c.node = ""
        /\ ~c.enableCapacity =>
               c.namespace = "" /\ c.podName = "" /\ c.capacityOwnerrefLevel = 1
        /\ c.showVersion =>
               ~c.enableCapacity /\ c.metricsAddress = "" /\ c.httpEndpoint = "" }

TopologyKeys == {"zone", "rack"}

\* NodeGetInfo answers with no topology at all, or with segments over some keys.
MCNodeInfos ==
    [ NodeId : {"id-1"},
      AccessibleTopology :
          {Nil} \cup { [k \in K |-> "here"] : K \in SUBSET TopologyKeys } ]

MCDrivers ==
    [ name                   : {"csi.example.org", "ebs.csi.aws.com"},
      pluginCapabilities     : SUBSET {"VOLUME_ACCESSIBILITY_CONSTRAINTS"},
      controllerCapabilities : SUBSET {"PUBLISH_UNPUBLISH_VOLUME", "CLONE_VOLUME"},
      nodeInfo               : MCNodeInfos ]

MCInTreeName == [n \in {"ebs.csi.aws.com"} |-> "kubernetes.io/aws-ebs"]
=============================================================================
