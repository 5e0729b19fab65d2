----------------------------- MODULE MCElection ------------------------------
(***************************************************************************)
(* Election for TLC: three processes, in the deployments main() accepts.   *)
(***************************************************************************)
EXTENDS Election

Process(driver, election, electionNamespace, node) ==
    [ driver |-> driver, enableLeaderElection |-> election,
      leaderElectionNamespace |-> electionNamespace, namespace |-> "kube-system",
      enableNodeDeployment |-> node # "", node |-> node ]

Hostpath == <<"h", ".", "csi">>
Legacy   == <<"h", "/", "csi">>   \* a name the lock name is not the same as

Of(a, b, c) == [r \in Replicas |-> CASE r = "r1" -> a [] r = "r2" -> b [] OTHER -> c]

\* rand.Intn(10000), reduced to two of its values; the generator is not
\* seeded, and a Go runtime older than 1.20 then gives every process the same
\* first number
MCRand   == {17, 4711}
MCUnseeded == {17}

MCReplicas == {"r1", "r2", "r3"}

MCPopulations ==
    { \* two replicas of one driver, and another driver beside them
      Of(Process(Hostpath, TRUE, "", ""), Process(Hostpath, TRUE, "", ""),
         Process(Legacy, TRUE, "", "")),
      \* the third replica elects in a namespace of its own
      Of(Process(Hostpath, TRUE, "", ""), Process(Hostpath, TRUE, "kube-system", ""),
         Process(Hostpath, TRUE, "storage", "")),
      \* one instance on each node, without leader election
      Of(Process(Hostpath, FALSE, "", "n1"), Process(Hostpath, FALSE, "", "n2"),
         Process(Hostpath, FALSE, "", "n3")),
      \* a central replica pair next to a standalone process
      Of(Process(Hostpath, TRUE, "", ""), Process(Hostpath, TRUE, "", ""),
         Process(Legacy, FALSE, "", "")) }

\* one instance on each node, each told to elect a leader
MCNodeLocalElecting ==
    MCPopulations \cup
    { Of(Process(Hostpath, TRUE, "", "n1"), Process(Hostpath, TRUE, "", "n2"),
         Process(Hostpath, TRUE, "", "n3")) }
=============================================================================
