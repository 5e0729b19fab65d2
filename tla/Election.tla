------------------------------ MODULE Election -------------------------------
(***************************************************************************)
(* Several sidecar processes and the leases they compete for.              *)
(*                                                                         *)
(* A process is what Lifecycle describes, seen from outside: it boots,     *)
(* waits for leadership if it is told to, leads, and is down after any     *)
(* fatal exit.  main() decides which lease a process competes for (lines   *)
(* 550-575); the lease itself is the election primitive of the             *)
(* specification: one holder at a time, free again once the holder has     *)
(* failed.  A process that is down is started again by its pod.  Each      *)
(* process gives itself an identity when it starts (lines 263-268).        *)
(***************************************************************************)
EXTENDS Naturals, Sequences, FiniteSets

CONSTANTS
    Replicas,      \* the processes
    Populations,   \* the deployments explored: functions Replicas -> flags
    MaxCrashes,    \* bound on the number of exits, so that behaviours settle
    MaxTime,       \* bound on the clock, in milliseconds
    Rand,          \* what rand.Intn(10000) can return to a process that starts
    Nil

VARIABLES
    flags,         \* what each process was started with
    phase,         \* the phase of each process
    lease,         \* lock -> the process that holds it, or Nil
    crashes,       \* exits so far
    identity,      \* the identity of each process, Nil before line 265
    now            \* time.Now() in milliseconds

vars == <<flags, phase, lease, crashes, identity, now>>

\* strings.Replace(provisionerName, "/", "-", -1), a name being the sequence
\* of its characters
LockName(name) == [i \in DOMAIN name |-> IF name[i] = "/" THEN "-" ELSE name[i]]

\* if *leaderElectionNamespace != "" { le.WithNamespace(...) }; the elector
\* uses the namespace of the pod otherwise
LockNamespace(r) ==
    IF flags[r].leaderElectionNamespace # "" THEN flags[r].leaderElectionNamespace
                                             ELSE flags[r].namespace

\* mutant: every process has a lock of its own
LockOfReplica(r) == <<LockNamespace(r), <<r>> >>

\* leaderelection.NewLeaderElection(leClientset, lockName, run)
Lock(r) == <<LockNamespace(r), LockName(flags[r].driver)>>

Leads(r) == phase[r] \in {"Leading", "Lost"}   \* its controllers run

\* A failure, of which a behaviour has MaxCrashes at most.
Failure == crashes < MaxCrashes /\ crashes' = crashes + 1

Init ==
    /\ flags \in Populations
    /\ phase = [r \in Replicas |-> "Bootstrapping"]
    /\ lease = [l \in {Lock(r) : r \in Replicas} |-> Nil]
    /\ crashes = 0
    /\ identity = [r \in Replicas |-> Nil]
    /\ now = 0

\* mutant: the node is left out of the identity
IdentityOfDriver(r, timeStamp, n) == <<timeStamp, "-", n, "-">> \o flags[r].driver

\* timeStamp + "-" + rand.Intn(10000) + "-" + provisionerName, and "-" + node
\* in a node deployment; a string is the sequence of its parts
Identity(r, timeStamp, n) ==
    <<timeStamp, "-", n, "-">> \o flags[r].driver
        \o IF flags[r].enableNodeDeployment THEN <<"-", flags[r].node>> ELSE <<>>

\* The identity is made once, before anything is built with it.
Identify(r) ==
    /\ phase[r] = "Bootstrapping" /\ identity[r] = Nil
    /\ \E n \in Rand : identity' = [identity EXCEPT ![r] = Identity(r, now, n)]
    /\ UNCHANGED <<flags, phase, lease, crashes, now>>

Tick ==
    /\ now < MaxTime
    /\ now' = now + 1
    /\ UNCHANGED <<flags, phase, lease, crashes, identity>>

\* mutant: the flag is read without its negation
ElectsNegated(r) == ~flags[r].enableLeaderElection

\* if !*enableLeaderElection { ... } else { ... }
Elects(r) == flags[r].enableLeaderElection

\* mutant: an error of le.Run() is logged and not fatal; the HTTP server
\* keeps the process alive
ElectorFailsAndStays(r) ==
    phase' = [phase EXCEPT ![r] = "Stalled"] /\ UNCHANGED crashes

\* klog.Fatalf when the client of the elector cannot be made or le.Run()
\* returns an error
ElectorFails(r) == phase' = [phase EXCEPT ![r] = "ShuttingDown"] /\ Failure

\* The end of main(): run at once, or hand run to the elector.
Coordinate(r) ==
    /\ phase[r] = "Bootstrapping" /\ identity[r] # Nil
    /\ IF ~Elects(r)
       THEN phase' = [phase EXCEPT ![r] = "Leading"] /\ UNCHANGED crashes
       ELSE \/ phase' = [phase EXCEPT ![r] = "AwaitingLeadership"] /\ UNCHANGED crashes
            \/ ElectorFails(r)
    /\ UNCHANGED <<flags, lease, identity, now>>

\* The lease is free, or still in the name of this process from before it
\* was restarted.
Acquire(r) ==
    /\ phase[r] = "AwaitingLeadership"
    /\ lease[Lock(r)] \in {Nil, r}
    /\ lease' = [lease EXCEPT ![Lock(r)] = r]
    /\ phase' = [phase EXCEPT ![r] = "Leading"]
    /\ UNCHANGED <<flags, crashes, identity, now>>

\* The leader cannot renew: it stops leading, and exits.
LoseLease(r) ==
    /\ phase[r] = "Leading" /\ flags[r].enableLeaderElection
    /\ Failure
    /\ phase' = [phase EXCEPT ![r] = "Lost"]
    /\ UNCHANGED <<flags, lease, identity, now>>

StoppedLeading(r) ==
    /\ phase[r] = "Lost"
    /\ phase' = [phase EXCEPT ![r] = "ShuttingDown"]
    /\ UNCHANGED <<flags, lease, crashes, identity, now>>

\* Any other fatal exit: the HTTP server, a cache that did not sync.
Fail(r) ==
    /\ phase[r] \in {"Bootstrapping", "AwaitingLeadership", "Leading"}
    /\ Failure
    /\ phase' = [phase EXCEPT ![r] = "ShuttingDown"]
    /\ UNCHANGED <<flags, lease, identity, now>>

\* A lease that is no longer renewed runs out: its holder has stopped.
Expire(r) ==
    /\ lease[Lock(r)] = r /\ ~Leads(r)
    /\ lease' = [lease EXCEPT ![Lock(r)] = Nil]
    /\ UNCHANGED <<flags, phase, crashes, identity, now>>

\* The pod starts its container again.
Restart(r) ==
    /\ phase[r] = "ShuttingDown"
    /\ phase' = [phase EXCEPT ![r] = "Bootstrapping"]
    /\ identity' = [identity EXCEPT ![r] = Nil]
    /\ UNCHANGED <<flags, lease, crashes, now>>

Next ==
    \/ Tick
    \/ \E r \in Replicas :
        \/ Identify(r) \/ Coordinate(r) \/ Acquire(r) \/ LoseLease(r)
        \/ StoppedLeading(r) \/ Fail(r) \/ Expire(r) \/ Restart(r)

\* A process that can take a step takes it, a lease that is not renewed runs
\* out, a pod restarts its container.  Nothing says a process fails.
Fairness ==
    \A r \in Replicas :
        /\ WF_vars(Identify(r)) /\ WF_vars(Coordinate(r)) /\ WF_vars(Acquire(r))
        /\ WF_vars(StoppedLeading(r)) /\ WF_vars(Expire(r)) /\ WF_vars(Restart(r))

Spec == Init /\ [][Next]_vars /\ Fairness

-----------------------------------------------------------------------------
Gated == {r \in Replicas : flags[r].enableLeaderElection}

TypeOK ==
    /\ flags \in Populations
    /\ phase \in [Replicas -> {"Bootstrapping", "AwaitingLeadership", "Leading",
                               "Lost", "ShuttingDown"}]
    /\ lease \in [{Lock(r) : r \in Replicas} -> Replicas \cup {Nil}]
    /\ crashes \in 0..MaxCrashes
    /\ now \in 0..MaxTime
    /\ \A r \in Replicas : identity[r] # Nil => identity[r][1] \in 0..now
    /\ \A r \in Replicas \ Gated : phase[r] # "AwaitingLeadership"

\* Two replicas of one driver that elect in the same namespace never run
\* their controllers at the same time, through any sequence of exits,
\* restarts and expired leases: the lock main() names (lines 555-570) is the
\* same for both.
ReplicasExclude ==
    \A r1, r2 \in Gated :
        (/\ r1 # r2
         /\ flags[r1].driver = flags[r2].driver
         /\ LockNamespace(r1) = LockNamespace(r2)) => ~(Leads(r1) /\ Leads(r2))

\* The instances of a driver on different nodes have different identities,
\* also when they start in the same millisecond and draw the same number:
\* a node deployment adds the node to the identity (lines 266-268).
NodesIdentifyApart ==
    \A r1, r2 \in Replicas :
        (/\ identity[r1] # Nil /\ identity[r1] = identity[r2]
         /\ flags[r1].enableNodeDeployment /\ flags[r2].enableNodeDeployment
         /\ flags[r1].driver = flags[r2].driver) => flags[r1].node = flags[r2].node

\* Once processes stop failing, every lease that processes compete for has a
\* leader for good: a leader that exited is replaced, by another replica or
\* by itself restarted; every exit of main() on the election path is an
\* exit of the process (lines 558-574).
Takeover ==
    <>[](\A r \in Gated :
            \E q \in Gated : Lock(q) = Lock(r) /\ phase[q] = "Leading")

-----------------------------------------------------------------------------
\* Specification, section 4.6: node-local deployments are partitioned by
\* node and run side by side.  main() accepts --leader-election together
\* with --node-deployment and names the lock after the driver alone
\* (line 555): the instance of one node waits for the instance of another.
NodesDoNotWaitForEachOther ==
    \A r \in Gated :
        (/\ flags[r].enableNodeDeployment
         /\ phase[r] = "AwaitingLeadership"
         /\ lease[Lock(r)] # Nil) => flags[lease[Lock(r)]].node = flags[r].node

\* The comment of line 263: "Generate a unique ID for this provisioner".
\* Two replicas that reach line 264 in the same millisecond and draw the same
\* number have the same identity.
IdentityIsUnique ==
    \A r1, r2 \in Replicas :
        (r1 # r2 /\ identity[r1] # Nil) => identity[r1] # identity[r2]

=============================================================================
