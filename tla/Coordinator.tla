----------------------------- MODULE Coordinator -----------------------------
(***************************************************************************)
(* What the execution coordinator promises: the life of one sidecar       *)
(* process as a walk through five phases, with the controllers running in  *)
(* the phase Leading and in no other.  The phases are those of section 4.6 *)
(* of the specification.  The order in which a process passes through them *)
(* is a parameter of the machine: order[g] is the set of steps <<from, to>> *)
(* a process may take, gated by leader election (g) or not.                *)
(***************************************************************************)
CONSTANT Controllers   \* the members of the controller set

VARIABLES
    gated,        \* whether the process runs behind leader election
    phase,
    active        \* the controllers whose run loop has been invoked

Phases == {"Bootstrapping", "CacheSyncing", "AwaitingLeadership", "Leading",
           "ShuttingDown"}

Init ==
    /\ gated \in BOOLEAN
    /\ phase = "Bootstrapping"
    /\ active = {}

Advance(order, to) ==
    /\ <<phase, to>> \in order[gated]
    /\ phase' = to
    /\ UNCHANGED <<gated, active>>

\* Controllers are started in the phase Leading, several at a time.
Start(cs) ==
    /\ phase = "Leading"
    /\ cs # {} /\ cs \cap active = {}
    /\ active' = active \cup cs
    /\ UNCHANGED <<gated, phase>>

\* A fatal condition, or the end of the process, in whatever phase it is.
Abort ==
    /\ phase # "ShuttingDown"
    /\ phase' = "ShuttingDown"
    /\ active' = {}
    /\ UNCHANGED gated

Next(order) ==
    \/ \E to \in Phases : Advance(order, to)
    \/ \E cs \in SUBSET Controllers : Start(cs)
    \/ Abort

coordVars == <<gated, phase, active>>

-----------------------------------------------------------------------------
\* The order of section 4.6 as it is written: the caches are synced first,
\* then the process leads at once or waits for leadership.
SpecifiedOrder ==
    [g \in BOOLEAN |->
        {<<"Bootstrapping", "CacheSyncing">>}
            \cup IF g THEN {<<"CacheSyncing", "AwaitingLeadership">>,
                            <<"AwaitingLeadership", "Leading">>}
                      ELSE {<<"CacheSyncing", "Leading">>}]

\* The order in which the caches are synced by the process that leads, and
\* by no other: a process waits for leadership first.
SyncAsLeaderOrder ==
    [g \in BOOLEAN |->
        {<<"CacheSyncing", "Leading">>}
            \cup IF g THEN {<<"Bootstrapping", "AwaitingLeadership">>,
                            <<"AwaitingLeadership", "CacheSyncing">>}
                      ELSE {<<"Bootstrapping", "CacheSyncing">>}]

Specified    == Init /\ [][Next(SpecifiedOrder)]_coordVars
SyncAsLeader == Init /\ [][Next(SyncAsLeaderOrder)]_coordVars

=============================================================================
