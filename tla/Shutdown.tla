------------------------------ MODULE Shutdown -------------------------------
(***************************************************************************)
(* The process of Lifecycle together with the calls its controllers have   *)
(* in flight: what is going on when the process ends.                      *)
(*                                                                         *)
(* Every end of the process after start-up is klog.Fatal: of the HTTP      *)
(* server goroutine (line 522), of the elector's callback when the lease   *)
(* is lost, of main() when the election cannot start (573).  main()        *)
(* installs no signal handler and run() has no statement after             *)
(* provisionController.Run(ctx) (547).  The calls themselves are made by   *)
(* the controllers, which are libraries; they are modelled as section 5 of *)
(* the specification describes them.                                       *)
(***************************************************************************)
EXTENDS Lifecycle

VARIABLE inflight   \* the controllers with a call to the driver in flight

shutVars == <<allVars, inflight>>

ShutInit == LifeInit /\ inflight = {}

\* Every step of Lifecycle, the exits included, leaves the calls alone:
\* nothing in main() or run() waits for a controller or cancels its calls.
Process == LifeNext /\ UNCHANGED inflight

\* A worker of a running controller starts a call, unless the context of
\* run() was cancelled.
CallStarts(c) ==
    /\ c \in running \ inflight
    /\ exit = Nil /\ ctx # "done"
    /\ inflight' = inflight \cup {c}
    /\ UNCHANGED allVars

\* The call returns, or fails at its timeout.
CallEnds(c) ==
    /\ c \in inflight /\ exit = Nil
    /\ inflight' = inflight \ {c}
    /\ UNCHANGED allVars

ShutNext == Process \/ \E c \in Controllers : CallStarts(c) \/ CallEnds(c)

\* The fairness of Lifecycle, and a call ends at its timeout at the latest.
ShutSpec ==
    /\ ShutInit /\ [][ShutNext]_shutVars
    /\ Fairness
    /\ \A c \in Controllers : WF_shutVars(CallEnds(c))

-----------------------------------------------------------------------------
\* Specification, section 4.6: ShuttingDown lets the calls in flight
\* complete or be cancelled at the operation timeout.  Every exit after
\* start-up is klog.Fatal (lines 522, 573, and the elector's callback): the
\* process is gone with the call open, and the driver may finish a
\* CreateVolume nobody records.
ExitWaitsForCalls == exit # Nil => inflight = {}

=============================================================================
