----------------------------- MODULE MCShutdown ------------------------------
(***************************************************************************)
(* Shutdown for TLC: the configurations and drivers of MCLifecycle.        *)
(***************************************************************************)
EXTENDS Shutdown, MCLifecycle
=============================================================================
