----------------------------- MODULE OwnerLookup -----------------------------
(***************************************************************************)
(* The owner of the objects the capacity controller publishes: the walk up *)
(* the chain of controller references that starts at the pod of the        *)
(* process (section 4.3 of the specification).  main() calls it once, at   *)
(* line 413 of csi-provisioner.go.                                         *)
(***************************************************************************)
EXTENDS Naturals, FiniteSets

CONSTANT ControllerRefs   \* object -> its owner references marked as controller

\* The one controller of an object, as a set: empty when the object has no
\* controller reference, or more than one.
TheController(object) ==
    IF Cardinality(ControllerRefs[object]) = 1 THEN ControllerRefs[object] ELSE {}

\* The object itself at level 0, the controller of its controller at level
\* 2; the empty set when the chain ends or forks before that level.
RECURSIVE Lookup(_, _)
Lookup(object, levels) ==
    IF levels = 0 THEN {object}
    ELSE UNION {Lookup(owner, levels - 1) : owner \in TheController(object)}

=============================================================================
