----------------------------- MODULE MCLifecycle ------------------------------
(***************************************************************************)
(* The instance of Lifecycle for TLC: two state machines, one of which may *)
(* be inside a state of the other.                                         *)
(***************************************************************************)
EXTENDS Lifecycle

CONSTANTS outer, inner

MCMachines == {outer, inner}
===============================================================================
