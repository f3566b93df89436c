-------------------------- MODULE ModManagerRefinement --------------------------
(***************************************************************************)
(* The manager implements the contract.  An object is active while it is   *)
(* attached to an entry, and owed its on_unload while the entry holds it   *)
(* as claimed for cleanup; everything between two callbacks that changes   *)
(* neither is a stuttering step of the contract.                           *)
(***************************************************************************)
EXTENDS ModManager

ActiveObjects == {mods[i].object : i \in Attached}
OwedObjects   == {mods[i].cleanup : i \in DOMAIN mods} \ {NoObj}
ObjectCall    ==
  IF pc \in {"init", "update", "gsc", "on_reload", "on_unload"}
  THEN [callback |-> pc, object |-> CalledObject]
  ELSE [callback |-> "none", object |-> NoObj]

Contract == INSTANCE ModContract WITH
  made <- nobj, active <- ActiveObjects, owed <- OwedObjects, call <- ObjectCall

\* Every step of the manager is a step of the contract or none at all: whoever
\* is called is active, whoever stops being active is owed one on_unload.
StepsImplementContract == Contract!Init /\ [][Contract!Next]_Contract!contractVars

\* Every behaviour of the manager is one the contract allows: no callback on a
\* detached object, one on_unload per object, and every one of them delivered.
ImplementsContract == Contract!Spec
===============================================================================
