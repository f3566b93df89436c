------------------------------ MODULE MCInjection ------------------------------
(***************************************************************************)
(* Instances of Injection for TLC: one launch, and two at a time.          *)
(***************************************************************************)
EXTENDS Injection

CONSTANTS first, second

MCOne == {first}
MCTwo == {first, second}
===============================================================================
