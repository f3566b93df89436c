----------------------------- MODULE MCModManager -----------------------------
(***************************************************************************)
(* Instances of ModManager for TLC.                                        *)
(***************************************************************************)
EXTENDS ModManagerRefinement

MCNames == {"dmf", "a"}

\* The framework before an entry and behind one, so that a stop has entries on
\* both sides and a list changes between generations; a list that cannot be
\* read leaves none.
PairOrders == {<<"dmf", "a">>, <<"a", "dmf">>}
===============================================================================
