------------------------------- MODULE MCAlerts -------------------------------
(***************************************************************************)
(* The instance of Alerts for TLC: times in which an update adds nothing,  *)
(* less than an interval, or more than the longer one.                     *)
(***************************************************************************)
EXTENDS Alerts

MCSteps == {0, 1, 4}
===============================================================================
