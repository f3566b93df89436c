------------------------------- MODULE MCLogSink -------------------------------
(***************************************************************************)
(* An instance of LogSink for TLC.                                         *)
(***************************************************************************)
EXTENDS LogSink

MCWorkerLines == <<"error">>
===============================================================================
