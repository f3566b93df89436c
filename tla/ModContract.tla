------------------------------ MODULE ModContract ------------------------------
(***************************************************************************)
(* What a mod manager promises the mods it drives, without a load pass, a  *)
(* cursor, entries or a cleanup queue.  run() makes objects; an object is  *)
(* active from its init on, may be called any number of times, and leaves  *)
(* the active set for good when it fails, when its whole generation is     *)
(* stopped, or when the manager tears down.  From then on it is owed       *)
(* exactly one on_unload and nothing else.  One callback runs at a time.   *)
(***************************************************************************)
EXTENDS Naturals

VARIABLES
  made,      \* how many objects run() has returned; they are 1..made
  active,    \* the objects that may be called
  owed,      \* the objects whose on_unload has not returned yet
  call       \* the callback that is executing, or NoCall

contractVars == <<made, active, owed, call>>

NoCall == [callback |-> "none", object |-> 0]

Init ==
  /\ made = 0
  /\ active = {}
  /\ owed = {}
  /\ call = NoCall

\* run() returned an object: it is called at once, to init.
Make ==
  /\ call = NoCall
  /\ made' = made + 1
  /\ active' = active \cup {made + 1}
  /\ call' = [callback |-> "init", object |-> made + 1]
  /\ UNCHANGED owed

\* Active objects are driven, and asked for their data before a teardown.
Call(callback, o) ==
  /\ call = NoCall
  /\ o \in active
  /\ call' = [callback |-> callback, object |-> o]
  /\ UNCHANGED <<made, active, owed>>

\* The objects that stop being active are owed an on_unload.
Owe(objects) ==
  /\ active' = active \ objects
  /\ owed' = owed \cup objects
  /\ UNCHANGED made

Unload(o) ==
  /\ call = NoCall
  /\ o \in owed
  /\ call' = [callback |-> "on_unload", object |-> o]
  /\ UNCHANGED <<made, active, owed>>

Return ==
  /\ call # NoCall
  /\ call' = NoCall
  /\ owed' = IF call.callback = "on_unload" THEN owed \ {call.object} ELSE owed
  /\ UNCHANGED <<made, active>>

\* An error escaped: the object, or its whole generation, is disabled.
Fail ==
  /\ call.callback \in {"init", "update", "gsc"}
  /\ call' = NoCall
  /\ Owe({call.object}) \/ Owe(active)

\* Teardown and destroy detach everything at once.
DetachActive ==
  /\ call = NoCall
  /\ Owe(active)
  /\ UNCHANGED call

Next ==
  \/ Make
  \/ \E o \in active, callback \in {"update", "gsc", "on_reload"} :
       Call(callback, o)
  \/ \E o \in owed : Unload(o)
  \/ Return \/ Fail \/ DetachActive

\* Whatever is owed is delivered.
Deliver == Return \/ \E o \in owed : Unload(o)

Spec == Init /\ [][Next]_contractVars /\ WF_contractVars(Deliver)
===============================================================================
