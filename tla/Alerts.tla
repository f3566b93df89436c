--------------------------------- MODULE Alerts ---------------------------------
(***************************************************************************)
(* What the mod manager tells the player and the crash reporter about the  *)
(* current generation (src/mod_loader/mod_manager.lua): the notices about  *)
(* failed mods, repeated by the clock of update, and the Mod:<name>        *)
(* properties in Crashify.                                                 *)
(*                                                                         *)
(* The load pass, the reload and the outer objects are those of            *)
(* ModManager, reduced to what notices and properties depend on: how many  *)
(* entries a pass has left, how many objects can still fail, under which   *)
(* generation.  Managers.event and Crashify are the engine's: both may be  *)
(* absent or raise at any call.                                            *)
(***************************************************************************)
EXTENDS Naturals, SequencesExt

CONSTANTS
  Reminder,        \* ALERT_REMINDER_SECONDS
  StateEnter,      \* ALERT_STATE_ENTER_SECONDS
  Steps,           \* what one update may add to the clock
  ModNames,        \* names that may be published
  Unsafe,          \* the name of an entry that may not
  None,            \* nil
  MaxEntries,      \* bound: the length of mods.lst
  MaxReloads       \* bound: reloads requested

ASSUME AlertAssumption ==
  /\ Reminder \in Nat /\ StateEnter \in 1 .. Reminder
  /\ Steps \subseteq Nat
  /\ MaxEntries \in Nat /\ MaxReloads \in Nat
  /\ Unsafe \notin ModNames
  /\ None \notin Nat \cup {"initial", "reload", "enter", "frame"}

VARIABLES
  notice,      \* latched: the generations with a failure record;
               \* unheard: those with a failure no notice has told of;
               \* since: _alert_clock - _alert_last_attempt, None for a nil one;
               \* quiet: the time since an attempt, whatever the manager kept;
               \* attempt: the kind of the last one and, for a reminder, how
               \* quiet it was before.
               \* Reminder stands for any longer time.
  transport,   \* whether the event manager takes a notification
  at,          \* where in a handler of the manager the engine's thread is
  pass,        \* _pass_kind while _load_cursor is set
  left,        \* the entries the pass has not come to
  generation,  \* _generation
  target,      \* _load_target_generation, 0 for nil
  objects,     \* attached outer objects
  stopped,     \* _generation_failed
  flags,       \* those of _reload_requested, _reload_in_progress, _mods_loaded
               \* and is_load_done() that are set, and "destroyed"
  reloads,     \* requests so far
  disabled,    \* _crashify_disabled
  keys,        \* _crashify_keys
  properties,  \* the Mod:<name> properties Crashify holds
  accepted,    \* the names under which this generation's descriptors passed
  spoiled      \* a call of Crashify has failed

passVars == <<pass, left, generation, target, objects, stopped, flags, reloads>>
crashVars == <<disabled, keys, properties, accepted, spoiled>>
vars == <<notice, transport, at, pass, left, generation, target, objects,
          stopped, flags, reloads, disabled, keys, properties, accepted,
          spoiled>>

Init ==
  /\ notice = [latched |-> {}, unheard |-> {}, since |-> None,
               quiet |-> Reminder, attempt |-> [kind |-> None, gap |-> 0]]
  /\ transport \in BOOLEAN
  /\ at = "engine"
  /\ pass = None /\ left = 0 /\ generation = 0 /\ target = 0
  /\ objects = 0 /\ stopped = FALSE /\ flags = {} /\ reloads = 0
  /\ disabled = FALSE /\ keys = <<>> /\ properties = {} /\ accepted = {}
  /\ spoiled = FALSE

-----------------------------------------------------------------------------
(***************************************************************************)
(* Notices.  An operator takes and returns the notice record; `heard` is   *)
(* whether the transport takes the message.                                *)
(***************************************************************************)

Later(age, dt) ==
  IF age = None THEN None ELSE IF age + dt < Reminder THEN age + dt ELSE Reminder

Aged(n, dt) == [n EXCEPT !.since = Later(@, dt), !.quiet = Later(@, dt)]

\* _attempt_alert dates the attempt first, whatever becomes of it.
Attempted(n, kind, gap) ==
  [n EXCEPT !.since = 0, !.quiet = 0, !.attempt = [kind |-> kind, gap |-> gap]]

\* The record and the immediate attempt of _handle_lifecycle_failure; the
\* message names one failure only.
Failed(n, g, heard) ==
  [Attempted(n, "failure", 0) EXCEPT
     !.latched = @ \cup {g}, !.unheard = IF heard THEN @ ELSE @ \cup {g}]

\* Fault variant: a notice that could not be given is not tried again.
RemindedOnce(n, minimum, kind, heard) ==
  IF n.latched # {} /\ n.unheard = {} /\ (n.since = None \/ n.since >= minimum)
  THEN [Attempted(n, kind, n.quiet) EXCEPT !.unheard = IF heard THEN {} ELSE @]
  ELSE n

\* _attempt_reminder_if_due: one message for all that is latched.
Reminded(n, minimum, kind, heard) ==
  IF n.latched # {} /\ (n.since = None \/ n.since >= minimum)
  THEN [Attempted(n, kind, n.quiet) EXCEPT !.unheard = IF heard THEN {} ELSE @]
  ELSE n

\* Fault variant: the records of the replacement go as well.
PrunedWithTarget(n, g) ==
  LET kept == {h \in n.latched : h > g}
  IN [n EXCEPT !.latched = kept, !.unheard = @ \cap kept,
               !.since = IF kept = {} THEN None ELSE @]

\* Fault variant: the time of the last attempt goes with any pruning.
PrunedUndated(n, g) ==
  LET kept == {h \in n.latched : h >= g}
  IN [n EXCEPT !.latched = kept, !.unheard = @ \cap kept, !.since = None]

\* _prune_old_failure_records.
Pruned(n, g) ==
  LET kept == {h \in n.latched : h >= g}
  IN [n EXCEPT !.latched = kept, !.unheard = @ \cap kept,
               !.since = IF kept = {} THEN None ELSE @]

\* _active_generation.
ActiveGeneration ==
  IF target # 0 THEN target ELSE IF generation > 0 THEN generation ELSE 1

-----------------------------------------------------------------------------
(***************************************************************************)
(* Crashify.  A call works, fails before it has done anything, or raises   *)
(* after it has; the last two disable it until the next generation.        *)
(***************************************************************************)

Results == {"works", "fails", "raises late"}

\* _publish_mod_property, for a descriptor that has passed.
Publish(name, result) ==
  /\ accepted' = IF name = Unsafe THEN accepted ELSE accepted \cup {name}
  /\ IF disabled \/ name = Unsafe \/ name \in ToSet(keys)
     THEN UNCHANGED <<disabled, keys, properties, spoiled>>
     ELSE /\ keys' = IF result = "works" THEN Append(keys, name) ELSE keys
          /\ properties' = IF result = "fails" THEN properties
                           ELSE properties \cup {name}
          /\ disabled' = (result # "works")
          /\ spoiled' = (spoiled \/ disabled')

\* Fault variant: the first key is left.
RemoveAllButFirst(n, result) ==
  /\ n = Len(keys)
  /\ properties' = properties \ ToSet(SubSeq(keys, 2, n))
  /\ keys' = <<>> /\ accepted' = {} /\ disabled' = FALSE
  /\ UNCHANGED spoiled

\* _prepare_crashify_generation with remove_old: the first n keys are removed, the call
\* for the next one, if there is one, fails, and none is tracked any longer.
RemoveOld(n, result) ==
  /\ n \in 0 .. Len(keys)
  /\ result = "works" <=> n = Len(keys)
  /\ properties' = properties \
       ToSet(SubSeq(keys, 1, IF result = "raises late" THEN n + 1 ELSE n))
  /\ keys' = <<>>
  /\ accepted' = {}
  /\ disabled' = (n < Len(keys))
  /\ spoiled' = (spoiled \/ disabled')
-----------------------------------------------------------------------------
(***************************************************************************)
(* The handlers.                                                           *)
(***************************************************************************)

\* request_reload, the shortcut, or mod code that sets the field.
Request ==
  /\ at = "engine" /\ "started" \in flags
  /\ "requested" \notin flags /\ reloads < MaxReloads
  /\ flags' = flags \cup {"requested"}
  /\ reloads' = reloads + 1
  /\ UNCHANGED <<notice, transport, at, pass, left, generation, target, objects,
                 stopped, crashVars>>

\* update with a request: the old generation goes, and the update ends.
Teardown(dt) ==
  /\ at = "engine" /\ "requested" \in flags
  /\ notice' = Aged(notice, dt)
  /\ flags' = (flags \ {"requested", "done"}) \cup {"replaying"}
  /\ pass' = None /\ target' = 0 /\ left' = 0 /\ objects' = 0
  /\ \E n \in 0 .. Len(keys), result \in Results : RemoveOld(n, result)
  /\ at' = "remind"
  /\ UNCHANGED <<transport, generation, stopped, reloads>>

\* The anchor of a pass, for the list scanned before it.
BeginPass(dt, entries) ==
  /\ at = "engine" /\ "requested" \notin flags
  /\ \/ /\ "replaying" \in flags /\ pass = None
        /\ pass' = "reload" /\ target' = generation + 1
        /\ UNCHANGED <<flags, disabled>>
     \/ /\ ~("replaying" \in flags /\ pass = None) /\ "started" \notin flags
        /\ pass' = "initial" /\ target' = 1 /\ disabled' = FALSE
        /\ flags' = flags \cup {"started"}
  /\ notice' = Aged(notice, dt)
  /\ left' = entries
  /\ stopped' = FALSE
  /\ at' = "settle"
  /\ UNCHANGED <<transport, generation, objects, reloads, keys, properties,
                 accepted, spoiled>>

\* Any other update.
Update(dt) ==
  /\ at = "engine" /\ "requested" \notin flags
  /\ ~("replaying" \in flags /\ pass = None) /\ "started" \in flags
  /\ notice' = Aged(notice, dt)
  /\ at' = IF pass = None THEN "drive" ELSE IF stopped THEN "settle" ELSE "load"
  /\ UNCHANGED <<transport, passVars, crashVars>>

\* A failed object: detached, with the whole generation for the framework.
Fail(framework) ==
  /\ notice' = Failed(notice, ActiveGeneration, transport)
  /\ stopped' = framework
  /\ UNCHANGED <<transport, pass, generation, target, flags, reloads>>

\* _load_pass_entry up to run(): the descriptor fails, or it passes and the name
\* is published.
Descriptor(passes) ==
  IF passes
  THEN \E name \in ModNames \cup {Unsafe}, result \in Results :
         Publish(name, result)
  ELSE UNCHANGED crashVars

\* The entry is over without a failure record, with an object or without; or an
\* error escapes, which ends the pass.
LoadEntry ==
  /\ at = "load"
  /\ at' = "settle"
  /\ \E passes \in BOOLEAN :
       /\ Descriptor(passes)
       /\ objects' \in {objects, IF passes THEN objects + 1 ELSE objects}
  /\ left' \in {left - 1, 0}
  /\ UNCHANGED <<notice, transport, pass, generation, target, stopped, flags,
                 reloads>>

\* init raises.
InitFails ==
  /\ at = "load"
  /\ at' = "settle"
  /\ Descriptor(TRUE)
  /\ left' = left - 1
  /\ \E framework \in BOOLEAN :
       /\ Fail(framework)
       /\ objects' = IF framework THEN 0 ELSE objects

\* The end of _advance_load_pass, with _finalize_load_pass.
Settle ==
  /\ at = "settle"
  /\ at' = "drive"
  /\ IF left = 0 \/ stopped
     THEN /\ generation' = target
          /\ flags' = (flags \cup {"done"}) \
                      IF pass = "reload" THEN {"replaying"} ELSE {}
          /\ notice' = IF pass = "reload" THEN Pruned(notice, target) ELSE notice
          /\ pass' = None /\ target' = 0 /\ left' = 0
     ELSE UNCHANGED <<generation, flags, notice, pass, target, left>>
  /\ UNCHANGED <<transport, objects, stopped, reloads, crashVars>>

\* An object raises in update or on_game_state_changed; the fan-out goes on.
ObjectFails ==
  /\ at \in {"drive", "dispatch"} /\ objects > 0 /\ ~stopped
  /\ \E framework \in BOOLEAN :
       /\ Fail(framework)
       /\ objects' = IF framework THEN 0 ELSE objects - 1
  /\ UNCHANGED <<at, left, crashVars>>

DriveEnds ==
  /\ at = "drive"
  /\ at' = "remind"
  /\ UNCHANGED <<notice, transport, passVars, crashVars>>

\* Fault variant: an update that ends with no generation up leaves it out.
RemindWhenDone ==
  /\ at = "remind"
  /\ at' = "engine"
  /\ notice' = IF "done" \in flags
               THEN Reminded(notice, Reminder, "frame", transport) ELSE notice
  /\ UNCHANGED <<transport, passVars, crashVars>>

\* The last call of update, on both its ways out.
Remind ==
  /\ at = "remind"
  /\ at' = "engine"
  /\ notice' = Reminded(notice, Reminder, "frame", transport)
  /\ UNCHANGED <<transport, passVars, crashVars>>

\* on_game_state_changed, where it is not suppressed.
StateChanged(status) ==
  /\ at = "engine"
  /\ "done" \in flags \/ pass = "initial"
  /\ notice' = IF status = "enter"
               THEN Reminded(notice, StateEnter, "enter", transport) ELSE notice
  /\ at' = IF stopped THEN "engine" ELSE "dispatch"
  /\ UNCHANGED <<transport, passVars, crashVars>>

DispatchEnds ==
  /\ at = "dispatch"
  /\ at' = "engine"
  /\ UNCHANGED <<notice, transport, passVars, crashVars>>

\* destroy: no pass, no replay and no object are left, the notices are.
Destroy ==
  /\ at = "engine" /\ "destroyed" \notin flags
  /\ flags' = (flags \ {"replaying"}) \cup {"destroyed"}
  /\ pass' = None /\ target' = 0 /\ left' = 0 /\ objects' = 0
  /\ UNCHANGED <<notice, transport, at, generation, stopped, reloads, crashVars>>

\* The engine sets up or takes down its event manager, or it begins to raise.
TransportChanges ==
  /\ transport' = ~transport
  /\ UNCHANGED <<notice, at, passVars, crashVars>>

\* One update of the engine.
Frame(dt) ==
  \/ Teardown(dt)
  \/ \E entries \in 0 .. MaxEntries : BeginPass(dt, entries)
  \/ Update(dt)

Inside == LoadEntry \/ InitFails \/ Settle \/ DriveEnds \/ Remind \/ DispatchEnds

Next ==
  \/ Request
  \/ \E dt \in Steps : Frame(dt)
  \/ Inside
  \/ ObjectFails
  \/ \E status \in {"enter", "exit"} : StateChanged(status)
  \/ Destroy
  \/ TransportChanges

Spec == Init /\ [][Next]_vars

\* The engine goes on updating the manager, with updates that add to its clock
\* among them; a handler the engine has entered returns.
Fairness ==
  /\ SF_vars(\E dt \in Steps \ {0} : Frame(dt))
  /\ WF_vars(Inside)

FairSpec == Spec /\ Fairness

-----------------------------------------------------------------------------
(***************************************************************************)
(* Properties.                                                             *)
(***************************************************************************)

TypeOK ==
  /\ notice.latched \subseteq 1 .. MaxReloads + 1
  /\ notice.unheard \subseteq notice.latched
  /\ notice.since \in {None} \cup 0 .. Reminder
  /\ transport \in BOOLEAN
  /\ at \in {"engine", "load", "settle", "drive", "remind", "dispatch"}
  /\ pass \in {None, "initial", "reload"} /\ left \in 0 .. MaxEntries
  /\ target \in 0 .. MaxReloads + 1 /\ generation \in 0 .. MaxReloads + 1
  /\ objects \in 0 .. MaxEntries
  /\ stopped \in BOOLEAN /\ disabled \in BOOLEAN /\ spoiled \in BOOLEAN
  /\ flags \subseteq {"requested", "replaying", "started", "done", "destroyed"}
  /\ keys \in Seq(ModNames)
  /\ properties \subseteq ModNames /\ accepted \subseteq ModNames

\* No two notices that are not about a new failure come closer than the
\* intervals allow, through reloads that forget some failures and the date of
\* the last attempt with them: at least StateEnter apart on a state change, and
\* Reminder on an update.
RemindersAreSpaced ==
  /\ notice.attempt.kind = "enter" => notice.attempt.gap >= StateEnter
  /\ notice.attempt.kind = "frame" => notice.attempt.gap >= Reminder

\* While a failure is latched, a notice has been tried within the interval,
\* whatever the manager is doing: reloading, replaying, stopped or destroyed.
NeverSilentForLong ==
  at = "engine" /\ notice.latched # {} =>
    notice.since # None /\ notice.since < Reminder

\* A failure record goes only when a reload completes, and only one of a
\* generation before it: the replacement's own failures stay.
NoticesOutliveTheReload ==
  [][\A g \in notice.latched \ notice'.latched :
       pass = "reload" /\ pass' = None /\ g < generation']_vars

\* A failure that no notice could tell of is told, or forgotten by a reload,
\* once the event manager stays up.
ToldInTheEnd ==
  <>[]transport => (notice.unheard # {} ~> notice.unheard = {})

\* Crashify holds what this generation published: all of it unless a call failed
\* in this generation, and nothing else unless one has ever failed.  The
\* tracked keys are among it, each once.
CrashReportIsCurrent ==
  /\ ~disabled => accepted \subseteq properties
  /\ ~spoiled => properties \subseteq accepted
  /\ ToSet(keys) \subseteq properties
  /\ \A i, j \in DOMAIN keys : keys[i] = keys[j] => i = j
===============================================================================
