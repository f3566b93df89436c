------------------------------ MODULE ModManager ------------------------------
(***************************************************************************)
(* Relay's built-in mod manager (mod_loader/mod_manager.lua): the staged   *)
(* load pass, the per-frame drive, one-strike failure containment,         *)
(* exactly-once cleanup, hot reload and destroy, with the DMF-visible      *)
(* fields the manager writes through dmf_adapter.lua.                      *)
(*                                                                         *)
(* The manager runs on one thread and is entered by the engine, through    *)
(* update, on_game_state_changed and destroy.  Inside those handlers it    *)
(* calls mod code (run, init, update, ...), which may return, raise, and   *)
(* ask for a reload before it does.  A step of this specification is the   *)
(* manager's code between two such calls: `pc' names the mod callback that *)
(* is executing, or the part of the manager's code that runs next.         *)
(*                                                                         *)
(* Left out: log lines, alerts and their clock, Crashify keys and the      *)
(* stage stamp.  They read this state and are never read back by it.       *)
(***************************************************************************)
EXTENDS Integers, Sequences, FiniteSets

CONSTANTS
  Names,          \* the names mods.lst can list
  Framework,      \* the name of the framework boundary, "dmf" in the code
  Orders,         \* the contents mods.lst may have, sequences of names
  DirectField,    \* may mod code set _reload_requested without the seam?
  MaxRequests     \* bound: reload requests accepted in a behaviour

ASSUME ConstantsAssumption ==
  /\ Framework \in Names
  /\ Orders \subseteq Seq(Names)
  /\ DirectField \in BOOLEAN
  /\ MaxRequests \in Nat

VARIABLES
  mods,             \* _mods: the entries of the current scan
  modsLoaded,       \* _mods_loaded: the initial pass has been anchored
  cursor,           \* _load_cursor: nil (no pass), 0 (anchor), or the entry
  passKind,         \* _pass_kind
  passErrors,       \* _pass_had_errors
  target,           \* _load_target_generation, 0 for nil
  generation,       \* _generation
  stopPass,         \* _stop_load_pass
  genFailed,        \* _generation_failed
  globalsRetired,   \* _generation_globals_retired
  requested,        \* _reload_requested
  inProgress,       \* _reload_in_progress
  degraded,         \* _reload_degraded
  reloadData,       \* _reload_data: name -> the object that returned the data
  report,           \* how the last completed reload was reported
  queue,            \* _cleanup_queue: entries whose on_unload is owed
  records,          \* _failure_records
  loadDone,         \* _state = "done"
  loadIndex,        \* _mod_load_index, 0 for nil
  dmfGlobals,       \* any of DMFMod, new_mod and get_mod is defined
  pc,               \* the callback executing, or the code that runs next
  ret,              \* where the manager continues after _drain_cleanup
  idx,              \* the entry a forward loop over _mods has reached
  event,            \* which callback the fan-out forwards
  batch,            \* the queue _drain_cleanup took and is working off
  nobj,             \* history: objects the run() calls have returned
  gone,             \* history: objects whose on_unload was called
  base,             \* history: nobj when the last teardown began
  floor,            \* history: nobj when the teardown before that began
  settled,          \* history: nobj when the last teardown of a finished pass began
  survived,         \* history: the globals outlived a retirement that raised
  raised,           \* history: this reload met an error it must report
  destroyed,        \* history: destroy() was called
  requests          \* history: reload requests so far

entryVars   == <<mods, queue, records>>
passVars    == <<cursor, passKind, passErrors, target, generation, modsLoaded>>
stopVars    == <<stopPass, genFailed>>
globalVars  == <<globalsRetired, dmfGlobals, survived>>
reloadVars  == <<inProgress, degraded, reloadData, report, raised>>
adapterVars == <<loadDone, loadIndex>>
loopVars    == <<idx, event>>
objectVars  == <<nobj, gone>>
eraVars     == <<base, floor, settled>>
askVars     == <<requested, requests>>
fieldVars   == <<entryVars, passVars, stopVars, globalVars, reloadVars,
                 adapterVars>>
historyVars == <<objectVars, eraVars, askVars, destroyed>>
vars == <<fieldVars, historyVars, loopVars, pc, ret, batch>>

-------------------------------------------------------------------------------
(* Entries, objects and their cleanup.                                     *)

Nil   == -1     \* _load_cursor when no pass is open
NoObj == 0      \* no object; objects are numbered in the order run() made them

Entry(name) ==
  [name |-> name, state |-> "not_loaded", object |-> NoObj, failed |-> FALSE,
   claimed |-> FALSE, cleanup |-> NoObj, done |-> FALSE]

Scan(order) == [i \in 1..Len(order) |-> Entry(order[i])]

\* What _scan_mods can find: a readable list, or none.
ScanResults == {Scan(order) : order \in Orders} \cup {<<>>}

NoData == [n \in Names |-> NoObj]

Attached == {i \in DOMAIN mods : mods[i].object # NoObj}

\* Does entry i come first among the attached entries from k on?
NextAttached(k, i) ==
  /\ i \in Attached
  /\ i >= k
  /\ \A j \in Attached : j >= k => i <= j

\* Fault variant: the object stays attached.
ClaimAttached(e) ==
  IF e.object = NoObj \/ e.claimed
  THEN e ELSE [e EXCEPT !.claimed = TRUE, !.cleanup = e.object]

\* Detach an entry's object and claim its cleanup, if nothing has yet.
Claim(e) ==
  IF e.object = NoObj \/ e.claimed
  THEN [e EXCEPT !.object = NoObj]
  ELSE [e EXCEPT !.object = NoObj, !.claimed = TRUE, !.cleanup = e.object]

After(S, i) == {j \in S : j > i}

\* Fault variant: the loop misses the first entry.
AllButOne(S) ==
  [k \in 1..(Cardinality(S) - 1) |->
     CHOOSE i \in S : Cardinality(After(S, i)) = k - 1]

\* Fault variant: in load order.
Ascending(S) ==
  [k \in 1..Cardinality(S) |->
     CHOOSE i \in S : Cardinality(After(S, i)) = Cardinality(S) - k]

\* A set of entry numbers as a sequence, last entry first.
Descending(S) ==
  [k \in 1..Cardinality(S) |->
     CHOOSE i \in S : Cardinality(After(S, i)) = k - 1]

\* _queue_cleanup for every attached entry, in reverse load order.
DetachAll ==
  /\ mods' = [i \in DOMAIN mods |-> Claim(mods[i])]
  /\ queue' = queue \o Descending({i \in Attached : ~mods[i].claimed})

ActiveGeneration ==
  IF target # 0 THEN target ELSE IF generation > 0 THEN generation ELSE 1

Record(i) ==
  [object |-> mods[i].object, generation |-> ActiveGeneration,
   framework |-> mods[i].name = Framework]

\* Fault variant: the failed entry keeps its object.
DisableAttached(i) ==
  /\ mods' = [mods EXCEPT ![i] =
                [ClaimAttached(@) EXCEPT !.state = "disabled", !.failed = TRUE]]
  /\ queue' = IF mods[i].claimed THEN queue ELSE Append(queue, i)
  /\ UNCHANGED stopVars

\* A standalone entry failed: detach it and owe it one on_unload.
Disable(i) ==
  /\ mods' = [mods EXCEPT ![i] =
                [Claim(@) EXCEPT !.state = "disabled", !.failed = TRUE]]
  /\ queue' = IF mods[i].claimed THEN queue ELSE Append(queue, i)
  /\ UNCHANGED stopVars

\* The framework failed in entry f: stop every entry of the generation and
\* rebuild the cleanup queue in reverse load order.
Stopped(i, f) ==
  LET state == mods[i].state
  IN CASE i = f                                         -> "disabled"
       [] mods[i].object # NoObj /\ state # "disabled"  -> "stopped"
       [] mods[i].object = NoObj /\ state = "not_loaded" -> "skipped"
       [] OTHER                                         -> state

StopGeneration(f) ==
  /\ mods' = [i \in DOMAIN mods |->
                [Claim(mods[i]) EXCEPT !.state = Stopped(i, f),
                                       !.failed = @ \/ i = f]]
  /\ queue' = Descending({i \in DOMAIN mods :
                            /\ ~mods[i].done
                            /\ \/ mods[i].object # NoObj
                               \/ mods[i].claimed /\ mods[i].cleanup # NoObj})
  /\ stopPass' = TRUE
  /\ genFailed' = TRUE

\* An escaped init, update or on_game_state_changed: one strike per entry.
HandleLifecycleFailure(i) ==
  IF mods[i].failed
  THEN UNCHANGED <<entryVars, stopVars>>
  ELSE /\ records' = records \cup {Record(i)}
       /\ IF mods[i].name = Framework THEN StopGeneration(i) ELSE Disable(i)

\* Does the retirement run, and raise?  A flag that the next load pass clears
\* lets it run once per generation.
RetirementRaises(ok) == ~globalsRetired /\ ~ok

\* The flag is set first, so what a raising retirement leaves defined is not
\* retired again before the next pass.
RetireGenerationGlobals(ok) ==
  /\ globalsRetired' = TRUE
  /\ dmfGlobals' = (dmfGlobals /\ (globalsRetired \/ RetirementRaises(ok)))
  /\ survived' = (dmfGlobals /\ (survived \/ RetirementRaises(ok)))

\* Fault variant: the DMF-visible index survives the pass.
ClosePassKeepsIndex ==
  /\ cursor' = Nil
  /\ passKind' = "none"
  /\ passErrors' = FALSE
  /\ target' = 0
  /\ UNCHANGED loadIndex

\* Every way a pass ends drops its bookkeeping and the DMF-visible index.
ClosePass ==
  /\ cursor' = Nil
  /\ passKind' = "none"
  /\ passErrors' = FALSE
  /\ target' = 0
  /\ loadIndex' = 0

-------------------------------------------------------------------------------
(* Initial state: the manager has scanned mods.lst and loaded nothing.     *)

Init ==
  /\ mods \in ScanResults
  /\ modsLoaded = FALSE
  /\ cursor = Nil
  /\ passKind = "none"
  /\ passErrors = FALSE
  /\ target = 0
  /\ generation = 0
  /\ stopPass = FALSE
  /\ genFailed = FALSE
  /\ globalsRetired = FALSE
  /\ requested = FALSE
  /\ inProgress = FALSE
  /\ degraded = FALSE
  /\ reloadData = NoData
  /\ report = "none"
  /\ queue = <<>>
  /\ records = {}
  /\ loadDone = FALSE
  /\ loadIndex = 0
  /\ dmfGlobals = FALSE
  /\ pc = "idle"
  /\ ret = "idle"
  /\ idx = 1
  /\ event = "update"
  /\ batch = <<>>
  /\ nobj = 0
  /\ gone = {}
  /\ base = 0
  /\ floor = 0
  /\ settled = 0
  /\ survived = FALSE
  /\ raised = FALSE
  /\ destroyed = FALSE
  /\ requests = 0

-------------------------------------------------------------------------------
(* Reload requests, from the engine between two handlers (keyboard, DMF    *)
(* views) and from mod code inside a callback.                             *)

Callbacks == {"run", "init", "update", "gsc", "on_reload", "on_unload"}

\* Some mod code has been executed, so it may be running on its own hooks.
ModCodeRan ==
  \/ generation > 0
  \/ inProgress
  \/ \E i \in DOMAIN mods : mods[i].state # "not_loaded"
  \/ pc \in Callbacks

Ask ==
  /\ requests < MaxRequests
  /\ requested' = TRUE
  /\ requests' = requests + 1
  /\ UNCHANGED <<fieldVars, loopVars, objectVars, eraVars, pc, ret, batch,
                 destroyed>>

\* request_reload accepted; the keyboard shortcut goes through it too.
RequestReload ==
  /\ pc \in Callbacks \cup {"idle"}
  /\ loadDone
  /\ ~requested
  /\ ~inProgress
  /\ Ask

\* The legacy path: mod code sets _reload_requested = true by itself.
SetReloadRequested ==
  /\ DirectField
  /\ pc \in Callbacks \cup {"idle"}
  /\ ModCodeRan
  /\ ~requested
  /\ Ask

-------------------------------------------------------------------------------
(* _drain_cleanup: take the queue, call on_unload once per entry, and       *)
(* continue at `ret'.                                                       *)

\* The locals of a finished loop go out of scope.
LeaveLoop == idx' = 1 /\ event' = "update"

\* Fault variant: the handler forgets to drain.
SkipDrain(continuation) ==
  /\ pc' = continuation
  /\ ret' = continuation

DrainCleanup(continuation) ==
  /\ pc' = "drain"
  /\ ret' = continuation

\* Fault variant: the queue is not replaced by an empty one.
TakeQueueAndKeepIt ==
  /\ pc = "drain"
  /\ pc' = "draining"
  /\ batch' = queue
  /\ UNCHANGED <<historyVars, fieldVars, loopVars, ret>>

TakeQueue ==
  /\ pc = "drain"
  /\ pc' = "draining"
  /\ batch' = queue
  /\ queue' = <<>>
  /\ UNCHANGED <<historyVars, mods, records, passVars, stopVars, globalVars,
                 reloadVars, adapterVars, loopVars, ret>>

CallOnUnload ==
  /\ pc = "draining"
  /\ batch # <<>>
  /\ LET i == Head(batch) IN
       IF mods[i].done
       THEN /\ mods' = [mods EXCEPT ![i].cleanup = NoObj]
            /\ batch' = Tail(batch)
            /\ UNCHANGED <<pc, gone>>
       ELSE /\ mods' = [mods EXCEPT ![i].done = TRUE]
            /\ gone' = gone \cup {mods[i].cleanup}
            /\ pc' = "on_unload"
            /\ UNCHANGED batch
  /\ UNCHANGED <<queue, records, passVars, stopVars, globalVars, reloadVars,
                 adapterVars, loopVars, nobj, eraVars, askVars, ret,
                 destroyed>>

\* Only the drain of a teardown counts an error against the reload.
OnUnloadReturns(ok) ==
  /\ pc = "on_unload"
  /\ pc' = "draining"
  /\ mods' = [mods EXCEPT ![Head(batch)].cleanup = NoObj]
  /\ batch' = Tail(batch)
  /\ degraded' = (degraded \/ (~ok /\ ret = "rescan"))
  /\ raised' = (raised \/ (~ok /\ ret = "rescan"))
  /\ UNCHANGED <<historyVars, queue, records, passVars, stopVars, globalVars,
                 inProgress, reloadData, report, adapterVars, loopVars, ret>>

DrainEnds ==
  /\ pc = "draining"
  /\ batch = <<>>
  /\ pc' = ret
  /\ UNCHANGED <<historyVars, fieldVars, loopVars, ret, batch>>

-------------------------------------------------------------------------------
(* update() with a reload pending: the teardown frame.                     *)

\* Fault variant: data of an aborted replay survives.
ForgetErrorsOnly ==
  degraded' = FALSE /\ raised' = FALSE /\ UNCHANGED reloadData

\* A reload starts without errors and without data.
ForgetReload ==
  degraded' = FALSE /\ raised' = FALSE /\ reloadData' = NoData

UpdateTeardown ==
  /\ pc = "idle"
  /\ requested
  /\ requested' = FALSE
  /\ ClosePass
  /\ loadDone' = FALSE
  /\ ForgetReload
  /\ base' = nobj
  /\ floor' = base
  /\ settled' = IF loadDone THEN nobj ELSE settled
  /\ DrainCleanup("forward")
  /\ UNCHANGED <<entryVars, generation, modsLoaded, stopVars, globalVars,
                 inProgress, report, loopVars, objectVars, requests, batch,
                 destroyed>>

CallOnReload ==
  /\ pc = "forward"
  /\ \E i \in Attached : NextAttached(idx, i) /\ idx' = i
  /\ pc' = "on_reload"
  /\ UNCHANGED <<historyVars, fieldVars, event, ret, batch>>

\* on_reload returned data or nil, is not implemented, or raised.
OnReloadReturns(outcome) ==
  /\ pc = "on_reload"
  /\ pc' = "forward"
  /\ idx' = idx + 1
  /\ LET name == mods[idx].name
     IN  reloadData' = CASE outcome = "data" ->
                              [reloadData EXCEPT ![name] = mods[idx].object]
                         [] outcome = "nil"  ->
                              [reloadData EXCEPT ![name] = NoObj]
                         [] OTHER            -> reloadData
  /\ degraded' = (degraded \/ outcome = "error")
  /\ raised' = (raised \/ outcome = "error")
  /\ UNCHANGED <<historyVars, entryVars, passVars, stopVars, globalVars,
                 inProgress, report, adapterVars, event, ret, batch>>

TeardownDetach ==
  /\ pc = "forward"
  /\ \A i \in Attached : i < idx
  /\ DetachAll
  /\ LeaveLoop
  /\ DrainCleanup("rescan")
  /\ UNCHANGED <<historyVars, records, passVars, stopVars, globalVars,
                 reloadVars, adapterVars, batch>>

\* The globals are retired and the list is read again: a missing list loads
\* nothing, and it and a retirement that raises count against the reload.
Rescan(order, readable, retired) ==
  /\ pc = "rescan"
  /\ pc' = "idle"
  /\ RetireGenerationGlobals(retired)
  /\ mods' = IF readable THEN Scan(order) ELSE <<>>
  /\ degraded' = (degraded \/ ~readable \/ RetirementRaises(retired))
  /\ raised' = (raised \/ ~readable \/ RetirementRaises(retired))
  /\ inProgress' = TRUE
  /\ UNCHANGED <<historyVars, queue, records, passVars, stopVars, reloadData,
                 report, adapterVars, loopVars, ret, batch>>

-------------------------------------------------------------------------------
(* update() otherwise: at most one step of the load pass, then the drive.  *)

\* Fault variant: globals once retired are never retired again.
ResumeKeepsRetired ==
  stopPass' = FALSE /\ genFailed' = FALSE /\ UNCHANGED globalsRetired

\* A new pass forgets the stop of the generation before it.
Resume ==
  stopPass' = FALSE /\ genFailed' = FALSE /\ globalsRetired' = FALSE

NewPass(kind, generationOfPass) ==
  /\ cursor' = 0
  /\ passKind' = kind
  /\ passErrors' = FALSE
  /\ target' = generationOfPass
  /\ Resume

ReplacementDue == inProgress /\ cursor = Nil

\* _begin_load_pass on the anchor update, for either kind of pass.
UpdateAnchor ==
  /\ pc = "idle"
  /\ ~requested
  /\ \/ /\ ReplacementDue
        /\ NewPass("reload", generation + 1)
        /\ UNCHANGED modsLoaded
     \/ /\ ~ReplacementDue
        /\ ~modsLoaded
        /\ modsLoaded' = TRUE
        /\ NewPass("initial", 1)
  /\ pc' = "advance"
  /\ UNCHANGED <<historyVars, entryVars, generation, dmfGlobals, survived,
                 reloadVars, adapterVars, loopVars, ret, batch>>

PassOpen == cursor # Nil

\* An update of an open pass: load the cursor's entry, unless a drive-time
\* framework failure stopped the pass.
UpdateLoad ==
  /\ pc = "idle"
  /\ ~requested
  /\ modsLoaded
  /\ PassOpen
  /\ IF stopPass
     THEN /\ pc' = "advance"
          /\ UNCHANGED <<loadIndex, dmfGlobals, survived>>
     ELSE /\ pc' = "run"
          /\ loadIndex' = cursor
          /\ dmfGlobals' = (dmfGlobals \/ mods[cursor].name = Framework)
          /\ survived' = (survived /\ mods[cursor].name # Framework)
  /\ UNCHANGED <<historyVars, entryVars, passVars, stopVars, globalsRetired,
                 reloadVars, loadDone, loopVars, ret, batch>>

UpdateDrive ==
  /\ pc = "idle"
  /\ ~requested
  /\ modsLoaded
  /\ ~inProgress
  /\ ~PassOpen
  /\ pc' = "drive"
  /\ UNCHANGED <<historyVars, fieldVars, loopVars, ret, batch>>

\* _load_one without an outer object: the mod is DMF-driven, or its
\* descriptor, run() or result is bad.
RunReturnsNoObject(ok) ==
  /\ pc = "run"
  /\ mods' = [mods EXCEPT ![cursor].state = IF ok THEN "dmf_driven" ELSE "failed",
                          ![cursor].object = IF ok THEN @ ELSE NoObj]
  /\ passErrors' = (passErrors \/ ~ok)
  /\ raised' = (raised \/ ~ok)
  /\ DrainCleanup("loaded")
  /\ UNCHANGED <<historyVars, queue, records, cursor, passKind, target,
                 generation, modsLoaded, stopVars, globalVars, inProgress,
                 degraded, reloadData, report, adapterVars, loopVars, batch>>

RunReturnsObject ==
  /\ pc = "run"
  /\ pc' = "init"
  /\ nobj' = nobj + 1
  /\ mods' = [mods EXCEPT ![cursor].object = nobj + 1,
                          ![cursor].state = "running"]
  /\ UNCHANGED <<queue, records, passVars, stopVars, globalVars, reloadVars,
                 adapterVars, loopVars, gone, eraVars, askVars, ret, batch,
                 destroyed>>

\* An error raised past _load_one's own containment.
LoadEscapes ==
  /\ pc = "run"
  /\ pc' = "escape"
  /\ raised' = TRUE
  /\ UNCHANGED <<historyVars, entryVars, passVars, stopVars, globalVars,
                 inProgress, degraded, reloadData, report, adapterVars,
                 loopVars, ret, batch>>

InitReturns ==
  /\ pc = "init"
  /\ DrainCleanup("loaded")
  /\ UNCHANGED <<historyVars, fieldVars, loopVars, batch>>

InitRaises ==
  /\ pc = "init"
  /\ HandleLifecycleFailure(cursor)
  /\ passErrors' = TRUE
  /\ raised' = TRUE
  /\ DrainCleanup("loaded")
  /\ UNCHANGED <<historyVars, cursor, passKind, target, generation, modsLoaded,
                 globalVars, inProgress, degraded, reloadData, report,
                 adapterVars, loopVars, batch>>

\* The end of _load_pass_entry: a stopped generation drains once more.
EntryLoaded ==
  /\ pc = "loaded"
  /\ IF genFailed
     THEN DrainCleanup("stopped")
     ELSE pc' = "advance" /\ UNCHANGED ret
  /\ UNCHANGED <<historyVars, fieldVars, loopVars, batch>>

EntryStopped(retired) ==
  /\ pc = "stopped"
  /\ pc' = "advance"
  /\ RetireGenerationGlobals(retired)
  /\ UNCHANGED <<historyVars, entryVars, passVars, stopVars, reloadVars,
                 adapterVars, loopVars, ret, batch>>

\* Fault variant: a failed entry is tried again on the next update.
RetryFailedEntry == IF passErrors THEN cursor ELSE cursor + 1

\* Every entry burns exactly one update, also when it failed.
NextCursor == cursor + 1

\* Fault variant: off by one.
CompleteOneEarly == pc = "escape" \/ stopPass \/ NextCursor >= Len(mods)

\* A pass completes when stopped, when the list is exhausted or on an escape.
PassComplete == pc = "escape" \/ stopPass \/ NextCursor > Len(mods)

AdvanceCursor ==
  /\ pc \in {"advance", "escape"}
  /\ ~PassComplete
  /\ cursor' = NextCursor
  /\ pc' = "drive"
  /\ UNCHANGED <<historyVars, entryVars, passKind, passErrors, target,
                 generation, modsLoaded, stopVars, globalVars, reloadVars,
                 adapterVars, loopVars, ret, batch>>

\* Fault variant: load errors of the pass are not counted.
IgnoreLoadErrors == degraded \/ pc = "escape" \/ genFailed

\* Every error source the completion report reads.
CompletedWithErrors == degraded \/ passErrors \/ pc = "escape" \/ genFailed

\* Fault variant: failures of the previous generation survive, too.
PreviousAlsoLatched(r) == r.generation >= generation

\* The failure records that outlive a completed reload.
StillLatched(r) == r.generation >= target

\* What finalizing a replacement pass settles besides the pass itself.
SettleReload ==
  /\ inProgress' = FALSE
  /\ reloadData' = NoData
  /\ report' = IF CompletedWithErrors THEN "errors" ELSE "clean"
  /\ degraded' = FALSE
  /\ records' = {r \in records : StillLatched(r)}

FinalizeLoadPass ==
  /\ pc \in {"advance", "escape"}
  /\ PassComplete
  /\ mods' = [i \in DOMAIN mods |->
                IF stopPass /\ mods[i].state = "not_loaded"
                THEN [mods[i] EXCEPT !.state = "skipped"] ELSE mods[i]]
  /\ ClosePass
  /\ loadDone' = TRUE
  /\ generation' = target
  /\ IF passKind = "reload"
     THEN SettleReload
     ELSE UNCHANGED <<inProgress, reloadData, report, degraded, records>>
  /\ pc' = "drive"
  /\ UNCHANGED <<historyVars, queue, modsLoaded, stopVars, globalVars, raised,
                 loopVars, ret, batch>>

-------------------------------------------------------------------------------
(* Driving callbacks to the attached objects: _drive_update and            *)
(* on_game_state_changed share their loop.                                 *)

FanOut(callback) ==
  /\ pc' = "fan"
  /\ event' = callback
  /\ idx' = 1
  /\ UNCHANGED ret

Dispatch(callback) ==
  /\ IF genFailed
     THEN DrainCleanup("idle") /\ UNCHANGED loopVars
     ELSE FanOut(callback)
  /\ UNCHANGED <<historyVars, fieldVars, batch>>

DriveUpdate == pc = "drive" /\ Dispatch("update")

\* Suppressed, with no effect here, unless the manager is done or its initial
\* pass is open.
GameStateChanged ==
  /\ pc = "idle"
  /\ loadDone \/ (PassOpen /\ passKind = "initial")
  /\ Dispatch("gsc")

CallEntry ==
  /\ pc = "fan"
  /\ ~genFailed
  /\ \E i \in Attached : NextAttached(idx, i) /\ idx' = i
  /\ pc' = event
  /\ UNCHANGED <<historyVars, fieldVars, event, ret, batch>>

CallbackReturns ==
  /\ pc \in {"update", "gsc"}
  /\ pc' = "fan"
  /\ idx' = idx + 1
  /\ UNCHANGED <<historyVars, fieldVars, event, ret, batch>>

CallbackRaises ==
  /\ pc \in {"update", "gsc"}
  /\ HandleLifecycleFailure(idx)
  /\ pc' = "fan"
  /\ idx' = idx + 1
  /\ UNCHANGED <<historyVars, passVars, globalVars, reloadVars, adapterVars,
                 event, ret, batch>>

\* Every attached entry was called, or the framework stopped the generation.
FanOutEnds ==
  /\ pc = "fan"
  /\ genFailed \/ \A i \in Attached : i < idx
  /\ LeaveLoop
  /\ DrainCleanup("settle")
  /\ UNCHANGED <<historyVars, fieldVars, batch>>

Settle(retired) ==
  /\ pc = "settle"
  /\ pc' = "idle"
  /\ IF genFailed THEN RetireGenerationGlobals(retired) ELSE UNCHANGED globalVars
  /\ UNCHANGED <<historyVars, entryVars, passVars, stopVars, reloadVars,
                 adapterVars, loopVars, ret, batch>>

-------------------------------------------------------------------------------
(* destroy(): settle any open pass without completing it, then unload.     *)

Destroy ==
  /\ pc = "idle"
  /\ ClosePass
  /\ inProgress' = FALSE
  /\ reloadData' = NoData
  /\ destroyed' = TRUE
  /\ DrainCleanup("detach")
  /\ UNCHANGED <<entryVars, generation, modsLoaded, stopVars, globalVars,
                 degraded, report, raised, loadDone, loopVars, objectVars,
                 eraVars, askVars, batch>>

DestroyDetach ==
  /\ pc = "detach"
  /\ DetachAll
  /\ DrainCleanup("idle")
  /\ UNCHANGED <<historyVars, records, passVars, stopVars, globalVars,
                 reloadVars, adapterVars, loopVars, batch>>

-------------------------------------------------------------------------------
(* The specification.                                                      *)

Update == UpdateTeardown \/ UpdateAnchor \/ UpdateLoad \/ UpdateDrive

Manager ==
  \/ TakeQueue \/ CallOnUnload \/ DrainEnds
  \/ CallOnReload \/ TeardownDetach
  \/ \E order \in Orders, readable \in BOOLEAN, retired \in BOOLEAN :
       Rescan(order, readable, retired)
  \/ EntryLoaded \/ AdvanceCursor \/ FinalizeLoadPass
  \/ \E retired \in BOOLEAN : EntryStopped(retired) \/ Settle(retired)
  \/ DriveUpdate \/ CallEntry \/ FanOutEnds
  \/ DestroyDetach

ModCode ==
  \/ \E ok \in BOOLEAN : OnUnloadReturns(ok) \/ RunReturnsNoObject(ok)
  \/ \E outcome \in {"data", "nil", "absent", "error"} : OnReloadReturns(outcome)
  \/ RunReturnsObject \/ LoadEscapes
  \/ InitReturns \/ InitRaises
  \/ CallbackReturns \/ CallbackRaises

Next ==
  \/ RequestReload \/ SetReloadRequested
  \/ Update \/ GameStateChanged \/ Destroy
  \/ Manager \/ ModCode

Spec == Init /\ [][Next]_vars

\* The manager's own code runs to the end of a handler, a mod's callback
\* returns or raises, and the engine updates the manager every frame until it
\* destroys it.
Fairness ==
  /\ WF_vars(Manager \/ ModCode)
  /\ SF_vars(~destroyed /\ Update)

FairSpec == Spec /\ Fairness

-------------------------------------------------------------------------------
(* Correctness.                                                            *)

EntryStates == {"not_loaded", "running", "dmf_driven", "failed", "disabled",
                "stopped", "skipped"}
Entries ==
  [name : Names, state : EntryStates, object : Nat, failed : BOOLEAN,
   claimed : BOOLEAN, cleanup : Nat, done : BOOLEAN]
Controls == Callbacks \cup {"idle", "drain", "draining", "forward", "rescan",
              "loaded", "stopped", "settle", "advance", "escape", "drive",
              "fan", "detach"}
Continuations == {"idle", "forward", "rescan", "loaded", "stopped", "settle",
                  "detach"}

EntriesOK ==
  /\ mods \in Seq(Entries)
  /\ queue \in Seq(DOMAIN mods)
  /\ batch \in Seq(DOMAIN mods)
  /\ records \subseteq [object : Nat, generation : Nat, framework : BOOLEAN]

FieldsOK ==
  /\ cursor \in Nat \cup {Nil}
  /\ passKind \in {"none", "initial", "reload"}
  /\ passErrors \in BOOLEAN
  /\ modsLoaded \in BOOLEAN
  /\ target \in Nat
  /\ generation \in Nat
  /\ stopPass \in BOOLEAN
  /\ genFailed \in BOOLEAN
  /\ globalsRetired \in BOOLEAN
  /\ dmfGlobals \in BOOLEAN
  /\ survived \in BOOLEAN
  /\ loadDone \in BOOLEAN
  /\ loadIndex \in Nat

ReloadOK ==
  /\ requested \in BOOLEAN
  /\ inProgress \in BOOLEAN
  /\ degraded \in BOOLEAN
  /\ reloadData \in [Names -> Nat]
  /\ report \in {"none", "clean", "errors"}

ControlOK ==
  /\ pc \in Controls
  /\ ret \in Continuations
  /\ idx \in Nat
  /\ event \in {"update", "gsc"}

HistoryOK ==
  /\ nobj \in Nat
  /\ gone \subseteq 0..nobj
  /\ base \in Nat
  /\ floor \in Nat
  /\ settled \in Nat
  /\ raised \in BOOLEAN
  /\ destroyed \in BOOLEAN
  /\ requests \in Nat

TypeOK == EntriesOK /\ FieldsOK /\ ReloadOK /\ ControlOK /\ HistoryOK

\* The entry whose mod is executing a callback, and the object called.
CalledEntry ==
  CASE pc \in {"run", "init"}  -> cursor
    [] pc = "on_unload"        -> Head(batch)
    [] OTHER                   -> idx

CalledObject ==
  IF pc = "on_unload" THEN mods[CalledEntry].cleanup ELSE mods[CalledEntry].object

Driving == {"init", "update", "gsc"}

\* No callback reaches an object whose on_unload was called, whatever mixture
\* of failures, stops, reloads and destroys came before: every driving and
\* on_reload call finds a live object attached to its entry.
\* (_call_outer, _call_teardown)
NoCallAfterUnload ==
  pc \in Driving \cup {"on_reload"} =>
    /\ CalledObject \in 1..nobj
    /\ CalledObject \notin gone

\* on_unload is called on an object that exists and never had it called before:
\* failure, framework stop, teardown and destroy never unload one object twice.
\* (_queue_cleanup, _rebuild_framework_cleanup_queue, _drain_cleanup)
UnloadOnce ==
  [][pc' = "on_unload" /\ pc # "on_unload" =>
       /\ CalledObject' \in 1..nobj
       /\ CalledObject' \notin gone]_vars

\* Between two handlers every object that run() ever returned is either
\* attached to its entry or was unloaded: no handler ends with cleanup owed.
NothingOwedAtRest ==
  pc = "idle" =>
    /\ queue = <<>>
    /\ 1..nobj = gone \cup {mods[i].object : i \in Attached}
    /\ \A i \in Attached : mods[i].object \notin gone

\* A teardown unloads every object of the old generation before mods.lst is
\* read again, the one moment a forgotten object would be lost.
OldGenerationUnloaded == pc = "rescan" => gone = 1..nobj

\* An escaped error of the framework ends its generation: until the next pass
\* begins no entry is loaded or driven and no object stays attached.
\* (_handle_lifecycle_failure, _advance_load_pass, _drive_update)
StoppedGenerationIsSilent ==
  genFailed =>
    /\ pc \notin Driving \cup {"run", "on_reload"}
    /\ Attached = {}

\* An entry that failed once is detached for good: its object is never driven
\* again, although the entry stays in _mods for the rest of the generation.
OneStrike ==
  \A i \in Attached : /\ ~mods[i].failed
                      /\ ~mods[i].claimed
                      /\ mods[i].state = "running"

\* Teardown, destroy and a framework stop unload in reverse load order, also
\* when a standalone failure had queued its entry first.
ReverseOrder ==
  (genFailed \/ ret = "rescan" \/ (destroyed /\ ret = "idle")) =>
    \A s \in {queue, batch} :
      \A j, k \in 1..Len(s) : j < k => s[j] > s[k]

\* The pass bookkeeping and the fields DMF reads agree between handlers and
\* inside callbacks: an open pass has a kind, a target and a cursor inside the
\* list, the load index is that of an entry the pass has reached, and "done" is
\* never visible while a pass is open or a replacement is owed.
PassBracket ==
  pc \in Callbacks \cup {"idle"} =>
    /\ PassOpen <=> passKind # "none"
    /\ PassOpen <=> target # 0
    /\ PassOpen => cursor \in 1..Len(mods)
    /\ loadIndex # 0 => PassOpen /\ loadIndex \in {cursor, cursor - 1}
    /\ loadDone => ~PassOpen /\ ~inProgress
    /\ passKind = "reload" => inProgress
    /\ pc \in {"run", "init"} => loadIndex = cursor

\* The data a replacement may hand to init was returned by an object of the
\* generation the last teardown took down, never by an older one, although a
\* second request can interrupt the replay that was to deliver it.
DataFromLastTeardown ==
  \A n \in Names : reloadData[n] # NoObj =>
    /\ floor < reloadData[n]
    /\ reloadData[n] <= base

\* Retirement runs at most once between two passes, at a stop or at a teardown,
\* and its errors are caught: when a replacement pass is due, the DMF globals of
\* the generation before it are gone unless retiring just them was tried and
\* raised.  They are never left over because the one attempt came too early, or
\* belonged to an earlier generation.  (_retire_generation_globals)
OnlyAnErrorKeepsGlobals ==
  pc = "idle" /\ ReplacementDue /\ dmfGlobals => survived

\* "done" is published when, and only when, a pass ends, with the generation one
\* further and no entry left untried unless the load step itself escaped.
DonePublication ==
  [][/\ generation' # generation => generation' = generation + 1 /\ loadDone'
     /\ loadDone' /\ ~loadDone =>
          /\ generation' = generation + 1
          /\ pc = "escape" \/ \A i \in DOMAIN mods' : mods'[i].state # "not_loaded"]_vars

\* A reload reported clean met none of the errors that count against it: in its
\* last teardown on_reload, on_unload or the retirement of the globals raising or
\* mods.lst unreadable, and in its pass a load failing or escaping, or the
\* framework stopping.  A standalone mod that fails in the drive while the replay
\* goes on does not count, nor does a retirement that raised at an earlier stop.
CleanReportIsHonest ==
  [][passKind = "reload" /\ loadDone' /\ ~loadDone /\ report' = "clean" =>
       ~raised /\ ~genFailed]_vars

\* A finished pass leaves no failure of a generation that had finished before
\* it, however many replays were cut short in between.
\* (_prune_old_failure_records, _active_generation)
FinishedGenerationsForgotten ==
  loadDone => \A r \in records : r.object > settled

\* Notices end with the completed hot reload: a finished pass leaves only
\* failures of the objects it loaded itself.
CompletedReloadClearsFailures ==
  loadDone => \A r \in records : r.object > base


\* The initial pass ends, whatever its entries do.
InitialPassSettles == <>(loadDone \/ destroyed)

\* A reload request is consumed, and the replacement it starts completes.
ReloadSettles ==
  /\ (requested ~> (~requested \/ destroyed))
  /\ (inProgress ~> (loadDone \/ destroyed))

\* No pass is left open and no request unanswered, however mods and teardowns fail.
PassesSettle == InitialPassSettles /\ ReloadSettles
===============================================================================
