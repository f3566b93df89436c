------------------------ MODULE ModManagerPassProofs ------------------------
(***************************************************************************)
(* Machine-checked theorems about the load pass of ModManager: the fields  *)
(* other parts read, the silence of a stopped generation, the order of     *)
(* cleanup, and what one generation hands to the next; and about what all  *)
(* of it is to a mod: the manager takes only the steps of its contract.    *)
(*                                                                         *)
(* The invariants here stand on the three layers of ModManagerProofs.      *)
(***************************************************************************)
EXTENDS ModManagerRefinement, ModManagerProofs

-------------------------------------------------------------------------------
(* The fields of a pass.                                                   *)

\* A pass is open exactly while its fields say so, and the index DMF reads is
\* that of the cursor, or of the entry before it between two updates.
Bracket ==
  /\ PassOpen <=> passKind # "none"
  /\ PassOpen <=> target # 0
  /\ ~PassOpen => ~passErrors /\ loadIndex = 0
  /\ PassOpen => target = generation + 1 /\ loadIndex \in {cursor, cursor - 1}
  /\ Heading \in Loading /\ ~stopPass => loadIndex = cursor
  /\ pc = "init" => ~stopPass
  /\ loadDone => ~PassOpen /\ ~inProgress /\ Heading \notin Teardown
  /\ passKind = "reload" => inProgress
  /\ stopPass = genFailed

\* Once retired, the globals are undefined until the next pass or survived the
\* retirement, and a pass that was not stopped has not retired them.
Retired ==
  /\ globalsRetired /\ dmfGlobals => survived
  /\ PassOpen /\ ~genFailed => ~globalsRetired
  /\ Heading = "stopped" => genFailed
  /\ inProgress /\ ~PassOpen /\ Heading \notin Teardown => (dmfGlobals => survived)

\* An error that a reload has met is in one of the fields its report reads.
Counted ==
  inProgress \/ Heading \in Teardown =>
    (raised => degraded \/ passErrors \/ pc = "escape")

\* The parts of Shape and Custody about the fields.
Flow ==
  /\ FieldsOK /\ ReloadOK /\ ControlOK /\ HistoryOK
  /\ QueueControl /\ CursorControl
  /\ pc = "run" => ~stopPass
  /\ PassOpen /\ inProgress => passKind = "reload"
  /\ ~modsLoaded => ~PassOpen /\ ~inProgress /\ ~requested /\ ~loadDone
                    /\ generation = 0 /\ Heading \notin Teardown

\* They follow from the layers below.
LEMMA FlowHolds == Shape /\ Custody => Flow
BY DEF Shape, TypeOK, Custody, Untried, Flow

\* A failure stops the whole generation, or leaves the stop fields alone.
LEMMA FailureStops ==
  ASSUME NEW f, HandleLifecycleFailure(f)
  PROVE  \/ stopPass' = TRUE /\ genFailed' = TRUE
         \/ stopPass' = stopPass /\ genFailed' = genFailed
BY DEF HandleLifecycleFailure, StopGeneration, Disable, stopVars

\* Every step keeps the fields of the pass together.
LEMMA BracketNext ==
  ASSUME Flow, Bracket, [Next]_vars
  PROVE  Bracket'
<1> DEFINE Goal == Bracket'
<1>0. /\ FieldsOK /\ ControlOK /\ CursorControl /\ Flow /\ Bracket
      /\ cursor \in Nat \cup {Nil} /\ pc \in Controls /\ ret \in Continuations
      /\ event \in {"update", "gsc"}
  BY DEF Flow, FieldsOK, ControlOK
<1> USE <1>0 DEF Flow, Bracket, FieldsOK, CursorControl, Heading, Loading, Teardown,
        PassOpen, Controls, Continuations, Callbacks, Nil, vars,
        fieldVars, historyVars, entryVars, passVars, stopVars, globalVars,
        reloadVars, adapterVars, loopVars, objectVars, eraVars, askVars
<1>1. CASE RequestReload
  BY <1>1 DEF RequestReload, Ask
<1>2. CASE SetReloadRequested
  BY <1>2 DEF SetReloadRequested, Ask
<1>3. CASE UpdateTeardown
  BY <1>3 DEF UpdateTeardown, ClosePass, ForgetReload, DrainCleanup
<1>4. CASE UpdateAnchor
  <2>1. /\ ~PassOpen /\ pc = "idle" /\ generation \in Nat /\ cursor' = 0
        /\ stopPass' = FALSE /\ genFailed' = FALSE /\ pc' = "advance"
        /\ loadIndex' = loadIndex /\ loadDone' = loadDone /\ inProgress' = inProgress
        /\ generation' = generation
    BY <1>4 DEF UpdateAnchor, NewPass, Resume, ReplacementDue
  <2>2. /\ target' = generation + 1 /\ passKind' # "none" /\ ~loadDone
        /\ passKind' = "reload" => inProgress
    <3>1. CASE NewPass("reload", generation + 1) /\ ReplacementDue
      BY <3>1 DEF NewPass, ReplacementDue
    <3>2. CASE NewPass("initial", 1) /\ ~ReplacementDue /\ ~modsLoaded
      BY <3>2 DEF NewPass
    <3> QED
      BY <1>4, <3>1, <3>2 DEF UpdateAnchor
  <2>3. Heading' = "advance" /\ PassOpen' /\ loadIndex = 0
    BY <2>1
  <2>4. generation + 1 # 0
    BY ONLY <2>1
  <2> QED
    BY <2>1, <2>2, <2>3, <2>4
<1>5. CASE UpdateLoad
  BY <1>5 DEF UpdateLoad
<1>6. CASE UpdateDrive
  BY <1>6 DEF UpdateDrive
<1>7. CASE GameStateChanged
  BY <1>7 DEF GameStateChanged, Dispatch, DrainCleanup, FanOut
<1>8. CASE Destroy
  BY <1>8 DEF Destroy, ClosePass, DrainCleanup
<1>9. CASE TakeQueue
  BY <1>9 DEF TakeQueue
<1>10. CASE CallOnUnload
  BY <1>10 DEF CallOnUnload
<1>11. CASE DrainEnds
  BY <1>11 DEF DrainEnds
<1>12. CASE CallOnReload
  BY <1>12 DEF CallOnReload
<1>13. CASE TeardownDetach
  BY <1>13 DEF TeardownDetach, DrainCleanup, LeaveLoop
<1>14. CASE EntryLoaded
  BY <1>14 DEF EntryLoaded, DrainCleanup
<1>15. ASSUME NEW retired \in BOOLEAN, EntryStopped(retired)
       PROVE  Goal
  BY <1>15 DEF EntryStopped, RetireGenerationGlobals, RetirementRaises
<1>16. CASE AdvanceCursor
  BY <1>16 DEF AdvanceCursor, PassComplete, NextCursor
<1>17. CASE FinalizeLoadPass
  BY <1>17 DEF FinalizeLoadPass, ClosePass, PassComplete, NextCursor, SettleReload
<1>18. CASE DriveUpdate
  BY <1>18 DEF DriveUpdate, Dispatch, DrainCleanup, FanOut
<1>19. CASE CallEntry
  BY <1>19 DEF CallEntry
<1>20. CASE FanOutEnds
  BY <1>20 DEF FanOutEnds, DrainCleanup, LeaveLoop
<1>21. ASSUME NEW retired \in BOOLEAN, Settle(retired)
       PROVE  Goal
  BY <1>21 DEF Settle, RetireGenerationGlobals, RetirementRaises
<1>22. CASE DestroyDetach
  BY <1>22 DEF DestroyDetach, DrainCleanup
<1>23. CASE RunReturnsObject
  BY <1>23 DEF RunReturnsObject
<1>24. CASE LoadEscapes
  BY <1>24 DEF LoadEscapes
<1>25. CASE InitReturns
  BY <1>25 DEF InitReturns, DrainCleanup
<1>26. CASE InitRaises
  <2>1. \/ stopPass' = TRUE /\ genFailed' = TRUE
        \/ stopPass' = stopPass /\ genFailed' = genFailed
    BY <1>26, FailureStops DEF InitRaises
  <2> QED
    BY <1>26, <2>1 DEF InitRaises, DrainCleanup
<1>27. CASE CallbackReturns
  BY <1>27 DEF CallbackReturns
<1>28. CASE CallbackRaises
  <2>1. \/ stopPass' = TRUE /\ genFailed' = TRUE
        \/ stopPass' = stopPass /\ genFailed' = genFailed
    BY <1>28, FailureStops DEF CallbackRaises
  <2> QED
    BY <1>28, <2>1 DEF CallbackRaises
<1>29. ASSUME NEW ok \in BOOLEAN,
          OnUnloadReturns(ok)
       PROVE  Goal
  BY <1>29 DEF OnUnloadReturns
<1>30. ASSUME NEW ok \in BOOLEAN,
          RunReturnsNoObject(ok)
       PROVE  Goal
  BY <1>30 DEF RunReturnsNoObject, DrainCleanup
<1>31. ASSUME NEW outcome \in {"data", "nil", "absent", "error"},
          OnReloadReturns(outcome)
       PROVE  Goal
  BY <1>31 DEF OnReloadReturns
<1>32. ASSUME NEW order \in Orders, NEW readable \in BOOLEAN,
          NEW retired \in BOOLEAN, Rescan(order, readable, retired)
       PROVE  Goal
  BY <1>32 DEF Rescan, RetireGenerationGlobals, RetirementRaises
<1>33. CASE UNCHANGED vars
  BY <1>33
<1> QED
  BY <1>1, <1>2, <1>3, <1>4, <1>5, <1>6, <1>7, <1>8, <1>9, <1>10,
     <1>11, <1>12, <1>13, <1>14, <1>15, <1>16, <1>17, <1>18, <1>19, <1>20,
     <1>21, <1>22, <1>23, <1>24, <1>25, <1>26, <1>27, <1>28, <1>29, <1>30,
     <1>31, <1>32, <1>33
     DEF Next, Update, Manager, ModCode

\* Every step keeps retired globals retired, or marked as survivors.
LEMMA RetiredNext ==
  ASSUME Flow, Bracket, Retired, [Next]_vars
  PROVE  Retired'
<1> DEFINE Goal == Retired'
<1>0. /\ FieldsOK /\ ControlOK /\ CursorControl /\ Flow /\ Bracket
      /\ cursor \in Nat \cup {Nil} /\ pc \in Controls /\ ret \in Continuations
      /\ event \in {"update", "gsc"}
  BY DEF Flow, FieldsOK, ControlOK
<1> USE <1>0 DEF Flow, Bracket, Retired, FieldsOK, CursorControl, Heading, Loading, Teardown,
        PassOpen, Controls, Continuations, Callbacks, Nil, vars,
        fieldVars, historyVars, entryVars, passVars, stopVars, globalVars,
        reloadVars, adapterVars, loopVars, objectVars, eraVars, askVars
<1>1. CASE RequestReload
  BY <1>1 DEF RequestReload, Ask
<1>2. CASE SetReloadRequested
  BY <1>2 DEF SetReloadRequested, Ask
<1>3. CASE UpdateTeardown
  BY <1>3 DEF UpdateTeardown, ClosePass, ForgetReload, DrainCleanup
<1>4. CASE UpdateAnchor
  BY <1>4 DEF UpdateAnchor, NewPass, Resume, ReplacementDue
<1>5. CASE UpdateLoad
  BY <1>5 DEF UpdateLoad
<1>6. CASE UpdateDrive
  BY <1>6 DEF UpdateDrive
<1>7. CASE GameStateChanged
  BY <1>7 DEF GameStateChanged, Dispatch, DrainCleanup, FanOut
<1>8. CASE Destroy
  BY <1>8 DEF Destroy, ClosePass, DrainCleanup
<1>9. CASE TakeQueue
  BY <1>9 DEF TakeQueue
<1>10. CASE CallOnUnload
  BY <1>10 DEF CallOnUnload
<1>11. CASE DrainEnds
  BY <1>11 DEF DrainEnds
<1>12. CASE CallOnReload
  BY <1>12 DEF CallOnReload
<1>13. CASE TeardownDetach
  BY <1>13 DEF TeardownDetach, DrainCleanup, LeaveLoop
<1>14. CASE EntryLoaded
  BY <1>14 DEF EntryLoaded, DrainCleanup
<1>15. ASSUME NEW retired \in BOOLEAN, EntryStopped(retired)
       PROVE  Goal
  BY <1>15 DEF EntryStopped, RetireGenerationGlobals, RetirementRaises
<1>16. CASE AdvanceCursor
  BY <1>16 DEF AdvanceCursor, PassComplete, NextCursor
<1>17. CASE FinalizeLoadPass
  BY <1>17 DEF FinalizeLoadPass, ClosePass, PassComplete, NextCursor, SettleReload
<1>18. CASE DriveUpdate
  BY <1>18 DEF DriveUpdate, Dispatch, DrainCleanup, FanOut
<1>19. CASE CallEntry
  BY <1>19 DEF CallEntry
<1>20. CASE FanOutEnds
  BY <1>20 DEF FanOutEnds, DrainCleanup, LeaveLoop
<1>21. ASSUME NEW retired \in BOOLEAN, Settle(retired)
       PROVE  Goal
  BY <1>21 DEF Settle, RetireGenerationGlobals, RetirementRaises
<1>22. CASE DestroyDetach
  BY <1>22 DEF DestroyDetach, DrainCleanup
<1>23. CASE RunReturnsObject
  BY <1>23 DEF RunReturnsObject
<1>24. CASE LoadEscapes
  BY <1>24 DEF LoadEscapes
<1>25. CASE InitReturns
  BY <1>25 DEF InitReturns, DrainCleanup
<1>26. CASE InitRaises
  <2>1. \/ stopPass' = TRUE /\ genFailed' = TRUE
        \/ stopPass' = stopPass /\ genFailed' = genFailed
    BY <1>26, FailureStops DEF InitRaises
  <2> QED
    BY <1>26, <2>1 DEF InitRaises, DrainCleanup
<1>27. CASE CallbackReturns
  BY <1>27 DEF CallbackReturns
<1>28. CASE CallbackRaises
  <2>1. \/ stopPass' = TRUE /\ genFailed' = TRUE
        \/ stopPass' = stopPass /\ genFailed' = genFailed
    BY <1>28, FailureStops DEF CallbackRaises
  <2> QED
    BY <1>28, <2>1 DEF CallbackRaises
<1>29. ASSUME NEW ok \in BOOLEAN,
          OnUnloadReturns(ok)
       PROVE  Goal
  BY <1>29 DEF OnUnloadReturns
<1>30. ASSUME NEW ok \in BOOLEAN,
          RunReturnsNoObject(ok)
       PROVE  Goal
  BY <1>30 DEF RunReturnsNoObject, DrainCleanup
<1>31. ASSUME NEW outcome \in {"data", "nil", "absent", "error"},
          OnReloadReturns(outcome)
       PROVE  Goal
  BY <1>31 DEF OnReloadReturns
<1>32. ASSUME NEW order \in Orders, NEW readable \in BOOLEAN,
          NEW retired \in BOOLEAN, Rescan(order, readable, retired)
       PROVE  Goal
  BY <1>32 DEF Rescan, RetireGenerationGlobals, RetirementRaises
<1>33. CASE UNCHANGED vars
  BY <1>33
<1> QED
  BY <1>1, <1>2, <1>3, <1>4, <1>5, <1>6, <1>7, <1>8, <1>9, <1>10,
     <1>11, <1>12, <1>13, <1>14, <1>15, <1>16, <1>17, <1>18, <1>19, <1>20,
     <1>21, <1>22, <1>23, <1>24, <1>25, <1>26, <1>27, <1>28, <1>29, <1>30,
     <1>31, <1>32, <1>33
     DEF Next, Update, Manager, ModCode

\* Every step that meets an error during a reload counts it.
LEMMA CountedNext ==
  ASSUME Flow, Bracket, Counted, [Next]_vars
  PROVE  Counted'
<1> DEFINE Goal == Counted'
<1>0. /\ FieldsOK /\ ControlOK /\ CursorControl /\ Flow /\ Bracket
      /\ cursor \in Nat \cup {Nil} /\ pc \in Controls /\ ret \in Continuations
      /\ event \in {"update", "gsc"}
  BY DEF Flow, FieldsOK, ControlOK
<1> USE <1>0 DEF Flow, Bracket, Counted, FieldsOK, CursorControl, Heading, Loading, Teardown,
        PassOpen, Controls, Continuations, Callbacks, Nil, vars,
        fieldVars, historyVars, entryVars, passVars, stopVars, globalVars,
        reloadVars, adapterVars, loopVars, objectVars, eraVars, askVars
<1>1. CASE RequestReload
  BY <1>1 DEF RequestReload, Ask
<1>2. CASE SetReloadRequested
  BY <1>2 DEF SetReloadRequested, Ask
<1>3. CASE UpdateTeardown
  BY <1>3 DEF UpdateTeardown, ClosePass, ForgetReload, DrainCleanup
<1>4. CASE UpdateAnchor
  BY <1>4 DEF UpdateAnchor, NewPass, Resume, ReplacementDue
<1>5. CASE UpdateLoad
  BY <1>5 DEF UpdateLoad
<1>6. CASE UpdateDrive
  BY <1>6 DEF UpdateDrive
<1>7. CASE GameStateChanged
  BY <1>7 DEF GameStateChanged, Dispatch, DrainCleanup, FanOut
<1>8. CASE Destroy
  BY <1>8 DEF Destroy, ClosePass, DrainCleanup
<1>9. CASE TakeQueue
  BY <1>9 DEF TakeQueue
<1>10. CASE CallOnUnload
  BY <1>10 DEF CallOnUnload
<1>11. CASE DrainEnds
  BY <1>11 DEF DrainEnds
<1>12. CASE CallOnReload
  BY <1>12 DEF CallOnReload
<1>13. CASE TeardownDetach
  BY <1>13 DEF TeardownDetach, DrainCleanup, LeaveLoop
<1>14. CASE EntryLoaded
  BY <1>14 DEF EntryLoaded, DrainCleanup
<1>15. ASSUME NEW retired \in BOOLEAN, EntryStopped(retired)
       PROVE  Goal
  BY <1>15 DEF EntryStopped, RetireGenerationGlobals, RetirementRaises
<1>16. CASE AdvanceCursor
  BY <1>16 DEF AdvanceCursor, PassComplete, NextCursor
<1>17. CASE FinalizeLoadPass
  BY <1>17 DEF FinalizeLoadPass, ClosePass, PassComplete, NextCursor, SettleReload
<1>18. CASE DriveUpdate
  BY <1>18 DEF DriveUpdate, Dispatch, DrainCleanup, FanOut
<1>19. CASE CallEntry
  BY <1>19 DEF CallEntry
<1>20. CASE FanOutEnds
  BY <1>20 DEF FanOutEnds, DrainCleanup, LeaveLoop
<1>21. ASSUME NEW retired \in BOOLEAN, Settle(retired)
       PROVE  Goal
  BY <1>21 DEF Settle, RetireGenerationGlobals, RetirementRaises
<1>22. CASE DestroyDetach
  BY <1>22 DEF DestroyDetach, DrainCleanup
<1>23. CASE RunReturnsObject
  BY <1>23 DEF RunReturnsObject
<1>24. CASE LoadEscapes
  BY <1>24 DEF LoadEscapes
<1>25. CASE InitReturns
  BY <1>25 DEF InitReturns, DrainCleanup
<1>26. CASE InitRaises
  BY <1>26 DEF InitRaises, DrainCleanup
<1>27. CASE CallbackReturns
  BY <1>27 DEF CallbackReturns
<1>28. CASE CallbackRaises
  BY <1>28 DEF CallbackRaises
<1>29. ASSUME NEW ok \in BOOLEAN,
          OnUnloadReturns(ok)
       PROVE  Goal
  BY <1>29 DEF OnUnloadReturns
<1>30. ASSUME NEW ok \in BOOLEAN,
          RunReturnsNoObject(ok)
       PROVE  Goal
  BY <1>30 DEF RunReturnsNoObject, DrainCleanup
<1>31. ASSUME NEW outcome \in {"data", "nil", "absent", "error"},
          OnReloadReturns(outcome)
       PROVE  Goal
  BY <1>31 DEF OnReloadReturns
<1>32. ASSUME NEW order \in Orders, NEW readable \in BOOLEAN,
          NEW retired \in BOOLEAN, Rescan(order, readable, retired)
       PROVE  Goal
  BY <1>32 DEF Rescan, RetireGenerationGlobals, RetirementRaises
<1>33. CASE UNCHANGED vars
  BY <1>33
<1> QED
  BY <1>1, <1>2, <1>3, <1>4, <1>5, <1>6, <1>7, <1>8, <1>9, <1>10,
     <1>11, <1>12, <1>13, <1>14, <1>15, <1>16, <1>17, <1>18, <1>19, <1>20,
     <1>21, <1>22, <1>23, <1>24, <1>25, <1>26, <1>27, <1>28, <1>29, <1>30,
     <1>31, <1>32, <1>33
     DEF Next, Update, Manager, ModCode

-------------------------------------------------------------------------------
(* Objects and where the handlers return to.                               *)

\* Only run() attaches an object: every other step keeps an entry's object or
\* takes it away.
LEMMA ObjectsStay ==
  ASSUME Shape, Custody, [Next]_vars, ~RunReturnsObject
  PROVE  \A i \in DOMAIN mods' : mods'[i].object # NoObj =>
           i \in DOMAIN mods /\ mods'[i].object = mods[i].object
<1> DEFINE Goal == \A i \in DOMAIN mods' : mods'[i].object # NoObj =>
                     i \in DOMAIN mods /\ mods'[i].object = mods[i].object
<1>0. /\ EntriesOK /\ EntriesInCustody /\ FieldsOK /\ ControlOK
      /\ DOMAIN mods = 1..Len(mods) /\ mods \in Seq(Entries)
  BY DEF Shape, TypeOK, EntriesOK, Custody
<1>1. CASE EntriesUnchanged
  BY <1>1 DEF EntriesUnchanged
<1>2. CASE TakeQueue
  BY <1>2 DEF TakeQueue
<1>3. CASE CallOnUnload
  <2>1. Head(batch) \in DOMAIN mods
    BY <1>3, CallOnUnloadClaimed DEF CallOnUnload
  <2>2. mods[Head(batch)] \in Entries
    BY <1>0, <2>1
  <2>3. DOMAIN mods' = DOMAIN mods /\ \A i \in DOMAIN mods : mods'[i].object = mods[i].object
    BY <1>0, <1>3, <2>1, <2>2 DEF CallOnUnload, Entries
  <2> QED
    BY <2>3
<1>4. CASE TeardownDetach \/ DestroyDetach
  <2>1. DetachAll
    BY <1>4 DEF TeardownDetach, DestroyDetach
  <2> QED
    BY <1>0, <2>1, DetachAllCarries DEF SameList
<1>5. CASE FinalizeLoadPass
  <2>1. ASSUME NEW i \in DOMAIN mods
        PROVE  mods'[i].object = mods[i].object
    <3>1. mods[i] \in Entries
      BY <1>0
    <3> QED
      BY <1>5, <3>1 DEF FinalizeLoadPass, Entries
  <2> QED
    BY <1>5, <2>1 DEF FinalizeLoadPass
<1>6. CASE InitRaises \/ CallbackRaises
  <2>1. PICK f \in DOMAIN mods :
          mods[f].object # NoObj /\ HandleLifecycleFailure(f)
    BY <1>6, FailsAttached
  <2>2. SameList /\ \A i \in DOMAIN mods :
                      Kept(mods[i], mods'[i]) \/ Detached(mods[i], mods'[i])
    BY <1>0, <2>1, FailureCarries
  <2> QED
    BY <2>2 DEF SameList, Kept, Detached
<1>7. ASSUME NEW ok \in BOOLEAN, OnUnloadReturns(ok)
      PROVE  Goal
  <2>1. Head(batch) \in DOMAIN mods
    BY <1>7, CallOnUnloadClaimed DEF OnUnloadReturns, Shape, QueueControl
  <2>2. mods[Head(batch)] \in Entries
    BY <1>0, <2>1
  <2>3. DOMAIN mods' = DOMAIN mods /\ \A i \in DOMAIN mods : mods'[i].object = mods[i].object
    BY <1>0, <1>7, <2>1, <2>2 DEF OnUnloadReturns, Entries
  <2> QED
    BY <2>3
<1>8. ASSUME NEW ok \in BOOLEAN, RunReturnsNoObject(ok)
      PROVE  Goal
  <2>1. cursor \in DOMAIN mods
    BY <1>8, RunIsFresh DEF RunReturnsNoObject, Custody
  <2>2. mods[cursor] \in Entries
    BY <1>0, <2>1
  <2>3. DOMAIN mods' = DOMAIN mods /\
        \A i \in DOMAIN mods : mods'[i].object \in {NoObj, mods[i].object}
    BY <1>0, <1>8, <2>1, <2>2 DEF RunReturnsNoObject, Entries
  <2> QED
    BY <2>3
<1>9. ASSUME NEW order \in Orders, NEW readable \in BOOLEAN,
         NEW retired \in BOOLEAN, Rescan(order, readable, retired)
      PROVE  Goal
  <2>1. order \in Seq(Names)
    BY ConstantsAssumption
  <2> QED
    BY <1>9, <2>1, ScanFresh DEF Rescan, Fresh
<1> QED
  BY <1>0, <1>1, <1>2, <1>3, <1>4, <1>5, <1>6, <1>7, <1>8, <1>9, QuietSteps
     DEF Next, Manager, ModCode

\* So nothing is attached that was not.
LEMMA AttachedShrinks ==
  ASSUME Shape, Custody, [Next]_vars, ~RunReturnsObject
  PROVE  Attached' \subseteq Attached
BY ObjectsStay DEF Attached

\* Where nothing is attached, and no run() executes, nothing will be.
LEMMA NothingAttached ==
  ASSUME Shape, Custody, [Next]_vars, Attached = {}, pc # "run"
  PROVE  Attached' = {}
<1>1. ~RunReturnsObject
  BY DEF RunReturnsObject
<1> QED
  BY <1>1, AttachedShrinks

\* A teardown, a destroy and a framework's failure detach every entry.
LEMMA DetachingEmpties ==
  ASSUME Shape, Custody,
         \/ DetachAll
         \/ \E f \in DOMAIN mods : StopGeneration(f)
  PROVE  Attached' = {}
<1>0. EntriesOK /\ EntriesInCustody /\ \A i \in DOMAIN mods : mods[i] \in Entries
  BY DEF Shape, TypeOK, EntriesOK, Custody
<1>1. CASE DetachAll
  BY <1>0, <1>1, DetachAllCarries DEF Attached, SameList
<1>2. ASSUME NEW f \in DOMAIN mods, StopGeneration(f)
      PROVE  Attached' = {}
  <2>1. ASSUME NEW i \in DOMAIN mods
        PROVE  mods'[i].object = NoObj
    <3>1. Claim(mods[i]) \in Entries /\ Claim(mods[i]).object = NoObj
      BY <1>0, ClaimType
    <3> QED
      BY <1>2, <3>1 DEF StopGeneration, Entries
  <2>2. DOMAIN mods' = DOMAIN mods
    BY <1>2 DEF StopGeneration
  <2> QED
    BY <2>1, <2>2 DEF Attached
<1> QED
  BY <1>1, <1>2

\* A stopped generation has nothing attached and loads nothing.
Silent == genFailed => Attached = {} /\ pc # "run"

\* A drain returns to where it was called for.  The continuations of a detached
\* list are left before an entry is loaded.
Returns ==
  /\ pc \in Continuations \ {"idle"} => ret = pc
  /\ pc = "on_reload" => ret = "forward"
  /\ ret \in {"idle", "rescan"} =>
       /\ Attached = {}
       /\ pc \notin {"run", "init", "update", "gsc", "on_reload"}
       /\ Heading = "idle" => ~PassOpen \/ stopPass

\* Every step keeps a stopped generation silent.
LEMMA SilentNext ==
  ASSUME Shape, Custody, Bracket, Silent, [Next]_vars
  PROVE  Silent'
<1> DEFINE Goal == Silent'
<1>0. /\ Attached = {} /\ pc # "run" => Attached' = {}
      /\ stopPass = genFailed /\ (pc \in {"run", "init"} => ~stopPass)
      /\ Silent /\ genFailed \in BOOLEAN
      /\ cursor \in Nat \cup {Nil} /\ pc \in Controls /\ ret \in Continuations
      /\ event \in {"update", "gsc"}
  BY NothingAttached DEF Shape, TypeOK, FieldsOK, ControlOK, Custody, Untried, Bracket
<1> USE <1>0 DEF Silent, Heading, Loading, Teardown,
        PassOpen, Controls, Continuations, Callbacks, Nil, vars,
        fieldVars, historyVars, entryVars, passVars, stopVars, globalVars,
        reloadVars, adapterVars, loopVars, objectVars, eraVars, askVars
<1>1. CASE RequestReload
  BY <1>1 DEF RequestReload, Ask
<1>2. CASE SetReloadRequested
  BY <1>2 DEF SetReloadRequested, Ask
<1>3. CASE UpdateTeardown
  BY <1>3 DEF UpdateTeardown, ClosePass, ForgetReload, DrainCleanup
<1>4. CASE UpdateAnchor
  BY <1>4 DEF UpdateAnchor, NewPass, Resume, ReplacementDue
<1>5. CASE UpdateLoad
  BY <1>5 DEF UpdateLoad
<1>6. CASE UpdateDrive
  BY <1>6 DEF UpdateDrive
<1>7. CASE GameStateChanged
  BY <1>7 DEF GameStateChanged, Dispatch, DrainCleanup, FanOut
<1>8. CASE Destroy
  BY <1>8 DEF Destroy, ClosePass, DrainCleanup
<1>9. CASE TakeQueue
  BY <1>9 DEF TakeQueue
<1>10. CASE CallOnUnload
  BY <1>10 DEF CallOnUnload
<1>11. CASE DrainEnds
  BY <1>11 DEF DrainEnds
<1>12. CASE CallOnReload
  BY <1>12 DEF CallOnReload
<1>13. CASE TeardownDetach
  BY <1>13 DEF TeardownDetach, DrainCleanup, LeaveLoop
<1>14. CASE EntryLoaded
  BY <1>14 DEF EntryLoaded, DrainCleanup
<1>15. ASSUME NEW retired \in BOOLEAN, EntryStopped(retired)
       PROVE  Goal
  BY <1>15 DEF EntryStopped, RetireGenerationGlobals, RetirementRaises
<1>16. CASE AdvanceCursor
  BY <1>16 DEF AdvanceCursor, PassComplete, NextCursor
<1>17. CASE FinalizeLoadPass
  BY <1>17 DEF FinalizeLoadPass, ClosePass, PassComplete, NextCursor, SettleReload
<1>18. CASE DriveUpdate
  BY <1>18 DEF DriveUpdate, Dispatch, DrainCleanup, FanOut
<1>19. CASE CallEntry
  BY <1>19 DEF CallEntry
<1>20. CASE FanOutEnds
  BY <1>20 DEF FanOutEnds, DrainCleanup, LeaveLoop
<1>21. ASSUME NEW retired \in BOOLEAN, Settle(retired)
       PROVE  Goal
  BY <1>21 DEF Settle, RetireGenerationGlobals, RetirementRaises
<1>22. CASE DestroyDetach
  BY <1>22 DEF DestroyDetach, DrainCleanup
<1>23. CASE RunReturnsObject
  BY <1>23 DEF RunReturnsObject
<1>24. CASE LoadEscapes
  BY <1>24 DEF LoadEscapes
<1>25. CASE InitReturns
  BY <1>25 DEF InitReturns, DrainCleanup
<1>26. CASE InitRaises
  <2>1. PICK f \in DOMAIN mods :
          mods[f].object # NoObj /\ HandleLifecycleFailure(f)
    BY <1>26, FailsAttached
  <2>2. ~StopGeneration(f) => stopPass' = stopPass /\ genFailed' = genFailed
    BY <2>1 DEF HandleLifecycleFailure, Disable
  <2>3. StopGeneration(f) => Attached' = {}
    BY <2>1, DetachingEmpties
  <2>4. f \in Attached
    BY <2>1 DEF Attached
  <2> QED
    BY <1>26, <2>2, <2>3, <2>4 DEF InitRaises, DrainCleanup
<1>27. CASE CallbackReturns
  BY <1>27 DEF CallbackReturns
<1>28. CASE CallbackRaises
  <2>1. PICK f \in DOMAIN mods :
          mods[f].object # NoObj /\ HandleLifecycleFailure(f)
    BY <1>28, FailsAttached
  <2>2. ~StopGeneration(f) => stopPass' = stopPass /\ genFailed' = genFailed
    BY <2>1 DEF HandleLifecycleFailure, Disable
  <2>3. StopGeneration(f) => Attached' = {}
    BY <2>1, DetachingEmpties
  <2>4. f \in Attached
    BY <2>1 DEF Attached
  <2> QED
    BY <1>28, <2>2, <2>3, <2>4 DEF CallbackRaises
<1>29. ASSUME NEW ok \in BOOLEAN,
          OnUnloadReturns(ok)
       PROVE  Goal
  BY <1>29 DEF OnUnloadReturns
<1>30. ASSUME NEW ok \in BOOLEAN,
          RunReturnsNoObject(ok)
       PROVE  Goal
  BY <1>30 DEF RunReturnsNoObject, DrainCleanup
<1>31. ASSUME NEW outcome \in {"data", "nil", "absent", "error"},
          OnReloadReturns(outcome)
       PROVE  Goal
  BY <1>31 DEF OnReloadReturns
<1>32. ASSUME NEW order \in Orders, NEW readable \in BOOLEAN,
          NEW retired \in BOOLEAN, Rescan(order, readable, retired)
       PROVE  Goal
  BY <1>32 DEF Rescan, RetireGenerationGlobals, RetirementRaises
<1>33. CASE UNCHANGED vars
  BY <1>33
<1> QED
  BY <1>1, <1>2, <1>3, <1>4, <1>5, <1>6, <1>7, <1>8, <1>9, <1>10,
     <1>11, <1>12, <1>13, <1>14, <1>15, <1>16, <1>17, <1>18, <1>19, <1>20,
     <1>21, <1>22, <1>23, <1>24, <1>25, <1>26, <1>27, <1>28, <1>29, <1>30,
     <1>31, <1>32, <1>33
     DEF Next, Update, Manager, ModCode

\* Every step keeps the returns of the drains.
LEMMA ReturnsNext ==
  ASSUME Shape, Custody, Bracket, Silent, Returns, [Next]_vars
  PROVE  Returns'
<1> DEFINE Goal == Returns'
<1>0. /\ Attached = {} /\ pc # "run" => Attached' = {}
      /\ stopPass = genFailed /\ (genFailed => Attached = {})
      /\ (pc \in {"update", "gsc", "on_reload"} => Attached # {})
      /\ Returns /\ CursorControl /\ genFailed \in BOOLEAN
      /\ cursor \in Nat \cup {Nil} /\ pc \in Controls /\ ret \in Continuations
      /\ event \in {"update", "gsc"}
  BY NothingAttached
     DEF Shape, TypeOK, FieldsOK, ControlOK, CallControl, Bracket, Silent, Attached
<1> USE <1>0 DEF Returns, CursorControl, Heading, Loading, Teardown,
        PassOpen, Controls, Continuations, Callbacks, Nil, vars,
        fieldVars, historyVars, entryVars, passVars, stopVars, globalVars,
        reloadVars, adapterVars, loopVars, objectVars, eraVars, askVars
<1>1. CASE RequestReload
  BY <1>1 DEF RequestReload, Ask
<1>2. CASE SetReloadRequested
  BY <1>2 DEF SetReloadRequested, Ask
<1>3. CASE UpdateTeardown
  BY <1>3 DEF UpdateTeardown, ClosePass, ForgetReload, DrainCleanup
<1>4. CASE UpdateAnchor
  BY <1>4 DEF UpdateAnchor, NewPass, Resume, ReplacementDue
<1>5. CASE UpdateLoad
  BY <1>5 DEF UpdateLoad
<1>6. CASE UpdateDrive
  BY <1>6 DEF UpdateDrive
<1>7. CASE GameStateChanged
  BY <1>7 DEF GameStateChanged, Dispatch, DrainCleanup, FanOut
<1>8. CASE Destroy
  BY <1>8 DEF Destroy, ClosePass, DrainCleanup
<1>9. CASE TakeQueue
  BY <1>9 DEF TakeQueue
<1>10. CASE CallOnUnload
  BY <1>10 DEF CallOnUnload
<1>11. CASE DrainEnds
  BY <1>11 DEF DrainEnds
<1>12. CASE CallOnReload
  BY <1>12 DEF CallOnReload
<1>13. CASE TeardownDetach
  <2>1. Attached' = {}
    BY <1>13, DetachingEmpties DEF TeardownDetach
  <2> QED
    BY <1>13, <2>1 DEF TeardownDetach, DrainCleanup, LeaveLoop
<1>14. CASE EntryLoaded
  BY <1>14 DEF EntryLoaded, DrainCleanup
<1>15. ASSUME NEW retired \in BOOLEAN, EntryStopped(retired)
       PROVE  Goal
  BY <1>15 DEF EntryStopped, RetireGenerationGlobals, RetirementRaises
<1>16. CASE AdvanceCursor
  BY <1>16 DEF AdvanceCursor, PassComplete, NextCursor
<1>17. CASE FinalizeLoadPass
  BY <1>17 DEF FinalizeLoadPass, ClosePass, PassComplete, NextCursor, SettleReload
<1>18. CASE DriveUpdate
  BY <1>18 DEF DriveUpdate, Dispatch, DrainCleanup, FanOut
<1>19. CASE CallEntry
  BY <1>19 DEF CallEntry
<1>20. CASE FanOutEnds
  BY <1>20 DEF FanOutEnds, DrainCleanup, LeaveLoop
<1>21. ASSUME NEW retired \in BOOLEAN, Settle(retired)
       PROVE  Goal
  BY <1>21 DEF Settle, RetireGenerationGlobals, RetirementRaises
<1>22. CASE DestroyDetach
  <2>1. Attached' = {}
    BY <1>22, DetachingEmpties DEF DestroyDetach
  <2> QED
    BY <1>22, <2>1 DEF DestroyDetach, DrainCleanup, LeaveLoop
<1>23. CASE RunReturnsObject
  BY <1>23 DEF RunReturnsObject
<1>24. CASE LoadEscapes
  BY <1>24 DEF LoadEscapes
<1>25. CASE InitReturns
  BY <1>25 DEF InitReturns, DrainCleanup
<1>26. CASE InitRaises
  BY <1>26 DEF InitRaises, DrainCleanup
<1>27. CASE CallbackReturns
  BY <1>27 DEF CallbackReturns
<1>28. CASE CallbackRaises
  BY <1>28 DEF CallbackRaises
<1>29. ASSUME NEW ok \in BOOLEAN,
          OnUnloadReturns(ok)
       PROVE  Goal
  BY <1>29 DEF OnUnloadReturns
<1>30. ASSUME NEW ok \in BOOLEAN,
          RunReturnsNoObject(ok)
       PROVE  Goal
  BY <1>30 DEF RunReturnsNoObject, DrainCleanup
<1>31. ASSUME NEW outcome \in {"data", "nil", "absent", "error"},
          OnReloadReturns(outcome)
       PROVE  Goal
  BY <1>31 DEF OnReloadReturns
<1>32. ASSUME NEW order \in Orders, NEW readable \in BOOLEAN,
          NEW retired \in BOOLEAN, Rescan(order, readable, retired)
       PROVE  Goal
  BY <1>32 DEF Rescan, RetireGenerationGlobals, RetirementRaises
<1>33. CASE UNCHANGED vars
  BY <1>33
<1> QED
  BY <1>1, <1>2, <1>3, <1>4, <1>5, <1>6, <1>7, <1>8, <1>9, <1>10,
     <1>11, <1>12, <1>13, <1>14, <1>15, <1>16, <1>17, <1>18, <1>19, <1>20,
     <1>21, <1>22, <1>23, <1>24, <1>25, <1>26, <1>27, <1>28, <1>29, <1>30,
     <1>31, <1>32, <1>33
     DEF Next, Update, Manager, ModCode

-------------------------------------------------------------------------------
(* Generations of objects.                                                 *)

\* Every attached object was made after the first k.
Young(k) == \A i \in DOMAIN mods : mods[i].object # NoObj => mods[i].object > k

YoungNext(k) ==
  \A i \in DOMAIN mods' : mods'[i].object # NoObj => mods'[i].object > k

\* The objects of one generation are numbered between two teardowns: those of
\* the one being torn down up to `base', those of the current one beyond it.
Eras ==
  /\ floor <= base /\ base <= nobj
  /\ Heading \in Teardown => base = nobj
  /\ Young(IF Heading \in Teardown THEN floor ELSE base)

\* A step without run() makes no object, so the attached ones stay as young.
LEMMA YoungStay ==
  ASSUME Shape, Custody, [Next]_vars, pc # "run" \/ pc' # "init"
  PROVE  \A k : Young(k) => YoungNext(k)
<1>1. ~RunReturnsObject
  BY DEF RunReturnsObject
<1> QED
  BY <1>1, ObjectsStay DEF Young, YoungNext

\* Every step keeps the generations apart.
LEMMA ErasNext ==
  ASSUME Shape, Custody, Eras, [Next]_vars
  PROVE  Eras'
<1> DEFINE limit == IF Heading \in Teardown THEN floor ELSE base
           Goal == /\ floor' <= base' /\ base' <= nobj'
                   /\ Heading' \in Teardown => base' = nobj'
                   /\ YoungNext(IF Heading' \in Teardown THEN floor' ELSE base')
<1> SUFFICES Goal
  BY DEF Eras, Young, YoungNext
<1>0. /\ floor \in Nat /\ base \in Nat /\ nobj \in Nat
      /\ floor <= base /\ base <= nobj
      /\ Heading \in Teardown => base = nobj
      /\ pc # "run" \/ pc' # "init" => YoungNext(limit)
      /\ cursor \in Nat \cup {Nil} /\ pc \in Controls /\ ret \in Continuations
      /\ event \in {"update", "gsc"}
  BY YoungStay DEF Eras, Shape, TypeOK, FieldsOK, ControlOK, HistoryOK
<1> USE <1>0 DEF Heading, Loading, Teardown,
        PassOpen, Controls, Continuations, Callbacks, Nil, vars,
        fieldVars, historyVars, entryVars, passVars, stopVars, globalVars,
        reloadVars, adapterVars, loopVars, objectVars, eraVars, askVars
<1>1. CASE RequestReload
  BY <1>1 DEF RequestReload, Ask
<1>2. CASE SetReloadRequested
  BY <1>2 DEF SetReloadRequested, Ask
<1>3. CASE UpdateTeardown
  BY <1>3 DEF UpdateTeardown, ClosePass, ForgetReload, DrainCleanup
<1>4. CASE UpdateAnchor
  BY <1>4 DEF UpdateAnchor, NewPass, Resume, ReplacementDue
<1>5. CASE UpdateLoad
  BY <1>5 DEF UpdateLoad
<1>6. CASE UpdateDrive
  BY <1>6 DEF UpdateDrive
<1>7. CASE GameStateChanged
  BY <1>7 DEF GameStateChanged, Dispatch, DrainCleanup, FanOut
<1>8. CASE Destroy
  BY <1>8 DEF Destroy, ClosePass, DrainCleanup
<1>9. CASE TakeQueue
  BY <1>9 DEF TakeQueue
<1>10. CASE CallOnUnload
  BY <1>10 DEF CallOnUnload
<1>11. CASE DrainEnds
  BY <1>11 DEF DrainEnds
<1>12. CASE CallOnReload
  BY <1>12 DEF CallOnReload
<1>13. CASE TeardownDetach
  BY <1>13 DEF TeardownDetach, DrainCleanup, LeaveLoop
<1>14. CASE EntryLoaded
  BY <1>14 DEF EntryLoaded, DrainCleanup
<1>15. ASSUME NEW retired \in BOOLEAN, EntryStopped(retired)
       PROVE  Goal
  BY <1>15 DEF EntryStopped, RetireGenerationGlobals, RetirementRaises
<1>16. CASE AdvanceCursor
  BY <1>16 DEF AdvanceCursor, PassComplete, NextCursor
<1>17. CASE FinalizeLoadPass
  BY <1>17 DEF FinalizeLoadPass, ClosePass, PassComplete, NextCursor, SettleReload
<1>18. CASE DriveUpdate
  BY <1>18 DEF DriveUpdate, Dispatch, DrainCleanup, FanOut
<1>19. CASE CallEntry
  BY <1>19 DEF CallEntry
<1>20. CASE FanOutEnds
  BY <1>20 DEF FanOutEnds, DrainCleanup, LeaveLoop
<1>21. ASSUME NEW retired \in BOOLEAN, Settle(retired)
       PROVE  Goal
  BY <1>21 DEF Settle, RetireGenerationGlobals, RetirementRaises
<1>22. CASE DestroyDetach
  BY <1>22 DEF DestroyDetach, DrainCleanup
<1>23. CASE RunReturnsObject
  <2>1. cursor \in DOMAIN mods /\ mods \in Seq(Entries) /\ mods[cursor] \in Entries
    BY <1>23, RunIsFresh DEF RunReturnsObject, Custody, Shape, TypeOK, EntriesOK
  <2>2. Young(base)
    BY <1>23 DEF RunReturnsObject, Eras
  <2>3. mods'[cursor].object = nobj + 1 /\ DOMAIN mods' = DOMAIN mods
    BY <1>23, <2>1 DEF RunReturnsObject, Entries
  <2>4. \A i \in DOMAIN mods : i # cursor => mods'[i] = mods[i]
    BY <1>23, <2>1 DEF RunReturnsObject
  <2>5. YoungNext(base)
    BY <2>2, <2>3, <2>4 DEF Young, YoungNext
  <2> QED
    BY <1>23, <2>5 DEF RunReturnsObject
<1>24. CASE LoadEscapes
  BY <1>24 DEF LoadEscapes
<1>25. CASE InitReturns
  BY <1>25 DEF InitReturns, DrainCleanup
<1>26. CASE InitRaises
  BY <1>26 DEF InitRaises, DrainCleanup
<1>27. CASE CallbackReturns
  BY <1>27 DEF CallbackReturns
<1>28. CASE CallbackRaises
  BY <1>28 DEF CallbackRaises
<1>29. ASSUME NEW ok \in BOOLEAN,
          OnUnloadReturns(ok)
       PROVE  Goal
  BY <1>29 DEF OnUnloadReturns
<1>30. ASSUME NEW ok \in BOOLEAN,
          RunReturnsNoObject(ok)
       PROVE  Goal
  BY <1>30 DEF RunReturnsNoObject, DrainCleanup
<1>31. ASSUME NEW outcome \in {"data", "nil", "absent", "error"},
          OnReloadReturns(outcome)
       PROVE  Goal
  BY <1>31 DEF OnReloadReturns
<1>32. ASSUME NEW order \in Orders, NEW readable \in BOOLEAN,
          NEW retired \in BOOLEAN, Rescan(order, readable, retired)
       PROVE  Goal
  <2>1. YoungNext(base)
    BY <1>32, ConstantsAssumption, ScanFresh DEF Rescan, Fresh, YoungNext
  <2> QED
    BY <1>32, <2>1 DEF Rescan
<1>33. CASE UNCHANGED vars
  BY <1>33
<1> QED
  BY <1>1, <1>2, <1>3, <1>4, <1>5, <1>6, <1>7, <1>8, <1>9, <1>10,
     <1>11, <1>12, <1>13, <1>14, <1>15, <1>16, <1>17, <1>18, <1>19, <1>20,
     <1>21, <1>22, <1>23, <1>24, <1>25, <1>26, <1>27, <1>28, <1>29, <1>30,
     <1>31, <1>32, <1>33
     DEF Next, Update, Manager, ModCode

\* No step hands data on but that of the generation being torn down.
LEMMA DataNext ==
  ASSUME Shape, Eras, DataFromLastTeardown, [Next]_vars
  PROVE  DataFromLastTeardown'
<1> DEFINE Goal == DataFromLastTeardown'
<1>0. /\ floor \in Nat /\ base \in Nat /\ nobj \in Nat
      /\ reloadData \in [Names -> Nat]
      /\ DataFromLastTeardown
  BY DEF Shape, TypeOK, ReloadOK, HistoryOK
<1> USE <1>0 DEF DataFromLastTeardown, NoData, vars,
        fieldVars, historyVars, entryVars, passVars, stopVars, globalVars,
        reloadVars, adapterVars, loopVars, objectVars, eraVars, askVars
<1>1. CASE RequestReload
  BY <1>1 DEF RequestReload, Ask
<1>2. CASE SetReloadRequested
  BY <1>2 DEF SetReloadRequested, Ask
<1>3. CASE UpdateTeardown
  BY <1>3 DEF UpdateTeardown, ClosePass, ForgetReload, DrainCleanup
<1>4. CASE UpdateAnchor
  BY <1>4 DEF UpdateAnchor, NewPass, Resume, ReplacementDue
<1>5. CASE UpdateLoad
  BY <1>5 DEF UpdateLoad
<1>6. CASE UpdateDrive
  BY <1>6 DEF UpdateDrive
<1>7. CASE GameStateChanged
  BY <1>7 DEF GameStateChanged, Dispatch, DrainCleanup, FanOut
<1>8. CASE Destroy
  BY <1>8 DEF Destroy, ClosePass, DrainCleanup
<1>9. CASE TakeQueue
  BY <1>9 DEF TakeQueue
<1>10. CASE CallOnUnload
  BY <1>10 DEF CallOnUnload
<1>11. CASE DrainEnds
  BY <1>11 DEF DrainEnds
<1>12. CASE CallOnReload
  BY <1>12 DEF CallOnReload
<1>13. CASE TeardownDetach
  BY <1>13 DEF TeardownDetach, DrainCleanup, LeaveLoop
<1>14. CASE EntryLoaded
  BY <1>14 DEF EntryLoaded, DrainCleanup
<1>15. ASSUME NEW retired \in BOOLEAN, EntryStopped(retired)
       PROVE  Goal
  BY <1>15 DEF EntryStopped, RetireGenerationGlobals, RetirementRaises
<1>16. CASE AdvanceCursor
  BY <1>16 DEF AdvanceCursor, PassComplete, NextCursor
<1>17. CASE FinalizeLoadPass
  BY <1>17 DEF FinalizeLoadPass, ClosePass, PassComplete, NextCursor, SettleReload
<1>18. CASE DriveUpdate
  BY <1>18 DEF DriveUpdate, Dispatch, DrainCleanup, FanOut
<1>19. CASE CallEntry
  BY <1>19 DEF CallEntry
<1>20. CASE FanOutEnds
  BY <1>20 DEF FanOutEnds, DrainCleanup, LeaveLoop
<1>21. ASSUME NEW retired \in BOOLEAN, Settle(retired)
       PROVE  Goal
  BY <1>21 DEF Settle, RetireGenerationGlobals, RetirementRaises
<1>22. CASE DestroyDetach
  BY <1>22 DEF DestroyDetach, DrainCleanup
<1>23. CASE RunReturnsObject
  BY <1>23 DEF RunReturnsObject
<1>24. CASE LoadEscapes
  BY <1>24 DEF LoadEscapes
<1>25. CASE InitReturns
  BY <1>25 DEF InitReturns, DrainCleanup
<1>26. CASE InitRaises
  BY <1>26 DEF InitRaises, DrainCleanup
<1>27. CASE CallbackReturns
  BY <1>27 DEF CallbackReturns
<1>28. CASE CallbackRaises
  BY <1>28 DEF CallbackRaises
<1>29. ASSUME NEW ok \in BOOLEAN,
          OnUnloadReturns(ok)
       PROVE  Goal
  BY <1>29 DEF OnUnloadReturns
<1>30. ASSUME NEW ok \in BOOLEAN,
          RunReturnsNoObject(ok)
       PROVE  Goal
  BY <1>30 DEF RunReturnsNoObject, DrainCleanup
<1>31. ASSUME NEW outcome \in {"data", "nil", "absent", "error"},
          OnReloadReturns(outcome)
       PROVE  Goal
  <2>1. /\ idx \in DOMAIN mods /\ mods[idx].object # NoObj /\ mods[idx] \in Entries
        /\ mods[idx].object <= nobj
    BY <1>31 DEF OnReloadReturns, Shape, TypeOK, EntriesOK, CallControl, Made
  <2>2. base = nobj /\ mods[idx].object > floor
    BY <1>31, <2>1 DEF OnReloadReturns, Eras, Young, Heading, Teardown
  <2>3. mods[idx].object \in Nat /\ mods[idx].name \in Names
    BY <2>1 DEF Entries
  <2>4. floor' = floor /\ base' = base
    BY <1>31 DEF OnReloadReturns
  <2>5. \A n \in Names : reloadData'[n] \in {NoObj, reloadData[n], mods[idx].object}
    BY <1>31, <2>3 DEF OnReloadReturns
  <2> QED
    BY <2>1, <2>2, <2>4, <2>5
<1>32. ASSUME NEW order \in Orders, NEW readable \in BOOLEAN,
          NEW retired \in BOOLEAN, Rescan(order, readable, retired)
       PROVE  Goal
  BY <1>32 DEF Rescan, RetireGenerationGlobals, RetirementRaises
<1>33. CASE UNCHANGED vars
  BY <1>33
<1> QED
  BY <1>1, <1>2, <1>3, <1>4, <1>5, <1>6, <1>7, <1>8, <1>9, <1>10,
     <1>11, <1>12, <1>13, <1>14, <1>15, <1>16, <1>17, <1>18, <1>19, <1>20,
     <1>21, <1>22, <1>23, <1>24, <1>25, <1>26, <1>27, <1>28, <1>29, <1>30,
     <1>31, <1>32, <1>33
     DEF Next, Update, Manager, ModCode

-------------------------------------------------------------------------------
(* The order of cleanup.                                                   *)

\* Where the queue and the batch must fall.
Ordered == genFailed \/ ret = "rescan" \/ (destroyed /\ ret = "idle")

OrderedNext == genFailed' \/ ret' = "rescan" \/ (destroyed' /\ ret' = "idle")

\* The empty sequence falls.
LEMMA EmptyFalls == Falls(<<>>)
BY DEF Falls

\* What is left of a falling sequence falls.
LEMMA TailFalls ==
  ASSUME NEW s \in Seq(Nat), s # <<>>, Falls(s)
  PROVE  Falls(Tail(s))
<1>1. /\ Len(Tail(s)) = Len(s) - 1 /\ Len(s) \in Nat
      /\ \A k \in 1..Len(Tail(s)) : Tail(s)[k] = s[k + 1]
  BY HeadTailProperties, EmptySeq
<1> QED
  BY <1>1 DEF Falls

\* Detaching every entry queues them from the last to the first.
LEMMA DetachAllFalls ==
  ASSUME EntriesOK, DetachAll, queue = <<>>
  PROVE  Falls(queue')
<1> DEFINE S == {i \in Attached : ~mods[i].claimed}
<1>1. DOMAIN mods = 1..Len(mods) /\ Len(mods) \in Nat
  BY DEF EntriesOK
<1>2. S \in SUBSET (1..Len(mods))
  BY <1>1 DEF Attached
<1>3. queue' = <<>> \o Descending(S)
  BY DEF DetachAll
<1> HIDE DEF S
<1>4. Descending(S) \in Seq(S) /\ Falls(Descending(S))
  BY <1>1, <1>2, DescendingLists
<1>5. queue' = Descending(S)
  BY <1>3, <1>4
<1> QED
  BY <1>4, <1>5

\* So does a framework's failure, which builds the queue anew.
LEMMA StopFalls ==
  ASSUME EntriesOK, NEW f, StopGeneration(f)
  PROVE  Falls(queue')
<1> DEFINE S == {i \in DOMAIN mods :
                  /\ ~mods[i].done
                  /\ \/ mods[i].object # NoObj
                     \/ mods[i].claimed /\ mods[i].cleanup # NoObj}
<1>1. DOMAIN mods = 1..Len(mods) /\ Len(mods) \in Nat
  BY DEF EntriesOK
<1>2. S \in SUBSET (1..Len(mods)) /\ queue' = Descending(S)
  BY <1>1 DEF StopGeneration
<1> HIDE DEF S
<1> QED
  BY <1>1, <1>2, DescendingLists

\* The property, said with the operators of these proofs.
LEMMA ReverseOrderFalls == ReverseOrder <=> (Ordered => Falls(queue) /\ Falls(batch))
BY DEF ReverseOrder, Ordered, Falls

\* Every step keeps the order of cleanup.
LEMMA OrderNext ==
  ASSUME Shape, Custody, Bracket, Silent, Returns, ReverseOrder, [Next]_vars
  PROVE  ReverseOrder'
<1> DEFINE Goal == OrderedNext => Falls(queue') /\ Falls(batch')
<1> SUFFICES Goal
  BY DEF ReverseOrder, OrderedNext, Falls
<1>0. /\ Ordered => Falls(queue) /\ Falls(batch)
      /\ genFailed => Attached = {}
      /\ ret \in {"idle", "rescan"} => pc \notin {"run", "init", "update", "gsc"}
      /\ batch # <<>> => pc \in {"draining", "on_unload"}
      /\ queue # <<>> => pc \in {"drain", "fan", "update", "gsc"}
      /\ pc = "on_unload" => batch # <<>>
      /\ batch # <<>> /\ Falls(batch) => Falls(Tail(batch))
      /\ Falls(<<>>) /\ genFailed \in BOOLEAN /\ EntriesOK
      /\ cursor \in Nat \cup {Nil} /\ pc \in Controls /\ ret \in Continuations
      /\ event \in {"update", "gsc"}
  <2>1. batch \in Seq(Nat)
    BY DEF Shape, TypeOK, EntriesOK
  <2> QED
    BY <2>1, ReverseOrderFalls, EmptyFalls, TailFalls
       DEF Shape, TypeOK, FieldsOK, ControlOK, QueueControl, Silent, Returns
<1> USE <1>0 DEF Ordered, OrderedNext, Heading, Loading, Teardown,
        PassOpen, Controls, Continuations, Callbacks, Nil, vars,
        fieldVars, historyVars, entryVars, passVars, stopVars, globalVars,
        reloadVars, adapterVars, loopVars, objectVars, eraVars, askVars
<1>1. CASE RequestReload
  BY <1>1 DEF RequestReload, Ask
<1>2. CASE SetReloadRequested
  BY <1>2 DEF SetReloadRequested, Ask
<1>3. CASE UpdateTeardown
  BY <1>3 DEF UpdateTeardown, ClosePass, ForgetReload, DrainCleanup
<1>4. CASE UpdateAnchor
  BY <1>4 DEF UpdateAnchor, NewPass, Resume, ReplacementDue
<1>5. CASE UpdateLoad
  BY <1>5 DEF UpdateLoad
<1>6. CASE UpdateDrive
  BY <1>6 DEF UpdateDrive
<1>7. CASE GameStateChanged
  BY <1>7 DEF GameStateChanged, Dispatch, DrainCleanup, FanOut
<1>8. CASE Destroy
  BY <1>8 DEF Destroy, ClosePass, DrainCleanup
<1>9. CASE TakeQueue
  BY <1>9 DEF TakeQueue
<1>10. CASE CallOnUnload
  BY <1>10 DEF CallOnUnload
<1>11. CASE DrainEnds
  BY <1>11 DEF DrainEnds
<1>12. CASE CallOnReload
  BY <1>12 DEF CallOnReload
<1>13. CASE TeardownDetach
  <2>1. Falls(queue')
    BY <1>13, DetachAllFalls DEF TeardownDetach
  <2> QED
    BY <1>13, <2>1 DEF TeardownDetach, DrainCleanup, LeaveLoop
<1>14. CASE EntryLoaded
  BY <1>14 DEF EntryLoaded, DrainCleanup
<1>15. ASSUME NEW retired \in BOOLEAN, EntryStopped(retired)
       PROVE  Goal
  BY <1>15 DEF EntryStopped, RetireGenerationGlobals, RetirementRaises
<1>16. CASE AdvanceCursor
  BY <1>16 DEF AdvanceCursor, PassComplete, NextCursor
<1>17. CASE FinalizeLoadPass
  BY <1>17 DEF FinalizeLoadPass, ClosePass, PassComplete, NextCursor, SettleReload
<1>18. CASE DriveUpdate
  BY <1>18 DEF DriveUpdate, Dispatch, DrainCleanup, FanOut
<1>19. CASE CallEntry
  BY <1>19 DEF CallEntry
<1>20. CASE FanOutEnds
  BY <1>20 DEF FanOutEnds, DrainCleanup, LeaveLoop
<1>21. ASSUME NEW retired \in BOOLEAN, Settle(retired)
       PROVE  Goal
  BY <1>21 DEF Settle, RetireGenerationGlobals, RetirementRaises
<1>22. CASE DestroyDetach
  <2>1. Falls(queue')
    BY <1>22, DetachAllFalls DEF DestroyDetach
  <2> QED
    BY <1>22, <2>1 DEF DestroyDetach, DrainCleanup, LeaveLoop
<1>23. CASE RunReturnsObject
  BY <1>23 DEF RunReturnsObject
<1>24. CASE LoadEscapes
  BY <1>24 DEF LoadEscapes
<1>25. CASE InitReturns
  BY <1>25 DEF InitReturns, DrainCleanup
<1>26. CASE InitRaises
  <2>1. PICK f \in DOMAIN mods :
          mods[f].object # NoObj /\ HandleLifecycleFailure(f)
    BY <1>26, FailsAttached
  <2>2. ~StopGeneration(f) => genFailed' = genFailed
    BY <2>1 DEF HandleLifecycleFailure, Disable
  <2>3. StopGeneration(f) => Falls(queue')
    BY StopFalls
  <2>4. ~genFailed
    BY <2>1 DEF Attached
  <2> QED
    BY <1>26, <2>2, <2>3, <2>4 DEF InitRaises, DrainCleanup
<1>27. CASE CallbackReturns
  BY <1>27 DEF CallbackReturns
<1>28. CASE CallbackRaises
  <2>1. PICK f \in DOMAIN mods :
          mods[f].object # NoObj /\ HandleLifecycleFailure(f)
    BY <1>28, FailsAttached
  <2>2. ~StopGeneration(f) => genFailed' = genFailed
    BY <2>1 DEF HandleLifecycleFailure, Disable
  <2>3. StopGeneration(f) => Falls(queue')
    BY StopFalls
  <2>4. ~genFailed
    BY <2>1 DEF Attached
  <2> QED
    BY <1>28, <2>2, <2>3, <2>4 DEF CallbackRaises
<1>29. ASSUME NEW ok \in BOOLEAN,
          OnUnloadReturns(ok)
       PROVE  Goal
  BY <1>29 DEF OnUnloadReturns
<1>30. ASSUME NEW ok \in BOOLEAN,
          RunReturnsNoObject(ok)
       PROVE  Goal
  BY <1>30 DEF RunReturnsNoObject, DrainCleanup
<1>31. ASSUME NEW outcome \in {"data", "nil", "absent", "error"},
          OnReloadReturns(outcome)
       PROVE  Goal
  BY <1>31 DEF OnReloadReturns
<1>32. ASSUME NEW order \in Orders, NEW readable \in BOOLEAN,
          NEW retired \in BOOLEAN, Rescan(order, readable, retired)
       PROVE  Goal
  BY <1>32 DEF Rescan, RetireGenerationGlobals, RetirementRaises
<1>33. CASE UNCHANGED vars
  BY <1>33
<1> QED
  BY <1>1, <1>2, <1>3, <1>4, <1>5, <1>6, <1>7, <1>8, <1>9, <1>10,
     <1>11, <1>12, <1>13, <1>14, <1>15, <1>16, <1>17, <1>18, <1>19, <1>20,
     <1>21, <1>22, <1>23, <1>24, <1>25, <1>26, <1>27, <1>28, <1>29, <1>30,
     <1>31, <1>32, <1>33
     DEF Next, Update, Manager, ModCode

-------------------------------------------------------------------------------
(* What a pass has tried.                                                  *)

\* No entry up to the k-th is as the scan left it.
TriedTo(k) == \A i \in DOMAIN mods : i <= k => mods[i].state # "not_loaded"

TriedToNext(k) ==
  \A i \in DOMAIN mods' : i <= k => mods'[i].state # "not_loaded"

\* How far an open pass has come.
Reached ==
  IF Heading \in {"init", "loaded", "stopped", "advance"} THEN cursor ELSE cursor - 1

\* Every entry an open pass has left behind was tried.
Tried == PassOpen /\ ~stopPass => TriedTo(Reached)

\* A run() that returns has tried the cursor's entry, and no other.
LEMMA CursorTried ==
  ASSUME Shape, Custody,
         RunReturnsObject \/ \E ok \in BOOLEAN : RunReturnsNoObject(ok)
  PROVE  /\ cursor \in DOMAIN mods /\ DOMAIN mods' = DOMAIN mods
         /\ mods'[cursor].state # "not_loaded"
         /\ \A i \in DOMAIN mods : i # cursor => mods'[i] = mods[i]
<1>1. cursor \in DOMAIN mods /\ mods \in Seq(Entries) /\ mods[cursor] \in Entries
  <2>1. pc = "run"
    BY DEF RunReturnsObject, RunReturnsNoObject
  <2>2. cursor \in DOMAIN mods /\ mods \in Seq(Entries)
    BY <2>1, RunIsFresh DEF Custody, Shape, TypeOK, EntriesOK
  <2> QED
    BY <2>2
<1>2. CASE RunReturnsObject
  BY <1>1, <1>2 DEF RunReturnsObject, Entries
<1>3. ASSUME NEW ok \in BOOLEAN, RunReturnsNoObject(ok)
      PROVE  /\ DOMAIN mods' = DOMAIN mods
             /\ mods'[cursor].state # "not_loaded"
             /\ \A i \in DOMAIN mods : i # cursor => mods'[i] = mods[i]
  <2> DEFINE e == [mods[cursor] EXCEPT !.state = IF ok THEN "dmf_driven" ELSE "failed",
                                       !.object = IF ok THEN @ ELSE NoObj]
  <2>1. mods' = [mods EXCEPT ![cursor] = e]
    BY <1>1, <1>3 DEF RunReturnsNoObject
  <2>2. e.state # "not_loaded"
    BY <1>1 DEF Entries
  <2> HIDE DEF e
  <2> QED
    BY <1>1, <2>1, <2>2
<1> QED
  BY <1>1, <1>2, <1>3

\* An entry that was tried is never untried again in the same list, and run()
\* tries the cursor's.
LEMMA TriedStays ==
  ASSUME Shape, Custody, [Next]_vars, pc # "rescan"
  PROVE  \A k : TriedTo(k) => TriedToNext(k)
<1> DEFINE Goal ==
             \A i \in DOMAIN mods' :
               /\ i \in DOMAIN mods
               /\ mods'[i].state = "not_loaded" => mods[i].state = "not_loaded"
<1> SUFFICES Goal
  <2>1. ASSUME Goal, NEW k, TriedTo(k)
        PROVE  TriedToNext(k)
    <3>1. \A i \in DOMAIN mods : i <= k => mods[i].state # "not_loaded"
      BY <2>1 DEF TriedTo
    <3>2. ASSUME NEW i \in DOMAIN mods', i <= k
          PROVE  mods'[i].state # "not_loaded"
      <4>1. i \in DOMAIN mods /\ (mods'[i].state = "not_loaded" => mods[i].state = "not_loaded")
        BY <2>1, <3>2
      <4> QED
        BY <3>1, <3>2, <4>1, Zenon
    <3> HIDE DEF Goal
    <3> QED
      BY <3>2, Zenon DEF TriedToNext
  <2> QED
    BY <2>1
<1>0. /\ EntriesOK /\ EntriesInCustody /\ FieldsOK /\ ControlOK
      /\ DOMAIN mods = 1..Len(mods) /\ mods \in Seq(Entries)
      /\ \A i \in DOMAIN mods : mods[i] \in Entries
  BY DEF Shape, TypeOK, EntriesOK, Custody
<1>1. CASE EntriesUnchanged
  BY <1>1 DEF EntriesUnchanged
<1>2. CASE TakeQueue
  BY <1>2 DEF TakeQueue
<1>3. CASE CallOnUnload
  <2>1. Head(batch) \in DOMAIN mods /\ mods[Head(batch)] \in Entries
    BY <1>0, <1>3, CallOnUnloadClaimed DEF CallOnUnload
  <2>2. \/ mods' = [mods EXCEPT ![Head(batch)].cleanup = NoObj]
        \/ mods' = [mods EXCEPT ![Head(batch)].done = TRUE]
    BY <1>3 DEF CallOnUnload
  <2>3. DOMAIN mods' = DOMAIN mods /\ \A i \in DOMAIN mods : mods'[i].state = mods[i].state
    <3>1. CASE mods' = [mods EXCEPT ![Head(batch)].cleanup = NoObj]
      BY <1>0, <2>1, <3>1 DEF Entries
    <3>2. CASE mods' = [mods EXCEPT ![Head(batch)].done = TRUE]
      BY <1>0, <2>1, <3>2 DEF Entries
    <3> QED
      BY <2>2, <3>1, <3>2
  <2> QED
    BY <2>3
<1>4. CASE TeardownDetach \/ DestroyDetach
  <2>1. DetachAll
    BY <1>4 DEF TeardownDetach, DestroyDetach
  <2>2. \A i \in DOMAIN mods : Claim(mods[i]).state = mods[i].state
    BY <1>0 DEF Claim, Entries
  <2> QED
    BY <1>0, <2>1, <2>2, DetachAllShape
<1>5. CASE FinalizeLoadPass
  <2>1. ASSUME NEW i \in DOMAIN mods, mods[i].state # "not_loaded"
        PROVE  mods'[i] = mods[i]
    BY <1>5, <2>1 DEF FinalizeLoadPass
  <2> QED
    BY <1>5, <2>1 DEF FinalizeLoadPass
<1>6. CASE InitRaises \/ CallbackRaises
  <2>1. PICK f \in DOMAIN mods :
          mods[f].object # NoObj /\ HandleLifecycleFailure(f)
    BY <1>6, FailsAttached
  <2>2. ASSUME NEW i \in DOMAIN mods
        PROVE  Claim(mods[i]) \in Entries /\ Claim(mods[i]).state = mods[i].state
    BY <1>0, ClaimType DEF Claim, Entries
  <2>3. CASE StopGeneration(f)
    <3>1. ASSUME NEW i \in DOMAIN mods
          PROVE  mods'[i].state = Stopped(i, f)
      BY <2>2, <2>3 DEF StopGeneration, Entries
    <3>2. DOMAIN mods' = DOMAIN mods
      BY <2>3 DEF StopGeneration
    <3>3. \A i \in DOMAIN mods : Stopped(i, f) = "not_loaded" => mods[i].state = "not_loaded"
      BY DEF Stopped
    <3> QED
      BY <3>1, <3>2, <3>3
  <2>4. CASE Disable(f)
    <3> DEFINE e == [Claim(mods[f]) EXCEPT !.state = "disabled", !.failed = TRUE]
    <3>1. e.state = "disabled"
      BY <2>2 DEF Entries
    <3>2. mods' = [mods EXCEPT ![f] = e]
      BY <2>4 DEF Disable
    <3> HIDE DEF e
    <3> QED
      BY <1>0, <3>1, <3>2
  <2>5. CASE mods[f].failed
    BY <2>1, <2>5 DEF HandleLifecycleFailure, entryVars
  <2> QED
    BY <2>1, <2>3, <2>4, <2>5 DEF HandleLifecycleFailure
<1>7. ASSUME NEW ok \in BOOLEAN, OnUnloadReturns(ok)
      PROVE  Goal
  <2>1. Head(batch) \in DOMAIN mods /\ mods[Head(batch)] \in Entries
    BY <1>0, <1>7, CallOnUnloadClaimed DEF OnUnloadReturns, Shape, QueueControl
  <2>2. DOMAIN mods' = DOMAIN mods /\ \A i \in DOMAIN mods : mods'[i].state = mods[i].state
    BY <1>0, <1>7, <2>1 DEF OnUnloadReturns, Entries
  <2> QED
    BY <2>2
<1>8. CASE RunReturnsObject \/ \E ok \in BOOLEAN : RunReturnsNoObject(ok)
  BY <1>8, CursorTried
<1>9. ASSUME NEW order \in Orders, NEW readable \in BOOLEAN,
         NEW retired \in BOOLEAN, Rescan(order, readable, retired)
      PROVE  Goal
  BY <1>9 DEF Rescan
<1> QED
  BY <1>0, <1>1, <1>2, <1>3, <1>4, <1>5, <1>6, <1>7, <1>8, <1>9, QuietSteps
     DEF Next, Manager, ModCode

\* Every step keeps behind the cursor what was tried.
LEMMA TriedNext ==
  ASSUME Shape, Custody, Bracket, Tried, [Next]_vars
  PROVE  Tried'
<1> DEFINE reached == IF Heading' \in {"init", "loaded", "stopped", "advance"}
                      THEN cursor' ELSE cursor' - 1
           Goal == cursor' # Nil /\ ~stopPass' => TriedToNext(reached)
<1> SUFFICES Goal
  BY DEF Tried, TriedToNext, TriedTo, Reached, PassOpen
<1>0. /\ Tried /\ CursorControl
      /\ pc # "rescan" => \A k : TriedTo(k) => TriedToNext(k)
      /\ TriedToNext(0)
      /\ stopPass \in BOOLEAN
      /\ cursor \in Nat \cup {Nil} /\ pc \in Controls /\ ret \in Continuations
      /\ event \in {"update", "gsc"}
  <2>1. DOMAIN mods' = 1..Len(mods')
    BY EntriesNext DEF EntriesOK
  <2> QED
    BY <2>1, TriedStays
       DEF Shape, TypeOK, FieldsOK, ControlOK, TriedToNext
<1> USE <1>0 DEF Tried, Reached, CursorControl, Heading, Loading, Teardown,
        PassOpen, Controls, Continuations, Callbacks, Nil, vars,
        fieldVars, historyVars, entryVars, passVars, stopVars, globalVars,
        reloadVars, adapterVars, loopVars, objectVars, eraVars, askVars
<1>1. CASE RequestReload
  BY <1>1 DEF RequestReload, Ask
<1>2. CASE SetReloadRequested
  BY <1>2 DEF SetReloadRequested, Ask
<1>3. CASE UpdateTeardown
  BY <1>3 DEF UpdateTeardown, ClosePass, ForgetReload, DrainCleanup
<1>4. CASE UpdateAnchor
  BY <1>4 DEF UpdateAnchor, NewPass, Resume, ReplacementDue
<1>5. CASE UpdateLoad
  BY <1>5 DEF UpdateLoad
<1>6. CASE UpdateDrive
  BY <1>6 DEF UpdateDrive
<1>7. CASE GameStateChanged
  BY <1>7 DEF GameStateChanged, Dispatch, DrainCleanup, FanOut
<1>8. CASE Destroy
  BY <1>8 DEF Destroy, ClosePass, DrainCleanup
<1>9. CASE TakeQueue
  BY <1>9 DEF TakeQueue
<1>10. CASE CallOnUnload
  BY <1>10 DEF CallOnUnload
<1>11. CASE DrainEnds
  BY <1>11 DEF DrainEnds
<1>12. CASE CallOnReload
  BY <1>12 DEF CallOnReload
<1>13. CASE TeardownDetach
  BY <1>13 DEF TeardownDetach, DrainCleanup, LeaveLoop
<1>14. CASE EntryLoaded
  BY <1>14 DEF EntryLoaded, DrainCleanup
<1>15. ASSUME NEW retired \in BOOLEAN, EntryStopped(retired)
       PROVE  Goal
  BY <1>15 DEF EntryStopped, RetireGenerationGlobals, RetirementRaises
<1>16. CASE AdvanceCursor
  BY <1>16 DEF AdvanceCursor, PassComplete, NextCursor
<1>17. CASE FinalizeLoadPass
  BY <1>17 DEF FinalizeLoadPass, ClosePass, PassComplete, NextCursor, SettleReload
<1>18. CASE DriveUpdate
  BY <1>18 DEF DriveUpdate, Dispatch, DrainCleanup, FanOut
<1>19. CASE CallEntry
  BY <1>19 DEF CallEntry
<1>20. CASE FanOutEnds
  BY <1>20 DEF FanOutEnds, DrainCleanup, LeaveLoop
<1>21. ASSUME NEW retired \in BOOLEAN, Settle(retired)
       PROVE  Goal
  BY <1>21 DEF Settle, RetireGenerationGlobals, RetirementRaises
<1>22. CASE DestroyDetach
  BY <1>22 DEF DestroyDetach, DrainCleanup
<1>23. CASE RunReturnsObject
  <2>1. TriedToNext(cursor)
    <3>1. ~stopPass /\ TriedTo(cursor - 1)
      BY <1>23 DEF RunReturnsObject, Custody, Untried
    <3>2. /\ cursor \in DOMAIN mods /\ DOMAIN mods' = DOMAIN mods
          /\ mods'[cursor].state # "not_loaded"
          /\ \A i \in DOMAIN mods : i # cursor => mods'[i] = mods[i]
      BY <1>23, CursorTried
    <3>3. \A i \in DOMAIN mods : i <= cursor => i = cursor \/ i <= cursor - 1
      <4>1. mods \in Seq(Entries)
        BY DEF Shape, TypeOK, EntriesOK
      <4>2. DOMAIN mods = 1..Len(mods) /\ Len(mods) \in Nat
        BY <4>1
      <4> QED
        BY <3>2, <4>2
    <3> QED
      BY <3>1, <3>2, <3>3 DEF TriedTo, TriedToNext
  <2> QED
    BY <1>23, <2>1 DEF RunReturnsObject
<1>24. CASE LoadEscapes
  BY <1>24 DEF LoadEscapes
<1>25. CASE InitReturns
  BY <1>25 DEF InitReturns, DrainCleanup
<1>26. CASE InitRaises
  <2>1. stopPass' = TRUE \/ stopPass' = stopPass
    BY <1>26, FailureStops DEF InitRaises
  <2> QED
    BY <1>26, <2>1 DEF InitRaises, DrainCleanup
<1>27. CASE CallbackReturns
  BY <1>27 DEF CallbackReturns
<1>28. CASE CallbackRaises
  <2>1. stopPass' = TRUE \/ stopPass' = stopPass
    BY <1>28, FailureStops DEF CallbackRaises
  <2> QED
    BY <1>28, <2>1 DEF CallbackRaises
<1>29. ASSUME NEW ok \in BOOLEAN,
          OnUnloadReturns(ok)
       PROVE  Goal
  BY <1>29 DEF OnUnloadReturns
<1>30. ASSUME NEW ok \in BOOLEAN,
          RunReturnsNoObject(ok)
       PROVE  Goal
  <2>1. TriedToNext(cursor)
    <3>1. ~stopPass /\ TriedTo(cursor - 1)
      BY <1>30 DEF RunReturnsNoObject, Custody, Untried
    <3>2. /\ cursor \in DOMAIN mods /\ DOMAIN mods' = DOMAIN mods
          /\ mods'[cursor].state # "not_loaded"
          /\ \A i \in DOMAIN mods : i # cursor => mods'[i] = mods[i]
      BY <1>30, CursorTried
    <3>3. \A i \in DOMAIN mods : i <= cursor => i = cursor \/ i <= cursor - 1
      <4>1. mods \in Seq(Entries)
        BY DEF Shape, TypeOK, EntriesOK
      <4>2. DOMAIN mods = 1..Len(mods) /\ Len(mods) \in Nat
        BY <4>1
      <4> QED
        BY <3>2, <4>2
    <3> QED
      BY <3>1, <3>2, <3>3 DEF TriedTo, TriedToNext
  <2> QED
    BY <1>30, <2>1 DEF RunReturnsNoObject, DrainCleanup
<1>31. ASSUME NEW outcome \in {"data", "nil", "absent", "error"},
          OnReloadReturns(outcome)
       PROVE  Goal
  BY <1>31 DEF OnReloadReturns
<1>32. ASSUME NEW order \in Orders, NEW readable \in BOOLEAN,
          NEW retired \in BOOLEAN, Rescan(order, readable, retired)
       PROVE  Goal
  BY <1>32 DEF Rescan, RetireGenerationGlobals, RetirementRaises
<1>33. CASE UNCHANGED vars
  BY <1>33
<1> QED
  BY <1>1, <1>2, <1>3, <1>4, <1>5, <1>6, <1>7, <1>8, <1>9, <1>10,
     <1>11, <1>12, <1>13, <1>14, <1>15, <1>16, <1>17, <1>18, <1>19, <1>20,
     <1>21, <1>22, <1>23, <1>24, <1>25, <1>26, <1>27, <1>28, <1>29, <1>30,
     <1>31, <1>32, <1>33
     DEF Next, Update, Manager, ModCode

-------------------------------------------------------------------------------
(* What a completed reload leaves of the failures before it.               *)

\* A failure record is of an object that was made, and under a generation there
\* is or is about to be; the records of the generations that had finished before
\* the last teardown are of those generations, until a finished pass drops them.
Dated(r) ==
  /\ r.object > 0 /\ r.object <= nobj /\ r.generation <= generation + 1
  /\ loadDone => r.object > settled /\ r.generation <= generation
  /\ r.object <= settled => r.generation <= generation

DatedNext(r) ==
  /\ r.object > 0 /\ r.object <= nobj' /\ r.generation <= generation' + 1
  /\ loadDone' => r.object > settled' /\ r.generation <= generation'
  /\ r.object <= settled' => r.generation <= generation'

\* A teardown settles what a finished pass left; without mod code that sets the
\* field, every teardown follows a finished pass.
Orderly ==
  /\ settled <= base
  /\ generation = 0 => settled = 0 /\ ~loadDone
  /\ passKind = "initial" => generation = 0
  /\ ~DirectField => settled = base /\ (requested => loadDone)

\* Every step keeps requests for the time between two passes.
LEMMA OrderlyNext ==
  ASSUME Flow, Bracket, Orderly, base \in Nat, nobj \in Nat, settled \in Nat,
         base <= nobj, [Next]_vars
  PROVE  Orderly'
<1> DEFINE Goal == Orderly'
<1>0. /\ FieldsOK /\ ControlOK /\ CursorControl /\ Flow /\ Bracket /\ Orderly
      /\ base \in Nat /\ nobj \in Nat /\ settled \in Nat /\ base <= nobj
      /\ cursor \in Nat \cup {Nil} /\ pc \in Controls /\ ret \in Continuations
      /\ event \in {"update", "gsc"}
  BY DEF Flow, FieldsOK, ControlOK
<1> USE <1>0 DEF Flow, Bracket, Orderly, FieldsOK, CursorControl, Heading, Loading, Teardown,
        PassOpen, Controls, Continuations, Callbacks, Nil, vars,
        fieldVars, historyVars, entryVars, passVars, stopVars, globalVars,
        reloadVars, adapterVars, loopVars, objectVars, eraVars, askVars
<1>1. CASE RequestReload
  BY <1>1 DEF RequestReload, Ask
<1>2. CASE SetReloadRequested
  BY <1>2 DEF SetReloadRequested, Ask
<1>3. CASE UpdateTeardown
  BY <1>3 DEF UpdateTeardown, ClosePass, ForgetReload, DrainCleanup
<1>4. CASE UpdateAnchor
  BY <1>4 DEF UpdateAnchor, NewPass, Resume, ReplacementDue
<1>5. CASE UpdateLoad
  BY <1>5 DEF UpdateLoad
<1>6. CASE UpdateDrive
  BY <1>6 DEF UpdateDrive
<1>7. CASE GameStateChanged
  BY <1>7 DEF GameStateChanged, Dispatch, DrainCleanup, FanOut
<1>8. CASE Destroy
  BY <1>8 DEF Destroy, ClosePass, DrainCleanup
<1>9. CASE TakeQueue
  BY <1>9 DEF TakeQueue
<1>10. CASE CallOnUnload
  BY <1>10 DEF CallOnUnload
<1>11. CASE DrainEnds
  BY <1>11 DEF DrainEnds
<1>12. CASE CallOnReload
  BY <1>12 DEF CallOnReload
<1>13. CASE TeardownDetach
  BY <1>13 DEF TeardownDetach, DrainCleanup, LeaveLoop
<1>14. CASE EntryLoaded
  BY <1>14 DEF EntryLoaded, DrainCleanup
<1>15. ASSUME NEW retired \in BOOLEAN, EntryStopped(retired)
       PROVE  Goal
  BY <1>15 DEF EntryStopped, RetireGenerationGlobals, RetirementRaises
<1>16. CASE AdvanceCursor
  BY <1>16 DEF AdvanceCursor, PassComplete, NextCursor
<1>17. CASE FinalizeLoadPass
  BY <1>17 DEF FinalizeLoadPass, ClosePass, PassComplete, NextCursor, SettleReload
<1>18. CASE DriveUpdate
  BY <1>18 DEF DriveUpdate, Dispatch, DrainCleanup, FanOut
<1>19. CASE CallEntry
  BY <1>19 DEF CallEntry
<1>20. CASE FanOutEnds
  BY <1>20 DEF FanOutEnds, DrainCleanup, LeaveLoop
<1>21. ASSUME NEW retired \in BOOLEAN, Settle(retired)
       PROVE  Goal
  BY <1>21 DEF Settle, RetireGenerationGlobals, RetirementRaises
<1>22. CASE DestroyDetach
  BY <1>22 DEF DestroyDetach, DrainCleanup
<1>23. CASE RunReturnsObject
  BY <1>23 DEF RunReturnsObject
<1>24. CASE LoadEscapes
  BY <1>24 DEF LoadEscapes
<1>25. CASE InitReturns
  BY <1>25 DEF InitReturns, DrainCleanup
<1>26. CASE InitRaises
  BY <1>26, FailureStops DEF InitRaises, DrainCleanup
<1>27. CASE CallbackReturns
  BY <1>27 DEF CallbackReturns
<1>28. CASE CallbackRaises
  BY <1>28, FailureStops DEF CallbackRaises
<1>29. ASSUME NEW ok \in BOOLEAN,
          OnUnloadReturns(ok)
       PROVE  Goal
  BY <1>29 DEF OnUnloadReturns
<1>30. ASSUME NEW ok \in BOOLEAN,
          RunReturnsNoObject(ok)
       PROVE  Goal
  BY <1>30 DEF RunReturnsNoObject, DrainCleanup
<1>31. ASSUME NEW outcome \in {"data", "nil", "absent", "error"},
          OnReloadReturns(outcome)
       PROVE  Goal
  BY <1>31 DEF OnReloadReturns
<1>32. ASSUME NEW order \in Orders, NEW readable \in BOOLEAN,
          NEW retired \in BOOLEAN, Rescan(order, readable, retired)
       PROVE  Goal
  BY <1>32 DEF Rescan, RetireGenerationGlobals, RetirementRaises
<1>33. CASE UNCHANGED vars
  BY <1>33
<1> QED
  BY <1>1, <1>2, <1>3, <1>4, <1>5, <1>6, <1>7, <1>8, <1>9, <1>10,
     <1>11, <1>12, <1>13, <1>14, <1>15, <1>16, <1>17, <1>18, <1>19, <1>20,
     <1>21, <1>22, <1>23, <1>24, <1>25, <1>26, <1>27, <1>28, <1>29, <1>30,
     <1>31, <1>32, <1>33
     DEF Next, Update, Manager, ModCode

\* A failure adds the record of the object that failed.
LEMMA FailureRecords ==
  ASSUME NEW f, HandleLifecycleFailure(f)
  PROVE  records' \subseteq records \cup {Record(f)}
BY DEF HandleLifecycleFailure, entryVars

\* The record of an object that fails is dated.
LEMMA RecordIsDated ==
  ASSUME Shape, Bracket, Eras, Orderly, Heading \notin Teardown,
         NEW f \in DOMAIN mods, mods[f].object # NoObj
  PROVE  Dated(Record(f))
<1>1. /\ mods[f] \in Entries /\ mods[f].object <= nobj /\ nobj \in Nat /\ base \in Nat
      /\ settled \in Nat /\ settled <= base
      /\ generation \in Nat /\ target \in Nat
  BY DEF Shape, TypeOK, EntriesOK, HistoryOK, FieldsOK, Made, Orderly
<1>2. mods[f].object > base /\ mods[f].object \in Nat
  BY <1>1 DEF Eras, Young, Entries
<1>3. /\ ActiveGeneration \in Nat /\ ActiveGeneration <= generation + 1
      /\ loadDone => ActiveGeneration <= generation
  BY <1>1 DEF ActiveGeneration, Bracket, Orderly
<1>4. Record(f).object = mods[f].object /\ Record(f).generation = ActiveGeneration
  BY DEF Record
<1> HIDE DEF ActiveGeneration
<1> QED
  BY <1>1, <1>2, <1>3, <1>4 DEF Dated

\* Every step keeps the records dated.
LEMMA RecordsNext ==
  ASSUME Shape, Custody, Bracket, Eras, Orderly, [Next]_vars,
         \A r \in records : Dated(r)
  PROVE  \A r \in records' : DatedNext(r)
<1> SUFFICES ASSUME NEW r \in records'
             PROVE  DatedNext(r)
  OBVIOUS
<1> DEFINE Goal == DatedNext(r)
<1>0. /\ Flow /\ Bracket /\ Orderly /\ CursorControl
      /\ r.object \in Nat /\ r.generation \in Nat
      /\ nobj \in Nat /\ base \in Nat /\ settled \in Nat /\ generation \in Nat
      /\ (r \in records => Dated(r)) /\ base <= nobj
      /\ cursor \in Nat \cup {Nil} /\ pc \in Controls /\ ret \in Continuations
      /\ event \in {"update", "gsc"}
  BY EntriesNext, FlowHolds
     DEF Shape, TypeOK, EntriesOK, FieldsOK, ControlOK, HistoryOK, Eras
<1> USE <1>0 DEF Flow, Bracket, Orderly, Dated, DatedNext, CursorControl, Heading, Loading, Teardown,
        PassOpen, Controls, Continuations, Callbacks, Nil, vars,
        fieldVars, historyVars, entryVars, passVars, stopVars, globalVars,
        reloadVars, adapterVars, loopVars, objectVars, eraVars, askVars
<1>1. CASE RequestReload
  BY <1>1 DEF RequestReload, Ask
<1>2. CASE SetReloadRequested
  BY <1>2 DEF SetReloadRequested, Ask
<1>3. CASE UpdateTeardown
  BY <1>3 DEF UpdateTeardown, ClosePass, ForgetReload, DrainCleanup
<1>4. CASE UpdateAnchor
  BY <1>4 DEF UpdateAnchor, NewPass, Resume, ReplacementDue
<1>5. CASE UpdateLoad
  BY <1>5 DEF UpdateLoad
<1>6. CASE UpdateDrive
  BY <1>6 DEF UpdateDrive
<1>7. CASE GameStateChanged
  BY <1>7 DEF GameStateChanged, Dispatch, DrainCleanup, FanOut
<1>8. CASE Destroy
  BY <1>8 DEF Destroy, ClosePass, DrainCleanup
<1>9. CASE TakeQueue
  BY <1>9 DEF TakeQueue
<1>10. CASE CallOnUnload
  BY <1>10 DEF CallOnUnload
<1>11. CASE DrainEnds
  BY <1>11 DEF DrainEnds
<1>12. CASE CallOnReload
  BY <1>12 DEF CallOnReload
<1>13. CASE TeardownDetach
  BY <1>13 DEF TeardownDetach, DrainCleanup, LeaveLoop
<1>14. CASE EntryLoaded
  BY <1>14 DEF EntryLoaded, DrainCleanup
<1>15. ASSUME NEW retired \in BOOLEAN, EntryStopped(retired)
       PROVE  Goal
  BY <1>15 DEF EntryStopped, RetireGenerationGlobals, RetirementRaises
<1>16. CASE AdvanceCursor
  BY <1>16 DEF AdvanceCursor, PassComplete, NextCursor
<1>17. CASE FinalizeLoadPass
  <2>1. /\ generation' = generation + 1 /\ PassOpen /\ nobj' = nobj /\ settled' = settled
        /\ pc' = "drive"
    BY <1>17 DEF FinalizeLoadPass
  <2>2. CASE passKind = "reload"
    <3>1. r \in records /\ r.generation >= generation + 1 /\ inProgress' = FALSE
      BY <1>17, <2>1, <2>2 DEF FinalizeLoadPass, SettleReload, StillLatched
    <3> QED
      BY <2>1, <2>2, <3>1
  <2>3. CASE passKind # "reload"
    <3>1. r \in records /\ inProgress' = FALSE /\ settled = 0
      BY <1>17, <2>1, <2>3 DEF FinalizeLoadPass, FieldsOK, ReloadOK
    <3> QED
      BY <2>1, <3>1
  <2> QED
    BY <2>2, <2>3
<1>18. CASE DriveUpdate
  BY <1>18 DEF DriveUpdate, Dispatch, DrainCleanup, FanOut
<1>19. CASE CallEntry
  BY <1>19 DEF CallEntry
<1>20. CASE FanOutEnds
  BY <1>20 DEF FanOutEnds, DrainCleanup, LeaveLoop
<1>21. ASSUME NEW retired \in BOOLEAN, Settle(retired)
       PROVE  Goal
  BY <1>21 DEF Settle, RetireGenerationGlobals, RetirementRaises
<1>22. CASE DestroyDetach
  BY <1>22 DEF DestroyDetach, DrainCleanup
<1>23. CASE RunReturnsObject
  BY <1>23 DEF RunReturnsObject
<1>24. CASE LoadEscapes
  BY <1>24 DEF LoadEscapes
<1>25. CASE InitReturns
  BY <1>25 DEF InitReturns, DrainCleanup
<1>26. CASE InitRaises
  <2>1. PICK f \in DOMAIN mods :
          mods[f].object # NoObj /\ HandleLifecycleFailure(f)
    BY <1>26, FailsAttached
  <2>2. Heading \notin Teardown
    BY <1>26 DEF InitRaises
  <2>3. Dated(Record(f)) /\ records' \subseteq records \cup {Record(f)}
    BY <2>1, <2>2, RecordIsDated, FailureRecords
  <2>4. Dated(r)
    BY <2>3
  <2> QED
    BY <1>26, <2>2, <2>4 DEF InitRaises, DrainCleanup
<1>27. CASE CallbackReturns
  BY <1>27 DEF CallbackReturns
<1>28. CASE CallbackRaises
  <2>1. PICK f \in DOMAIN mods :
          mods[f].object # NoObj /\ HandleLifecycleFailure(f)
    BY <1>28, FailsAttached
  <2>2. Heading \notin Teardown
    BY <1>28 DEF CallbackRaises
  <2>3. Dated(Record(f)) /\ records' \subseteq records \cup {Record(f)}
    BY <2>1, <2>2, RecordIsDated, FailureRecords
  <2>4. Dated(r)
    BY <2>3
  <2> QED
    BY <1>28, <2>2, <2>4 DEF CallbackRaises
<1>29. ASSUME NEW ok \in BOOLEAN,
          OnUnloadReturns(ok)
       PROVE  Goal
  BY <1>29 DEF OnUnloadReturns
<1>30. ASSUME NEW ok \in BOOLEAN,
          RunReturnsNoObject(ok)
       PROVE  Goal
  BY <1>30 DEF RunReturnsNoObject, DrainCleanup
<1>31. ASSUME NEW outcome \in {"data", "nil", "absent", "error"},
          OnReloadReturns(outcome)
       PROVE  Goal
  BY <1>31 DEF OnReloadReturns
<1>32. ASSUME NEW order \in Orders, NEW readable \in BOOLEAN,
          NEW retired \in BOOLEAN, Rescan(order, readable, retired)
       PROVE  Goal
  BY <1>32 DEF Rescan, RetireGenerationGlobals, RetirementRaises
<1>33. CASE UNCHANGED vars
  BY <1>33
<1> QED
  BY <1>1, <1>2, <1>3, <1>4, <1>5, <1>6, <1>7, <1>8, <1>9, <1>10,
     <1>11, <1>12, <1>13, <1>14, <1>15, <1>16, <1>17, <1>18, <1>19, <1>20,
     <1>21, <1>22, <1>23, <1>24, <1>25, <1>26, <1>27, <1>28, <1>29, <1>30,
     <1>31, <1>32, <1>33
     DEF Next, Update, Manager, ModCode

-------------------------------------------------------------------------------
(* The theorems.                                                           *)

PassInv ==
  /\ Shape /\ Custody
  /\ Bracket /\ Retired /\ Counted /\ Silent /\ Returns /\ Tried
  /\ Eras /\ DataFromLastTeardown /\ ReverseOrder

\* All of it holds before the first update (init).
LEMMA PassInit == Init => PassInv
<1> SUFFICES ASSUME Init
             PROVE  PassInv
  OBVIOUS
<1>1. Shape /\ Custody
  BY ShapeInit, CustodyInit
<1>2. Attached = {}
  <2>1. \A i \in DOMAIN mods : mods[i].object = NoObj
    BY <1>1 DEF Init, Custody, Untried, Fresh
  <2> QED
    BY <2>1 DEF Attached
<1>3. Bracket /\ Retired /\ Counted
  BY DEF Init, Bracket, Retired, Counted, PassOpen, Heading, Loading, Teardown, Nil
<1>4. Silent /\ Returns
  BY <1>2 DEF Init, Silent, Returns, Continuations, PassOpen, Heading
<1>5. Tried
  BY DEF Init, Tried, PassOpen
<1>6. Eras
  BY <1>2 DEF Init, Eras, Young, Attached, Heading, Teardown
<1>7. DataFromLastTeardown
  BY DEF Init, DataFromLastTeardown, NoData
<1>8. ReverseOrder
  BY EmptyFalls, ReverseOrderFalls DEF Init
<1> QED
  BY <1>1, <1>3, <1>4, <1>5, <1>6, <1>7, <1>8 DEF PassInv

\* And every step keeps it.
LEMMA PassNext == PassInv /\ [Next]_vars => PassInv'
<1> SUFFICES ASSUME PassInv, [Next]_vars
             PROVE  PassInv'
  OBVIOUS
<1>1. Shape' /\ Custody' /\ Flow
  BY ShapeNext, CustodyNext, FlowHolds DEF PassInv
<1>2. Bracket' /\ Retired' /\ Counted'
  BY <1>1, BracketNext, RetiredNext, CountedNext DEF PassInv
<1>3. Silent' /\ Returns' /\ Tried'
  BY SilentNext, ReturnsNext, TriedNext DEF PassInv
<1>4. Eras' /\ DataFromLastTeardown' /\ ReverseOrder'
  BY ErasNext, DataNext, OrderNext DEF PassInv
<1> QED
  BY <1>1, <1>2, <1>3, <1>4 DEF PassInv

\* So it always holds.
LEMMA PassInvariant == Spec => []PassInv
BY PassInit, PassNext, PTL DEF Spec

\* Only the end of a pass publishes "done" and advances the generation.
LEMMA OnlyFinalizeCompletes ==
  ASSUME [Next]_vars
  PROVE  \/ FinalizeLoadPass
         \/ generation' = generation /\ (loadDone' => loadDone)
<1> DEFINE Goal == \/ FinalizeLoadPass
                   \/ generation' = generation /\ (loadDone' => loadDone)
<1> USE DEF vars,
        fieldVars, historyVars, entryVars, passVars, stopVars, globalVars,
        reloadVars, adapterVars, loopVars, objectVars, eraVars, askVars
<1>1. CASE RequestReload
  BY <1>1 DEF RequestReload, Ask
<1>2. CASE SetReloadRequested
  BY <1>2 DEF SetReloadRequested, Ask
<1>3. CASE UpdateTeardown
  BY <1>3 DEF UpdateTeardown, ClosePass, ForgetReload, DrainCleanup
<1>4. CASE UpdateAnchor
  BY <1>4 DEF UpdateAnchor, NewPass, Resume, ReplacementDue
<1>5. CASE UpdateLoad
  BY <1>5 DEF UpdateLoad
<1>6. CASE UpdateDrive
  BY <1>6 DEF UpdateDrive
<1>7. CASE GameStateChanged
  BY <1>7 DEF GameStateChanged, Dispatch, DrainCleanup, FanOut
<1>8. CASE Destroy
  BY <1>8 DEF Destroy, ClosePass, DrainCleanup
<1>9. CASE TakeQueue
  BY <1>9 DEF TakeQueue
<1>10. CASE CallOnUnload
  BY <1>10 DEF CallOnUnload
<1>11. CASE DrainEnds
  BY <1>11 DEF DrainEnds
<1>12. CASE CallOnReload
  BY <1>12 DEF CallOnReload
<1>13. CASE TeardownDetach
  BY <1>13 DEF TeardownDetach, DrainCleanup, LeaveLoop
<1>14. CASE EntryLoaded
  BY <1>14 DEF EntryLoaded, DrainCleanup
<1>15. ASSUME NEW retired \in BOOLEAN, EntryStopped(retired)
       PROVE  Goal
  BY <1>15 DEF EntryStopped, RetireGenerationGlobals, RetirementRaises
<1>16. CASE AdvanceCursor
  BY <1>16 DEF AdvanceCursor, PassComplete, NextCursor
<1>17. CASE FinalizeLoadPass
  BY <1>17
<1>18. CASE DriveUpdate
  BY <1>18 DEF DriveUpdate, Dispatch, DrainCleanup, FanOut
<1>19. CASE CallEntry
  BY <1>19 DEF CallEntry
<1>20. CASE FanOutEnds
  BY <1>20 DEF FanOutEnds, DrainCleanup, LeaveLoop
<1>21. ASSUME NEW retired \in BOOLEAN, Settle(retired)
       PROVE  Goal
  BY <1>21 DEF Settle, RetireGenerationGlobals, RetirementRaises
<1>22. CASE DestroyDetach
  BY <1>22 DEF DestroyDetach, DrainCleanup
<1>23. CASE RunReturnsObject
  BY <1>23 DEF RunReturnsObject
<1>24. CASE LoadEscapes
  BY <1>24 DEF LoadEscapes
<1>25. CASE InitReturns
  BY <1>25 DEF InitReturns, DrainCleanup
<1>26. CASE InitRaises
  BY <1>26 DEF InitRaises, DrainCleanup
<1>27. CASE CallbackReturns
  BY <1>27 DEF CallbackReturns
<1>28. CASE CallbackRaises
  BY <1>28 DEF CallbackRaises
<1>29. ASSUME NEW ok \in BOOLEAN,
          OnUnloadReturns(ok)
       PROVE  Goal
  BY <1>29 DEF OnUnloadReturns
<1>30. ASSUME NEW ok \in BOOLEAN,
          RunReturnsNoObject(ok)
       PROVE  Goal
  BY <1>30 DEF RunReturnsNoObject, DrainCleanup
<1>31. ASSUME NEW outcome \in {"data", "nil", "absent", "error"},
          OnReloadReturns(outcome)
       PROVE  Goal
  BY <1>31 DEF OnReloadReturns
<1>32. ASSUME NEW order \in Orders, NEW readable \in BOOLEAN,
          NEW retired \in BOOLEAN, Rescan(order, readable, retired)
       PROVE  Goal
  BY <1>32 DEF Rescan, RetireGenerationGlobals, RetirementRaises
<1>33. CASE UNCHANGED vars
  BY <1>33
<1> QED
  BY <1>1, <1>2, <1>3, <1>4, <1>5, <1>6, <1>7, <1>8, <1>9, <1>10,
     <1>11, <1>12, <1>13, <1>14, <1>15, <1>16, <1>17, <1>18, <1>19, <1>20,
     <1>21, <1>22, <1>23, <1>24, <1>25, <1>26, <1>27, <1>28, <1>29, <1>30,
     <1>31, <1>32, <1>33
     DEF Next, Update, Manager, ModCode

\* The pass bookkeeping and the fields DMF reads agree whenever anyone can look:
\* between handlers and inside callbacks (_begin_load_pass,
\* _advance_load_pass, _finalize_load_pass).
THEOREM PassIsBracketed == Spec => []PassBracket
<1>1. PassInv => PassBracket
  <2> SUFFICES ASSUME PassInv, pc \in Callbacks \cup {"idle"}
               PROVE  PassBracket
    BY DEF PassBracket
  <2>1. PassOpen => cursor \in 1..Len(mods)
    BY DEF PassInv, Shape, TypeOK, EntriesOK, FieldsOK, CursorControl, Callbacks, PassOpen
  <2>2. pc \in {"run", "init"} => loadIndex = cursor
    BY DEF PassInv, Bracket, Custody, Untried, Heading, Loading
  <2> QED
    BY <2>1, <2>2 DEF PassInv, Bracket, PassBracket
<1> QED
  BY <1>1, PassInvariant, PTL

\* The globals of a generation are gone before its replacement begins, unless
\* retiring them raised (_retire_generation_globals, _begin_reload).
THEOREM OnlyErrorsKeepGlobals == Spec => []OnlyAnErrorKeepsGlobals
<1>1. PassInv => OnlyAnErrorKeepsGlobals
  BY DEF PassInv, Retired, OnlyAnErrorKeepsGlobals, ReplacementDue, PassOpen, Heading, Teardown
<1> QED
  BY <1>1, PassInvariant, PTL

\* After the framework failed, nothing of its generation is loaded or called
\* (_handle_lifecycle_failure, _advance_load_pass, _drive_update).
THEOREM StoppedIsSilent == Spec => []StoppedGenerationIsSilent
<1>1. PassInv => StoppedGenerationIsSilent
  <2> SUFFICES ASSUME PassInv, genFailed
               PROVE  pc \notin Driving \cup {"run", "on_reload"} /\ Attached = {}
    BY DEF StoppedGenerationIsSilent
  <2>1. Attached = {} /\ pc # "run"
    BY DEF PassInv, Silent
  <2>2. pc # "init"
    BY DEF PassInv, Bracket
  <2>3. pc \notin {"update", "gsc", "on_reload"}
    BY <2>1 DEF PassInv, Shape, CallControl, Attached
  <2> QED
    BY <2>1, <2>2, <2>3 DEF Driving
<1> QED
  BY <1>1, PassInvariant, PTL

\* Teardown, destroy and a framework's failure unload from the last entry to the
\* first (_rebuild_framework_cleanup_queue, _begin_reload, destroy).
THEOREM CleanupReverses == Spec => []ReverseOrder
<1>1. PassInv => ReverseOrder
  BY DEF PassInv
<1> QED
  BY <1>1, PassInvariant, PTL

\* Data handed to a replacement is of the generation torn down last, also when
\* replays were interrupted (_begin_reload, _load_one).
THEOREM DataIsOfTheLast == Spec => []DataFromLastTeardown
<1>1. PassInv => DataFromLastTeardown
  BY DEF PassInv
<1> QED
  BY <1>1, PassInvariant, PTL

\* "done" is published by the end of a pass only, one generation further, with
\* every entry tried unless the load escaped (_finalize_load_pass).
THEOREM DoneIsPublished == Spec => DonePublication
<1>1. ASSUME PassInv, [Next]_vars
      PROVE  /\ generation' # generation => generation' = generation + 1 /\ loadDone'
             /\ loadDone' /\ ~loadDone =>
                  /\ generation' = generation + 1
                  /\ pc = "escape" \/ \A i \in DOMAIN mods' : mods'[i].state # "not_loaded"
  <2>1. CASE ~FinalizeLoadPass
    BY <1>1, <2>1, OnlyFinalizeCompletes
  <2>2. CASE FinalizeLoadPass
    <3>1. /\ pc \in {"advance", "escape"} /\ PassComplete
          /\ generation' = target /\ loadDone' = TRUE
          /\ mods' = [i \in DOMAIN mods |->
                        IF stopPass /\ mods[i].state = "not_loaded"
                        THEN [mods[i] EXCEPT !.state = "skipped"] ELSE mods[i]]
      BY <2>2 DEF FinalizeLoadPass
    <3>2. /\ PassOpen /\ cursor \in Nat /\ mods \in Seq(Entries) /\ Len(mods) \in Nat
          /\ DOMAIN mods = 1..Len(mods)
      BY <1>1, <3>1 DEF PassInv, Shape, TypeOK, EntriesOK, FieldsOK, CursorControl,
         Heading, Loading, PassOpen
    <3>3. target = generation + 1
      BY <1>1, <3>2 DEF PassInv, Bracket
    <3>4. ASSUME pc # "escape", NEW i \in DOMAIN mods
          PROVE  mods'[i].state # "not_loaded"
      <4>1. mods[i] \in Entries
        BY <3>2
      <4>2. CASE stopPass
        BY <3>1, <4>1, <4>2 DEF Entries
      <4>3. CASE ~stopPass
        <5>1. pc = "advance" /\ cursor + 1 > Len(mods)
          BY <3>1, <3>4, <4>3 DEF PassComplete, NextCursor
        <5>2. TriedTo(cursor)
          BY <1>1, <3>2, <4>3, <5>1 DEF PassInv, Tried, Reached, Heading
        <5>3. i <= cursor
          BY <3>2, <5>1
        <5> QED
          BY <3>1, <4>3, <5>2, <5>3 DEF TriedTo
      <4> QED
        BY <4>2, <4>3
    <3>5. DOMAIN mods' = DOMAIN mods
      BY <3>1
    <3> QED
      BY <3>1, <3>3, <3>4, <3>5
  <2> QED
    BY <2>1, <2>2
<1>2. PassInv /\ [Next]_vars =>
        [/\ generation' # generation => generation' = generation + 1 /\ loadDone'
         /\ loadDone' /\ ~loadDone =>
              /\ generation' = generation + 1
              /\ pc = "escape" \/ \A i \in DOMAIN mods' : mods'[i].state # "not_loaded"]_vars
  BY <1>1
<1> QED
  BY <1>2, PassInvariant, PTL DEF Spec, DonePublication

\* A reload is reported clean only when it met none of the errors that count
\* against it, those CleanReportIsHonest lists (_finalize_load_pass,
\* _reload_degraded, _pass_had_errors).
THEOREM CleanIsHonest == Spec => CleanReportIsHonest
<1>1. ASSUME PassInv, [Next]_vars,
             passKind = "reload", loadDone', ~loadDone, report' = "clean"
      PROVE  ~raised /\ ~genFailed
  <2>1. FinalizeLoadPass
    BY <1>1, OnlyFinalizeCompletes
  <2>2. ~CompletedWithErrors
    BY <1>1, <2>1 DEF FinalizeLoadPass, SettleReload
  <2>3. inProgress
    BY <1>1 DEF PassInv, Bracket
  <2> QED
    BY <1>1, <2>2, <2>3 DEF PassInv, Counted, CompletedWithErrors
<1>2. PassInv /\ [Next]_vars =>
        [passKind = "reload" /\ loadDone' /\ ~loadDone /\ report' = "clean" =>
           ~raised /\ ~genFailed]_vars
  BY <1>1
<1> QED
  BY <1>2, PassInvariant, PTL DEF Spec, CleanReportIsHonest

\* What is known of the failure records whatever the mods do.
RecordInv == PassInv /\ Orderly /\ \A r \in records : Dated(r)

\* It always holds.
LEMMA RecordInvariant == Spec => []RecordInv
<1>1. Init => RecordInv
  <2> SUFFICES ASSUME Init
               PROVE  RecordInv
    OBVIOUS
  <2>1. PassInv
    BY PassInit
  <2> QED
    BY <2>1 DEF Init, RecordInv, Orderly
<1>2. RecordInv /\ [Next]_vars => RecordInv'
  <2> SUFFICES ASSUME RecordInv, [Next]_vars
               PROVE  RecordInv'
    OBVIOUS
  <2>1. PassInv' /\ Flow
    BY PassNext, FlowHolds DEF RecordInv, PassInv
  <2>2. Orderly'
    <3>1. base \in Nat /\ nobj \in Nat /\ settled \in Nat /\ base <= nobj
      BY DEF RecordInv, PassInv, Shape, TypeOK, EntriesOK, HistoryOK, Eras
    <3> QED
      BY <2>1, <3>1, OrderlyNext DEF RecordInv, PassInv
  <2>3. \A r \in records' : DatedNext(r)
    BY RecordsNext DEF RecordInv, PassInv
  <2>4. (\A r \in records : Dated(r))'
    BY <2>3 DEF Dated, DatedNext
  <2> QED
    BY <2>1, <2>2, <2>4 DEF RecordInv
<1> QED
  BY <1>1, <1>2, PTL DEF Spec

\* A finished pass leaves no failure of a generation that had finished before it
\* (_prune_old_failure_records, _active_generation).
THEOREM FinishedAreForgotten == Spec => []FinishedGenerationsForgotten
<1>1. RecordInv => FinishedGenerationsForgotten
  BY DEF RecordInv, Dated, FinishedGenerationsForgotten
<1> QED
  BY <1>1, RecordInvariant, PTL

\* When every request comes through request_reload, no replay is cut short, and a
\* finished pass leaves only failures of its own objects
\* (_prune_old_failure_records, request_reload).
THEOREM CompletionClears ==
  ASSUME ~DirectField
  PROVE  Spec => []CompletedReloadClearsFailures
<1>1. RecordInv => CompletedReloadClearsFailures
  BY DEF RecordInv, Orderly, Dated, CompletedReloadClearsFailures
<1> QED
  BY <1>1, RecordInvariant, PTL

-------------------------------------------------------------------------------
(***************************************************************************)
(* The contract with the mods, for any names and any contents of mods.lst. *)
(* To the invariants of ModManagerProofs this adds that an unloaded object *)
(* is forgotten with the return of its on_unload.                          *)
(***************************************************************************)

\* An entry holds an object whose on_unload was called only while it executes.
Forgotten ==
  \A i \in DOMAIN mods :
    mods[i].done /\ mods[i].cleanup # NoObj => pc = "on_unload" /\ i = Head(batch)

\* What an entry contributes to the contract.
SameHolding(e, f) == f.object = e.object /\ f.cleanup = e.cleanup

\* Everything the proofs below use of the manager's invariant.
Safe == Shape /\ Custody /\ Account /\ Forgotten

ObjectCalls == {"init", "update", "gsc", "on_reload", "on_unload"}

\* The steps that call no object, leave no callback and keep the entries.
Unseen ==
  \/ Update \/ Destroy \/ DrainEnds \/ EntryLoaded
  \/ AdvanceCursor \/ DriveUpdate \/ GameStateChanged \/ FanOutEnds
  \/ \E retired \in BOOLEAN : EntryStopped(retired) \/ Settle(retired)
  \/ LoadEscapes

\* They are invisible to a mod.
LEMMA UnseenSteps ==
  ASSUME ControlOK, Unseen
  PROVE  /\ UNCHANGED <<mods, nobj, batch>>
         /\ pc \notin ObjectCalls /\ pc' \notin ObjectCalls
<1> USE DEF ControlOK, Continuations, ObjectCalls, fieldVars, historyVars, entryVars,
            objectVars
<1>1. CASE Update
  BY <1>1 DEF Update, UpdateTeardown, UpdateAnchor, UpdateLoad, UpdateDrive,
          DrainCleanup
<1>2. CASE GameStateChanged \/ DriveUpdate
  BY <1>2 DEF GameStateChanged, DriveUpdate, Dispatch, DrainCleanup, FanOut
<1>3. CASE Destroy \/ DrainEnds
  BY <1>3 DEF Destroy, DrainEnds, DrainCleanup
<1>4. CASE EntryLoaded \/ AdvanceCursor \/ FanOutEnds \/ LoadEscapes
  BY <1>4 DEF EntryLoaded, AdvanceCursor, FanOutEnds, LoadEscapes, DrainCleanup
<1>5. CASE \E retired \in BOOLEAN : EntryStopped(retired) \/ Settle(retired)
  BY <1>5 DEF EntryStopped, Settle, DrainCleanup
<1>6. QED
  BY <1>1, <1>2, <1>3, <1>4, <1>5 DEF Unseen

\* A request is made anywhere and changes nothing a mod can see.
LEMMA RequestSteps ==
  ASSUME RequestReload \/ SetReloadRequested
  PROVE  UNCHANGED <<mods, nobj, batch, pc, cursor, idx>>
BY DEF RequestReload, SetReloadRequested, Ask, fieldVars, entryVars, passVars,
       loopVars, objectVars

\* A step in which each entry keeps its objects and nobody else is
\* called is none for the contract.
LEMMA Stutter ==
  ASSUME UNCHANGED nobj, DOMAIN mods' = DOMAIN mods,
         \A i \in DOMAIN mods : SameHolding(mods[i], mods'[i]),
         ObjectCall' = ObjectCall
  PROVE  UNCHANGED Contract!contractVars
<1>1. ActiveObjects' = ActiveObjects
  BY DEF ActiveObjects, Attached, SameHolding
<1>2. OwedObjects' = OwedObjects
  BY DEF OwedObjects, SameHolding
<1>3. QED
  BY <1>1, <1>2 DEF Contract!contractVars

-------------------------------------------------------------------------------
(* What the manager's own steps do to the entries.                         *)

\* Loading an entry without an object, and finalizing a pass, change no holding.
LEMMA StatesOnly ==
  ASSUME Shape, Custody, FinalizeLoadPass \/ \E ok \in BOOLEAN : RunReturnsNoObject(ok)
  PROVE  /\ DOMAIN mods' = DOMAIN mods /\ UNCHANGED <<nobj, batch>>
         /\ \A i \in DOMAIN mods : SameHolding(mods[i], mods'[i]) /\ mods'[i].done = mods[i].done
         /\ pc \notin ObjectCalls /\ pc' \notin ObjectCalls
<1>0. \A i \in DOMAIN mods : mods[i] \in Entries
  BY DEF Shape, TypeOK, EntriesOK
<1>1. CASE FinalizeLoadPass
  <2>1. /\ mods' = [i \in DOMAIN mods |->
                     IF stopPass /\ mods[i].state = "not_loaded"
                     THEN [mods[i] EXCEPT !.state = "skipped"] ELSE mods[i]]
        /\ UNCHANGED <<nobj, batch>> /\ pc \in {"advance", "escape"} /\ pc' = "drive"
    BY <1>1 DEF FinalizeLoadPass, historyVars, objectVars
  <2>2. QED
    BY <1>0, <2>1 DEF SameHolding, Entries, ObjectCalls
<1>2. ASSUME NEW ok \in BOOLEAN, RunReturnsNoObject(ok)
      PROVE  /\ DOMAIN mods' = DOMAIN mods /\ UNCHANGED <<nobj, batch>>
             /\ \A i \in DOMAIN mods :
                  SameHolding(mods[i], mods'[i]) /\ mods'[i].done = mods[i].done
             /\ pc \notin ObjectCalls /\ pc' \notin ObjectCalls
  <2>1. /\ pc = "run" /\ pc' = "drain" /\ UNCHANGED <<nobj, batch>>
        /\ mods' = [mods EXCEPT
             ![cursor].state = IF ok THEN "dmf_driven" ELSE "failed",
             ![cursor].object = IF ok THEN @ ELSE NoObj]
    BY <1>2 DEF RunReturnsNoObject, DrainCleanup, historyVars, objectVars
  <2>2. cursor \in DOMAIN mods /\ Fresh(mods[cursor])
    BY <2>1, RunIsFresh DEF Custody
  <2>3. /\ mods'[cursor].object = mods[cursor].object
        /\ mods'[cursor].cleanup = mods[cursor].cleanup
        /\ mods'[cursor].done = mods[cursor].done
    BY <1>0, <2>1, <2>2 DEF Fresh, Entries
  <2>4. \A i \in DOMAIN mods : i # cursor => mods'[i] = mods[i]
    BY <2>1
  <2>5. DOMAIN mods' = DOMAIN mods
    BY <2>1
  <2>6. QED
    BY <2>1, <2>3, <2>4, <2>5 DEF SameHolding, ObjectCalls
<1>3. QED
  BY <1>1, <1>2

\* run() attaches the new object to an entry that held none.
LEMMA RunAttaches ==
  ASSUME Shape, Custody, RunReturnsObject
  PROVE  /\ cursor \in DOMAIN mods /\ cursor' = cursor
         /\ DOMAIN mods' = DOMAIN mods /\ UNCHANGED batch
         /\ pc = "run" /\ pc' = "init" /\ nobj' = nobj + 1
         /\ mods[cursor].object = NoObj /\ mods'[cursor].object = nobj + 1
         /\ \A i \in DOMAIN mods :
              /\ mods'[i].cleanup = mods[i].cleanup /\ mods'[i].done = mods[i].done
              /\ i # cursor => mods'[i] = mods[i]
<1>0. \A i \in DOMAIN mods : mods[i] \in Entries
  BY DEF Shape, TypeOK, EntriesOK
<1>1. /\ pc = "run" /\ pc' = "init" /\ nobj' = nobj + 1 /\ UNCHANGED <<batch, cursor>>
      /\ mods' = [mods EXCEPT ![cursor].object = nobj + 1, ![cursor].state = "running"]
  BY DEF RunReturnsObject, passVars
<1>2. cursor \in DOMAIN mods /\ Fresh(mods[cursor])
  BY <1>1, RunIsFresh DEF Custody
<1>3. /\ mods'[cursor].object = nobj + 1
      /\ mods'[cursor].cleanup = mods[cursor].cleanup
      /\ mods'[cursor].done = mods[cursor].done
  BY <1>0, <1>1, <1>2 DEF Entries
<1>4. \A i \in DOMAIN mods : i # cursor => mods'[i] = mods[i]
  BY <1>1
<1>5. DOMAIN mods' = DOMAIN mods
  BY <1>1
<1>6. QED
  BY <1>1, <1>2, <1>3, <1>4, <1>5 DEF Fresh

\* The call of on_unload, or the skipping of one that was made.
LEMMA UnloadCalls ==
  ASSUME Safe, CallOnUnload
  PROVE  LET h == Head(batch)
         IN /\ h \in DOMAIN mods /\ DOMAIN mods' = DOMAIN mods /\ UNCHANGED nobj
            /\ \A i \in DOMAIN mods :
                 /\ SameHolding(mods[i], mods'[i])
                 /\ i # h => mods'[i] = mods[i]
            /\ \/ pc' = pc /\ mods'[h].done = mods[h].done /\ mods'[h].cleanup = NoObj
               \/ /\ pc' = "on_unload" /\ batch' = batch
                  /\ mods[h].cleanup # NoObj
<1> DEFINE h == Head(batch)
<1>1. /\ pc = "draining" /\ batch # <<>> /\ UNCHANGED nobj
      /\ \A i \in DOMAIN mods : mods[i] \in Entries
  BY DEF CallOnUnload, Safe, Shape, TypeOK, EntriesOK
<1>2. h \in DOMAIN mods /\ Queued(mods[h])
  <2>1. batch \in Seq(DOMAIN mods)
    BY DEF Safe, Shape, TypeOK, EntriesOK
  <2>2. h \in DOMAIN mods /\ InQueue(batch, h)
    BY <1>1, <2>1, HeadTailProperties, InTail
  <2>3. QED
    BY <2>2 DEF Safe, Custody, QueuesOwe
<1>3. CASE mods[h].done
  <2>1. mods[h].cleanup = NoObj
    BY <1>1, <1>2, <1>3 DEF Safe, Forgotten
  <2>2. mods' = [mods EXCEPT ![h].cleanup = NoObj] /\ pc' = pc
    BY <1>3 DEF CallOnUnload
  <2>3. mods'[h].object = mods[h].object /\ mods'[h].cleanup = NoObj
        /\ mods'[h].done = mods[h].done
    BY <1>1, <1>2, <2>2 DEF Entries
  <2>4. DOMAIN mods' = DOMAIN mods /\ \A i \in DOMAIN mods : i # h => mods'[i] = mods[i]
    BY <2>2
  <2> HIDE DEF h
  <2>5. QED
    BY <1>1, <1>2, <2>1, <2>2, <2>3, <2>4 DEF SameHolding, h
<1>4. CASE ~mods[h].done
  <2>1. mods[h].cleanup # NoObj
    BY <1>2, <1>4 DEF Queued
  <2>2. mods' = [mods EXCEPT ![h].done = TRUE] /\ pc' = "on_unload" /\ batch' = batch
    BY <1>4 DEF CallOnUnload
  <2>3. mods'[h].object = mods[h].object /\ mods'[h].cleanup = mods[h].cleanup
    BY <1>1, <1>2, <2>2 DEF Entries
  <2>4. DOMAIN mods' = DOMAIN mods /\ \A i \in DOMAIN mods : i # h => mods'[i] = mods[i]
    BY <2>2
  <2> HIDE DEF h
  <2>5. QED
    BY <1>1, <1>2, <2>1, <2>2, <2>3, <2>4 DEF SameHolding, h
<1>5. QED
  BY <1>3, <1>4

\* The return of on_unload, which forgets the object.
LEMMA UnloadReturns ==
  ASSUME Shape, Custody, NEW ok \in BOOLEAN, OnUnloadReturns(ok)
  PROVE  LET h == Head(batch)
         IN /\ h \in DOMAIN mods /\ DOMAIN mods' = DOMAIN mods /\ UNCHANGED nobj
            /\ pc = "on_unload" /\ pc' = "draining"
            /\ mods[h].cleanup # NoObj /\ mods'[h].cleanup = NoObj
            /\ \A i \in DOMAIN mods :
                 /\ mods'[i].object = mods[i].object /\ mods'[i].done = mods[i].done
                 /\ i # h => mods'[i] = mods[i]
<1> DEFINE h == Head(batch)
<1>1. /\ pc = "on_unload" /\ pc' = "draining" /\ UNCHANGED nobj
      /\ mods' = [mods EXCEPT ![h].cleanup = NoObj]
      /\ \A i \in DOMAIN mods : mods[i] \in Entries
  BY DEF OnUnloadReturns, historyVars, objectVars, Shape, TypeOK, EntriesOK
<1>2. batch # <<>>
  BY <1>1 DEF Shape, QueueControl
<1>3. h \in DOMAIN mods
  BY <1>2, CallOnUnloadClaimed
<1>4. mods[h].cleanup # NoObj
  BY <1>1 DEF Custody, QueuesOwe
<1>5. /\ mods'[h].cleanup = NoObj /\ mods'[h].object = mods[h].object
      /\ mods'[h].done = mods[h].done
  BY <1>1, <1>3 DEF Entries
<1>6. DOMAIN mods' = DOMAIN mods /\ \A i \in DOMAIN mods : i # h => mods'[i] = mods[i]
  BY <1>1
<1> HIDE DEF h
<1>7. QED
  BY <1>1, <1>3, <1>4, <1>5, <1>6 DEF h
-------------------------------------------------------------------------------
(* An unloaded object is forgotten.                                        *)

\* The steps that call an active object or return from it, and keep the entries.
Dialogue ==
  \/ CallOnReload \/ CallEntry \/ CallbackReturns \/ InitReturns
  \/ \E outcome \in {"data", "nil", "absent", "error"} : OnReloadReturns(outcome)

\* The entries are the same, and no on_unload is executing.
LEMMA DialogueSteps ==
  ASSUME ControlOK, Dialogue
  PROVE  UNCHANGED <<mods, nobj>> /\ pc # "on_unload"
<1>1. UNCHANGED <<mods, nobj>>
  BY QuietSteps DEF Dialogue, EntriesUnchanged
<1>2. pc # "on_unload"
  BY DEF Dialogue, CallOnReload, CallEntry, CallbackReturns, InitReturns,
         OnReloadReturns
<1>3. QED
  BY <1>1, <1>2

\* Nothing is unloaded when the manager starts.
LEMMA ForgottenInit == Init => Forgotten
<1> SUFFICES ASSUME Init PROVE Forgotten
  OBVIOUS
<1>1. \A i \in DOMAIN mods : Fresh(mods[i])
  BY CustodyInit DEF Init, Custody, Untried
<1>2. QED
  BY <1>1 DEF Forgotten, Fresh

\* The entries of a new list are fresh, whether there is one or not.
LEMMA RescanFresh ==
  ASSUME NEW order \in Orders, NEW readable \in BOOLEAN,
         NEW retired \in BOOLEAN, Rescan(order, readable, retired)
  PROVE  \A i \in DOMAIN mods' : Fresh(mods'[i])
<1>1. order \in Seq(Names)
  BY ConstantsAssumption
<1>2. mods' = IF readable THEN Scan(order) ELSE <<>>
  BY DEF Rescan
<1>3. CASE readable
  BY <1>1, <1>2, <1>3, ScanFresh
<1>4. CASE ~readable
  BY <1>2, <1>4
<1>5. QED
  BY <1>3, <1>4

\* Every step keeps an unloaded object only while its on_unload executes.
LEMMA ForgottenNext ==
  ASSUME Safe, [Next]_vars
  PROVE  Forgotten'
<1> DEFINE Lost(e) == e.done /\ e.cleanup # NoObj
<1>0. /\ Shape /\ Custody /\ Forgotten /\ ControlOK /\ EntriesOK /\ FieldsOK
      /\ EntriesInCustody
  BY DEF Safe, Shape, TypeOK, Custody
<1>1. ASSUME pc # "on_unload", DOMAIN mods' = DOMAIN mods,
             \A i \in DOMAIN mods : Lost(mods'[i]) => Lost(mods[i])
      PROVE  Forgotten'
  BY <1>0, <1>1 DEF Forgotten
<1>2. CASE UNCHANGED <<mods, batch, pc>>
  BY <1>0, <1>2 DEF Forgotten
<1>3. CASE RequestReload \/ SetReloadRequested \/ UNCHANGED vars
  BY <1>2, <1>3, RequestSteps DEF vars, fieldVars, entryVars
<1>4. CASE Unseen
  BY <1>0, <1>1, <1>4, UnseenSteps DEF ObjectCalls
<1>5. CASE Dialogue
  BY <1>0, <1>1, <1>5, DialogueSteps
<1>6. CASE TakeQueue
  BY <1>1, <1>6 DEF TakeQueue
<1>7. CASE CallOnUnload
  <2> DEFINE h == Head(batch)
  <2>1. /\ h \in DOMAIN mods /\ DOMAIN mods' = DOMAIN mods /\ pc = "draining"
        /\ \A i \in DOMAIN mods : i # h => mods'[i] = mods[i]
        /\ \/ mods'[h].cleanup = NoObj
           \/ pc' = "on_unload" /\ batch' = batch
    BY <1>7, UnloadCalls DEF CallOnUnload
  <2>2. \A i \in DOMAIN mods : ~Lost(mods[i])
    BY <1>0, <2>1 DEF Forgotten
  <2>3. \A i \in DOMAIN mods : i # h => ~Lost(mods'[i])
    BY <2>1, <2>2
  <2> HIDE DEF h
  <2>4. CASE mods'[h].cleanup = NoObj
    BY <2>1, <2>3, <2>4 DEF Forgotten
  <2>5. CASE pc' = "on_unload" /\ batch' = batch
    BY <2>1, <2>3, <2>5 DEF Forgotten, h
  <2>6. QED
    BY <2>1, <2>4, <2>5
<1>8. ASSUME NEW ok \in BOOLEAN, OnUnloadReturns(ok)
      PROVE  Forgotten'
  <2> DEFINE h == Head(batch)
  <2>1. /\ h \in DOMAIN mods /\ DOMAIN mods' = DOMAIN mods
        /\ mods'[h].cleanup = NoObj
        /\ \A i \in DOMAIN mods : i # h => mods'[i] = mods[i]
    BY <1>0, <1>8, UnloadReturns
  <2>2. \A i \in DOMAIN mods : i # h => ~Lost(mods[i])
    BY <1>0 DEF Forgotten
  <2> HIDE DEF h
  <2>3. \A i \in DOMAIN mods : ~Lost(mods'[i])
    BY <2>1, <2>2
  <2>4. QED
    BY <2>1, <2>3 DEF Forgotten
<1>9. CASE TeardownDetach \/ DestroyDetach
  <2>1. DetachAll /\ pc # "on_unload"
    BY <1>9 DEF TeardownDetach, DestroyDetach
  <2>2. /\ DOMAIN mods' = DOMAIN mods
        /\ \A i \in DOMAIN mods :
             Kept(mods[i], mods'[i]) \/ Detached(mods[i], mods'[i])
    BY <1>0, <2>1, DetachAllCarries DEF SameList
  <2>3. QED
    BY <1>1, <2>1, <2>2 DEF Kept, Detached
<1>10. CASE InitRaises \/ CallbackRaises
  <2>1. PICK f \in DOMAIN mods : mods[f].object # NoObj /\ HandleLifecycleFailure(f)
    BY <1>0, <1>10, FailsAttached
  <2>2. /\ DOMAIN mods' = DOMAIN mods
        /\ \A i \in DOMAIN mods :
             Kept(mods[i], mods'[i]) \/ Detached(mods[i], mods'[i])
    BY <1>0, <2>1, FailureCarries DEF SameList
  <2>3. pc # "on_unload"
    BY <1>10 DEF InitRaises, CallbackRaises
  <2>4. QED
    BY <1>1, <2>2, <2>3 DEF Kept, Detached
<1>11. CASE FinalizeLoadPass \/ \E ok \in BOOLEAN : RunReturnsNoObject(ok)
  BY <1>0, <1>1, <1>11, StatesOnly DEF SameHolding, ObjectCalls
<1>12. CASE RunReturnsObject
  <2>1. /\ pc = "run" /\ DOMAIN mods' = DOMAIN mods
        /\ \A i \in DOMAIN mods :
             mods'[i].cleanup = mods[i].cleanup /\ mods'[i].done = mods[i].done
    BY <1>0, <1>12, RunAttaches
  <2>2. QED
    BY <1>1, <2>1
<1>13. ASSUME NEW order \in Orders, NEW readable \in BOOLEAN,
              NEW retired \in BOOLEAN, Rescan(order, readable, retired)
       PROVE  Forgotten'
  BY <1>13, RescanFresh DEF Forgotten, Fresh
<1>14. QED
  BY <1>3, <1>4, <1>5, <1>6, <1>7, <1>8, <1>9, <1>10, <1>11, <1>12, <1>13
     DEF Next, Manager, ModCode, Unseen, Dialogue

\* What the mapping needs is invariant.
LEMMA SafeInvariant == Spec => []Safe
<1>1. Init => Forgotten
  BY ForgottenInit
<1>2. Shape /\ Custody /\ Account /\ Forgotten /\ [Next]_vars => Forgotten'
  BY ForgottenNext DEF Safe
<1>3. Shape /\ Custody /\ Account /\ Forgotten => Safe
  BY DEF Safe
<1>4. QED
  BY <1>1, <1>2, <1>3, AccountInvariant, PTL DEF Spec
-------------------------------------------------------------------------------
(* Every step is one of the contract.                                      *)

\* Whether a mod is called, and which object it is.
LEMMA Calling ==
  /\ pc \notin ObjectCalls => ObjectCall = Contract!NoCall
  /\ pc \in ObjectCalls =>
       /\ ObjectCall # Contract!NoCall
       /\ ObjectCall = [callback |-> pc, object |-> CalledObject]
BY DEF ObjectCalls, ObjectCall, Contract!NoCall, NoObj

\* The same of the next state.
LEMMA CallingNext ==
  /\ pc' \notin ObjectCalls => ObjectCall' = Contract!NoCall
  /\ pc' \in ObjectCalls => ObjectCall' = [callback |-> pc', object |-> CalledObject']
BY DEF ObjectCalls, ObjectCall, Contract!NoCall, NoObj

\* The objects of the entries in D are handed from the active to the owed ones.
LEMMA Handover ==
  ASSUME EntriesOK, EntriesInCustody, Disjoint, DOMAIN mods' = DOMAIN mods,
         NEW D \in SUBSET Attached,
         \A i \in D : Detached(mods[i], mods'[i]),
         \A i \in DOMAIN mods \ D : SameHolding(mods[i], mods'[i])
  PROVE  LET objects == {mods[i].object : i \in D}
         IN /\ ActiveObjects' = ActiveObjects \ objects
            /\ OwedObjects' = OwedObjects \cup objects
<1> DEFINE objects == {mods[i].object : i \in D}
<1>1. \A i \in D : /\ i \in DOMAIN mods /\ mods[i].object # NoObj
                   /\ mods[i].cleanup = NoObj
  BY DEF Attached, EntriesInCustody, EntryCustody
<1>2. ActiveObjects' = ActiveObjects \ objects
  <2>1. Attached' = Attached \ D
    BY DEF Attached, Detached, SameHolding
  <2>2. ActiveObjects' = {mods[i].object : i \in Attached \ D}
    BY <2>1 DEF ActiveObjects, Attached, SameHolding
  <2>3. \A i \in Attached \ D, j \in D : mods[i].object # mods[j].object
    BY <1>1 DEF Attached, Disjoint
  <2>4. QED
    BY <2>2, <2>3 DEF ActiveObjects
<1>3. OwedObjects' = OwedObjects \cup objects
  <2>1. \A i \in D : mods'[i].cleanup = mods[i].object
    BY DEF Detached
  <2>2. \A i \in DOMAIN mods \ D : mods'[i].cleanup = mods[i].cleanup
    BY DEF SameHolding
  <2>3. OwedObjects' = {mods'[i].cleanup : i \in DOMAIN mods} \ {NoObj}
    BY DEF OwedObjects
  <2>4. QED
    BY <1>1, <2>1, <2>2, <2>3 DEF OwedObjects
<1>4. QED
  BY <1>2, <1>3

\* The contract begins where the manager does.
LEMMA InitMaps == Init => Contract!Init
<1> SUFFICES ASSUME Init PROVE Contract!Init
  OBVIOUS
<1>1. \A i \in DOMAIN mods : mods[i].object = NoObj /\ mods[i].cleanup = NoObj
  BY CustodyInit DEF Init, Custody, Untried, Fresh
<1>2. ActiveObjects = {} /\ OwedObjects = {}
  BY <1>1 DEF ActiveObjects, OwedObjects, Attached
<1>3. nobj = 0 /\ ObjectCall = Contract!NoCall
  BY Calling DEF Init, ObjectCalls
<1>4. QED
  BY <1>2, <1>3 DEF Contract!Init

\* A fan-out or a teardown calls an attached object.
LEMMA CallMaps ==
  ASSUME ControlOK, CallOnReload \/ CallEntry
  PROVE  \E o \in ActiveObjects, callback \in {"update", "gsc", "on_reload"} :
           Contract!Call(callback, o)
<1>1. PICK i \in Attached : idx' = i
  BY DEF CallOnReload, CallEntry
<1>2. /\ pc \notin ObjectCalls /\ pc' \in {"update", "gsc", "on_reload"}
      /\ UNCHANGED <<mods, nobj>>
  BY DEF CallOnReload, CallEntry, ControlOK, ObjectCalls, fieldVars, historyVars,
         entryVars, objectVars
<1>3. CalledObject' = mods[i].object
  BY <1>1, <1>2 DEF CalledObject, CalledEntry
<1>4. /\ ObjectCall = Contract!NoCall
      /\ ObjectCall' = [callback |-> pc', object |-> mods[i].object]
  BY <1>2, <1>3, Calling, CallingNext DEF ObjectCalls
<1>5. UNCHANGED <<nobj, ActiveObjects, OwedObjects>>
  BY <1>2 DEF ActiveObjects, OwedObjects, Attached
<1>6. mods[i].object \in ActiveObjects
  BY <1>1 DEF ActiveObjects
<1>7. Contract!Call(pc', mods[i].object)
  BY <1>4, <1>5, <1>6 DEF Contract!Call
<1>8. QED
  BY <1>2, <1>6, <1>7

\* A callback of an active object returns.
LEMMA ReturnMaps ==
  ASSUME ControlOK,
         \/ CallbackReturns \/ InitReturns
         \/ \E outcome \in {"data", "nil", "absent", "error"} : OnReloadReturns(outcome)
  PROVE  Contract!Return
<1>1. /\ pc \in ObjectCalls \ {"on_unload"} /\ pc' \notin ObjectCalls
  BY DEF CallbackReturns, InitReturns, OnReloadReturns, DrainCleanup, ObjectCalls
<1>2. UNCHANGED <<mods, nobj>>
  BY DialogueSteps DEF Dialogue
<1>3. UNCHANGED <<nobj, ActiveObjects, OwedObjects>>
  BY <1>2 DEF ActiveObjects, OwedObjects, Attached
<1>4. /\ ObjectCall # Contract!NoCall /\ ObjectCall.callback # "on_unload"
      /\ ObjectCall' = Contract!NoCall
  BY <1>1, Calling, CallingNext
<1>5. QED
  BY <1>3, <1>4 DEF Contract!Return

\* run() returns an object, which becomes active with the call of its init.
LEMMA MakeMaps ==
  ASSUME Shape, Custody, RunReturnsObject
  PROVE  Contract!Make
<1>1. /\ cursor \in DOMAIN mods /\ cursor' = cursor
      /\ DOMAIN mods' = DOMAIN mods
      /\ pc = "run" /\ pc' = "init" /\ nobj' = nobj + 1
      /\ mods[cursor].object = NoObj /\ mods'[cursor].object = nobj + 1
      /\ \A i \in DOMAIN mods :
           /\ mods'[i].cleanup = mods[i].cleanup
           /\ i # cursor => mods'[i] = mods[i]
  BY RunAttaches
<1>2. nobj + 1 # NoObj
  BY DEF Shape, TypeOK, HistoryOK, NoObj
<1>3. Attached' = Attached \cup {cursor} /\ cursor \notin Attached
  BY <1>1, <1>2 DEF Attached
<1>4. ActiveObjects' = ActiveObjects \cup {nobj + 1}
  <2>1. \A i \in Attached : mods'[i].object = mods[i].object
    BY <1>1, <1>3 DEF Attached
  <2>2. ActiveObjects' = {mods'[i].object : i \in Attached \cup {cursor}}
    BY <1>3 DEF ActiveObjects
  <2>3. QED
    BY <1>1, <2>1, <2>2 DEF ActiveObjects
<1>5. OwedObjects' = OwedObjects
  BY <1>1 DEF OwedObjects
<1>6. ObjectCall = Contract!NoCall
  BY <1>1, Calling DEF ObjectCalls
<1>7. CalledObject' = nobj + 1
  BY <1>1 DEF CalledObject, CalledEntry
<1>8. ObjectCall' = [callback |-> "init", object |-> nobj + 1]
  BY <1>1, <1>7, CallingNext DEF ObjectCalls
<1>9. QED
  BY <1>1, <1>4, <1>5, <1>6, <1>8 DEF Contract!Make

\* An escaped error disables the object that was called, or all of them.
LEMMA FailMaps ==
  ASSUME Shape, Custody, InitRaises \/ CallbackRaises
  PROVE  Contract!Fail
<1> DEFINE f == CalledEntry
<1>0. /\ EntriesOK /\ FieldsOK /\ ControlOK /\ EntriesInCustody /\ Disjoint
  BY DEF Shape, TypeOK, Custody
<1>1. /\ pc \in {"init", "update", "gsc"} /\ pc' \notin ObjectCalls
      /\ f \in DOMAIN mods /\ mods[f].object # NoObj /\ HandleLifecycleFailure(f)
      /\ UNCHANGED nobj
  <2>1. CASE InitRaises
    <3>1. cursor \in DOMAIN mods /\ mods[cursor].object # NoObj
      BY <2>1 DEF InitRaises, Shape, TypeOK, EntriesOK, FieldsOK, CursorControl,
         CallControl, Heading, Loading, PassOpen, Nil
    <3>2. /\ pc = "init" /\ pc' = "drain" /\ UNCHANGED nobj
          /\ HandleLifecycleFailure(cursor)
      BY <2>1 DEF InitRaises, DrainCleanup, historyVars, objectVars
    <3>3. QED
      BY <3>1, <3>2 DEF CalledEntry, ObjectCalls
  <2>2. CASE CallbackRaises
    <3>1. /\ pc \in {"update", "gsc"} /\ pc' = "fan" /\ UNCHANGED nobj
          /\ HandleLifecycleFailure(idx)
          /\ idx \in DOMAIN mods /\ mods[idx].object # NoObj
      BY <2>2 DEF CallbackRaises, historyVars, objectVars, Shape, CallControl
    <3>2. QED
      BY <3>1 DEF CalledEntry, ObjectCalls
  <2>3. QED
    BY <2>1, <2>2
<1>2. /\ ObjectCall = [callback |-> pc, object |-> mods[f].object]
      /\ ObjectCall' = Contract!NoCall
  <2>1. CalledObject = mods[f].object
    BY <1>1 DEF CalledObject
  <2>2. pc \in ObjectCalls
    BY <1>1 DEF ObjectCalls
  <2>3. QED
    BY <1>1, <2>1, <2>2, Calling, CallingNext
<1> HIDE DEF f
<1>3. /\ DOMAIN mods' = DOMAIN mods
      /\ \A i \in DOMAIN mods :
           Kept(mods[i], mods'[i]) \/ Detached(mods[i], mods'[i])
  BY <1>0, <1>1, FailureCarries DEF SameList
<1>4. ~mods[f].failed
  BY <1>0, <1>1 DEF EntriesInCustody, EntryCustody
<1>5. \A i \in DOMAIN mods : mods[i] \in Entries
  BY <1>0 DEF EntriesOK
<1>6. CASE StopGeneration(f)
  <2>1. ASSUME NEW i \in DOMAIN mods
        PROVE  mods'[i].object = NoObj
    <3>1. mods'[i] = [Claim(mods[i]) EXCEPT !.state = Stopped(i, f),
                                            !.failed = @ \/ i = f]
      BY <1>6 DEF StopGeneration
    <3>2. Claim(mods[i]) \in Entries /\ Claim(mods[i]).object = NoObj
      BY <1>5, ClaimType
    <3>3. QED
      BY <3>1, <3>2 DEF Entries
  <2>2. \A i \in Attached : Detached(mods[i], mods'[i])
    BY <1>3, <2>1 DEF Attached, Kept
  <2>3. \A i \in DOMAIN mods \ Attached : SameHolding(mods[i], mods'[i])
    BY <1>3 DEF Attached, Kept, Detached, SameHolding
  <2>4. /\ ActiveObjects' = ActiveObjects \ ActiveObjects
        /\ OwedObjects' = OwedObjects \cup ActiveObjects
    BY <1>0, <1>3, <2>2, <2>3, Handover DEF ActiveObjects
  <2>5. Contract!Owe(ActiveObjects)
    BY <1>1, <2>4 DEF Contract!Owe
  <2>6. QED
    BY <1>1, <1>2, <2>5 DEF Contract!Fail
<1>7. CASE Disable(f)
  <2> DEFINE e == [Claim(mods[f]) EXCEPT !.state = "disabled", !.failed = TRUE]
  <2>1. mods' = [mods EXCEPT ![f] = e]
    BY <1>7 DEF Disable
  <2>2. Claim(mods[f]) \in Entries /\ Claim(mods[f]).object = NoObj
    BY <1>1, <1>5, ClaimType
  <2>3. e.object = NoObj
    BY <2>2 DEF Entries
  <2> HIDE DEF e
  <2>4. mods'[f].object = NoObj /\ \A i \in DOMAIN mods : i # f => mods'[i] = mods[i]
    BY <1>1, <2>1, <2>3
  <2>5. \A i \in {f} : Detached(mods[i], mods'[i])
    BY <1>1, <1>3, <2>4 DEF Kept
  <2>6. \A i \in DOMAIN mods \ {f} : SameHolding(mods[i], mods'[i])
    BY <2>4 DEF SameHolding
  <2>7. {f} \in SUBSET Attached
    BY <1>1 DEF Attached
  <2>8. /\ ActiveObjects' = ActiveObjects \ {mods[i].object : i \in {f}}
        /\ OwedObjects' = OwedObjects \cup {mods[i].object : i \in {f}}
    BY <1>0, <1>3, <2>5, <2>6, <2>7, Handover
  <2>9. Contract!Owe({ObjectCall.object})
    BY <1>1, <1>2, <2>8 DEF Contract!Owe
  <2>10. QED
    BY <1>1, <1>2, <2>9 DEF Contract!Fail
<1>8. QED
  BY <1>1, <1>4, <1>6, <1>7 DEF HandleLifecycleFailure

\* Teardown and destroy detach every object.
LEMMA DetachMaps ==
  ASSUME Shape, Custody, TeardownDetach \/ DestroyDetach
  PROVE  Contract!DetachActive
<1>1. /\ DetachAll /\ UNCHANGED nobj
      /\ pc \notin ObjectCalls /\ pc' \notin ObjectCalls
  BY DEF TeardownDetach, DestroyDetach, DrainCleanup, ObjectCalls, historyVars,
         objectVars
<1>2. /\ EntriesOK /\ EntriesInCustody /\ Disjoint
      /\ DOMAIN mods' = DOMAIN mods
      /\ \A i \in DOMAIN mods :
           /\ mods[i].object = NoObj => Kept(mods[i], mods'[i])
           /\ mods[i].object # NoObj => Detached(mods[i], mods'[i])
  BY <1>1, DetachAllCarries DEF SameList, Shape, TypeOK, Custody
<1>3. /\ \A i \in Attached : Detached(mods[i], mods'[i])
      /\ \A i \in DOMAIN mods \ Attached : SameHolding(mods[i], mods'[i])
  BY <1>2 DEF Attached, Kept, SameHolding
<1>4. /\ ActiveObjects' = ActiveObjects \ ActiveObjects
      /\ OwedObjects' = OwedObjects \cup ActiveObjects
  BY <1>2, <1>3, Handover DEF ActiveObjects
<1>5. ObjectCall = Contract!NoCall /\ ObjectCall' = Contract!NoCall
  BY <1>1, Calling, CallingNext
<1>6. QED
  BY <1>1, <1>4, <1>5 DEF Contract!DetachActive, Contract!Owe

\* A drain calls the on_unload of an object that is owed one, or skips an entry.
LEMMA UnloadMaps ==
  ASSUME Safe, CallOnUnload
  PROVE  \/ UNCHANGED Contract!contractVars
         \/ \E o \in OwedObjects : Contract!Unload(o)
<1> DEFINE h == Head(batch)
<1>1. /\ h \in DOMAIN mods /\ DOMAIN mods' = DOMAIN mods /\ UNCHANGED nobj
      /\ pc = "draining"
      /\ \A i \in DOMAIN mods : SameHolding(mods[i], mods'[i])
      /\ \/ pc' = pc
         \/ pc' = "on_unload" /\ batch' = batch /\ mods[h].cleanup # NoObj
  BY UnloadCalls DEF CallOnUnload
<1>2. ObjectCall = Contract!NoCall
  BY <1>1, Calling DEF ObjectCalls
<1>3. CASE pc' = pc
  <2>1. ObjectCall' = ObjectCall
    BY <1>1, <1>2, <1>3, CallingNext DEF ObjectCalls
  <2>2. QED
    BY <1>1, <2>1, Stutter
<1>4. CASE pc' = "on_unload" /\ batch' = batch /\ mods[h].cleanup # NoObj
  <2>1. CalledObject' = mods[h].cleanup
    BY <1>1, <1>4 DEF CalledObject, CalledEntry, SameHolding
  <2>2. ObjectCall' = [callback |-> "on_unload", object |-> mods[h].cleanup]
    BY <1>4, <2>1, CallingNext DEF ObjectCalls
  <2>3. mods[h].cleanup \in OwedObjects
    BY <1>1, <1>4 DEF OwedObjects
  <2>4. ActiveObjects' = ActiveObjects /\ OwedObjects' = OwedObjects
    BY <1>1 DEF ActiveObjects, OwedObjects, Attached, SameHolding
  <2>5. Contract!Unload(mods[h].cleanup)
    BY <1>1, <1>2, <2>2, <2>3, <2>4 DEF Contract!Unload
  <2>6. QED
    BY <2>3, <2>5
<1>5. QED
  BY <1>1, <1>3, <1>4

\* An on_unload returns, and nothing else is owed to its object.
LEMMA UnloadReturnMaps ==
  ASSUME Shape, Custody, NEW ok \in BOOLEAN, OnUnloadReturns(ok)
  PROVE  Contract!Return
<1> DEFINE h == Head(batch)
<1>1. /\ h \in DOMAIN mods /\ DOMAIN mods' = DOMAIN mods /\ UNCHANGED nobj
      /\ pc = "on_unload" /\ pc' = "draining"
      /\ mods[h].cleanup # NoObj /\ mods'[h].cleanup = NoObj
      /\ \A i \in DOMAIN mods :
           /\ mods'[i].object = mods[i].object
           /\ i # h => mods'[i] = mods[i]
  BY UnloadReturns
<1>2. /\ ObjectCall # Contract!NoCall
      /\ ObjectCall = [callback |-> "on_unload", object |-> mods[h].cleanup]
      /\ ObjectCall' = Contract!NoCall
  BY <1>1, Calling, CallingNext DEF ObjectCalls, CalledObject, CalledEntry
<1>3. ActiveObjects' = ActiveObjects
  BY <1>1 DEF ActiveObjects, Attached
<1>4. \A i \in DOMAIN mods : i # h => mods[i].cleanup # mods[h].cleanup
  BY <1>1 DEF Custody, Disjoint
<1> HIDE DEF h
<1>5. OwedObjects' = OwedObjects \ {mods[h].cleanup}
  <2>1. \A i \in DOMAIN mods :
          mods'[i].cleanup = IF i = h THEN NoObj ELSE mods[i].cleanup
    BY <1>1
  <2>2. OwedObjects' = {mods'[i].cleanup : i \in DOMAIN mods} \ {NoObj}
    BY <1>1 DEF OwedObjects
  <2>3. QED
    BY <1>1, <1>4, <2>1, <2>2 DEF OwedObjects
<1>6. QED
  BY <1>1, <1>2, <1>3, <1>5 DEF Contract!Return

\* The list is read again when nothing is active or owed.
LEMMA RescanMaps ==
  ASSUME Safe, NEW order \in Orders, NEW readable \in BOOLEAN,
         NEW retired \in BOOLEAN, Rescan(order, readable, retired)
  PROVE  UNCHANGED Contract!contractVars
<1>1. pc = "rescan" /\ pc' = "idle" /\ UNCHANGED nobj
  BY DEF Rescan, historyVars, objectVars
<1>2. \A i \in DOMAIN mods : mods[i].object = NoObj /\ mods[i].cleanup = NoObj
  <2>1. \A i \in DOMAIN mods : mods[i].object = NoObj
    BY <1>1 DEF Safe, Account, DetachedAtRescan, Heading
  <2>2. queue = <<>> /\ batch = <<>>
    BY <1>1 DEF Safe, Shape, QueueControl
  <2>3. \A i \in DOMAIN mods : ~Owes(mods[i])
    BY <2>2 DEF Safe, Account, OwedIsQueued, InQueue
  <2>4. \A i \in DOMAIN mods : ~(mods[i].done /\ mods[i].cleanup # NoObj)
    BY <1>1 DEF Safe, Forgotten
  <2>5. QED
    BY <2>1, <2>3, <2>4 DEF Owes
<1>3. \A i \in DOMAIN mods' : mods'[i].object = NoObj /\ mods'[i].cleanup = NoObj
  BY RescanFresh DEF Fresh
<1>4. ActiveObjects = {} /\ OwedObjects = {}
  BY <1>2 DEF ActiveObjects, OwedObjects, Attached
<1>5. ActiveObjects' = {} /\ OwedObjects' = {}
  BY <1>3 DEF ActiveObjects, OwedObjects, Attached
<1>6. ObjectCall' = ObjectCall
  BY <1>1, Calling, CallingNext DEF ObjectCalls
<1>7. QED
  BY <1>1, <1>4, <1>5, <1>6 DEF Contract!contractVars

\* Every other step is invisible.
LEMMA OtherMaps ==
  ASSUME Shape, Custody,
         \/ RequestReload \/ SetReloadRequested \/ Unseen \/ TakeQueue
         \/ FinalizeLoadPass \/ \E ok \in BOOLEAN : RunReturnsNoObject(ok)
         \/ UNCHANGED vars
  PROVE  UNCHANGED Contract!contractVars
<1>1. CASE RequestReload \/ SetReloadRequested \/ UNCHANGED vars
  <2>1. UNCHANGED <<mods, nobj, batch, pc, cursor, idx>>
    BY <1>1, RequestSteps DEF vars, fieldVars, entryVars, passVars, historyVars,
       objectVars, loopVars
  <2>2. ObjectCall' = ObjectCall
    BY <2>1 DEF ObjectCall, CalledObject, CalledEntry
  <2>3. QED
    BY <2>1, <2>2, Stutter DEF SameHolding
<1>2. ASSUME DOMAIN mods' = DOMAIN mods, UNCHANGED nobj,
             \A i \in DOMAIN mods : SameHolding(mods[i], mods'[i]),
             pc \notin ObjectCalls, pc' \notin ObjectCalls
      PROVE  UNCHANGED Contract!contractVars
  <2>1. ObjectCall' = ObjectCall
    BY <1>2, Calling, CallingNext
  <2>2. QED
    BY <1>2, <2>1, Stutter
<1>3. CASE Unseen
  <2>1. ControlOK
    BY DEF Shape, TypeOK
  <2>2. UNCHANGED <<mods, nobj>> /\ pc \notin ObjectCalls /\ pc' \notin ObjectCalls
    BY <1>3, <2>1, UnseenSteps
  <2>3. QED
    BY <1>2, <2>2 DEF SameHolding
<1>4. CASE TakeQueue
  <2>1. UNCHANGED <<mods, nobj>> /\ pc \notin ObjectCalls /\ pc' \notin ObjectCalls
    BY <1>4 DEF TakeQueue, ObjectCalls, historyVars, objectVars
  <2>2. QED
    BY <1>2, <2>1 DEF SameHolding
<1>5. CASE FinalizeLoadPass \/ \E ok \in BOOLEAN : RunReturnsNoObject(ok)
  BY <1>2, <1>5, StatesOnly
<1>6. QED
  BY <1>1, <1>3, <1>4, <1>5

\* Every step of the manager is one of the contract or none.
LEMMA NextMaps ==
  ASSUME Safe, [Next]_vars
  PROVE  [Contract!Next]_Contract!contractVars
<1>1. Shape /\ Custody /\ ControlOK
  BY DEF Safe, Shape, TypeOK
<1>2. CASE \/ RequestReload \/ SetReloadRequested \/ Unseen \/ TakeQueue
           \/ FinalizeLoadPass \/ (\E ok \in BOOLEAN : RunReturnsNoObject(ok))
           \/ UNCHANGED vars
  BY <1>1, <1>2, OtherMaps
<1>3. CASE CallOnReload \/ CallEntry
  BY <1>1, <1>3, CallMaps DEF Contract!Next
<1>4. CASE \/ CallbackReturns \/ InitReturns
           \/ \E outcome \in {"data", "nil", "absent", "error"} :
                OnReloadReturns(outcome)
  BY <1>1, <1>4, ReturnMaps DEF Contract!Next
<1>5. CASE RunReturnsObject
  BY <1>1, <1>5, MakeMaps DEF Contract!Next
<1>6. CASE InitRaises \/ CallbackRaises
  BY <1>1, <1>6, FailMaps DEF Contract!Next
<1>7. CASE TeardownDetach \/ DestroyDetach
  BY <1>1, <1>7, DetachMaps DEF Contract!Next
<1>8. CASE CallOnUnload
  BY <1>8, UnloadMaps DEF Contract!Next
<1>9. ASSUME NEW ok \in BOOLEAN, OnUnloadReturns(ok)
      PROVE  Contract!Next
  BY <1>1, <1>9, UnloadReturnMaps DEF Contract!Next
<1>10. ASSUME NEW order \in Orders, NEW readable \in BOOLEAN,
              NEW retired \in BOOLEAN, Rescan(order, readable, retired)
       PROVE  UNCHANGED Contract!contractVars
  BY <1>10, RescanMaps
<1>11. QED
  BY <1>2, <1>3, <1>4, <1>5, <1>6, <1>7, <1>8, <1>9, <1>10
     DEF Next, Manager, ModCode, Unseen

\* The manager does nothing to a mod that its contract does not allow, for any
\* list, any failures and any requests: it calls only active objects, owes one
\* on_unload to each that stops being active, and calls no other.
THEOREM StepsImplement == Spec => StepsImplementContract
<1>1. Init => Contract!Init
  BY InitMaps
<1>2. Safe /\ [Next]_vars => [Contract!Next]_Contract!contractVars
  BY NextMaps
<1>3. QED
  BY <1>1, <1>2, SafeInvariant, PTL DEF Spec, StepsImplementContract

===============================================================================
