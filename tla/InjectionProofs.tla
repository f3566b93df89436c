---------------------------- MODULE InjectionProofs ----------------------------
(***************************************************************************)
(* Proofs about Injection, for any set of launches and any width of the    *)
(* counter.  What holds between the launches of one session is proved for  *)
(* every set of them; what the shared event spoils, for a session that has *)
(* one launch.                                                             *)
(***************************************************************************)
EXTENDS Injection, TLAPS

-----------------------------------------------------------------------------
(***************************************************************************)
(* The types.                                                              *)
(***************************************************************************)

\* Counting one more call stays below the modulus, and wraps to 1 from 0 only.
LEMMA CountedInRange ==
  ASSUME NEW l \in Launches, calls[l] \in 0 .. CounterModulus - 1
  PROVE  Counted(l) \in 0 .. CounterModulus - 1 /\ (calls[l] = 0 => Counted(l) = 1)
BY CounterAssumption DEF Counted

\* Initially every variable has its type.
LEMMA TypeInit == Init => TypeOK
<1> SUFFICES ASSUME Init PROVE TypeOK
  OBVIOUS
<1>1. calls \in [Launches -> 0 .. CounterModulus - 1]
  <2>1. 0 \in 0 .. CounterModulus - 1
    BY CounterAssumption
  <2>2. QED
    BY <2>1 DEF Init
<1>2. QED
  BY <1>1 DEF Init, TypeOK, Working, Returned, Detours

\* Every action keeps the types.
LEMMA TypeNext ==
  ASSUME TypeOK, [Next]_vars
  PROVE  TypeOK'
<1>1. CASE UNCHANGED vars
  BY <1>1 DEF TypeOK, Working, Returned, Detours, vars, launcherVars,
      gameVars, shellVars, engineVars
<1>2. ASSUME NEW l \in Launches, Refuse(l) PROVE TypeOK'
  BY <1>2 DEF TypeOK, Working, Returned, Detours, Refuse, Goto, launcherVars,
      gameVars, shellVars, engineVars
<1>3. ASSUME NEW l \in Launches, CreateSuspended(l) PROVE TypeOK'
  BY <1>3 DEF TypeOK, Working, Returned, Detours, CreateSuspended, Goto,
      launcherVars, gameVars, shellVars, engineVars
<1>4. ASSUME NEW l \in Launches, WritePath(l) PROVE TypeOK'
  BY <1>4 DEF TypeOK, Working, Returned, Detours, WritePath, Goto,
      launcherVars, gameVars, shellVars, engineVars
<1>5. ASSUME NEW l \in Launches, CreateEvent(l) PROVE TypeOK'
  BY <1>5 DEF TypeOK, Working, Returned, Detours, CreateEvent, Goto, Handles,
      launcherVars, gameVars, shellVars, engineVars
<1>6. ASSUME NEW l \in Launches, CreateRemoteThread(l) PROVE TypeOK'
  BY <1>6 DEF TypeOK, Working, Returned, Detours, CreateRemoteThread, Goto,
      Alive, launcherVars, gameVars, shellVars, engineVars
<1>7. ASSUME NEW l \in Launches, LoadFinished(l) PROVE TypeOK'
  BY <1>7 DEF TypeOK, Working, Returned, Detours, LoadFinished, Goto,
      launcherVars, gameVars, shellVars, engineVars
<1>8. ASSUME NEW l \in Launches, FreePath(l) PROVE TypeOK'
  BY <1>8 DEF TypeOK, Working, Returned, Detours, FreePath, Goto, Alive,
      launcherVars, gameVars, shellVars, engineVars
<1>9. ASSUME NEW l \in Launches, HookReady(l) PROVE TypeOK'
  BY <1>9 DEF TypeOK, Working, Returned, Detours, HookReady, Goto,
      launcherVars, gameVars, shellVars, engineVars
<1>10. ASSUME NEW l \in Launches, GiveUp(l) PROVE TypeOK'
  BY <1>10 DEF TypeOK, Working, Returned, Detours, GiveUp, Goto, launcherVars,
      gameVars, shellVars, engineVars
<1>11. ASSUME NEW l \in Launches, Resume(l) PROVE TypeOK'
  BY <1>11 DEF TypeOK, Working, Returned, Detours, Resume, Goto, Handles,
      launcherVars, gameVars, shellVars, engineVars
<1>12. ASSUME NEW l \in Launches, Kill(l) PROVE TypeOK'
  BY <1>12 DEF TypeOK, Working, Returned, Detours, Kill, Goto, Handles,
      EndProcess, launcherVars, gameVars, shellVars, engineVars
<1>13. ASSUME NEW l \in Launches, Interrupt(l) PROVE TypeOK'
  BY <1>13 DEF TypeOK, Working, Returned, Detours, Interrupt, Goto, Handles,
      launcherVars, gameVars, shellVars, engineVars
<1>14. ASSUME NEW l \in Launches, DllMain(l) PROVE TypeOK'
  BY <1>14 DEF TypeOK, Working, Returned, Detours, DllMain, LoadThreadGoes,
      Alive, launcherVars, gameVars, shellVars, engineVars
<1>15. ASSUME NEW l \in Launches, LoadLibraryReturns(l) PROVE TypeOK'
  BY <1>15 DEF TypeOK, Working, Returned, Detours, LoadLibraryReturns,
      LoadThreadGoes, Alive, launcherVars, gameVars, shellVars, engineVars
<1>16. ASSUME NEW l \in Launches, LoadLibraryFails(l) PROVE TypeOK'
  BY <1>16 DEF TypeOK, Working, Returned, Detours, LoadLibraryFails,
      LoadThreadGoes, Alive, launcherVars, gameVars, shellVars, engineVars
<1>17. ASSUME NEW l \in Launches, Discover(l) PROVE TypeOK'
  BY <1>17 DEF TypeOK, Working, Returned, Detours, Discover, WorkerGoes,
      Alive, launcherVars, gameVars, shellVars, engineVars
<1>18. ASSUME NEW l \in Launches, HookNewstate(l) PROVE TypeOK'
  BY <1>18 DEF TypeOK, Working, Returned, Detours, HookNewstate, WorkerGoes,
      Alive, launcherVars, gameVars, shellVars, engineVars
<1>19. ASSUME NEW l \in Launches, HookPcall(l) PROVE TypeOK'
  BY <1>19 DEF TypeOK, Working, Returned, Detours, HookPcall, WorkerGoes,
      Alive, launcherVars, gameVars, shellVars, engineVars
<1>20. ASSUME NEW l \in Launches, WorkerFails(l) PROVE TypeOK'
  BY <1>20 DEF TypeOK, Working, Returned, Detours, WorkerFails, WorkerGoes,
      Alive, launcherVars, gameVars, shellVars, engineVars
<1>21. ASSUME NEW l \in Launches, StageChunk(l) PROVE TypeOK'
  BY <1>21 DEF TypeOK, Working, Returned, Detours, StageChunk, WorkerGoes,
      Alive, launcherVars, gameVars, shellVars, engineVars
<1>22. ASSUME NEW l \in Launches, StageNothing(l) PROVE TypeOK'
  BY <1>22 DEF TypeOK, Working, Returned, Detours, StageNothing, WorkerGoes,
      Alive, launcherVars, gameVars, shellVars, engineVars
<1>23. ASSUME NEW l \in Launches, ExitOnManager(l) PROVE TypeOK'
  BY <1>23 DEF TypeOK, Working, Returned, Detours, ExitOnManager, EndProcess,
      Alive, launcherVars, gameVars, shellVars, engineVars
<1>24. ASSUME NEW l \in Launches, OpenEvent(l) PROVE TypeOK'
  BY <1>24 DEF TypeOK, Working, Returned, Detours, OpenEvent, WorkerGoes,
      Alive, EventExists, launcherVars, gameVars, shellVars, engineVars
<1>25. ASSUME NEW l \in Launches, OpenEventFails(l) PROVE TypeOK'
  BY <1>25 DEF TypeOK, Working, Returned, Detours, OpenEventFails, WorkerGoes,
      Alive, launcherVars, gameVars, shellVars, engineVars
<1>26. ASSUME NEW l \in Launches, SignalReady(l) PROVE TypeOK'
  BY <1>26 DEF TypeOK, Working, Returned, Detours, SignalReady, WorkerGoes,
      Alive, launcherVars, gameVars, shellVars, engineVars
<1>27. ASSUME NEW l \in Launches, EnginePcall(l) PROVE TypeOK'
  <2>1. Counted(l) \in 0 .. CounterModulus - 1
    BY CountedInRange DEF TypeOK
  <2> DEFINE settled == tried[l] \/ TakesTrampoline(l)
  <2>2. settled \in BOOLEAN
    OBVIOUS
  <2>3. calls' \in [Launches -> 0 .. CounterModulus - 1]
    BY <1>27, <2>1 DEF EnginePcall, TypeOK
  <2>4. tried' \in [Launches -> BOOLEAN]
    <3>1. tried' = tried \/ tried' = [tried EXCEPT ![l] = settled]
      BY <1>27 DEF EnginePcall
    <3> HIDE DEF settled
    <3>2. QED
      BY <2>2, <3>1 DEF TypeOK
  <2>5. /\ engine' \in [Launches -> {"main", "chunk", "loader"}]
        /\ inside' \in [Launches -> BOOLEAN]
        /\ up' \in [Launches -> BOOLEAN]
        /\ forwarded' \in [Launches -> BOOLEAN]
    <3>1. EnterTrampoline(l) \/ Forward(l)
      BY <1>27 DEF EnginePcall
    <3>2. CASE EnterTrampoline(l)
      BY <3>2 DEF EnterTrampoline, TypeOK
    <3>3. CASE Forward(l)
      BY <3>3 DEF Forward, TypeOK
    <3>4. QED
      BY <3>1, <3>2, <3>3
  <2>6. QED
    BY <1>27, <2>3, <2>4, <2>5 DEF EnginePcall, TypeOK, launcherVars, gameVars,
       shellVars
<1>28. ASSUME NEW l \in Launches, ChunkPcall(l) PROVE TypeOK'
  BY <1>28, CountedInRange DEF TypeOK, Working, Returned, Detours, ChunkPcall,
      Counted, launcherVars, gameVars, shellVars, engineVars
<1>29. ASSUME NEW l \in Launches, ChunkFails(l) PROVE TypeOK'
  BY <1>29 DEF TypeOK, Working, Returned, Detours, ChunkFails, TrampolineEnds,
      launcherVars, gameVars, shellVars, engineVars
<1>30. ASSUME NEW l \in Launches, LoaderReturns(l) PROVE TypeOK'
  BY <1>30 DEF TypeOK, Working, Returned, Detours, LoaderReturns,
      TrampolineEnds, launcherVars, gameVars, shellVars, engineVars
<1>31. ASSUME NEW l \in Launches, GameExits(l) PROVE TypeOK'
  BY <1>31 DEF TypeOK, Working, Returned, Detours, GameExits, EndProcess,
      Handles, launcherVars, gameVars, shellVars, engineVars
<1>32. QED
  BY <1>1, <1>2, <1>3, <1>4, <1>5, <1>6, <1>7, <1>8, <1>9, <1>10,
    <1>11, <1>12, <1>13, <1>14, <1>15, <1>16, <1>17, <1>18, <1>19, <1>20,
    <1>21, <1>22, <1>23, <1>24, <1>25, <1>26, <1>27, <1>28, <1>29, <1>30,
    <1>31
     DEF Next, Launcher, LoadThread, Worker, Engine

\* The type invariant, for every set of launches.
THEOREM TypeCorrect == Spec => []TypeOK
<1>1. Init => TypeOK
  BY TypeInit
<1>2. TypeOK /\ [Next]_vars => TypeOK'
  BY TypeNext
<1>3. QED
  BY <1>1, <1>2, PTL DEF Spec

-----------------------------------------------------------------------------
(***************************************************************************)
(* The path in the game's memory.                                          *)
(***************************************************************************)

Ended == {"loaded", "null", "killed"}

\* The load thread exists from "inject" on, has ended when its exit code is read,
\* and the path is freed only after that.
PathInv ==
  \A l \in Launches :
    /\ pc[l] \in {"start", "write", "event", "inject"} =>
         loadThread[l] = "none" /\ buffer[l] # "freed"
    /\ pc[l] = "waitLoad" => loadThread[l] # "none"
    /\ pc[l] = "exitCode" => loadThread[l] \in Ended
    /\ buffer[l] = "freed" => loadThread[l] \in Ended

\* Every action keeps PathInv; the steps are those that move the launcher, the
\* load thread or the path.
LEMMA PathNext ==
  ASSUME TypeOK, PathInv, [Next]_vars
  PROVE  PathInv'
<1>1. ASSUME UNCHANGED <<pc, loadThread, buffer>> PROVE PathInv'
  BY <1>1 DEF TypeOK, PathInv, Ended
<1>2. CASE UNCHANGED vars
  BY <1>1, <1>2 DEF vars, launcherVars, gameVars, shellVars, engineVars
<1>3. ASSUME NEW l \in Launches,
        \/ Discover(l) \/ HookNewstate(l) \/ HookPcall(l)
        \/ WorkerFails(l) \/ StageChunk(l)
      PROVE  PathInv'
  BY <1>1, <1>3 DEF Discover, WorkerGoes, HookNewstate, HookPcall,
      WorkerFails, StageChunk, launcherVars, gameVars, shellVars, engineVars
<1>4. ASSUME NEW l \in Launches,
        \/ StageNothing(l) \/ OpenEvent(l) \/ OpenEventFails(l)
        \/ SignalReady(l) \/ EnginePcall(l)
      PROVE  PathInv'
  BY <1>1, <1>4 DEF StageNothing, WorkerGoes, OpenEvent, OpenEventFails,
      SignalReady, EnginePcall, Counted, TakesTrampoline, Forward,
      EnterTrampoline, launcherVars, gameVars, shellVars, engineVars
<1>5. ASSUME NEW l \in Launches,
        \/ ChunkPcall(l) \/ ChunkFails(l) \/ LoaderReturns(l)
      PROVE  PathInv'
  BY <1>1, <1>5 DEF ChunkPcall, Counted, ChunkFails, TrampolineEnds,
      LoaderReturns, launcherVars, gameVars, shellVars, engineVars
<1>6. ASSUME NEW l \in Launches, Refuse(l) PROVE PathInv'
  BY <1>6 DEF TypeOK, PathInv, Ended, Refuse, Goto, launcherVars, gameVars,
      shellVars, engineVars
<1>7. ASSUME NEW l \in Launches, CreateSuspended(l) PROVE PathInv'
  BY <1>7 DEF TypeOK, PathInv, Ended, CreateSuspended, Goto, launcherVars,
      gameVars, shellVars, engineVars
<1>8. ASSUME NEW l \in Launches, WritePath(l) PROVE PathInv'
  BY <1>8 DEF TypeOK, PathInv, Ended, WritePath, Goto, launcherVars, gameVars,
      shellVars, engineVars
<1>9. ASSUME NEW l \in Launches, CreateEvent(l) PROVE PathInv'
  BY <1>9 DEF TypeOK, PathInv, Ended, CreateEvent, Goto, Handles,
      launcherVars, gameVars, shellVars, engineVars
<1>10. ASSUME NEW l \in Launches, CreateRemoteThread(l) PROVE PathInv'
  BY <1>10 DEF TypeOK, PathInv, Ended, CreateRemoteThread, Goto, Alive,
      launcherVars, gameVars, shellVars, engineVars
<1>11. ASSUME NEW l \in Launches, LoadFinished(l) PROVE PathInv'
  BY <1>11 DEF TypeOK, PathInv, Ended, LoadFinished, Goto, launcherVars,
      gameVars, shellVars, engineVars
<1>12. ASSUME NEW l \in Launches, FreePath(l) PROVE PathInv'
  BY <1>12 DEF TypeOK, PathInv, Ended, FreePath, Goto, Alive, launcherVars,
      gameVars, shellVars, engineVars
<1>13. ASSUME NEW l \in Launches, HookReady(l) PROVE PathInv'
  BY <1>13 DEF TypeOK, PathInv, Ended, HookReady, Goto, launcherVars,
      gameVars, shellVars, engineVars
<1>14. ASSUME NEW l \in Launches, GiveUp(l) PROVE PathInv'
  BY <1>14 DEF TypeOK, PathInv, Ended, GiveUp, Goto, launcherVars, gameVars,
      shellVars, engineVars
<1>15. ASSUME NEW l \in Launches, Resume(l) PROVE PathInv'
  BY <1>15 DEF TypeOK, PathInv, Ended, Resume, Goto, Handles, launcherVars,
      gameVars, shellVars, engineVars
<1>16. ASSUME NEW l \in Launches, Kill(l) PROVE PathInv'
  BY <1>16 DEF TypeOK, PathInv, Ended, Kill, Goto, Handles, EndProcess,
      launcherVars, gameVars, shellVars, engineVars
<1>17. ASSUME NEW l \in Launches, Interrupt(l) PROVE PathInv'
  BY <1>17 DEF TypeOK, PathInv, Ended, Interrupt, Goto, Handles, launcherVars,
      gameVars, shellVars, engineVars
<1>18. ASSUME NEW l \in Launches, DllMain(l) PROVE PathInv'
  BY <1>18 DEF TypeOK, PathInv, Ended, DllMain, LoadThreadGoes, Alive,
      launcherVars, gameVars, shellVars, engineVars
<1>19. ASSUME NEW l \in Launches, LoadLibraryReturns(l) PROVE PathInv'
  BY <1>19 DEF TypeOK, PathInv, Ended, LoadLibraryReturns, LoadThreadGoes,
      Alive, launcherVars, gameVars, shellVars, engineVars
<1>20. ASSUME NEW l \in Launches, LoadLibraryFails(l) PROVE PathInv'
  BY <1>20 DEF TypeOK, PathInv, Ended, LoadLibraryFails, LoadThreadGoes,
      Alive, launcherVars, gameVars, shellVars, engineVars
<1>21. ASSUME NEW l \in Launches, ExitOnManager(l) PROVE PathInv'
  BY <1>21 DEF TypeOK, PathInv, Ended, ExitOnManager, EndProcess, Alive,
      launcherVars, gameVars, shellVars, engineVars
<1>22. ASSUME NEW l \in Launches, GameExits(l) PROVE PathInv'
  BY <1>22 DEF TypeOK, PathInv, Ended, GameExits, EndProcess, Handles,
      launcherVars, gameVars, shellVars, engineVars
<1>23. QED
  BY <1>2, <1>3, <1>4, <1>5, <1>6, <1>7, <1>8, <1>9, <1>10, <1>11,
    <1>12, <1>13, <1>14, <1>15, <1>16, <1>17, <1>18, <1>19, <1>20, <1>21,
    <1>22
     DEF Next, Launcher, LoadThread, Worker, Engine

\* The path is never freed under the thread that reads it.
THEOREM PathIsSafe == Spec => []PathOutlivesLoad
<1>1. Init => TypeOK /\ PathInv
  BY TypeInit DEF Init, PathInv
<1>2. TypeOK /\ PathInv /\ [Next]_vars => TypeOK' /\ PathInv'
  BY TypeNext, PathNext
<1>3. PathInv => PathOutlivesLoad
  BY DEF PathInv, PathOutlivesLoad, Ended
<1>4. QED
  BY <1>1, <1>2, <1>3, PTL DEF Spec

-----------------------------------------------------------------------------
(***************************************************************************)
(* What the launcher returns.                                              *)
(***************************************************************************)

\* Where the launcher is tells what its game can be.
OutcomeInv ==
  \A l \in Launches :
    /\ pc[l] \in {"start", "refused"} => proc[l] = "none"
    /\ pc[l] \in Working \ {"start"} => proc[l] \in {"suspended", "dead"}
    /\ pc[l] = "ok" => proc[l] \in {"running", "dead"}
    /\ pc[l] = "failed" => proc[l] = "dead"
    /\ pc[l] = "interrupted" => proc[l] # "running"

\* Every action keeps OutcomeInv; only the launcher and the end of the game touch
\* what it speaks of.
LEMMA OutcomeNext ==
  ASSUME TypeOK, OutcomeInv, [Next]_vars
  PROVE  OutcomeInv'
<1>1. ASSUME UNCHANGED <<pc, proc>> PROVE OutcomeInv'
  BY <1>1 DEF TypeOK, OutcomeInv, Working, Returned
<1>2. CASE UNCHANGED vars
  BY <1>1, <1>2 DEF vars, launcherVars, gameVars, shellVars, engineVars
<1>3. ASSUME NEW l \in Launches,
        \/ DllMain(l) \/ LoadLibraryReturns(l) \/ LoadLibraryFails(l)
        \/ Discover(l) \/ HookNewstate(l)
      PROVE  OutcomeInv'
  BY <1>1, <1>3 DEF DllMain, LoadThreadGoes, LoadLibraryReturns,
      LoadLibraryFails, Discover, WorkerGoes, HookNewstate, launcherVars,
      gameVars, shellVars, engineVars
<1>4. ASSUME NEW l \in Launches,
        \/ HookPcall(l) \/ WorkerFails(l) \/ StageChunk(l)
        \/ StageNothing(l) \/ OpenEvent(l)
      PROVE  OutcomeInv'
  BY <1>1, <1>4 DEF HookPcall, WorkerGoes, WorkerFails, StageChunk,
      StageNothing, OpenEvent, launcherVars, gameVars, shellVars, engineVars
<1>5. ASSUME NEW l \in Launches,
        \/ OpenEventFails(l) \/ SignalReady(l) \/ EnginePcall(l)
        \/ ChunkPcall(l) \/ ChunkFails(l)
      PROVE  OutcomeInv'
  BY <1>1, <1>5 DEF OpenEventFails, WorkerGoes, SignalReady, EnginePcall,
      Counted, TakesTrampoline, Forward, EnterTrampoline, ChunkPcall,
      ChunkFails, TrampolineEnds, launcherVars, gameVars, shellVars,
      engineVars
<1>6. ASSUME NEW l \in Launches, LoaderReturns(l)
      PROVE  OutcomeInv'
  BY <1>1, <1>6 DEF LoaderReturns, TrampolineEnds, launcherVars, gameVars,
      shellVars, engineVars
<1>7. ASSUME NEW l \in Launches, Refuse(l) PROVE OutcomeInv'
  BY <1>7 DEF TypeOK, OutcomeInv, Working, Returned, Refuse, Goto,
      launcherVars, gameVars, shellVars, engineVars
<1>8. ASSUME NEW l \in Launches, CreateSuspended(l) PROVE OutcomeInv'
  BY <1>8 DEF TypeOK, OutcomeInv, Working, Returned, CreateSuspended, Goto,
      launcherVars, gameVars, shellVars, engineVars
<1>9. ASSUME NEW l \in Launches, WritePath(l) PROVE OutcomeInv'
  BY <1>9 DEF TypeOK, OutcomeInv, Working, Returned, WritePath, Goto,
      launcherVars, gameVars, shellVars, engineVars
<1>10. ASSUME NEW l \in Launches, CreateEvent(l) PROVE OutcomeInv'
  BY <1>10 DEF TypeOK, OutcomeInv, Working, Returned, CreateEvent, Goto,
      Handles, launcherVars, gameVars, shellVars, engineVars
<1>11. ASSUME NEW l \in Launches, CreateRemoteThread(l) PROVE OutcomeInv'
  BY <1>11 DEF TypeOK, OutcomeInv, Working, Returned, CreateRemoteThread,
      Goto, Alive, launcherVars, gameVars, shellVars, engineVars
<1>12. ASSUME NEW l \in Launches, LoadFinished(l) PROVE OutcomeInv'
  BY <1>12 DEF TypeOK, OutcomeInv, Working, Returned, LoadFinished, Goto,
      launcherVars, gameVars, shellVars, engineVars
<1>13. ASSUME NEW l \in Launches, FreePath(l) PROVE OutcomeInv'
  BY <1>13 DEF TypeOK, OutcomeInv, Working, Returned, FreePath, Goto, Alive,
      launcherVars, gameVars, shellVars, engineVars
<1>14. ASSUME NEW l \in Launches, HookReady(l) PROVE OutcomeInv'
  BY <1>14 DEF TypeOK, OutcomeInv, Working, Returned, HookReady, Goto,
      launcherVars, gameVars, shellVars, engineVars
<1>15. ASSUME NEW l \in Launches, GiveUp(l) PROVE OutcomeInv'
  BY <1>15 DEF TypeOK, OutcomeInv, Working, Returned, GiveUp, Goto,
      launcherVars, gameVars, shellVars, engineVars
<1>16. ASSUME NEW l \in Launches, Resume(l) PROVE OutcomeInv'
  BY <1>16 DEF TypeOK, OutcomeInv, Working, Returned, Resume, Goto, Handles,
      launcherVars, gameVars, shellVars, engineVars
<1>17. ASSUME NEW l \in Launches, Kill(l) PROVE OutcomeInv'
  BY <1>17 DEF TypeOK, OutcomeInv, Working, Returned, Kill, Goto, Handles,
      EndProcess, launcherVars, gameVars, shellVars, engineVars
<1>18. ASSUME NEW l \in Launches, Interrupt(l) PROVE OutcomeInv'
  BY <1>18 DEF TypeOK, OutcomeInv, Working, Returned, Interrupt, Goto,
      Handles, launcherVars, gameVars, shellVars, engineVars
<1>19. ASSUME NEW l \in Launches, ExitOnManager(l) PROVE OutcomeInv'
  BY <1>19 DEF TypeOK, OutcomeInv, Working, Returned, ExitOnManager,
      EndProcess, Alive, launcherVars, gameVars, shellVars, engineVars
<1>20. ASSUME NEW l \in Launches, GameExits(l) PROVE OutcomeInv'
  BY <1>20 DEF TypeOK, OutcomeInv, Working, Returned, GameExits, EndProcess,
      Handles, launcherVars, gameVars, shellVars, engineVars
<1>21. QED
  BY <1>2, <1>3, <1>4, <1>5, <1>6, <1>7, <1>8, <1>9, <1>10, <1>11,
    <1>12, <1>13, <1>14, <1>15, <1>16, <1>17, <1>18, <1>19, <1>20
     DEF Next, Launcher, LoadThread, Worker, Engine

\* The launcher's result is true on every path, with any number of launches.
THEOREM ResultIsTrue == Spec => []OutcomeIsTrue
<1>1. Init => TypeOK /\ OutcomeInv
  BY TypeInit DEF Init, OutcomeInv, Working
<1>2. TypeOK /\ OutcomeInv /\ [Next]_vars => TypeOK' /\ OutcomeInv'
  BY TypeNext, OutcomeNext
<1>3. OutcomeInv => OutcomeIsTrue
  BY DEF OutcomeInv, OutcomeIsTrue
<1>4. QED
  BY <1>1, <1>2, <1>3, PTL DEF Spec

-----------------------------------------------------------------------------
(***************************************************************************)
(* The re-entrancy flag.                                                   *)
(***************************************************************************)

\* Every action keeps the flag in step with the engine thread.
LEMMA FlagNext ==
  ASSUME TypeOK, FlagBracketsRun, [Next]_vars
  PROVE  FlagBracketsRun'
<1>1. ASSUME UNCHANGED <<inside, engine>> PROVE FlagBracketsRun'
  BY <1>1 DEF TypeOK, FlagBracketsRun
<1>2. CASE UNCHANGED vars
  BY <1>1, <1>2 DEF vars, launcherVars, gameVars, shellVars, engineVars
<1>3. ASSUME NEW l \in Launches,
        \/ Refuse(l) \/ CreateSuspended(l) \/ WritePath(l)
        \/ CreateEvent(l) \/ CreateRemoteThread(l)
      PROVE  FlagBracketsRun'
  BY <1>1, <1>3 DEF Refuse, Goto, CreateSuspended, WritePath, CreateEvent,
      Handles, CreateRemoteThread, launcherVars, gameVars, shellVars,
      engineVars
<1>4. ASSUME NEW l \in Launches,
        \/ LoadFinished(l) \/ FreePath(l) \/ HookReady(l)
        \/ GiveUp(l) \/ Resume(l)
      PROVE  FlagBracketsRun'
  BY <1>1, <1>4 DEF LoadFinished, Goto, FreePath, HookReady, GiveUp, Resume,
      Handles, launcherVars, gameVars, shellVars, engineVars
<1>5. ASSUME NEW l \in Launches,
        \/ Kill(l) \/ Interrupt(l) \/ DllMain(l)
        \/ LoadLibraryReturns(l) \/ LoadLibraryFails(l)
      PROVE  FlagBracketsRun'
  BY <1>1, <1>5 DEF Kill, Goto, Handles, EndProcess, Interrupt, DllMain,
      LoadThreadGoes, LoadLibraryReturns, LoadLibraryFails, launcherVars,
      gameVars, shellVars, engineVars
<1>6. ASSUME NEW l \in Launches,
        \/ Discover(l) \/ HookNewstate(l) \/ HookPcall(l)
        \/ WorkerFails(l) \/ StageChunk(l)
      PROVE  FlagBracketsRun'
  BY <1>1, <1>6 DEF Discover, WorkerGoes, HookNewstate, HookPcall,
      WorkerFails, StageChunk, launcherVars, gameVars, shellVars, engineVars
<1>7. ASSUME NEW l \in Launches,
        \/ StageNothing(l) \/ ExitOnManager(l) \/ OpenEvent(l)
        \/ OpenEventFails(l) \/ SignalReady(l)
      PROVE  FlagBracketsRun'
  BY <1>1, <1>7 DEF StageNothing, WorkerGoes, ExitOnManager, EndProcess,
      OpenEvent, OpenEventFails, SignalReady, launcherVars, gameVars,
      shellVars, engineVars
<1>8. ASSUME NEW l \in Launches, GameExits(l)
      PROVE  FlagBracketsRun'
  BY <1>1, <1>8 DEF GameExits, EndProcess, Handles, launcherVars, gameVars,
      shellVars, engineVars
<1>9. ASSUME NEW l \in Launches, EnginePcall(l) PROVE FlagBracketsRun'
  BY <1>9 DEF TypeOK, FlagBracketsRun, EnginePcall, Counted, TakesTrampoline,
      Forward, EnterTrampoline, launcherVars, gameVars, shellVars, engineVars
<1>10. ASSUME NEW l \in Launches, ChunkPcall(l) PROVE FlagBracketsRun'
  BY <1>10 DEF TypeOK, FlagBracketsRun, ChunkPcall, Counted, launcherVars,
      gameVars, shellVars, engineVars
<1>11. ASSUME NEW l \in Launches, ChunkFails(l) PROVE FlagBracketsRun'
  BY <1>11 DEF TypeOK, FlagBracketsRun, ChunkFails, TrampolineEnds,
      launcherVars, gameVars, shellVars, engineVars
<1>12. ASSUME NEW l \in Launches, LoaderReturns(l) PROVE FlagBracketsRun'
  BY <1>12 DEF TypeOK, FlagBracketsRun, LoaderReturns, TrampolineEnds,
      launcherVars, gameVars, shellVars, engineVars
<1>13. QED
  BY <1>2, <1>3, <1>4, <1>5, <1>6, <1>7, <1>8, <1>9, <1>10, <1>11,
    <1>12
     DEF Next, Launcher, LoadThread, Worker, Engine

\* g_in_trampoline is set exactly while trampoline_run executes.
THEOREM FlagIsExact == Spec => []FlagBracketsRun
<1>1. Init => TypeOK /\ FlagBracketsRun
  BY TypeInit DEF Init, FlagBracketsRun
<1>2. TypeOK /\ FlagBracketsRun /\ [Next]_vars => TypeOK' /\ FlagBracketsRun'
  BY TypeNext, FlagNext
<1>3. QED
  BY <1>1, <1>2, PTL DEF Spec

-----------------------------------------------------------------------------
(***************************************************************************)
(* The ready event, shared by all launches.                                *)
(***************************************************************************)

\* How far the worker is tells which detours are in place.
ArmedInv ==
  \A l \in Launches :
    /\ loadThread[l] \in {"none", "loading", "null"} => worker[l] = "none"
    /\ worker[l] = "pcall" => "lua_newstate" \in hooks[l]
    /\ worker[l] \in {"stage", "open", "set", "done"} => hooks[l] = Detours

\* Every action keeps the detours in step with the worker.
LEMMA ArmedNext ==
  ASSUME TypeOK, PathInv, ArmedInv, [Next]_vars
  PROVE  ArmedInv'
<1>1. ASSUME UNCHANGED <<pc, loadThread, worker, hooks>> PROVE ArmedInv'
  BY <1>1 DEF TypeOK, PathInv, ArmedInv, Detours
<1>2. CASE UNCHANGED vars
  BY <1>1, <1>2 DEF vars, launcherVars, gameVars, shellVars, engineVars
<1>3. ASSUME NEW l \in Launches, ChunkFails(l) \/ LoaderReturns(l)
      PROVE  ArmedInv'
  BY <1>1, <1>3 DEF ChunkFails, TrampolineEnds, LoaderReturns, launcherVars,
      gameVars, shellVars, engineVars
<1>4. ASSUME NEW l \in Launches, Refuse(l) PROVE ArmedInv'
  BY <1>4 DEF TypeOK, PathInv, ArmedInv, Detours, Refuse, Goto,
      launcherVars, gameVars, shellVars, engineVars
<1>5. ASSUME NEW l \in Launches, CreateSuspended(l) PROVE ArmedInv'
  BY <1>5 DEF TypeOK, PathInv, ArmedInv, Detours, CreateSuspended,
      Goto, launcherVars, gameVars, shellVars, engineVars
<1>6. ASSUME NEW l \in Launches, WritePath(l) PROVE ArmedInv'
  BY <1>6 DEF TypeOK, PathInv, ArmedInv, Detours, WritePath, Goto,
      launcherVars, gameVars, shellVars, engineVars
<1>7. ASSUME NEW l \in Launches, CreateEvent(l) PROVE ArmedInv'
  BY <1>7 DEF TypeOK, PathInv, ArmedInv, Detours, CreateEvent, Goto,
      Handles, launcherVars, gameVars, shellVars, engineVars
<1>8. ASSUME NEW l \in Launches, CreateRemoteThread(l) PROVE ArmedInv'
  BY <1>8 DEF TypeOK, PathInv, ArmedInv, Detours, CreateRemoteThread,
      Goto, Alive, launcherVars, gameVars, shellVars, engineVars
<1>9. ASSUME NEW l \in Launches, LoadFinished(l) PROVE ArmedInv'
  BY <1>9 DEF TypeOK, PathInv, ArmedInv, Detours, LoadFinished, Goto,
      launcherVars, gameVars, shellVars, engineVars
<1>10. ASSUME NEW l \in Launches, FreePath(l) PROVE ArmedInv'
  BY <1>10 DEF TypeOK, PathInv, ArmedInv, Detours, FreePath, Goto,
      Alive, launcherVars, gameVars, shellVars, engineVars
<1>11. ASSUME NEW l \in Launches, HookReady(l) PROVE ArmedInv'
  BY <1>11 DEF TypeOK, PathInv, ArmedInv, Detours, HookReady, Goto,
      launcherVars, gameVars, shellVars, engineVars
<1>12. ASSUME NEW l \in Launches, GiveUp(l) PROVE ArmedInv'
  BY <1>12 DEF TypeOK, PathInv, ArmedInv, Detours, GiveUp, Goto,
      launcherVars, gameVars, shellVars, engineVars
<1>13. ASSUME NEW l \in Launches, Resume(l) PROVE ArmedInv'
  BY <1>13 DEF TypeOK, PathInv, ArmedInv, Detours, Resume, Goto,
      Handles, launcherVars, gameVars, shellVars, engineVars
<1>14. ASSUME NEW l \in Launches, Kill(l) PROVE ArmedInv'
  BY <1>14 DEF TypeOK, PathInv, ArmedInv, Detours, Kill, Goto, Handles,
      EndProcess, launcherVars, gameVars, shellVars, engineVars
<1>15. ASSUME NEW l \in Launches, Interrupt(l) PROVE ArmedInv'
  BY <1>15 DEF TypeOK, PathInv, ArmedInv, Detours, Interrupt, Goto,
      Handles, launcherVars, gameVars, shellVars, engineVars
<1>16. ASSUME NEW l \in Launches, DllMain(l) PROVE ArmedInv'
  BY <1>16 DEF TypeOK, PathInv, ArmedInv, Detours, DllMain,
      LoadThreadGoes, Alive, launcherVars, gameVars, shellVars, engineVars
<1>17. ASSUME NEW l \in Launches, LoadLibraryReturns(l) PROVE ArmedInv'
  BY <1>17 DEF TypeOK, PathInv, ArmedInv, Detours, LoadLibraryReturns,
      LoadThreadGoes, Alive, launcherVars, gameVars, shellVars, engineVars
<1>18. ASSUME NEW l \in Launches, LoadLibraryFails(l) PROVE ArmedInv'
  BY <1>18 DEF TypeOK, PathInv, ArmedInv, Detours, LoadLibraryFails,
      LoadThreadGoes, Alive, launcherVars, gameVars, shellVars, engineVars
<1>19. ASSUME NEW l \in Launches, Discover(l) PROVE ArmedInv'
  BY <1>19 DEF TypeOK, PathInv, ArmedInv, Detours, Discover,
      WorkerGoes, Alive, launcherVars, gameVars, shellVars, engineVars
<1>20. ASSUME NEW l \in Launches, HookNewstate(l) PROVE ArmedInv'
  BY <1>20 DEF TypeOK, PathInv, ArmedInv, Detours, HookNewstate,
      WorkerGoes, Alive, launcherVars, gameVars, shellVars, engineVars
<1>21. ASSUME NEW l \in Launches, HookPcall(l) PROVE ArmedInv'
  BY <1>21 DEF TypeOK, PathInv, ArmedInv, Detours, HookPcall,
      WorkerGoes, Alive, launcherVars, gameVars, shellVars, engineVars
<1>22. ASSUME NEW l \in Launches, WorkerFails(l) PROVE ArmedInv'
  BY <1>22 DEF TypeOK, PathInv, ArmedInv, Detours, WorkerFails,
      WorkerGoes, Alive, launcherVars, gameVars, shellVars, engineVars
<1>23. ASSUME NEW l \in Launches, StageChunk(l) PROVE ArmedInv'
  BY <1>23 DEF TypeOK, PathInv, ArmedInv, Detours, StageChunk,
      WorkerGoes, Alive, launcherVars, gameVars, shellVars, engineVars
<1>24. ASSUME NEW l \in Launches, StageNothing(l) PROVE ArmedInv'
  BY <1>24 DEF TypeOK, PathInv, ArmedInv, Detours, StageNothing,
      WorkerGoes, Alive, launcherVars, gameVars, shellVars, engineVars
<1>25. ASSUME NEW l \in Launches, ExitOnManager(l) PROVE ArmedInv'
  BY <1>25 DEF TypeOK, PathInv, ArmedInv, Detours, ExitOnManager,
      EndProcess, Alive, launcherVars, gameVars, shellVars, engineVars
<1>26. ASSUME NEW l \in Launches, OpenEvent(l) PROVE ArmedInv'
  BY <1>26 DEF TypeOK, PathInv, ArmedInv, Detours, OpenEvent,
      WorkerGoes, Alive, EventExists, launcherVars, gameVars, shellVars,
      engineVars
<1>27. ASSUME NEW l \in Launches, OpenEventFails(l) PROVE ArmedInv'
  BY <1>27 DEF TypeOK, PathInv, ArmedInv, Detours, OpenEventFails,
      WorkerGoes, Alive, launcherVars, gameVars, shellVars, engineVars
<1>28. ASSUME NEW l \in Launches, SignalReady(l) PROVE ArmedInv'
  BY <1>28 DEF TypeOK, PathInv, ArmedInv, Detours, SignalReady,
      WorkerGoes, Alive, launcherVars, gameVars, shellVars, engineVars
<1>29. ASSUME NEW l \in Launches, EnginePcall(l) PROVE ArmedInv'
  BY <1>29 DEF TypeOK, PathInv, ArmedInv, Detours, EnginePcall,
      Counted, TakesTrampoline, Forward, EnterTrampoline, launcherVars,
      gameVars, shellVars, engineVars
<1>30. ASSUME NEW l \in Launches, ChunkPcall(l) PROVE ArmedInv'
  BY <1>30 DEF TypeOK, PathInv, ArmedInv, Detours, ChunkPcall, Counted,
      launcherVars, gameVars, shellVars, engineVars
<1>31. ASSUME NEW l \in Launches, GameExits(l) PROVE ArmedInv'
  BY <1>31 DEF TypeOK, PathInv, ArmedInv, Detours, GameExits,
      EndProcess, Handles, launcherVars, gameVars, shellVars, engineVars
<1>32. QED
  BY <1>2, <1>3, <1>4, <1>5, <1>6, <1>7, <1>8, <1>9, <1>10, <1>11,
    <1>12, <1>13, <1>14, <1>15, <1>16, <1>17, <1>18, <1>19, <1>20, <1>21,
    <1>22, <1>23, <1>24, <1>25, <1>26, <1>27, <1>28, <1>29, <1>30, <1>31
     DEF Next, Launcher, LoadThread, Worker, Engine

\* A worker that is through stays so, and a shell that is ready stays ready.
LEMMA ReadyStays ==
  ASSUME TypeOK, ArmedInv, [Next]_vars, NEW l \in Launches
  PROVE  /\ worker[l] = "done" => worker'[l] = "done"
         /\ Ready(l) => Ready(l)'
<1> DEFINE Goal == /\ worker[l] = "done" => worker'[l] = "done"
                   /\ Ready(l) => Ready(l)'
<1>1. CASE UNCHANGED vars
  BY <1>1 DEF TypeOK, ArmedInv, Ready, Detours, vars, launcherVars, gameVars,
    shellVars, engineVars
<1>2. ASSUME NEW k \in Launches,
        \/ Refuse(k) \/ CreateSuspended(k) \/ WritePath(k)
        \/ CreateEvent(k) \/ CreateRemoteThread(k)
      PROVE  Goal
  BY <1>2 DEF TypeOK, ArmedInv, Ready, Detours, Refuse, Goto, CreateSuspended,
    WritePath, CreateEvent, Handles, CreateRemoteThread, launcherVars, gameVars,
    shellVars, engineVars
<1>3. ASSUME NEW k \in Launches,
        \/ LoadFinished(k) \/ FreePath(k) \/ HookReady(k)
        \/ GiveUp(k) \/ Resume(k)
      PROVE  Goal
  BY <1>3 DEF TypeOK, ArmedInv, Ready, Detours, LoadFinished, Goto, FreePath,
    HookReady, GiveUp, Resume, Handles, launcherVars, gameVars, shellVars,
    engineVars
<1>4. ASSUME NEW k \in Launches,
        \/ Kill(k) \/ Interrupt(k) \/ DllMain(k)
        \/ LoadLibraryReturns(k) \/ LoadLibraryFails(k)
      PROVE  Goal
  BY <1>4 DEF TypeOK, ArmedInv, Ready, Detours, Kill, Goto, Handles, EndProcess,
    Interrupt, DllMain, LoadThreadGoes, LoadLibraryReturns, LoadLibraryFails,
    launcherVars, gameVars, shellVars, engineVars
<1>5. ASSUME NEW k \in Launches,
        \/ Discover(k) \/ HookNewstate(k) \/ HookPcall(k)
        \/ WorkerFails(k) \/ StageChunk(k)
      PROVE  Goal
  BY <1>5 DEF TypeOK, ArmedInv, Ready, Detours, Discover, WorkerGoes,
    HookNewstate, HookPcall, WorkerFails, StageChunk, launcherVars, gameVars,
    shellVars, engineVars
<1>6. ASSUME NEW k \in Launches,
        \/ StageNothing(k) \/ ExitOnManager(k) \/ OpenEvent(k)
        \/ OpenEventFails(k) \/ SignalReady(k)
      PROVE  Goal
  BY <1>6 DEF TypeOK, ArmedInv, Ready, Detours, StageNothing, WorkerGoes,
    ExitOnManager, EndProcess, OpenEvent, OpenEventFails, SignalReady,
    launcherVars, gameVars, shellVars, engineVars
<1>7. ASSUME NEW k \in Launches,
        \/ EnginePcall(k) \/ ChunkPcall(k) \/ ChunkFails(k)
        \/ LoaderReturns(k) \/ GameExits(k)
      PROVE  Goal
  BY <1>7 DEF TypeOK, ArmedInv, Ready, Detours, EnginePcall, ChunkPcall,
    ChunkFails, LoaderReturns, TrampolineEnds, GameExits, EndProcess, Handles,
    launcherVars, gameVars, shellVars, engineVars
<1> QED
  BY <1>1, <1>2, <1>3, <1>4, <1>5, <1>6, <1>7
     DEF Next, Launcher, LoadThread, Worker, Engine

\* Once the event is signalled, and for whoever is past the wait, the shell is
\* ready or another launch's worker came first.
SignalInv ==
  \A l \in Launches :
    signaled \/ pc[l] \in {"resume", "ok"} => Ready(l) \/ Preempted(l)

\* A launch that was preempted stays so.
LEMMA PreemptedStays ==
  ASSUME TypeOK, ArmedInv, [Next]_vars, NEW l \in Launches
  PROVE  Preempted(l) => Preempted(l)'
BY ReadyStays DEF Preempted

\* Only SignalReady signals the event, and only HookReady gets past the wait.
LEMMA WaitSteps ==
  ASSUME TypeOK, [Next]_vars
  PROVE  \/ \E k \in Launches : SignalReady(k)
         \/ /\ signaled' => signaled
            /\ \A l \in Launches : pc'[l] \in {"resume", "ok"} =>
                 signaled \/ pc[l] \in {"resume", "ok"}
<1> DEFINE Goal == \/ \E k \in Launches : SignalReady(k)
                   \/ /\ signaled' => signaled
                      /\ \A l \in Launches : pc'[l] \in {"resume", "ok"} =>
                           signaled \/ pc[l] \in {"resume", "ok"}
<1>1. CASE UNCHANGED vars
  BY <1>1 DEF TypeOK, vars, launcherVars, gameVars, shellVars, engineVars
<1>2. ASSUME NEW k \in Launches,
        \/ Refuse(k) \/ CreateSuspended(k) \/ WritePath(k)
        \/ CreateEvent(k) \/ CreateRemoteThread(k)
      PROVE  Goal
  BY <1>2 DEF TypeOK, Refuse, Goto, CreateSuspended, WritePath, CreateEvent,
    Handles, CreateRemoteThread, launcherVars, gameVars, shellVars, engineVars
<1>3. ASSUME NEW k \in Launches,
        \/ LoadFinished(k) \/ FreePath(k) \/ HookReady(k)
        \/ GiveUp(k) \/ Resume(k)
      PROVE  Goal
  BY <1>3 DEF TypeOK, LoadFinished, Goto, FreePath, HookReady, GiveUp, Resume,
    Handles, launcherVars, gameVars, shellVars, engineVars
<1>4. ASSUME NEW k \in Launches,
        \/ Kill(k) \/ Interrupt(k) \/ DllMain(k)
        \/ LoadLibraryReturns(k) \/ LoadLibraryFails(k)
      PROVE  Goal
  BY <1>4 DEF TypeOK, Kill, Goto, Handles, EndProcess, Interrupt, DllMain,
    LoadThreadGoes, LoadLibraryReturns, LoadLibraryFails, launcherVars,
    gameVars, shellVars, engineVars
<1>5. ASSUME NEW k \in Launches,
        \/ Discover(k) \/ HookNewstate(k) \/ HookPcall(k)
        \/ WorkerFails(k) \/ StageChunk(k)
      PROVE  Goal
  BY <1>5 DEF TypeOK, Discover, WorkerGoes, HookNewstate, HookPcall,
    WorkerFails, StageChunk, launcherVars, gameVars, shellVars, engineVars
<1>6. ASSUME NEW k \in Launches,
        \/ StageNothing(k) \/ ExitOnManager(k) \/ OpenEvent(k)
        \/ OpenEventFails(k) \/ SignalReady(k)
      PROVE  Goal
  BY <1>6 DEF TypeOK, StageNothing, WorkerGoes, ExitOnManager, EndProcess,
    OpenEvent, OpenEventFails, SignalReady, launcherVars, gameVars, shellVars,
    engineVars
<1>7. ASSUME NEW k \in Launches,
        \/ EnginePcall(k) \/ ChunkPcall(k) \/ ChunkFails(k)
        \/ LoaderReturns(k) \/ GameExits(k)
      PROVE  Goal
  BY <1>7 DEF TypeOK, EnginePcall, ChunkPcall, ChunkFails, LoaderReturns,
    TrampolineEnds, GameExits, EndProcess, Handles, launcherVars, gameVars,
    shellVars, engineVars
<1> QED
  BY <1>1, <1>2, <1>3, <1>4, <1>5, <1>6, <1>7
     DEF Next, Launcher, LoadThread, Worker, Engine

\* Every action keeps SignalInv.  The step it is about is SignalReady: the event is
\* the one its own launcher waits for, or has preempted the others.
LEMMA SignalNext ==
  ASSUME TypeOK, ArmedInv, SignalInv, [Next]_vars
  PROVE  SignalInv'
<1>1. SUFFICES ASSUME NEW l \in Launches, signaled' \/ pc'[l] \in {"resume", "ok"}
               PROVE  Ready(l)' \/ Preempted(l)'
  BY DEF SignalInv
<1>2. CASE signaled \/ pc[l] \in {"resume", "ok"}
  BY <1>2, ReadyStays, PreemptedStays DEF SignalInv
<1>3. CASE \E k \in Launches : SignalReady(k)
  <2>1. PICK k \in Launches : SignalReady(k)
    BY <1>3
  <2>2. worker'[k] = "done" /\ hooks' = hooks /\ worker[k] = "set"
    BY <2>1 DEF SignalReady, WorkerGoes, TypeOK, shellVars
  <2>3. k = l => Ready(l)'
    BY <2>2 DEF ArmedInv, Ready
  <2>4. k # l => Preempted(l)'
    BY <2>2 DEF Preempted
  <2> QED
    BY <2>3, <2>4
<1> QED
  BY <1>1, <1>2, <1>3, WaitSteps

\* The detour has seen the first lua_pcall before any is forwarded, and the chunk
\* runs inside that one.
First(l) ==
  /\ ~tried[l] => calls[l] = 0 /\ ~forwarded[l] /\ engine[l] = "main"
  /\ engine[l] # "main" => ~forwarded[l]

FirstInv == \A l \in Launches : ~Preempted(l) => First(l)

\* A step of the engine thread of a game whose detour is in place.
LEMMA FirstPcall ==
  ASSUME TypeOK, NEW l \in Launches, First(l), Ready(l), EnginePcall(l)
  PROVE  First(l)'
<1>1. "lua_pcall" \in hooks[l] /\ engine[l] = "main"
  BY DEF EnginePcall, Ready, Detours
<1>2. /\ calls' = [calls EXCEPT ![l] = Counted(l)]
      /\ tried' = [tried EXCEPT ![l] = tried[l] \/ TakesTrampoline(l)]
      /\ IF TakesTrampoline(l) /\ chunk[l] THEN EnterTrampoline(l) ELSE Forward(l)
  BY <1>1 DEF EnginePcall
<1>3. ~tried[l] => TakesTrampoline(l)
  BY CountedInRange DEF TypeOK, First, TakesTrampoline
<1>4. tried'[l]
  <2>1. DOMAIN tried = Launches
    BY DEF TypeOK
  <2> QED
    BY <1>2, <1>3, <2>1, Zenon
<1>5. CASE TakesTrampoline(l)
  <2>1. ~tried[l] /\ ~forwarded[l]
    BY <1>5 DEF TakesTrampoline, First
  <2> QED
    BY <1>2, <1>4, <1>5, <2>1 DEF First, TypeOK, EnterTrampoline, Forward
<1>6. CASE ~TakesTrampoline(l)
  BY <1>1, <1>2, <1>4, <1>6 DEF First, TypeOK, Forward
<1> QED
  BY <1>5, <1>6

\* A step of a game whose hooks are in place keeps FirstInv.
LEMMA FirstNext ==
  ASSUME TypeOK, ArmedInv, FlagBracketsRun, FirstInv, UnreadyOnlyIfPreempted,
         [Next]_vars
  PROVE  FirstInv'
<1> SUFFICES ASSUME NEW l \in Launches, ~Preempted(l)'
             PROVE  First(l)'
  BY DEF FirstInv
<1>1. First(l)
  BY PreemptedStays DEF FirstInv
<1>2. proc[l] = "running" => Ready(l)
  BY PreemptedStays DEF UnreadyOnlyIfPreempted
<1>3. ASSUME UNCHANGED <<engine, calls, tried, forwarded>> PROVE First(l)'
  BY <1>1, <1>3 DEF First
<1>4. CASE UNCHANGED vars
  BY <1>3, <1>4 DEF vars, engineVars
<1>5. ASSUME NEW k \in Launches, Launcher(k) \/ Interrupt(k) \/ LoadThread(k)
      PROVE  First(l)'
  BY <1>3, <1>5
     DEF Launcher, Refuse, CreateSuspended, WritePath, CreateEvent,
         CreateRemoteThread, LoadFinished, FreePath, HookReady, GiveUp, Resume,
         Kill, Interrupt, LoadThread, DllMain, LoadLibraryReturns,
         LoadLibraryFails, LoadThreadGoes, engineVars
<1>6. ASSUME NEW k \in Launches, Worker(k)
      PROVE  First(l)'
  BY <1>3, <1>6
     DEF Worker, Discover, HookNewstate, HookPcall, WorkerFails, StageChunk,
         StageNothing, ExitOnManager, OpenEvent, OpenEventFails, SignalReady,
         WorkerGoes, engineVars
<1>7. ASSUME NEW k \in Launches, EnginePcall(k), k # l
      PROVE  First(l)'
  BY <1>1, <1>7 DEF TypeOK, EnginePcall, First, Forward, EnterTrampoline
<1>8. CASE EnginePcall(l)
  BY <1>1, <1>2, <1>8, FirstPcall DEF EnginePcall
<1>9. ASSUME NEW k \in Launches, ChunkPcall(k)
      PROVE  First(l)'
  BY <1>1, <1>9 DEF TypeOK, FlagBracketsRun, First, ChunkPcall
<1>10. ASSUME NEW k \in Launches, ChunkFails(k) \/ LoaderReturns(k)
       PROVE  First(l)'
  <2>1. /\ engine[k] # "main" /\ engine' = [engine EXCEPT ![k] = "main"]
        /\ forwarded' = [forwarded EXCEPT ![k] = TRUE]
        /\ calls' = calls /\ tried' = tried
    BY <1>10 DEF ChunkFails, LoaderReturns, TrampolineEnds
  <2> QED
    BY <1>1, <2>1 DEF TypeOK, First
<1>11. ASSUME NEW k \in Launches, GameExits(k)
       PROVE  First(l)'
  BY <1>3, <1>11 DEF GameExits, engineVars
<1> QED
  BY <1>4, <1>5, <1>6, <1>7, <1>8, <1>9, <1>10, <1>11 DEF Next, Engine

\* A game runs only once its launcher was past the wait.
LEMMA RunningIsReady == OutcomeInv /\ SignalInv /\ TypeOK => UnreadyOnlyIfPreempted
BY DEF OutcomeInv, SignalInv, TypeOK, UnreadyOnlyIfPreempted, Working, Returned

\* The conjunction that is inductive.
SessionInv ==
  TypeOK /\ PathInv /\ OutcomeInv /\ FlagBracketsRun /\ ArmedInv /\ SignalInv /\ FirstInv

\* It holds initially, and Next keeps it.
LEMMA SessionInvHolds == Spec => []SessionInv
<1>1. Init => SessionInv
  BY TypeInit DEF Init, SessionInv, PathInv, OutcomeInv, FlagBracketsRun, ArmedInv,
     SignalInv, FirstInv, First, Working
<1>2. SessionInv /\ [Next]_vars => SessionInv'
  <2> SUFFICES ASSUME SessionInv, [Next]_vars PROVE SessionInv'
    OBVIOUS
  <2>1. TypeOK' /\ PathInv' /\ OutcomeInv' /\ FlagBracketsRun'
    BY TypeNext, PathNext, OutcomeNext, FlagNext DEF SessionInv
  <2>2. ArmedInv' /\ SignalInv'
    BY ArmedNext, SignalNext DEF SessionInv
  <2>3. FirstInv'
    BY RunningIsReady, FirstNext DEF SessionInv
  <2>4. QED
    BY <2>1, <2>2, <2>3 DEF SessionInv
<1>3. QED
  BY <1>1, <1>2, PTL DEF Spec

\* For any number of launches, a game is resumed before its hooks are armed and
\* the staging is over only if another launch's worker came first.
THEOREM UnreadyNeedsAnother == Spec => []UnreadyOnlyIfPreempted
<1>1. SessionInv => UnreadyOnlyIfPreempted
  BY RunningIsReady DEF SessionInv
<1>2. QED
  BY <1>1, SessionInvHolds, PTL

\* With one launch, a game is never resumed before its hooks are armed and the
\* staging is over.
THEOREM NeverResumedUnready ==
  ASSUME NEW one, Launches = {one}
  PROVE  Spec => []ResumedOnlyWhenReady
<1>1. UnreadyOnlyIfPreempted => ResumedOnlyWhenReady
  BY DEF UnreadyOnlyIfPreempted, ResumedOnlyWhenReady, Preempted
<1>2. QED
  BY <1>1, UnreadyNeedsAnother, PTL

\* For any number of launches, the loader of a game that no other launch may have
\* preempted runs at most once and before the first call of the engine gets
\* through, whatever the width of the counter.
THEOREM LoaderRunsFirst == Spec => []LoaderFirstAndOnce
<1>1. SessionInv => LoaderFirstAndOnce
  BY DEF SessionInv, FirstInv, First, LoaderFirstAndOnce
<1>2. QED
  BY <1>1, SessionInvHolds, PTL

=============================================================================
