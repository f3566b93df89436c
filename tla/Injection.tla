------------------------------- MODULE Injection -------------------------------
(***************************************************************************)
(* How the shell gets into a game: the launcher (inject_and_resume), the   *)
(* thread it starts in the suspended game (LoadLibraryA), the shell's      *)
(* worker, and the engine thread with its two detours, for a set of        *)
(* launches that share one Windows session.                                *)
(*                                                                         *)
(* A step is one call to the system, or the code between two of them.  The *)
(* launches share nothing but the named event relay_hook_ready: creating   *)
(* an event whose name exists opens the existing one, as it is, and the    *)
(* event goes away with its last handle.                                   *)
(***************************************************************************)
EXTENDS Naturals, FiniteSets

CONSTANTS
  Launches,        \* the launches of the session
  CounterModulus   \* bound: g_pcall_calls wraps here, 2^32 in the code

ASSUME CounterAssumption == CounterModulus \in Nat \ {0, 1}

VARIABLES
  pc,             \* the launcher's next step, or how it ended
  proc,           \* the game: none, suspended, running, dead
  buffer,         \* the DLL path in the game's memory: none, written, freed
  loadThread,     \* the remote LoadLibraryA thread
  worker,         \* the shell's worker thread
  hooks,          \* the detours MinHook has enabled in the game
  chunk,          \* g_trampoline_chunk_len > 0
  manager,        \* RELAY_MOD_MANAGER: unset, intact, broken
  launcherHolds,  \* the launchers with a handle to the event
  workerHolds,    \* the workers with a handle to the event
  signaled,       \* the event's state; FALSE while nobody holds it
  engine,         \* the engine thread: main, chunk, loader
  calls,          \* g_pcall_calls
  tried,          \* g_trampoline_done
  inside,         \* g_in_trampoline
  up,             \* history: the loader entry returned with the loader in place
  forwarded       \* history: an lua_pcall of the engine reached the original

launcherVars == <<pc, launcherHolds>>
gameVars == <<proc, buffer, loadThread, worker, workerHolds>>
shellVars == <<hooks, chunk>>
engineVars == <<engine, calls, tried, inside, up, forwarded>>
vars == <<launcherVars, gameVars, shellVars, manager, signaled, engineVars>>

Detours == {"lua_newstate", "lua_pcall"}
Returned == {"ok", "failed", "refused"}
Working == {"start", "write", "event", "inject", "waitLoad", "exitCode",
            "waitReady", "resume", "kill"}

TypeOK ==
  /\ pc \in [Launches -> Working \cup Returned \cup {"interrupted"}]
  /\ proc \in [Launches -> {"none", "suspended", "running", "dead"}]
  /\ buffer \in [Launches -> {"none", "written", "freed"}]
  /\ loadThread \in
       [Launches -> {"none", "loading", "attached", "loaded", "null", "killed"}]
  /\ worker \in [Launches -> {"none", "discover", "newstate", "pcall", "stage",
                              "open", "set", "done", "failed"}]
  /\ hooks \in [Launches -> SUBSET Detours]
  /\ chunk \in [Launches -> BOOLEAN]
  /\ manager \in [Launches -> {"unset", "intact", "broken"}]
  /\ launcherHolds \subseteq Launches
  /\ workerHolds \subseteq Launches
  /\ signaled \in BOOLEAN
  /\ engine \in [Launches -> {"main", "chunk", "loader"}]
  /\ calls \in [Launches -> 0 .. CounterModulus - 1]
  /\ tried \in [Launches -> BOOLEAN]
  /\ inside \in [Launches -> BOOLEAN]
  /\ up \in [Launches -> BOOLEAN]
  /\ forwarded \in [Launches -> BOOLEAN]

Init ==
  /\ pc = [l \in Launches |-> "start"]
  /\ proc = [l \in Launches |-> "none"]
  /\ buffer = [l \in Launches |-> "none"]
  /\ loadThread = [l \in Launches |-> "none"]
  /\ worker = [l \in Launches |-> "none"]
  /\ hooks = [l \in Launches |-> {}]
  /\ chunk = [l \in Launches |-> FALSE]
  /\ manager \in [Launches -> {"unset", "intact", "broken"}]
  /\ launcherHolds = {}
  /\ workerHolds = {}
  /\ signaled = FALSE
  /\ engine = [l \in Launches |-> "main"]
  /\ calls = [l \in Launches |-> 0]
  /\ tried = [l \in Launches |-> FALSE]
  /\ inside = [l \in Launches |-> FALSE]
  /\ up = [l \in Launches |-> FALSE]
  /\ forwarded = [l \in Launches |-> FALSE]

Goto(l, where) == pc' = [pc EXCEPT ![l] = where]
Alive(l) == proc[l] \in {"suspended", "running"}

\* The event lives while a handle to it is open.
EventExists == launcherHolds \cup workerHolds # {}

\* The handles after a step, and the event with them.
Handles(launchers, workers) ==
  /\ launcherHolds' = launchers
  /\ workerHolds' = workers
  /\ signaled' = (signaled /\ launchers \cup workers # {})

\* The process ends, by TerminateProcess or ExitProcess: its threads are gone,
\* and a thread that was still running reports the exit code 1.
EndProcess(l) ==
  /\ proc' = [proc EXCEPT ![l] = IF @ = "none" THEN @ ELSE "dead"]
  /\ loadThread' = [loadThread EXCEPT
       ![l] = IF @ \in {"loading", "attached"} THEN "killed" ELSE @]
  /\ UNCHANGED <<buffer, worker>>

-----------------------------------------------------------------------------
(***************************************************************************)
(* The launcher: inject_and_resume.                                        *)
(***************************************************************************)

\* A path that does not exist, or CreateProcess failing: nothing was created.
Refuse(l) ==
  /\ pc[l] = "start"
  /\ Goto(l, "refused")
  /\ UNCHANGED <<gameVars, shellVars, manager, launcherHolds, signaled, engineVars>>

CreateSuspended(l) ==
  /\ pc[l] = "start"
  /\ Goto(l, "write")
  /\ proc' = [proc EXCEPT ![l] = "suspended"]
  /\ UNCHANGED <<buffer, loadThread, worker, workerHolds, shellVars, manager,
                 launcherHolds, signaled, engineVars>>

\* VirtualAllocEx and WriteProcessMemory.
WritePath(l) ==
  /\ pc[l] = "write"
  /\ Goto(l, "event")
  /\ buffer' = [buffer EXCEPT ![l] = "written"]
  /\ UNCHANGED <<proc, loadThread, worker, workerHolds, shellVars, manager,
                 launcherHolds, signaled, engineVars>>

\* Manual-reset, not signalled when new; ERROR_ALREADY_EXISTS is not looked at.
CreateEvent(l) ==
  /\ pc[l] = "event"
  /\ Goto(l, "inject")
  /\ Handles(launcherHolds \cup {l}, workerHolds)
  /\ UNCHANGED <<proc, buffer, loadThread, worker, shellVars, manager, engineVars>>

CreateRemoteThread(l) ==
  /\ pc[l] = "inject"
  /\ Alive(l)
  /\ Goto(l, "waitLoad")
  /\ loadThread' = [loadThread EXCEPT ![l] = "loading"]
  /\ UNCHANGED <<proc, buffer, worker, workerHolds, shellVars, manager,
                 launcherHolds, signaled, engineVars>>

\* Fault variant: a timeout of the load thread is taken for its end.
LoadWaitEnds(l) ==
  /\ pc[l] = "waitLoad"
  /\ Goto(l, "exitCode")
  /\ UNCHANGED <<gameVars, shellVars, manager, launcherHolds, signaled, engineVars>>

\* WaitForSingleObject(th) returns because the thread has ended.
LoadFinished(l) ==
  /\ pc[l] = "waitLoad"
  /\ loadThread[l] \notin {"loading", "attached"}
  /\ Goto(l, "exitCode")
  /\ UNCHANGED <<gameVars, shellVars, manager, launcherHolds, signaled, engineVars>>

\* The exit code is not 0: the module handle, or the code the process left with.
\* VirtualFreeEx follows, of no effect if the process is gone.
FreePath(l) ==
  /\ pc[l] = "exitCode"
  /\ loadThread[l] # "null"
  /\ Goto(l, "waitReady")
  /\ buffer' = [buffer EXCEPT ![l] = IF Alive(l) THEN "freed" ELSE @]
  /\ UNCHANGED <<proc, loadThread, worker, workerHolds, shellVars, manager,
                 launcherHolds, signaled, engineVars>>

\* Fault variant: the wait's result is not looked at.
HookReadyOrNot(l) ==
  /\ pc[l] = "waitReady"
  /\ Goto(l, "resume")
  /\ UNCHANGED <<gameVars, shellVars, manager, launcherHolds, signaled, engineVars>>

HookReady(l) ==
  /\ pc[l] = "waitReady"
  /\ signaled
  /\ Goto(l, "resume")
  /\ UNCHANGED <<gameVars, shellVars, manager, launcherHolds, signaled, engineVars>>

\* Fault variant: an error path that returns 1 without going to kill.
ReturnFailed(l) ==
  /\ pc[l] \in {"write", "event", "inject", "waitLoad", "exitCode",
                "waitReady", "resume"}
  /\ Goto(l, "failed")
  /\ Handles(launcherHolds \ {l}, workerHolds)
  /\ UNCHANGED <<proc, buffer, loadThread, worker, shellVars, manager, engineVars>>

\* Fault variant: the hook-ready wait is INFINITE.
GiveUpExceptOnTheHook(l) ==
  /\ pc[l] \in {"write", "event", "inject", "waitLoad", "exitCode", "resume"}
  /\ Goto(l, "kill")
  /\ UNCHANGED <<gameVars, shellVars, manager, launcherHolds, signaled, engineVars>>

\* A call that fails, the two timeouts (10 s for the load thread, 60 s for the
\* event), a wait that fails, and the exit code 0: goto kill.
GiveUp(l) ==
  /\ pc[l] \in {"write", "event", "inject", "waitLoad", "exitCode",
                "waitReady", "resume"}
  /\ Goto(l, "kill")
  /\ UNCHANGED <<gameVars, shellVars, manager, launcherHolds, signaled, engineVars>>

\* ResumeThread, then the handles are closed and the launcher returns 0.
Resume(l) ==
  /\ pc[l] = "resume"
  /\ Goto(l, "ok")
  /\ proc' = [proc EXCEPT ![l] = IF @ = "suspended" THEN "running" ELSE @]
  /\ Handles(launcherHolds \ {l}, workerHolds)
  /\ UNCHANGED <<buffer, loadThread, worker, shellVars, manager, engineVars>>

\* Fault variant: the game is not terminated.
KillNothing(l) ==
  /\ pc[l] = "kill"
  /\ Goto(l, "failed")
  /\ Handles(launcherHolds \ {l}, workerHolds)
  /\ UNCHANGED <<proc, buffer, loadThread, worker, shellVars, manager, engineVars>>

\* The kill label: terminate, close the handles, return 1.
Kill(l) ==
  /\ pc[l] = "kill"
  /\ Goto(l, "failed")
  /\ EndProcess(l)
  /\ Handles(launcherHolds \ {l}, workerHolds \ {l})
  /\ UNCHANGED <<shellVars, manager, engineVars>>

\* The launcher itself is ended from outside: the system closes its handles and
\* nobody resumes or terminates the game.
Interrupt(l) ==
  /\ pc[l] \in Working
  /\ Goto(l, "interrupted")
  /\ Handles(launcherHolds \ {l}, workerHolds)
  /\ UNCHANGED <<proc, buffer, loadThread, worker, shellVars, manager, engineVars>>

-----------------------------------------------------------------------------
(***************************************************************************)
(* Inside the game: the LoadLibraryA thread and the worker.  Both run while *)
(* the main thread is suspended.                                           *)
(***************************************************************************)

LoadThreadGoes(l, to) ==
  /\ Alive(l)
  /\ loadThread' = [loadThread EXCEPT ![l] = to]
  /\ UNCHANGED <<launcherVars, proc, buffer, workerHolds, shellVars, manager,
                 signaled, engineVars>>

\* DllMain starts the worker; if CreateThread fails there is none.
DllMain(l) ==
  /\ loadThread[l] = "loading"
  /\ \E w \in {"discover", "none"} : worker' = [worker EXCEPT ![l] = w]
  /\ LoadThreadGoes(l, "attached")

LoadLibraryReturns(l) ==
  /\ loadThread[l] = "attached"
  /\ LoadThreadGoes(l, "loaded")
  /\ UNCHANGED worker

LoadLibraryFails(l) ==
  /\ loadThread[l] = "loading"
  /\ LoadThreadGoes(l, "null")
  /\ UNCHANGED worker

WorkerGoes(l, from, to) ==
  /\ Alive(l)
  /\ worker[l] = from
  /\ worker' = [worker EXCEPT ![l] = to]
  /\ UNCHANGED <<launcherVars, proc, buffer, loadThread, manager, engineVars>>

Discover(l) ==
  /\ WorkerGoes(l, "discover", "newstate")
  /\ UNCHANGED <<shellVars, workerHolds, signaled>>

HookNewstate(l) ==
  /\ WorkerGoes(l, "newstate", "pcall")
  /\ hooks' = [hooks EXCEPT ![l] = @ \cup {"lua_newstate"}]
  /\ UNCHANGED <<chunk, workerHolds, signaled>>

HookPcall(l) ==
  /\ WorkerGoes(l, "pcall", "stage")
  /\ hooks' = [hooks EXCEPT ![l] = @ \cup {"lua_pcall"}]
  /\ UNCHANGED <<chunk, workerHolds, signaled>>

\* Discovery, MH_Initialize or a hook failed: the worker leaves, no signal.
WorkerFails(l) ==
  /\ \E from \in {"discover", "newstate", "pcall"} : WorkerGoes(l, from, "failed")
  /\ UNCHANGED <<shellVars, workerHolds, signaled>>

\* The chunk is built; only a manager path that was read whole gets this far.
StageChunk(l) ==
  /\ manager[l] # "broken"
  /\ WorkerGoes(l, "stage", "open")
  /\ chunk' = [chunk EXCEPT ![l] = TRUE]
  /\ UNCHANGED <<hooks, workerHolds, signaled>>

\* The loader directory cannot be resolved, which is found out before
\* RELAY_MOD_MANAGER is read, or a path does not fit: nothing is staged.
StageNothing(l) ==
  /\ WorkerGoes(l, "stage", "open")
  /\ UNCHANGED <<shellVars, workerHolds, signaled>>

\* RELAY_MOD_MANAGER is set and cannot be used: ExitProcess(1).
ExitOnManager(l) ==
  /\ Alive(l)
  /\ worker[l] = "stage"
  /\ manager[l] = "broken"
  /\ EndProcess(l)
  /\ UNCHANGED <<launcherVars, workerHolds, shellVars, manager, signaled, engineVars>>

OpenEvent(l) ==
  /\ EventExists
  /\ WorkerGoes(l, "open", "set")
  /\ workerHolds' = workerHolds \cup {l}
  /\ UNCHANGED <<shellVars, signaled>>

OpenEventFails(l) ==
  /\ WorkerGoes(l, "open", "done")
  /\ UNCHANGED <<shellVars, workerHolds, signaled>>

\* SetEvent, then CloseHandle.
SignalReady(l) ==
  /\ WorkerGoes(l, "set", "done")
  /\ workerHolds' = workerHolds \ {l}
  /\ signaled' = (launcherHolds \cup (workerHolds \ {l}) # {})
  /\ UNCHANGED shellVars

-----------------------------------------------------------------------------
(***************************************************************************)
(* The engine thread, once it is resumed.                                  *)
(***************************************************************************)

\* What a pass through the detour leaves in the counter.
Counted(l) == (calls[l] + 1) % CounterModulus

\* Fault variant: the counter alone decides.
TakesTrampolineByCount(l) == Counted(l) = 1

\* The call that runs the trampoline: the first, by counter and by flag.
TakesTrampoline(l) == Counted(l) = 1 /\ ~tried[l]

\* A forwarded call changes nothing here but the history.
Forward(l) ==
  /\ forwarded' = [forwarded EXCEPT ![l] = TRUE]
  /\ UNCHANGED <<engine, inside, up>>

EnterTrampoline(l) ==
  /\ engine' = [engine EXCEPT ![l] = "chunk"]
  /\ inside' = [inside EXCEPT ![l] = TRUE]
  /\ UNCHANGED <<up, forwarded>>

\* The engine calls lua_pcall.  With the detour in place it is counted, and the
\* one that takes the trampoline runs the chunk, or finds none, before it is
\* forwarded.
EnginePcall(l) ==
  /\ proc[l] = "running"
  /\ engine[l] = "main"
  /\ \/ /\ "lua_pcall" \notin hooks[l]
        /\ Forward(l)
        /\ UNCHANGED <<calls, tried>>
     \/ /\ "lua_pcall" \in hooks[l]
        /\ calls' = [calls EXCEPT ![l] = Counted(l)]
        /\ tried' = [tried EXCEPT ![l] = @ \/ TakesTrampoline(l)]
        /\ IF TakesTrampoline(l) /\ chunk[l] THEN EnterTrampoline(l) ELSE Forward(l)
  /\ UNCHANGED <<launcherVars, gameVars, shellVars, manager, signaled>>

\* The chunk found init.lua and calls pcall on it.  That call comes through the
\* detour too and is neither counted nor taken, because g_in_trampoline is set.
ChunkPcall(l) ==
  /\ proc[l] = "running"
  /\ engine[l] = "chunk"
  /\ engine' = [engine EXCEPT ![l] = "loader"]
  /\ calls' = IF inside[l] THEN calls ELSE [calls EXCEPT ![l] = Counted(l)]
  /\ UNCHANGED <<tried, inside, up, forwarded>>
  /\ UNCHANGED <<launcherVars, gameVars, shellVars, manager, signaled>>

\* trampoline_run returns, and the engine's own call is forwarded.
TrampolineEnds(l, loaded) ==
  /\ proc[l] = "running"
  /\ engine' = [engine EXCEPT ![l] = "main"]
  /\ inside' = [inside EXCEPT ![l] = FALSE]
  /\ up' = [up EXCEPT ![l] = loaded]
  /\ forwarded' = [forwarded EXCEPT ![l] = TRUE]
  /\ UNCHANGED <<calls, tried>>
  /\ UNCHANGED <<launcherVars, gameVars, shellVars, manager, signaled>>

\* The chunk does not load, or init.lua cannot be opened or compiled.
ChunkFails(l) == engine[l] = "chunk" /\ TrampolineEnds(l, FALSE)

\* init.lua returns, with the loader in place or not, or raises.
LoaderReturns(l) ==
  /\ engine[l] = "loader"
  /\ \E loaded \in BOOLEAN : TrampolineEnds(l, loaded)

\* The game ends by itself.
GameExits(l) ==
  /\ proc[l] = "running"
  /\ EndProcess(l)
  /\ Handles(launcherHolds, workerHolds \ {l})
  /\ UNCHANGED <<pc, shellVars, manager, engineVars>>

-----------------------------------------------------------------------------
Launcher(l) ==
  \/ Refuse(l) \/ CreateSuspended(l) \/ WritePath(l) \/ CreateEvent(l)
  \/ CreateRemoteThread(l) \/ LoadFinished(l) \/ FreePath(l) \/ HookReady(l)
  \/ GiveUp(l) \/ Resume(l) \/ Kill(l)

LoadThread(l) == DllMain(l) \/ LoadLibraryReturns(l) \/ LoadLibraryFails(l)

Worker(l) ==
  \/ Discover(l) \/ HookNewstate(l) \/ HookPcall(l) \/ WorkerFails(l)
  \/ StageChunk(l) \/ StageNothing(l) \/ ExitOnManager(l)
  \/ OpenEvent(l) \/ OpenEventFails(l) \/ SignalReady(l)

Engine(l) ==
  EnginePcall(l) \/ ChunkPcall(l) \/ ChunkFails(l) \/ LoaderReturns(l) \/ GameExits(l)

Next ==
  \E l \in Launches :
    Launcher(l) \/ Interrupt(l) \/ LoadThread(l) \/ Worker(l) \/ Engine(l)

Spec == Init /\ [][Next]_vars

\* Every wait of the launcher has a timeout, so its own steps are never blocked.
FairSpec == Spec /\ \A l \in Launches : WF_vars(Launcher(l))
-----------------------------------------------------------------------------
(***************************************************************************)
(* Properties.                                                             *)
(***************************************************************************)

\* The shell is in place: both detours, and staging is over.
Ready(l) == hooks[l] = Detours /\ worker[l] \in {"open", "set", "done"}

\* Another launch's worker is through, and may have signalled the event that this
\* launch waits for too.
Preempted(l) == \E k \in Launches \ {l} : worker[k] = "done"

\* A game runs only when its shell is ready, or else because a worker of another
\* launch had signalled; resumed earlier, it would create its Lua state or make
\* its first lua_pcall unobserved.  (inject_and_resume, worker)
UnreadyOnlyIfPreempted ==
  \A l \in Launches : proc[l] = "running" => Ready(l) \/ Preempted(l)

\* A game runs only when its shell is ready, as the launcher documents it.
ResumedOnlyWhenReady == \A l \in Launches : proc[l] = "running" => Ready(l)

\* What the launcher returns is true: 0 means the game was resumed, 1 means that
\* there is none, on every error path.  Only a launcher ended from outside leaves
\* a suspended game behind.
OutcomeIsTrue ==
  \A l \in Launches :
    /\ pc[l] = "ok" => proc[l] \in {"running", "dead"}
    /\ pc[l] \in {"failed", "refused"} => proc[l] \in {"none", "dead"}

\* The path is not freed under the LoadLibraryA thread that reads it.
PathOutlivesLoad ==
  \A l \in Launches : loadThread[l] \in {"loading", "attached"} => buffer[l] # "freed"

\* The loader runs before any lua_pcall of the engine gets through, and so at
\* most once, although the counter wraps back to 1; only a game that another
\* launch may have preempted can be ahead of its own detour.
LoaderFirstAndOnce ==
  \A l \in Launches : ~Preempted(l) =>
    /\ engine[l] # "main" => ~forwarded[l]
    /\ forwarded[l] => tried[l]

\* g_in_trampoline is set for the duration of trampoline_run and no longer.
FlagBracketsRun == \A l \in Launches : inside[l] <=> engine[l] # "main"

\* With an alternate manager configured, no game goes on without the loader that
\* would load it.
NeverManagerless ==
  \A l \in Launches : manager[l] # "unset" /\ forwarded[l] => up[l]

\* A worker that could not arm the hooks costs the game its life: the launcher's
\* wait times out and the game is terminated, never resumed, unless another
\* launch's worker comes first.
FailedShellEndsGame ==
  \A l \in Launches :
    worker[l] = "failed" ~>
      (proc[l] = "dead" \/ pc[l] = "interrupted" \/ Preempted(l))

\* The launcher returns, whatever the game, its worker and the other launches do.
LauncherReturns == \A l \in Launches : <>(pc[l] \in Returned \cup {"interrupted"})

=============================================================================
