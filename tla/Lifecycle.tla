------------------------------- MODULE Lifecycle -------------------------------
(***************************************************************************)
(* lifecycle.lua: the coordinator that every require advances, the passes  *)
(* of advance_bootstrap, the hard exit for a broken alternate manager, and *)
(* the exits told by the two wrapped methods of GameStateMachine.          *)
(*                                                                         *)
(* A step of a pass is one numbered step of advance_bootstrap.  The calls  *)
(* of a state machine nest: the engine's own _change_state or destroy,     *)
(* under a wrapper, may destroy or change another machine, or itself.      *)
(***************************************************************************)
EXTENDS Naturals, Sequences

CONSTANTS
  Machines,     \* the state machines of the game
  MaxObjects,   \* bound: state objects the engine makes
  MaxDepth      \* bound: nested calls of state machines

ASSUME BoundsAssumption == MaxObjects \in Nat /\ MaxDepth \in Nat

VARIABLES
  \* configuration
  alternate,    \* an alternate manager is configured
  exitSurface,  \* ffi.C.ExitProcess or os.exit works
  \* engine
  loaded,       \* what requires have defined so far
  booting,      \* the boot state still runs
  dead,         \* the process was terminated
  \* bs, and the rest of lifecycle.lua
  wrapped,      \* the methods that carry a wrapper
  pc,           \* the next step of the pass, or idle
  classLoaded,  \* bs.manager_class_loaded
  occupied,     \* Managers.mod is set
  created,      \* bs.manager_created
  duties,       \* bs.chassis_duties_done
  completed,    \* bs.completed
  exitTried,    \* _hard_exit_attempted
  lastExited,   \* _last_exited
  \* state machines
  state,        \* the state object of a machine, 0 for none
  made,         \* the number of state objects made
  frames,       \* the calls of state machines in progress, innermost last
  \* history
  failures,     \* passes that failed in step 1a or 1b, counted to 2
  readyAtStart, \* the latest pass began with the engine ready
  told          \* the state objects whose exit was told to a manager

config == <<alternate, exitSurface>>
engine == <<loaded, booting, dead>>
managerVars == <<classLoaded, occupied, created, duties, completed, exitTried>>
passVars == <<wrapped, pc, managerVars, failures, readyAtStart>>
machineVars == <<lastExited, state, made, frames, told>>
vars == <<config, engine, passVars, machineVars>>

Sources == {"class", "BootStateRequireGameScripts", "StateGame", "GameStateMachine"}
EngineWraps == {"StateGame.update", "_change_state", "destroy"}
Objects == 1 .. MaxObjects

Frame == [machine : Machines, call : {"_change_state", "destroy"},
          old : Objects \cup {0}, manager : BOOLEAN, exit : BOOLEAN]

\* Types, and the order in which the steps of a pass build on each other.
TypeOK ==
  /\ alternate \in BOOLEAN
  /\ exitSurface \in BOOLEAN
  /\ loaded \subseteq Sources
  /\ booting \in BOOLEAN
  /\ dead \in BOOLEAN
  /\ wrapped \subseteq EngineWraps \cup {"_state_update"}
  /\ pc \in {"idle", "load", "new", "duties", "wraps"}
  /\ classLoaded \in BOOLEAN
  /\ occupied \in BOOLEAN
  /\ created \in BOOLEAN
  /\ duties \in BOOLEAN
  /\ completed \in BOOLEAN
  /\ exitTried \in BOOLEAN
  /\ lastExited \in [Machines -> Objects \cup {0}]
  /\ state \in [Machines -> Objects \cup {0}]
  /\ made \in 0 .. MaxObjects
  /\ frames \in Seq(Frame)
  /\ failures \in 0 .. 2
  /\ readyAtStart \in BOOLEAN
  /\ told \subseteq Objects
  /\ created => occupied /\ classLoaded
  /\ duties => created
  /\ completed => duties /\ EngineWraps \subseteq wrapped

Init ==
  /\ alternate \in BOOLEAN
  /\ exitSurface \in BOOLEAN
  /\ loaded = {}
  /\ booting = TRUE
  /\ dead = FALSE
  /\ wrapped = {}
  /\ pc = "idle"
  /\ classLoaded = FALSE
  /\ occupied = FALSE
  /\ created = FALSE
  /\ duties = FALSE
  /\ completed = FALSE
  /\ exitTried = FALSE
  /\ lastExited = [g \in Machines |-> 0]
  /\ state = [g \in Machines |-> 0]
  /\ made = 0
  /\ frames = <<>>
  /\ failures = 0
  /\ readyAtStart = FALSE
  /\ told = {}

-----------------------------------------------------------------------------
(***************************************************************************)
(* Requires and the coordinator.                                           *)
(***************************************************************************)

\* A require returns and the coordinator runs: the first that finds `class` a
\* function records the classes from there on, and the boot state is wrapped as
\* soon as it is one of them.  Mod code may require, and so may a state's code.
Require ==
  /\ ~dead
  /\ pc \in {"idle", "load", "new"}
  /\ \E source \in Sources \ loaded :
       /\ "class" \in loaded \cup {source}
       /\ loaded' = loaded \cup {source}
  /\ wrapped' = wrapped \cup
       (IF "BootStateRequireGameScripts" \in loaded' THEN {"_state_update"} ELSE {})
  /\ UNCHANGED <<config, booting, dead, pc, managerVars, failures, readyAtStart,
                 machineVars>>

-----------------------------------------------------------------------------
(***************************************************************************)
(* One pass of advance_bootstrap, after an update of the boot state.       *)
(***************************************************************************)

\* _engine_ready.
EngineReady == EngineWraps \subseteq wrapped

StartPass ==
  /\ ~dead
  /\ booting
  /\ pc = "idle"
  /\ frames = <<>>
  /\ "_state_update" \in wrapped
  /\ ~completed
  /\ pc' = "load"
  /\ readyAtStart' = EngineReady
  /\ UNCHANGED <<config, engine, wrapped, managerVars, failures, machineVars>>

\* _alternate_manager_failed and _hard_exit.  The pass goes on while the engine is
\* not ready, and after an exit that was tried before.  An exit without a usable
\* surface raises, which ends the pass.
CountFailure == failures' = IF failures < 2 THEN failures + 1 ELSE failures

FailureRetries(next) ==
  /\ ~EngineReady \/ exitTried
  /\ pc' = next
  /\ UNCHANGED <<dead, exitTried>>

FailureIsFinal ==
  /\ EngineReady
  /\ ~exitTried
  /\ exitTried' = TRUE
  /\ dead' = exitSurface
  /\ pc' = "idle"

\* Step 1a.
LoadClass ==
  /\ pc = "load"
  /\ classLoaded' = TRUE
  /\ pc' = "new"
  /\ UNCHANGED <<config, engine, wrapped, occupied, created, duties, completed,
                 exitTried, failures, readyAtStart, machineVars>>

\* Fault variant: an error of the chunk seam leaves the pass.
LoadEscapes ==
  /\ pc = "load"
  /\ ~classLoaded
  /\ CountFailure
  /\ pc' = "idle"
  /\ UNCHANGED <<config, engine, wrapped, managerVars, readyAtStart, machineVars>>

LoadFails ==
  /\ pc = "load"
  /\ ~classLoaded
  /\ CountFailure
  /\ \/ ~alternate /\ pc' = "wraps" /\ UNCHANGED <<dead, exitTried>>
     \/ alternate /\ (FailureRetries("wraps") \/ FailureIsFinal)
  /\ UNCHANGED <<config, loaded, booting, wrapped, classLoaded, occupied, created,
                 duties, completed, readyAtStart, machineVars>>

\* Step 1b.  An occupied slot is adopted as it is; :new() is called otherwise.
AdoptSlot ==
  /\ pc = "new"
  /\ occupied
  /\ created' = TRUE
  /\ pc' = "duties"
  /\ UNCHANGED <<config, engine, wrapped, classLoaded, occupied, duties, completed,
                 exitTried, failures, readyAtStart, machineVars>>

NewReturns ==
  /\ pc = "new"
  /\ ~occupied
  /\ occupied' = TRUE
  /\ created' = TRUE
  /\ pc' = "duties"
  /\ UNCHANGED <<config, engine, wrapped, classLoaded, duties, completed, exitTried,
                 failures, readyAtStart, machineVars>>

\* The built-in's :new() raises: the error leaves the pass.
BuiltInNewRaises ==
  /\ pc = "new"
  /\ ~alternate
  /\ ~occupied
  /\ CountFailure
  /\ pc' = "idle"
  /\ UNCHANGED <<config, engine, wrapped, managerVars, readyAtStart, machineVars>>

\* Fault variant: the gate is applied to the load only.
AlternateNewRetried ==
  /\ pc = "new"
  /\ alternate
  /\ ~occupied
  /\ CountFailure
  /\ occupied' \in BOOLEAN
  /\ created' = occupied'
  /\ pc' = IF created' THEN "duties" ELSE "wraps"
  /\ UNCHANGED <<config, engine, wrapped, classLoaded, duties, completed, exitTried,
                 readyAtStart, machineVars>>

\* The alternate's :new() raises or returns nil.  It may have put itself into the
\* slot before that, and is then adopted when the failure does not end the game.
AlternateNewFails ==
  /\ pc = "new"
  /\ alternate
  /\ ~occupied
  /\ CountFailure
  /\ occupied' \in BOOLEAN
  /\ \/ /\ created' = occupied'
        /\ FailureRetries(IF occupied' THEN "duties" ELSE "wraps")
     \/ FailureIsFinal /\ UNCHANGED created
  /\ UNCHANGED <<config, loaded, booting, wrapped, classLoaded, duties, completed,
                 readyAtStart, machineVars>>

\* Step 1c, or the pass finds it done.
ChassisDuties ==
  /\ pc = "duties"
  /\ duties' = TRUE
  /\ pc' = "wraps"
  /\ UNCHANGED <<config, engine, wrapped, classLoaded, occupied, created, completed,
                 exitTried, failures, readyAtStart, machineVars>>

\* The adapter is missing or establish raises: the error leaves the pass.
DutiesRaise ==
  /\ pc = "duties"
  /\ ~duties
  /\ pc' = "idle"
  /\ UNCHANGED <<config, engine, wrapped, managerVars, failures, readyAtStart,
                 machineVars>>

\* The methods that a set of sources gives to wrap.
WrapsOf(sources) ==
  (IF "StateGame" \in sources THEN {"StateGame.update"} ELSE {}) \cup
  (IF "GameStateMachine" \in sources THEN {"_change_state", "destroy"} ELSE {})

\* Steps 2 to 4, then the completed flag.
WrapEngine ==
  /\ pc = "wraps"
  /\ wrapped' = wrapped \cup WrapsOf(loaded)
  /\ completed' = (created /\ duties /\ EngineWraps \subseteq wrapped')
  /\ pc' = "idle"
  /\ UNCHANGED <<config, engine, classLoaded, occupied, created, duties, exitTried,
                 failures, readyAtStart, machineVars>>

\* The boot state is over.  Assumed of the engine: it is updated once more after
\* the update in which the last of the three wraps went in.
EndBoot ==
  /\ ~dead
  /\ booting
  /\ pc = "idle"
  /\ frames = <<>>
  /\ EngineReady => readyAtStart \/ completed
  /\ booting' = FALSE
  /\ UNCHANGED <<config, loaded, dead, passVars, machineVars>>

-----------------------------------------------------------------------------
(***************************************************************************)
(* The state machines.  A call that finds no wrapper runs the engine's own *)
(* method; its frame is that of a wrapper that found no manager.           *)
(***************************************************************************)

Top == frames[Len(frames)]
Unclaimed(g) == state[g] # 0 /\ lastExited[g] # state[g]

\* The wrapper tells the exit of the current state: there is a manager, read when
\* the call begins, and the state was not exited before.
TellsExit(g, manager) == manager /\ Unclaimed(g)

\* Fault variant: an exit is claimed although nobody is told.
ClaimedWithoutManager(g, manager) == Unclaimed(g)

\* _claim_exit records the state only when the exit will be told.
ClaimsExit(g, manager) == TellsExit(g, manager)

\* Fault variant: one record for all state machines.
LastExitOfAll(g) == [h \in Machines |-> state[g]]

LastExit(g) == [lastExited EXCEPT ![g] = state[g]]

\* The entry of _change_state or destroy, up to the call of the original.
Call(g, method) ==
  LET manager == occupied /\ method \in wrapped
      exit == TellsExit(g, manager)
  IN /\ ~dead
     /\ pc = "idle"
     /\ "GameStateMachine" \in loaded
     /\ Len(frames) < MaxDepth
     /\ frames' = Append(frames, [machine |-> g, call |-> method, old |-> state[g],
                                  manager |-> manager, exit |-> exit])
     /\ lastExited' = IF ClaimsExit(g, manager) THEN LastExit(g) ELSE lastExited
     /\ told' = IF exit THEN told \cup {state[g]} ELSE told
     /\ UNCHANGED <<config, engine, passVars, state, made>>

ChangeState == \E g \in Machines : Call(g, "_change_state")
DestroyMachine == \E g \in Machines : state[g] # 0 /\ Call(g, "destroy")

\* The original of _change_state puts a new object in place.
EnterObject ==
  /\ frames # <<>>
  /\ Top.call = "_change_state"
  /\ made < MaxObjects
  /\ made' = made + 1
  /\ state' = [state EXCEPT ![Top.machine] = made + 1]
  /\ UNCHANGED <<config, engine, passVars, lastExited, frames, told>>

\* The original of destroy drops the object, if it does.
DropObject ==
  /\ frames # <<>>
  /\ Top.call = "destroy"
  /\ state' = [state EXCEPT ![Top.machine] = 0]
  /\ UNCHANGED <<config, engine, passVars, lastExited, made, frames, told>>

\* The original returns, and the enter is told, or it raises, before or after it
\* replaced the object.
Return ==
  /\ frames # <<>>
  /\ frames' = SubSeq(frames, 1, Len(frames) - 1)
  /\ UNCHANGED <<config, engine, passVars, lastExited, state, made, told>>

-----------------------------------------------------------------------------
Pass ==
  \/ LoadClass \/ LoadFails
  \/ AdoptSlot \/ NewReturns \/ BuiltInNewRaises \/ AlternateNewFails
  \/ ChassisDuties \/ DutiesRaise
  \/ WrapEngine

StateMachines == ChangeState \/ DestroyMachine \/ EnterObject \/ DropObject \/ Return

Next == Require \/ StartPass \/ Pass \/ EndBoot \/ StateMachines

Spec == Init /\ [][Next]_vars

\* A pass and the calls of state machines come to an end, and the engine updates
\* the boot state every frame.
FairSpec ==
  /\ Spec
  /\ WF_vars(Pass)
  /\ WF_vars(Return) /\ SF_vars(Len(frames) = 1 /\ Return)
  /\ SF_vars(StartPass)

-----------------------------------------------------------------------------
(***************************************************************************)
(* Properties.                                                             *)
(***************************************************************************)

\* The process is terminated as a last resort: an alternate is configured, all
\* three wraps are in, and two passes have failed to make its manager.
ExitIsLastResort ==
  dead => alternate /\ EngineWraps \subseteq wrapped /\ failures = 2

\* Once boot is over, a game whose engine was wrapped has its alternate manager,
\* if the process can be terminated at all.
NeverWithoutAlternate ==
  ~booting /\ ~dead /\ alternate /\ exitSurface /\ EngineWraps \subseteq wrapped
    => occupied

\* While boot lasts and the engine's classes are there, passes that fail do not go
\* on for ever: the alternate gets its slot, or the first failing pass with the
\* wraps in ends the game, or tries to.
AlternateIsDecided ==
  alternate /\ booting /\ loaded = Sources ~> occupied \/ exitTried \/ ~booting

\* A state object's exit is told at most once, by whichever of the two wrappers,
\* whatever calls nest and whichever of them raise.
ExitToldOnce ==
  [][Len(frames') > Len(frames) /\ frames'[Len(frames')].exit
       => state[frames'[Len(frames')].machine] \notin told]_vars

\* A state object that a wrapped call found in place, with a manager to tell, is
\* not removed by that call before its exit was told.
ExitToldBeforeRemoval ==
  [][\A g \in Machines :
       /\ state'[g] # state[g]
       /\ state[g] # 0
       /\ Top.manager
       /\ Top.old = state[g]
       => state[g] \in told]_vars

=============================================================================
