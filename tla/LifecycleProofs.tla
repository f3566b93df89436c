---------------------------- MODULE LifecycleProofs ----------------------------
(***************************************************************************)
(* Proofs about Lifecycle, for any set of state machines, any number of    *)
(* state objects and any depth of nested calls.  The passes and the state  *)
(* machines share little, and their invariants are proved apart.           *)
(***************************************************************************)
EXTENDS Lifecycle, SequenceTheorems, TLAPS

-----------------------------------------------------------------------------
(***************************************************************************)
(* The types.                                                              *)
(***************************************************************************)

\* A step of a pass is taken only when what it builds on is there.
StepOrder ==
  /\ pc = "new" => classLoaded
  /\ pc = "duties" => created

\* Initially every variable has its type.
LEMMA TypeInit == Init => TypeOK /\ StepOrder
<1> SUFFICES ASSUME Init PROVE TypeOK /\ StepOrder
  OBVIOUS
<1>1. 0 \in 0 .. MaxObjects
  BY BoundsAssumption
<1>2. frames \in Seq(Frame)
  BY DEF Init
<1>3. lastExited \in [Machines -> Objects \cup {0}]
  BY DEF Init
<1>4. state \in [Machines -> Objects \cup {0}]
  BY DEF Init
<1>5. ~created /\ ~duties /\ ~completed /\ pc = "idle"
  BY DEF Init
<1>6. loaded = {} /\ wrapped = {} /\ told = {} /\ failures = 0 /\ made = 0
  BY DEF Init
<1>7. /\ alternate \in BOOLEAN /\ exitSurface \in BOOLEAN
      /\ booting \in BOOLEAN /\ dead \in BOOLEAN
      /\ classLoaded \in BOOLEAN /\ occupied \in BOOLEAN
      /\ created \in BOOLEAN /\ duties \in BOOLEAN
      /\ completed \in BOOLEAN /\ exitTried \in BOOLEAN
      /\ readyAtStart \in BOOLEAN
  BY DEF Init
<1>8. QED
  BY <1>1, <1>2, <1>3, <1>4, <1>5, <1>6, <1>7 DEF TypeOK, StepOrder

\* The frame of a call has its type, and so have the record and the history.
LEMMA CallTyped ==
  ASSUME TypeOK, NEW g \in Machines, NEW method \in {"_change_state", "destroy"},
         Call(g, method)
  PROVE  /\ frames' \in Seq(Frame)
         /\ lastExited' \in [Machines -> Objects \cup {0}]
         /\ told' \subseteq Objects
<1>1. state[g] \in Objects \cup {0}
  BY DEF TypeOK
<1> DEFINE manager == occupied /\ method \in wrapped
           exit == TellsExit(g, manager)
           new == [machine |-> g, call |-> method, old |-> state[g],
                   manager |-> manager, exit |-> exit]
<1>2. manager \in BOOLEAN /\ exit \in BOOLEAN
  BY DEF TellsExit, Unclaimed, TypeOK
<1>3. exit => state[g] # 0
  BY DEF TellsExit, Unclaimed
<1>4. new \in Frame
  BY <1>1, <1>2 DEF Frame
<1>5. frames' = Append(frames, new)
  BY DEF Call
<1>6. frames' \in Seq(Frame)
  BY <1>4, <1>5 DEF TypeOK
<1>7. lastExited' \in [Machines -> Objects \cup {0}]
  BY <1>1 DEF Call, LastExit, TypeOK
<1>8. told' \subseteq Objects
  BY <1>1, <1>3 DEF Call, TypeOK
<1>9. QED
  BY <1>6, <1>7, <1>8

\* Every action keeps the types and the order of the steps.
LEMMA TypeNext ==
  ASSUME TypeOK, StepOrder, [Next]_vars
  PROVE  TypeOK' /\ StepOrder'
<1>1. CASE UNCHANGED vars
  BY <1>1 DEF TypeOK, StepOrder, Sources, EngineWraps, EngineReady, vars,
      config, engine, passVars, managerVars, machineVars
<1>2. CASE Require
  BY <1>2 DEF TypeOK, StepOrder, Sources, EngineWraps, EngineReady, Require,
      config, engine, passVars, managerVars, machineVars
<1>3. CASE StartPass
  BY <1>3 DEF TypeOK, StepOrder, Sources, EngineWraps, EngineReady, StartPass,
      config, engine, passVars, managerVars, machineVars
<1>4. CASE LoadClass
  BY <1>4 DEF TypeOK, StepOrder, Sources, EngineWraps, EngineReady, LoadClass,
      config, engine, passVars, managerVars, machineVars
<1>5. CASE LoadFails
  <2>1. /\ dead' \in BOOLEAN /\ exitTried' \in BOOLEAN /\ failures' \in 0 .. 2
        /\ pc' \in {"idle", "wraps"}
    <3>1. failures' \in 0 .. 2
      BY <1>5 DEF TypeOK, LoadFails, CountFailure
    <3>2. CASE UNCHANGED <<dead, exitTried>> /\ pc' = "wraps"
      BY <3>1, <3>2 DEF TypeOK
    <3>3. CASE FailureIsFinal
      BY <3>1, <3>3 DEF TypeOK, FailureIsFinal
    <3>4. QED
      BY <1>5, <3>2, <3>3 DEF LoadFails, FailureRetries
  <2>2. UNCHANGED <<config, loaded, booting, wrapped, classLoaded, occupied, created,
                    duties, completed, readyAtStart, machineVars>>
    BY <1>5 DEF LoadFails
  <2>3. QED
    BY <2>1, <2>2 DEF TypeOK, StepOrder, config, machineVars
<1>6. CASE AdoptSlot
  BY <1>6 DEF TypeOK, StepOrder, Sources, EngineWraps, EngineReady, AdoptSlot,
      config, engine, passVars, managerVars, machineVars
<1>7. CASE NewReturns
  BY <1>7 DEF TypeOK, StepOrder, Sources, EngineWraps, EngineReady, NewReturns,
      config, engine, passVars, managerVars, machineVars
<1>8. CASE BuiltInNewRaises
  BY <1>8 DEF TypeOK, StepOrder, Sources, EngineWraps, EngineReady,
      BuiltInNewRaises, CountFailure, config, engine, passVars, managerVars,
      machineVars
<1>9. CASE AlternateNewFails
  <2>1. /\ dead' \in BOOLEAN /\ exitTried' \in BOOLEAN /\ failures' \in 0 .. 2
        /\ pc' \in {"idle", "duties", "wraps"}
    <3>1. failures' \in 0 .. 2
      BY <1>9 DEF TypeOK, AlternateNewFails, CountFailure
    <3>2. CASE UNCHANGED <<dead, exitTried>> /\ pc' \in {"duties", "wraps"}
      BY <3>1, <3>2 DEF TypeOK
    <3>3. CASE FailureIsFinal
      BY <3>1, <3>3 DEF TypeOK, FailureIsFinal
    <3>4. QED
      BY <1>9, <3>2, <3>3 DEF AlternateNewFails, FailureRetries
  <2>2. occupied' \in BOOLEAN /\ created' \in BOOLEAN
    BY <1>9 DEF TypeOK, AlternateNewFails
  <2>3. /\ created' => occupied'
        /\ created => created'
        /\ pc' = "duties" => created'
    BY <1>9 DEF TypeOK, AlternateNewFails, FailureRetries, FailureIsFinal
  <2>4. classLoaded
    BY <1>9 DEF AlternateNewFails, StepOrder
  <2>5. UNCHANGED <<config, loaded, booting, wrapped, classLoaded, duties,
                    completed, readyAtStart, machineVars>>
    BY <1>9 DEF AlternateNewFails
  <2>6. QED
    BY <2>1, <2>2, <2>3, <2>4, <2>5 DEF TypeOK, StepOrder, config, machineVars
<1>10. CASE ChassisDuties
  BY <1>10 DEF TypeOK, StepOrder, Sources, EngineWraps, EngineReady,
      ChassisDuties, config, engine, passVars, managerVars, machineVars
<1>11. CASE DutiesRaise
  BY <1>11 DEF TypeOK, StepOrder, Sources, EngineWraps, EngineReady,
      DutiesRaise, config, engine, passVars, managerVars, machineVars
<1>12. CASE WrapEngine
  BY <1>12 DEF TypeOK, StepOrder, Sources, EngineWraps, EngineReady,
      WrapEngine, WrapsOf, config, engine, passVars, managerVars, machineVars
<1>13. CASE EndBoot
  BY <1>13 DEF TypeOK, StepOrder, Sources, EngineWraps, EngineReady, EndBoot,
      config, engine, passVars, managerVars, machineVars
<1>14. ASSUME NEW g \in Machines, NEW method \in {"_change_state", "destroy"},
            Call(g, method)
     PROVE  TypeOK' /\ StepOrder'
  <2>1. /\ UNCHANGED <<config, engine, passVars, state, made>>
        /\ frames' \in Seq(Frame)
        /\ lastExited' \in [Machines -> Objects \cup {0}]
        /\ told' \subseteq Objects
    BY <1>14, CallTyped DEF Call
  <2>2. QED
    BY <2>1 DEF TypeOK, StepOrder, config, engine, passVars, managerVars
<1>15. CASE EnterObject
  <2>1. made + 1 \in Objects /\ made + 1 \in 0 .. MaxObjects
    BY <1>15, BoundsAssumption DEF EnterObject, TypeOK, Objects
  <2>2. state' \in [Machines -> Objects \cup {0}]
    BY <1>15, <2>1 DEF EnterObject, TypeOK
  <2>3. QED
    BY <1>15, <2>1, <2>2 DEF TypeOK, StepOrder, Sources, EngineWraps,
        EngineReady, EnterObject, config, engine, passVars, managerVars,
        machineVars
<1>16. CASE DropObject
  <2>1. state' \in [Machines -> Objects \cup {0}]
    BY <1>16 DEF DropObject, TypeOK
  <2>2. QED
    BY <1>16, <2>1 DEF TypeOK, StepOrder, Sources, EngineWraps, EngineReady,
        DropObject, config, engine, passVars, managerVars, machineVars
<1>17. CASE Return
  <2>1. frames' \in Seq(Frame)
    BY <1>17 DEF Return, TypeOK
  <2>2. QED
    BY <1>17, <2>1 DEF TypeOK, StepOrder, Sources, EngineWraps, EngineReady,
        Return, config, engine, passVars, managerVars, machineVars
<1>18. QED
  BY <1>1, <1>2, <1>3, <1>4, <1>5, <1>6, <1>7, <1>8, <1>9, <1>10, <1>11, <1>12,
      <1>13, <1>14, <1>15, <1>16, <1>17 DEF Next, Pass, StateMachines,
      ChangeState, DestroyMachine

\* Every variable has its type, and the steps of a pass come in order, always.
LEMMA TypeAndOrder == Spec => [](TypeOK /\ StepOrder)
<1>1. Init => TypeOK /\ StepOrder
  BY TypeInit
<1>2. TypeOK /\ StepOrder /\ [Next]_vars => TypeOK' /\ StepOrder'
  BY TypeNext
<1>3. QED
  BY <1>1, <1>2, PTL DEF Spec

\* Every variable has its type, always.
THEOREM TypeCorrect == Spec => []TypeOK
<1>1. Spec => [](TypeOK /\ StepOrder)
  BY TypeAndOrder
<1>2. QED
  BY <1>1, PTL

-----------------------------------------------------------------------------
(***************************************************************************)
(* The passes.                                                             *)
(***************************************************************************)

\* What a pass has learned when the wraps are in: it failed before, or it has a
\* manager.  The exit is tried once, and ends the process if it can.
GateInv ==
  /\ pc = "wraps" => created \/ failures > 0
  /\ EngineReady => created \/ failures > 0
  /\ ExitIsLastResort
  /\ dead => pc = "idle"
  /\ exitTried /\ exitSurface => dead

\* Every action keeps it: the gate is read before the step that opens it.
LEMMA GateNext ==
  ASSUME TypeOK, StepOrder, GateInv, [Next]_vars
  PROVE  GateInv'
<1>1. CASE UNCHANGED vars
  BY <1>1 DEF GateInv, TypeOK, StepOrder, EngineReady, EngineWraps,
      ExitIsLastResort, vars, config, engine, passVars, managerVars,
      machineVars
<1>2. CASE Require
  BY <1>2 DEF GateInv, TypeOK, StepOrder, EngineReady, EngineWraps,
      ExitIsLastResort, Require, config, engine, passVars, managerVars,
      machineVars
<1>3. CASE StartPass
  BY <1>3 DEF GateInv, TypeOK, StepOrder, EngineReady, EngineWraps,
      ExitIsLastResort, StartPass, config, engine, passVars, managerVars,
      machineVars
<1>4. CASE LoadClass
  BY <1>4 DEF GateInv, TypeOK, StepOrder, EngineReady, EngineWraps,
      ExitIsLastResort, LoadClass, config, engine, passVars, managerVars,
      machineVars
<1>5. CASE LoadFails
  BY <1>5 DEF GateInv, TypeOK, StepOrder, EngineReady, EngineWraps,
      ExitIsLastResort, LoadFails, CountFailure, FailureRetries,
      FailureIsFinal, config, engine, passVars, managerVars, machineVars
<1>6. CASE AdoptSlot
  BY <1>6 DEF GateInv, TypeOK, StepOrder, EngineReady, EngineWraps,
      ExitIsLastResort, AdoptSlot, config, engine, passVars, managerVars,
      machineVars
<1>7. CASE NewReturns
  BY <1>7 DEF GateInv, TypeOK, StepOrder, EngineReady, EngineWraps,
      ExitIsLastResort, NewReturns, config, engine, passVars, managerVars,
      machineVars
<1>8. CASE BuiltInNewRaises
  BY <1>8 DEF GateInv, TypeOK, StepOrder, EngineReady, EngineWraps,
      ExitIsLastResort, BuiltInNewRaises, CountFailure, config, engine,
      passVars, managerVars, machineVars
<1>9. CASE AlternateNewFails
  BY <1>9 DEF GateInv, TypeOK, StepOrder, EngineReady, EngineWraps,
      ExitIsLastResort, AlternateNewFails, CountFailure, FailureRetries,
      FailureIsFinal, config, engine, passVars, managerVars, machineVars
<1>10. CASE ChassisDuties
  BY <1>10 DEF GateInv, TypeOK, StepOrder, EngineReady, EngineWraps,
      ExitIsLastResort, ChassisDuties, config, engine, passVars, managerVars,
      machineVars
<1>11. CASE DutiesRaise
  BY <1>11 DEF GateInv, TypeOK, StepOrder, EngineReady, EngineWraps,
      ExitIsLastResort, DutiesRaise, config, engine, passVars, managerVars,
      machineVars
<1>12. CASE WrapEngine
  BY <1>12 DEF GateInv, TypeOK, StepOrder, EngineReady, EngineWraps,
      ExitIsLastResort, WrapEngine, WrapsOf, config, engine, passVars,
      managerVars, machineVars
<1>13. CASE EndBoot
  BY <1>13 DEF GateInv, TypeOK, StepOrder, EngineReady, EngineWraps,
      ExitIsLastResort, EndBoot, config, engine, passVars, managerVars,
      machineVars
<1>14. ASSUME NEW g \in Machines, NEW method \in {"_change_state", "destroy"},
            Call(g, method)
     PROVE  GateInv'
  BY <1>14 DEF GateInv, TypeOK, StepOrder, EngineReady, EngineWraps,
      ExitIsLastResort, Call, config, engine, passVars, managerVars,
      machineVars
<1>15. CASE EnterObject
  BY <1>15 DEF GateInv, TypeOK, StepOrder, EngineReady, EngineWraps,
      ExitIsLastResort, EnterObject, config, engine, passVars, managerVars,
      machineVars
<1>16. CASE DropObject
  BY <1>16 DEF GateInv, TypeOK, StepOrder, EngineReady, EngineWraps,
      ExitIsLastResort, DropObject, config, engine, passVars, managerVars,
      machineVars
<1>17. CASE Return
  BY <1>17 DEF GateInv, TypeOK, StepOrder, EngineReady, EngineWraps,
      ExitIsLastResort, Return, config, engine, passVars, managerVars,
      machineVars
<1>18. QED
  BY <1>1, <1>2, <1>3, <1>4, <1>5, <1>6, <1>7, <1>8, <1>9, <1>10, <1>11, <1>12,
      <1>13, <1>14, <1>15, <1>16, <1>17 DEF Next, Pass, StateMachines,
      ChangeState, DestroyMachine

\* The process is terminated only with an alternate configured, with all three
\* wraps in, after two passes that failed to make the manager.
THEOREM ExitComesLast == Spec => []ExitIsLastResort
<1>1. Init => TypeOK /\ StepOrder /\ GateInv
  BY TypeInit DEF Init, GateInv, EngineReady, EngineWraps, ExitIsLastResort
<1>2. TypeOK /\ StepOrder /\ GateInv /\ [Next]_vars
        => TypeOK' /\ StepOrder' /\ GateInv'
  BY TypeNext, GateNext
<1>3. GateInv => ExitIsLastResort
  BY DEF GateInv
<1>4. QED
  BY <1>1, <1>2, <1>3, PTL DEF Spec

\* A pass that began with the engine ready ends with the slot filled, unless it
\* ended the game or could not; and boot does not end before such a pass.
DecisionInv ==
  /\ readyAtStart => EngineReady
  /\ pc \in {"idle", "wraps"} /\ readyAtStart /\ alternate /\ exitSurface
       => occupied \/ dead
  /\ ~booting => pc = "idle"
  /\ ~booting /\ EngineReady => readyAtStart \/ completed

\* Every action keeps it.
LEMMA DecisionNext ==
  ASSUME TypeOK, StepOrder, GateInv, DecisionInv, [Next]_vars
  PROVE  DecisionInv'
<1>1. CASE UNCHANGED vars
  BY <1>1 DEF DecisionInv, GateInv, TypeOK, StepOrder, EngineReady,
      EngineWraps, vars, config, engine, passVars, managerVars, machineVars
<1>2. CASE Require
  BY <1>2 DEF DecisionInv, GateInv, TypeOK, StepOrder, EngineReady,
      EngineWraps, Require, config, engine, passVars, managerVars, machineVars
<1>3. CASE StartPass
  BY <1>3 DEF DecisionInv, GateInv, TypeOK, StepOrder, EngineReady,
      EngineWraps, StartPass, config, engine, passVars, managerVars,
      machineVars
<1>4. CASE LoadClass
  BY <1>4 DEF DecisionInv, GateInv, TypeOK, StepOrder, EngineReady,
      EngineWraps, LoadClass, config, engine, passVars, managerVars,
      machineVars
<1>5. CASE LoadFails
  BY <1>5 DEF DecisionInv, GateInv, TypeOK, StepOrder, EngineReady,
      EngineWraps, LoadFails, CountFailure, FailureRetries, FailureIsFinal,
      config, engine, passVars, managerVars, machineVars
<1>6. CASE AdoptSlot
  BY <1>6 DEF DecisionInv, GateInv, TypeOK, StepOrder, EngineReady,
      EngineWraps, AdoptSlot, config, engine, passVars, managerVars,
      machineVars
<1>7. CASE NewReturns
  BY <1>7 DEF DecisionInv, GateInv, TypeOK, StepOrder, EngineReady,
      EngineWraps, NewReturns, config, engine, passVars, managerVars,
      machineVars
<1>8. CASE BuiltInNewRaises
  BY <1>8 DEF DecisionInv, GateInv, TypeOK, StepOrder, EngineReady,
      EngineWraps, BuiltInNewRaises, CountFailure, config, engine, passVars,
      managerVars, machineVars
<1>9. CASE AlternateNewFails
  BY <1>9 DEF DecisionInv, GateInv, TypeOK, StepOrder, EngineReady,
      EngineWraps, AlternateNewFails, CountFailure, FailureRetries,
      FailureIsFinal, config, engine, passVars, managerVars, machineVars
<1>10. CASE ChassisDuties
  BY <1>10 DEF DecisionInv, GateInv, TypeOK, StepOrder, EngineReady,
      EngineWraps, ChassisDuties, config, engine, passVars, managerVars,
      machineVars
<1>11. CASE DutiesRaise
  BY <1>11 DEF DecisionInv, GateInv, TypeOK, StepOrder, EngineReady,
      EngineWraps, DutiesRaise, config, engine, passVars, managerVars,
      machineVars
<1>12. CASE WrapEngine
  BY <1>12 DEF DecisionInv, GateInv, TypeOK, StepOrder, EngineReady,
      EngineWraps, WrapEngine, WrapsOf, config, engine, passVars, managerVars,
      machineVars
<1>13. CASE EndBoot
  BY <1>13 DEF DecisionInv, GateInv, TypeOK, StepOrder, EngineReady,
      EngineWraps, EndBoot, config, engine, passVars, managerVars, machineVars
<1>14. ASSUME NEW g \in Machines, NEW method \in {"_change_state", "destroy"},
            Call(g, method)
     PROVE  DecisionInv'
  BY <1>14 DEF DecisionInv, GateInv, TypeOK, StepOrder, EngineReady,
      EngineWraps, Call, config, engine, passVars, managerVars, machineVars
<1>15. CASE EnterObject
  BY <1>15 DEF DecisionInv, GateInv, TypeOK, StepOrder, EngineReady,
      EngineWraps, EnterObject, config, engine, passVars, managerVars,
      machineVars
<1>16. CASE DropObject
  BY <1>16 DEF DecisionInv, GateInv, TypeOK, StepOrder, EngineReady,
      EngineWraps, DropObject, config, engine, passVars, managerVars,
      machineVars
<1>17. CASE Return
  BY <1>17 DEF DecisionInv, GateInv, TypeOK, StepOrder, EngineReady,
      EngineWraps, Return, config, engine, passVars, managerVars, machineVars
<1>18. QED
  BY <1>1, <1>2, <1>3, <1>4, <1>5, <1>6, <1>7, <1>8, <1>9, <1>10, <1>11, <1>12,
      <1>13, <1>14, <1>15, <1>16, <1>17 DEF Next, Pass, StateMachines,
      ChangeState, DestroyMachine

\* After boot, an engine that was wrapped drives the alternate that is configured,
\* if the process can be terminated at all.
THEOREM AlternateOrExit == Spec => []NeverWithoutAlternate
<1>1. Init => TypeOK /\ StepOrder /\ GateInv /\ DecisionInv
  BY TypeInit DEF Init, GateInv, DecisionInv, EngineReady, EngineWraps,
      ExitIsLastResort
<1>2. TypeOK /\ StepOrder /\ GateInv /\ DecisionInv /\ [Next]_vars
        => TypeOK' /\ StepOrder' /\ GateInv' /\ DecisionInv'
  BY TypeNext, GateNext, DecisionNext
<1>3. TypeOK /\ DecisionInv => NeverWithoutAlternate
  BY DEF TypeOK, DecisionInv, NeverWithoutAlternate, EngineReady
<1>4. QED
  BY <1>1, <1>2, <1>3, PTL DEF Spec

-----------------------------------------------------------------------------
(***************************************************************************)
(* The exits.                                                              *)
(***************************************************************************)

\* Two machines do not share an object, and the objects told are among those made.
ObjectInv ==
  /\ \A g \in Machines : state[g] <= made /\ lastExited[g] <= made
  /\ \A o \in told : o <= made
  /\ \A g, h \in Machines : state[g] = state[h] /\ state[g] # 0 => g = h

\* The record of a machine is exact for the object in place: it is the last one
\* exited if and only if its exit was told.  A frame that has a manager has seen
\* to the exit of the object that it found.
RecordInv ==
  /\ \A g \in Machines : state[g] # 0 => (state[g] \in told <=> lastExited[g] = state[g])
  /\ \A i \in DOMAIN frames :
       frames[i].manager /\ frames[i].old # 0 => frames[i].old \in told

ExitInv == ObjectInv /\ RecordInv

\* The innermost frame of a call in progress.
LEMMA TopIsFrame ==
  ASSUME TypeOK, frames # <<>>
  PROVE  /\ Len(frames) \in DOMAIN frames
         /\ Top \in Frame
         /\ Top.machine \in Machines
<1>1. frames \in Seq(Frame)
  BY DEF TypeOK
<1>2. Len(frames) \in DOMAIN frames
  BY <1>1
<1>3. frames[Len(frames)] \in Frame
  BY <1>1, <1>2
<1>4. QED
  BY <1>2, <1>3 DEF Top, Frame

\* A call changes the record and the history of the one machine it is made on.
LEMMA ExitCall ==
  ASSUME TypeOK, ExitInv,
         NEW g \in Machines, NEW method \in {"_change_state", "destroy"},
         Call(g, method)
  PROVE  ExitInv'
<1> DEFINE manager == occupied /\ method \in wrapped
           exit == TellsExit(g, manager)
           new == [machine |-> g, call |-> method, old |-> state[g],
                   manager |-> manager, exit |-> exit]
<1>1. /\ state \in [Machines -> Objects \cup {0}]
      /\ lastExited \in [Machines -> Objects \cup {0}]
      /\ frames \in Seq(Frame)
  BY DEF TypeOK
<1>2. /\ lastExited' = IF exit THEN [lastExited EXCEPT ![g] = state[g]] ELSE lastExited
      /\ told' = IF exit THEN told \cup {state[g]} ELSE told
      /\ state' = state
      /\ made' = made
      /\ frames' = Append(frames, new)
  BY DEF Call, ClaimsExit, LastExit
<1>3. ObjectInv'
  BY <1>1, <1>2 DEF ExitInv, ObjectInv
<1>4. ASSUME NEW h \in Machines, state[h] # 0
      PROVE  state[h] \in told' <=> lastExited'[h] = state[h]
  <2>1. CASE h = g
    BY <1>1, <1>2, <1>4, <2>1 DEF ExitInv, RecordInv
  <2>2. CASE h # g
    BY <1>1, <1>2, <1>4, <2>2 DEF ExitInv, RecordInv, ObjectInv
  <2>3. QED
    BY <2>1, <2>2
<1>5. ASSUME NEW i \in DOMAIN frames', frames'[i].manager, frames'[i].old # 0
      PROVE  frames'[i].old \in told'
  <2>1. CASE i \in DOMAIN frames
    <3>1. frames'[i] = frames[i]
      BY <1>1, <1>2, <2>1
    <3>2. frames[i].old \in told
      BY <1>5, <2>1, <3>1 DEF ExitInv, RecordInv
    <3>3. QED
      BY <1>2, <3>1, <3>2
  <2>2. CASE i \notin DOMAIN frames
    <3>1. frames'[i] = new
      BY <1>1, <1>2, <1>5, <2>2
    <3>2. new.manager /\ new.old # 0
      BY <1>5, <3>1
    <3>3. manager
      BY <3>2, Zenon
    <3>4. state[g] # 0
      BY <3>2, Zenon
    <3>5. state[g] \in told'
      BY <1>2, <3>3, <3>4 DEF TellsExit, Unclaimed, ExitInv, RecordInv
    <3>6. QED
      BY <3>1, <3>5
  <2>3. QED
    BY <2>1, <2>2
<1>6. RecordInv'
  BY <1>2, <1>4, <1>5 DEF RecordInv
<1>7. QED
  BY <1>3, <1>6 DEF ExitInv

\* A machine is the only one whose object changes, and a new object was told to
\* nobody and is recorded nowhere.
LEMMA ExitNext ==
  ASSUME TypeOK, ExitInv, [Next]_vars
  PROVE  ExitInv'
<1>1. CASE UNCHANGED machineVars
  BY <1>1 DEF ExitInv, ObjectInv, RecordInv, machineVars
<1>2. ASSUME NEW g \in Machines, NEW method \in {"_change_state", "destroy"},
             Call(g, method)
      PROVE  ExitInv'
  BY <1>2, ExitCall
<1>3. CASE EnterObject
  <2> DEFINE g == Top.machine
  <2>1. g \in Machines
    BY <1>3, TopIsFrame DEF EnterObject
  <2>2. /\ state \in [Machines -> Objects \cup {0}]
        /\ state' = [state EXCEPT ![g] = made + 1]
        /\ made \in Nat
        /\ made' = made + 1
        /\ lastExited' = lastExited
        /\ told' = told
        /\ frames' = frames
    BY <1>3, BoundsAssumption DEF EnterObject, TypeOK
  <2>3. /\ \A h \in Machines : state[h] \in Nat /\ lastExited[h] \in Nat
        /\ told \subseteq Nat
    BY <2>2, BoundsAssumption DEF TypeOK, Objects
  <2>4. ObjectInv'
    BY <2>1, <2>2, <2>3 DEF ExitInv, ObjectInv
  <2>5. made + 1 \notin told
    BY <2>2, <2>3 DEF ExitInv, ObjectInv
  <2>6. lastExited[g] # made + 1
    BY <2>1, <2>2, <2>3 DEF ExitInv, RecordInv, ObjectInv
  <2>7. RecordInv'
    BY <2>1, <2>2, <2>5, <2>6 DEF ExitInv, RecordInv
  <2>8. QED
    BY <2>4, <2>7 DEF ExitInv
<1>4. CASE DropObject
  <2>1. Top.machine \in Machines
    BY <1>4, TopIsFrame DEF DropObject
  <2>2. /\ state \in [Machines -> Objects \cup {0}]
        /\ state' = [state EXCEPT ![Top.machine] = 0]
        /\ UNCHANGED <<lastExited, made, frames, told>>
        /\ made \in Nat
    BY <1>4, BoundsAssumption DEF DropObject, TypeOK
  <2>3. QED
    BY <2>1, <2>2 DEF ExitInv, ObjectInv, RecordInv
<1>5. CASE Return
  <2>1. /\ frames \in Seq(Frame)
        /\ frames # <<>>
        /\ frames' = SubSeq(frames, 1, Len(frames) - 1)
        /\ UNCHANGED <<lastExited, state, made, told>>
    BY <1>5 DEF Return, TypeOK
  <2>2. ASSUME NEW i \in DOMAIN frames'
        PROVE  i \in DOMAIN frames /\ frames'[i] = frames[i]
    BY <2>1, <2>2
  <2>3. QED
    BY <2>1, <2>2 DEF ExitInv, ObjectInv, RecordInv
<1>6. CASE Require \/ StartPass \/ Pass \/ EndBoot
  <2>1. UNCHANGED machineVars
    BY <1>6 DEF Require, StartPass, Pass, EndBoot, LoadClass, LoadFails, AdoptSlot,
        NewReturns, BuiltInNewRaises, AlternateNewFails, ChassisDuties,
        DutiesRaise, WrapEngine
  <2>2. QED
    BY <1>1, <2>1
<1>7. CASE UNCHANGED vars
  BY <1>1, <1>7 DEF vars
<1>8. QED
  BY <1>2, <1>3, <1>4, <1>5, <1>6, <1>7 DEF Next, StateMachines, ChangeState,
      DestroyMachine

\* It holds always.
LEMMA ExitInvHolds == Spec => [](TypeOK /\ ExitInv)
<1>1. Init => TypeOK /\ StepOrder /\ ExitInv
  BY TypeInit DEF Init, ExitInv, ObjectInv, RecordInv
<1>2. TypeOK /\ StepOrder /\ ExitInv /\ [Next]_vars
        => TypeOK' /\ StepOrder' /\ ExitInv'
  BY TypeNext, ExitNext
<1>3. QED
  BY <1>1, <1>2, PTL DEF Spec

\* No state object's exit is told twice.
THEOREM ToldOnce == Spec => ExitToldOnce
<1> DEFINE Once == Len(frames') > Len(frames) /\ frames'[Len(frames')].exit
                     => state[frames'[Len(frames')].machine] \notin told
<1>1. ASSUME TypeOK, ExitInv, [Next]_vars
      PROVE  [Once]_vars
  <2>1. CASE UNCHANGED frames
    <3>1. ~(Len(frames') > Len(frames))
      BY <1>1, <2>1 DEF TypeOK
    <3>2. QED
      BY <3>1
  <2>2. CASE Return
    <3>1. ~(Len(frames') > Len(frames))
      BY <1>1, <2>2 DEF TypeOK, Return
    <3>2. QED
      BY <3>1
  <2>3. ASSUME NEW g \in Machines, NEW method \in {"_change_state", "destroy"},
               Call(g, method)
        PROVE  Once
    <3> DEFINE manager == occupied /\ method \in wrapped
               exit == TellsExit(g, manager)
               new == [machine |-> g, call |-> method, old |-> state[g],
                       manager |-> manager, exit |-> exit]
    <3>1. frames' = Append(frames, new) /\ frames \in Seq(Frame)
      BY <1>1, <2>3 DEF Call, TypeOK
    <3>2. frames'[Len(frames')] = new
      BY <3>1
    <3>3. new.machine = g /\ (new.exit = exit)
      BY Zenon
    <3>4. exit => state[g] \notin told
      BY <1>1 DEF TellsExit, Unclaimed, ExitInv, RecordInv
    <3>5. QED
      BY <3>2, <3>3, <3>4
  <2>4. CASE EnterObject \/ DropObject \/ Require \/ StartPass \/ Pass \/ EndBoot
    <3>1. UNCHANGED frames
      BY <2>4 DEF EnterObject, DropObject, Require, StartPass, Pass, EndBoot,
          LoadClass, LoadFails, AdoptSlot, NewReturns, BuiltInNewRaises,
          AlternateNewFails, ChassisDuties, DutiesRaise, WrapEngine, machineVars
    <3>2. QED
      BY <2>1, <3>1
  <2>5. QED
    BY <1>1, <2>2, <2>3, <2>4 DEF Next, StateMachines, ChangeState, DestroyMachine
<1>2. Spec => [](TypeOK /\ ExitInv)
  BY ExitInvHolds
<1>3. QED
  BY <1>1, <1>2, PTL DEF Spec, ExitToldOnce

\* No wrapped call removes the state object it found before its exit was told.
THEOREM ToldBeforeRemoval == Spec => ExitToldBeforeRemoval
<1> DEFINE Before == \A g \in Machines :
                       /\ state'[g] # state[g]
                       /\ state[g] # 0
                       /\ Top.manager
                       /\ Top.old = state[g]
                       => state[g] \in told
<1>1. ASSUME TypeOK, ExitInv, [Next]_vars
      PROVE  [Before]_vars
  <2>1. CASE UNCHANGED state
    BY <2>1
  <2>2. CASE EnterObject \/ DropObject
    <3>1. Len(frames) \in DOMAIN frames
      BY <1>1, <2>2, TopIsFrame DEF EnterObject, DropObject
    <3>2. QED
      BY <1>1, <3>1 DEF ExitInv, RecordInv, Top
  <2>3. CASE Require \/ StartPass \/ Pass \/ EndBoot
    <3>1. UNCHANGED state
      BY <2>3 DEF Require, StartPass, Pass, EndBoot, LoadClass, LoadFails,
          AdoptSlot, NewReturns, BuiltInNewRaises, AlternateNewFails,
          ChassisDuties, DutiesRaise, WrapEngine, machineVars
    <3>2. QED
      BY <2>1, <3>1
  <2>4. CASE ChangeState \/ DestroyMachine \/ Return
    <3>1. UNCHANGED state
      BY <2>4 DEF ChangeState, DestroyMachine, Call, Return
    <3>2. QED
      BY <2>1, <3>1
  <2>5. QED
    BY <1>1, <2>2, <2>3, <2>4 DEF Next, StateMachines
<1>2. Spec => [](TypeOK /\ ExitInv)
  BY ExitInvHolds
<1>3. QED
  BY <1>1, <1>2, PTL DEF Spec, ExitToldBeforeRemoval

===============================================================================
