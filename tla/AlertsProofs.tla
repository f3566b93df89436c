------------------------------ MODULE AlertsProofs ------------------------------
(***************************************************************************)
(* Proofs about Alerts, for any intervals, any steps of the clock, any     *)
(* number of entries and of reloads.  The notices, the passes and the      *)
(* Crashify keys have an invariant each.                                   *)
(***************************************************************************)
EXTENDS Alerts, SequenceTheorems, TLAPS

-----------------------------------------------------------------------------
(***************************************************************************)
(* The operators.                                                          *)
(***************************************************************************)

\* The time since an attempt never counts less than the manager's own date, a
\* latched failure is always dated, and no reminder came early.
Paced(n) ==
  /\ n.since # None => n.since <= n.quiet
  /\ n.latched # {} => n.since # None
  /\ n.attempt.kind = "enter" => n.attempt.gap >= StateEnter
  /\ n.attempt.kind = "frame" => n.attempt.gap >= Reminder

\* The values of notice.
NoticeRecord ==
  [latched : SUBSET (1 .. MaxReloads + 1),
   unheard : SUBSET (1 .. MaxReloads + 1),
   since : {None} \cup 0 .. Reminder,
   quiet : 0 .. Reminder,
   attempt : [kind : {None, "failure", "enter", "frame"}, gap : 0 .. Reminder]]

Notices ==
  {n \in NoticeRecord : n.unheard \subseteq n.latched /\ Paced(n)}

\* An attempt writes the three fields about it and no other.
LEMMA AttemptedNotice ==
  ASSUME NEW n \in NoticeRecord, NEW kind, NEW gap
  PROVE  Attempted(n, kind, gap) =
           [latched |-> n.latched, unheard |-> n.unheard, since |-> 0, quiet |-> 0,
            attempt |-> [kind |-> kind, gap |-> gap]]
<1> DEFINE a == [n EXCEPT !.since = 0]
           b == [a EXCEPT !.quiet = 0]
           c == [b EXCEPT !.attempt = [kind |-> kind, gap |-> gap]]
<1>1. a = [latched |-> n.latched, unheard |-> n.unheard, since |-> 0,
           quiet |-> n.quiet, attempt |-> n.attempt]
  BY DEF NoticeRecord
<1>2. b = [latched |-> n.latched, unheard |-> n.unheard, since |-> 0,
           quiet |-> 0, attempt |-> n.attempt]
  <2> HIDE DEF a
  <2> QED  BY <1>1
<1>3. c = [latched |-> n.latched, unheard |-> n.unheard, since |-> 0,
           quiet |-> 0, attempt |-> [kind |-> kind, gap |-> gap]]
  <2> HIDE DEF a, b
  <2> QED  BY <1>2
<1>4. QED
  BY <1>3 DEF Attempted

\* The clock of update keeps a notice record what it is.
LEMMA AgedNotice ==
  ASSUME NEW n \in Notices, NEW dt \in Nat
  PROVE  /\ Aged(n, dt) \in Notices
         /\ Aged(n, dt).latched = n.latched
<1> USE AlertAssumption
<1>1. Later(n.since, dt) \in {None} \cup 0 .. Reminder
  BY DEF Later, Notices, NoticeRecord
<1>2. Later(n.quiet, dt) \in 0 .. Reminder
  BY DEF Later, Notices, NoticeRecord
<1>3. Later(n.since, dt) # None => Later(n.since, dt) <= Later(n.quiet, dt)
  BY DEF Later, Notices, NoticeRecord, Paced
<1>4. n.since # None => Later(n.since, dt) # None
  BY DEF Later, Notices, NoticeRecord
<1>5. QED
  BY <1>1, <1>2, <1>3, <1>4 DEF Aged, Notices, NoticeRecord, Paced

\* A failure's record and its own notice keep it, and date it.
LEMMA FailedNotice ==
  ASSUME NEW n \in Notices, NEW g \in 1 .. MaxReloads + 1, NEW heard \in BOOLEAN
  PROVE  /\ Failed(n, g, heard) \in Notices
         /\ Failed(n, g, heard).since = 0
         /\ n.latched \subseteq Failed(n, g, heard).latched
<1> USE AlertAssumption
<1>1. 0 \in 0 .. Reminder /\ 0 # None
  OBVIOUS
<1> DEFINE f == Failed(n, g, heard)
<1>2. /\ f = [latched |-> n.latched \cup {g},
              unheard |-> IF heard THEN n.unheard ELSE n.unheard \cup {g},
              since |-> 0, quiet |-> 0,
              attempt |-> [kind |-> "failure", gap |-> 0]]
  <2> DEFINE a == Attempted(n, "failure", 0)
  <2>1. a = [latched |-> n.latched, unheard |-> n.unheard, since |-> 0,
             quiet |-> 0, attempt |-> [kind |-> "failure", gap |-> 0]]
    BY AttemptedNotice DEF Notices
  <2>2. f = [a EXCEPT !.latched = @ \cup {g},
                      !.unheard = IF heard THEN @ ELSE @ \cup {g}]
    BY DEF Failed
  <2> HIDE DEF a, f
  <2>3. QED
    BY <2>1, <2>2
<1>3. QED
  BY <1>1, <1>2 DEF Notices, NoticeRecord, Paced

\* A reminder comes no earlier than its interval; after it nothing is overdue.
LEMMA RemindedNotice ==
  ASSUME NEW n \in Notices, NEW kind \in {"enter", "frame"}, NEW heard \in BOOLEAN
  PROVE  LET minimum == IF kind = "enter" THEN StateEnter ELSE Reminder
             r == Reminded(n, minimum, kind, heard)
         IN /\ r \in Notices
            /\ r.latched = n.latched
            /\ r.latched # {} => r.since # None /\ r.since < minimum
            /\ r.since = n.since \/ r.since = 0
<1> USE AlertAssumption
<1> DEFINE minimum == IF kind = "enter" THEN StateEnter ELSE Reminder
           r == Reminded(n, minimum, kind, heard)
<1>1. 0 \in 0 .. Reminder /\ 0 # None /\ 0 < minimum
  OBVIOUS
<1>2. CASE n.latched # {} /\ n.since >= minimum
  <2>1. n.since # None /\ n.since <= n.quiet /\ n.since \in 0 .. Reminder
    BY <1>2 DEF Notices, NoticeRecord, Paced
  <2>2. n.quiet >= minimum /\ n.quiet \in 0 .. Reminder
    BY <1>1, <1>2, <2>1 DEF Notices, NoticeRecord
  <2>3. r = [Attempted(n, kind, n.quiet) EXCEPT !.unheard = IF heard THEN {} ELSE @]
    BY <1>2 DEF Reminded
  <2>4. r = [latched |-> n.latched, unheard |-> IF heard THEN {} ELSE n.unheard,
             since |-> 0, quiet |-> 0,
             attempt |-> [kind |-> kind, gap |-> n.quiet]]
    <3> DEFINE a == Attempted(n, kind, n.quiet)
    <3>1. a = [latched |-> n.latched, unheard |-> n.unheard, since |-> 0,
               quiet |-> 0, attempt |-> [kind |-> kind, gap |-> n.quiet]]
      BY AttemptedNotice DEF Notices
    <3>2. r = [a EXCEPT !.unheard = IF heard THEN {} ELSE @]
      BY <2>3
    <3> HIDE DEF a, r
    <3>3. QED
      BY <3>1, <3>2
  <2>5. r \in Notices
    BY <1>1, <2>2, <2>4 DEF Notices, NoticeRecord, Paced
  <2>6. QED
    BY <1>1, <2>4, <2>5
<1>3. CASE n.latched # {} /\ ~(n.since >= minimum)
  <2>1. n.since # None /\ n.since \in 0 .. Reminder
    BY <1>3 DEF Notices, NoticeRecord, Paced
  <2>2. r = n
    BY <1>3, <2>1 DEF Reminded
  <2>3. QED
    BY <1>3, <2>1, <2>2
<1>4. CASE n.latched = {}
  BY <1>4 DEF Reminded
<1>5. QED
  BY <1>2, <1>3, <1>4

\* Pruning keeps a notice record what it is, and the records from g on.
LEMMA PrunedNotice ==
  ASSUME NEW n \in Notices, NEW g \in Nat
  PROVE  /\ Pruned(n, g) \in Notices
         /\ Pruned(n, g).latched = {h \in n.latched : h >= g}
         /\ Pruned(n, g).latched # {} => Pruned(n, g).since = n.since
<1> USE AlertAssumption
<1> DEFINE kept == {h \in n.latched : h >= g}
<1>1. kept \subseteq n.latched
  OBVIOUS
<1>2. QED
  BY <1>1 DEF Pruned, Notices, NoticeRecord, Paced

-----------------------------------------------------------------------------
(***************************************************************************)
(* The passes.                                                             *)
(***************************************************************************)

PassTypes ==
  /\ transport \in BOOLEAN
  /\ at \in {"engine", "load", "settle", "drive", "remind", "dispatch"}
  /\ pass \in {None, "initial", "reload"}
  /\ left \in 0 .. MaxEntries
  /\ target \in 0 .. MaxReloads + 1
  /\ generation \in 0 .. MaxReloads + 1
  /\ objects \in 0 .. MaxEntries
  /\ stopped \in BOOLEAN
  /\ flags \subseteq {"requested", "replaying", "started", "done", "destroyed"}
  /\ reloads \in 0 .. MaxReloads

\* What is still to come of the requests so far.
Pending ==
  (IF "requested" \in flags THEN 1 ELSE 0) + (IF "replaying" \in flags THEN 1 ELSE 0)

\* Generations are numbered by the reloads, and a pass by the one it builds.
Numbered ==
  /\ generation + Pending <= reloads + 1
  /\ "requested" \in flags => reloads >= 1
  /\ pass = "initial" => generation = 0 /\ target = 1 /\ "replaying" \notin flags
  /\ pass = "reload" => target = generation + 1 /\ "replaying" \in flags

\* Before the first pass there is nothing.
Unstarted ==
  "started" \notin flags =>
    /\ generation = 0 /\ pass = None /\ objects = 0 /\ at = "engine"
    /\ flags \subseteq {"destroyed"}

\* Every object is of an entry the pass has left behind.
Room ==
  /\ objects + left <= MaxEntries
  /\ at = "load" => pass # None /\ ~stopped
  /\ at = "settle" => pass # None
  /\ at # "settle" /\ pass # None /\ ~stopped => left > 0
  /\ pass = None /\ "replaying" \in flags => objects = 0

PassInv == PassTypes /\ Numbered /\ Unstarted /\ Room

\* Initially there is no pass.
LEMMA PassInit == Init => PassInv
<1> SUFFICES ASSUME Init PROVE PassInv
  OBVIOUS
<1>1. PassTypes
  <2>1. transport \in BOOLEAN /\ stopped \in BOOLEAN
    BY DEF Init
  <2>2. 0 \in 0 .. MaxEntries /\ 0 \in 0 .. MaxReloads /\ 0 \in 0 .. MaxReloads + 1
    BY AlertAssumption
  <2>3. QED
    BY <2>1, <2>2 DEF Init, PassTypes
<1>2. Numbered
  BY AlertAssumption DEF Init, Numbered, Pending
<1>3. Unstarted /\ Room
  BY AlertAssumption DEF Init, Unstarted, Room
<1>4. QED
  BY <1>1, <1>2, <1>3 DEF PassInv

\* Every action keeps the numbers and the room of the passes.
LEMMA PassNext ==
  ASSUME PassInv, [Next]_vars
  PROVE  PassInv'
<1> USE AlertAssumption DEF PassInv, PassTypes, Numbered, Unstarted, Room, Pending
<1>1. CASE UNCHANGED vars
  BY <1>1 DEF vars
<1>2. CASE Request
  BY <1>2 DEF Request
<1>3. ASSUME NEW dt \in Steps, Teardown(dt) PROVE PassInv'
  BY <1>3 DEF Teardown
<1>4. ASSUME NEW dt \in Steps, NEW entries \in 0 .. MaxEntries, BeginPass(dt, entries)
      PROVE  PassInv'
  <2>1. CASE "replaying" \in flags /\ pass = None
    <3>1. /\ pass' = "reload" /\ target' = generation + 1 /\ flags' = flags
          /\ left' = entries /\ stopped' = FALSE /\ at' = "settle"
          /\ UNCHANGED <<transport, generation, objects, reloads>>
      BY <1>4, <2>1 DEF BeginPass
    <3>2. QED
      <4>1. PassTypes'
        <5>1. transport' \in BOOLEAN /\ stopped' \in BOOLEAN
          BY <3>1
        <5>2. target' \in 0 .. MaxReloads + 1 /\ left' \in 0 .. MaxEntries
          BY <2>1, <3>1
        <5>3. QED
          BY <2>1, <3>1, <5>1, <5>2
      <4>2. Numbered'
        BY <2>1, <3>1
      <4>3. Unstarted'
        BY <2>1, <3>1
      <4>4. Room'
        BY <2>1, <3>1
      <4>5. QED
        BY <4>1, <4>2, <4>3, <4>4
  <2>2. CASE ~("replaying" \in flags /\ pass = None)
    <3>1. /\ "started" \notin flags
          /\ pass' = "initial" /\ target' = 1 /\ flags' = flags \cup {"started"}
          /\ left' = entries /\ stopped' = FALSE /\ at' = "settle"
          /\ UNCHANGED <<transport, generation, objects, reloads>>
      BY <1>4, <2>2 DEF BeginPass
    <3>2. QED
      <4>1. PassTypes'
        <5>1. transport' \in BOOLEAN /\ stopped' \in BOOLEAN
          BY <3>1
        <5>2. target' \in 0 .. MaxReloads + 1 /\ left' \in 0 .. MaxEntries
          BY <2>2, <3>1
        <5>3. QED
          BY <2>2, <3>1, <5>1, <5>2
      <4>2. Numbered'
        BY <2>2, <3>1
      <4>3. Unstarted'
        BY <2>2, <3>1
      <4>4. Room'
        BY <2>2, <3>1
      <4>5. QED
        BY <4>1, <4>2, <4>3, <4>4
  <2>3. QED
    BY <2>1, <2>2
<1>5. ASSUME NEW dt \in Steps, Update(dt) PROVE PassInv'
  BY <1>5 DEF Update, passVars
<1>6. CASE LoadEntry
  <2>1. /\ objects' \in {objects, objects + 1} /\ left' \in {left - 1, 0}
        /\ at = "load" /\ at' = "settle"
        /\ UNCHANGED <<transport, pass, generation, target, stopped, flags, reloads>>
    BY <1>6 DEF LoadEntry
  <2>2. QED
    <3>1. PassTypes'
      BY <2>1
    <3>2. Numbered'
      BY <2>1
    <3>3. Unstarted'
      BY <2>1
    <3>4. Room'
      <4>1. pass # None /\ ~stopped /\ left > 0
        BY <2>1
      <4>2. objects' + left' <= MaxEntries
        <5>1. /\ objects \in Nat /\ left \in Nat /\ MaxEntries \in Nat
              /\ objects + left <= MaxEntries
          OBVIOUS
        <5>2. /\ objects' = objects \/ objects' = objects + 1
              /\ left' = left - 1 \/ left' = 0
          BY <2>1
        <5>3. QED
          BY ONLY <4>1, <5>1, <5>2
      <4>3. QED
        BY <2>1, <4>1, <4>2
    <3>5. QED
      BY <3>1, <3>2, <3>3, <3>4
<1>7. CASE InitFails
  <2>1. /\ objects' \in {objects, 0} /\ left' = left - 1
        /\ at = "load" /\ at' = "settle"
        /\ UNCHANGED <<transport, pass, generation, target, flags, reloads>>
    BY <1>7 DEF InitFails, Fail
  <2>2. stopped' \in BOOLEAN
    BY <1>7 DEF InitFails, Fail
  <2>3. QED
    <3>1. PassTypes'
      BY <2>1, <2>2
    <3>2. Numbered'
      BY <2>1, <2>2
    <3>3. Unstarted'
      BY <2>1, <2>2
    <3>4. Room'
      <4>1. pass # None /\ left > 0
        BY <2>1
      <4>2. objects' + left' <= MaxEntries
        <5>1. /\ objects \in Nat /\ left \in Nat /\ MaxEntries \in Nat
              /\ objects + left <= MaxEntries
          OBVIOUS
        <5>2. /\ objects' = objects \/ objects' = 0
              /\ left' = left - 1
          BY <2>1
        <5>3. QED
          BY ONLY <4>1, <5>1, <5>2
      <4>3. QED
        BY <2>1, <4>1, <4>2
    <3>5. QED
      BY <3>1, <3>2, <3>3, <3>4
<1>8. CASE Settle
  <2>1. CASE left = 0 \/ stopped
    <3>1. /\ generation' = target /\ pass' = None /\ target' = 0 /\ left' = 0
          /\ flags' = (flags \cup {"done"}) \
                        IF pass = "reload" THEN {"replaying"} ELSE {}
          /\ at = "settle" /\ at' = "drive"
          /\ UNCHANGED <<transport, objects, stopped, reloads>>
      BY <1>8, <2>1 DEF Settle
    <3>2. pass = "initial" \/ pass = "reload"
      BY <3>1
    <3>3. generation' + Pending' <= reloads' + 1
      BY <3>1, <3>2
    <3>4. QED
      BY <3>1, <3>2, <3>3
  <2>2. CASE ~(left = 0 \/ stopped)
    <3>1. PassTypes'
      BY <1>8, <2>2 DEF Settle
    <3>2. Numbered'
      BY <1>8, <2>2 DEF Settle
    <3>3. Unstarted'
      BY <1>8, <2>2 DEF Settle
    <3>4. Room'
      BY <1>8, <2>2 DEF Settle
    <3>5. QED
      BY <3>1, <3>2, <3>3, <3>4
  <2>3. QED
    BY <2>1, <2>2
<1>9. CASE ObjectFails
  <2>1. /\ objects' \in {objects - 1, 0} /\ at \in {"drive", "dispatch"}
        /\ objects > 0
        /\ UNCHANGED <<transport, at, left, pass, generation, target, flags, reloads>>
    BY <1>9 DEF ObjectFails, Fail
  <2>2. stopped' \in BOOLEAN /\ ~stopped
    BY <1>9 DEF ObjectFails, Fail
  <2>3. QED
    <3>1. PassTypes'
      BY <2>1, <2>2
    <3>2. Numbered'
      BY <2>1, <2>2
    <3>3. Unstarted'
      BY <2>1, <2>2
    <3>4. Room'
      <4>1. objects' + left' <= MaxEntries
        <5>1. /\ objects \in Nat /\ left \in Nat /\ MaxEntries \in Nat
              /\ objects + left <= MaxEntries /\ objects > 0
          BY <2>1
        <5>2. (objects' = objects - 1 \/ objects' = 0) /\ left' = left
          BY <2>1
        <5>3. QED
          BY ONLY <5>1, <5>2
      <4>2. pass = None /\ "replaying" \in flags => objects' = 0
        BY <2>1
      <4>3. at' # "settle" /\ pass' # None /\ ~stopped' => left' > 0
        BY <2>1, <2>2
      <4>4. QED
        BY <2>1, <4>1, <4>2, <4>3
    <3>5. QED
      BY <3>1, <3>2, <3>3, <3>4
<1>10. CASE DriveEnds \/ Remind \/ DispatchEnds
  BY <1>10 DEF DriveEnds, Remind, DispatchEnds, passVars
<1>11. ASSUME NEW status \in {"enter", "exit"}, StateChanged(status) PROVE PassInv'
  BY <1>11 DEF StateChanged, passVars
<1>12. CASE Destroy
  BY <1>12 DEF Destroy
<1>13. CASE TransportChanges
  BY <1>13 DEF TransportChanges, passVars
<1>14. QED
  BY <1>1, <1>2, <1>3, <1>4, <1>5, <1>6, <1>7, <1>8, <1>9, <1>10, <1>11, <1>12,
     <1>13 DEF Next, Frame, Inside

-----------------------------------------------------------------------------
(***************************************************************************)
(* The notices.                                                            *)
(***************************************************************************)

\* Out of the manager, and while it forwards a state change, no reminder is due.
NoticeInv ==
  /\ notice \in Notices
  /\ at \in {"engine", "dispatch"} /\ notice.latched # {} =>
       notice.since # None /\ notice.since < Reminder

\* Initially nothing has failed.
LEMMA NoticeInit == Init => NoticeInv
<1> SUFFICES ASSUME Init PROVE NoticeInv
  OBVIOUS
<1>1. Reminder \in 0 .. Reminder /\ 0 \in 0 .. Reminder
  BY AlertAssumption
<1>2. notice = [latched |-> {}, unheard |-> {}, since |-> None,
                quiet |-> Reminder, attempt |-> [kind |-> None, gap |-> 0]]
  BY DEF Init
<1>3. notice \in NoticeRecord
  BY <1>1, <1>2 DEF NoticeRecord
<1>4. Paced(notice)
  BY <1>2, AlertAssumption DEF Paced
<1>5. QED
  BY <1>2, <1>3, <1>4 DEF NoticeInv, Notices

\* The generation a failure is recorded under is one there may be.
LEMMA ActiveInRange ==
  ASSUME PassInv
  PROVE  ActiveGeneration \in 1 .. MaxReloads + 1
BY AlertAssumption DEF ActiveGeneration, PassInv, PassTypes

\* A failure keeps the invariant.
LEMMA FailNext ==
  ASSUME PassInv, NoticeInv, NEW framework \in BOOLEAN, Fail(framework)
  PROVE  NoticeInv'
<1>1. notice' = Failed(notice, ActiveGeneration, transport)
  BY DEF Fail
<1>2. transport \in BOOLEAN
  BY DEF PassInv, PassTypes
<1>3. notice' \in Notices /\ notice'.since = 0
  BY <1>1, <1>2, ActiveInRange, FailedNotice DEF NoticeInv
<1>4. 0 # None /\ 0 < Reminder
  BY AlertAssumption
<1>5. QED
  BY <1>3, <1>4 DEF NoticeInv

\* Every action keeps the notices what they are.
LEMMA NoticeNext ==
  ASSUME PassInv, NoticeInv, [Next]_vars
  PROVE  NoticeInv'
<1>0. transport \in BOOLEAN /\ target \in Nat
  BY AlertAssumption DEF PassInv, PassTypes
<1>1. CASE UNCHANGED vars
  BY <1>1 DEF vars, NoticeInv
<1>2. CASE Request \/ Destroy \/ TransportChanges \/ DispatchEnds
  <2>1. notice' = notice /\ (at' = at \/ at = "dispatch")
    BY <1>2 DEF Request, Destroy, TransportChanges, DispatchEnds
  <2>2. QED
    BY <1>2, <2>1 DEF NoticeInv, Request, Destroy, TransportChanges, DispatchEnds
<1>3. ASSUME NEW dt \in Steps, Frame(dt) PROVE NoticeInv'
  <2>1. notice' = Aged(notice, dt) /\ at' \notin {"engine", "dispatch"}
    BY <1>3 DEF Frame, Teardown, BeginPass, Update
  <2>2. dt \in Nat
    BY AlertAssumption
  <2>3. QED
    BY <2>1, <2>2, AgedNotice DEF NoticeInv
<1>4. CASE LoadEntry \/ DriveEnds
  BY <1>4 DEF LoadEntry, DriveEnds, NoticeInv
<1>5. CASE InitFails
  BY <1>5, FailNext DEF InitFails
<1>6. CASE ObjectFails
  BY <1>6, FailNext DEF ObjectFails
<1>7. CASE Settle
  <2>1. at' = "drive"
    BY <1>7 DEF Settle
  <2>2. notice' = notice \/ notice' = Pruned(notice, target)
    BY <1>7 DEF Settle
  <2>3. QED
    BY <1>0, <2>1, <2>2, PrunedNotice DEF NoticeInv
<1>8. CASE Remind
  <2>1. notice' = Reminded(notice, Reminder, "frame", transport)
    BY <1>8 DEF Remind
  <2>2. QED
    BY <1>0, <2>1, RemindedNotice DEF NoticeInv
<1>9. ASSUME NEW status \in {"enter", "exit"}, StateChanged(status) PROVE NoticeInv'
  <2>1. CASE status = "enter"
    <3>1. notice' = Reminded(notice, StateEnter, "enter", transport)
      BY <1>9, <2>1 DEF StateChanged
    <3>2. /\ notice' \in Notices
          /\ notice'.latched # {} => notice'.since # None /\ notice'.since < StateEnter
      BY <1>0, <3>1, RemindedNotice DEF NoticeInv
    <3>3. notice'.since \in {None} \cup 0 .. Reminder
      BY <3>2 DEF Notices, NoticeRecord
    <3>4. QED
      BY <3>2, <3>3, AlertAssumption DEF NoticeInv
  <2>2. CASE status # "enter"
    BY <1>9, <2>2 DEF StateChanged, NoticeInv
  <2>3. QED
    BY <2>1, <2>2
<1>10. QED
  BY <1>1, <1>2, <1>3, <1>4, <1>5, <1>6, <1>7, <1>8, <1>9 DEF Next, Inside

-----------------------------------------------------------------------------
(***************************************************************************)
(* The Crashify keys.                                                      *)
(***************************************************************************)

CrashTypes ==
  /\ disabled \in BOOLEAN /\ spoiled \in BOOLEAN
  /\ keys \in Seq(ModNames)
  /\ properties \subseteq ModNames /\ accepted \subseteq ModNames

\* While no call has failed, every property is tracked.
Tracked == ~spoiled => properties \subseteq ToSet(keys)

CrashInv ==
  /\ CrashTypes /\ CrashReportIsCurrent /\ Tracked
  /\ "started" \notin flags => accepted = {}

\* A sequence holds the elements of its parts.
LEMMA SetOfAppend ==
  ASSUME NEW S, NEW s \in Seq(S), NEW e \in S
  PROVE  ToSet(Append(s, e)) = ToSet(s) \cup {e}
<1>1. /\ Len(Append(s, e)) = Len(s) + 1
      /\ \A i \in 1 .. Len(s) : Append(s, e)[i] = s[i]
      /\ Append(s, e)[Len(s) + 1] = e
  BY AppendProperties
<1>2. DOMAIN Append(s, e) = 1 .. Len(s) + 1 /\ DOMAIN s = 1 .. Len(s)
  OBVIOUS
<1>3. QED
  BY <1>1, <1>2 DEF ToSet

\* Initially Crashify holds nothing.
LEMMA CrashInit == Init => CrashInv
<1> SUFFICES ASSUME Init PROVE CrashInv
  OBVIOUS
<1>1. /\ disabled = FALSE /\ keys = <<>> /\ properties = {} /\ accepted = {}
      /\ spoiled = FALSE
  BY DEF Init
<1>2. keys \in Seq(ModNames) /\ ToSet(keys) = {} /\ DOMAIN keys = {}
  BY <1>1 DEF ToSet
<1>3. CrashTypes
  BY <1>1, <1>2 DEF CrashTypes
<1>4. QED
  BY <1>1, <1>2, <1>3 DEF CrashInv, CrashReportIsCurrent, Tracked

\* A publication keeps the invariant, whatever becomes of its call.
LEMMA PublishNext ==
  ASSUME CrashInv, "started" \in flags', NEW name \in ModNames \cup {Unsafe},
         NEW result \in Results, Publish(name, result)
  PROVE  CrashInv'
<1> USE DEF CrashInv
<1>1. accepted' = IF name = Unsafe THEN accepted ELSE accepted \cup {name}
  BY DEF Publish
<1>2. CASE disabled \/ name = Unsafe \/ name \in ToSet(keys)
  <2>1. UNCHANGED <<disabled, keys, properties, spoiled>>
    BY <1>2 DEF Publish
  <2>2. CrashTypes'
    BY <1>1, <2>1 DEF CrashTypes
  <2>3. CrashReportIsCurrent'
    BY <1>1, <1>2, <2>1 DEF CrashReportIsCurrent
  <2>4. QED
    BY <2>1, <2>2, <2>3 DEF Tracked
<1>3. CASE ~(disabled \/ name = Unsafe \/ name \in ToSet(keys))
  <2>1. name \in ModNames /\ name \notin ToSet(keys) /\ ~disabled
        /\ accepted' = accepted \cup {name}
    BY <1>1, <1>3
  <2>2. CASE result = "works"
    <3>1. /\ keys' = Append(keys, name) /\ properties' = properties \cup {name}
          /\ disabled' = FALSE /\ spoiled' = (spoiled \/ FALSE)
      BY <1>3, <2>2 DEF Publish
    <3>2. ToSet(keys') = ToSet(keys) \cup {name} /\ keys' \in Seq(ModNames)
      BY <2>1, <3>1, SetOfAppend DEF CrashTypes
    <3>3. CrashTypes' /\ (spoiled' <=> spoiled)
      BY <2>1, <3>1, <3>2 DEF CrashTypes
    <3>4. \A i, j \in DOMAIN keys' : keys'[i] = keys'[j] => i = j
      <4>1. /\ Len(keys') = Len(keys) + 1
            /\ \A i \in 1 .. Len(keys) : keys'[i] = keys[i]
            /\ keys'[Len(keys) + 1] = name
        BY <2>1, <3>1, AppendProperties DEF CrashTypes
      <4>2. DOMAIN keys' = 1 .. Len(keys) + 1 /\ DOMAIN keys = 1 .. Len(keys)
            /\ Len(keys) \in Nat
        BY <3>2, <4>1 DEF CrashTypes
      <4>3. \A i \in 1 .. Len(keys) : keys[i] # name
        BY <2>1, <4>2 DEF ToSet
      <4>4. \A i, j \in 1 .. Len(keys) : keys[i] = keys[j] => i = j
        BY <4>2 DEF CrashReportIsCurrent
      <4>5. QED
        BY <4>1, <4>2, <4>3, <4>4
    <3>5. QED
      BY <2>1, <3>1, <3>2, <3>3, <3>4 DEF CrashReportIsCurrent, Tracked
  <2>3. CASE result # "works"
    <3>1. /\ keys' = keys /\ properties' \in {properties, properties \cup {name}}
          /\ disabled' = TRUE /\ spoiled' = TRUE
      BY <1>3, <2>3 DEF Publish
    <3>2. CrashTypes'
      BY <2>1, <3>1 DEF CrashTypes
    <3>3. QED
      BY <3>1, <3>2 DEF CrashReportIsCurrent, Tracked
  <2>4. QED
    BY <2>2, <2>3
<1>4. QED
  BY <1>2, <1>3

\* The removal of the old keys keeps it, wherever it fails.
LEMMA RemoveNext ==
  ASSUME CrashInv, NEW n \in 0 .. Len(keys), NEW result \in Results,
         RemoveOld(n, result)
  PROVE  CrashInv'
<1> USE DEF CrashInv
<1>1. keys' = <<>> /\ accepted' = {} /\ properties' \subseteq properties
      /\ disabled' = (n < Len(keys)) /\ spoiled' = (spoiled \/ disabled')
  BY DEF RemoveOld
<1>2. CrashTypes'
  <2>1. disabled' \in BOOLEAN
    BY <1>1
  <2>2. spoiled' \in BOOLEAN
    BY <1>1, <2>1
  <2>3. QED
    BY <1>1, <2>1, <2>2 DEF CrashTypes
<1>3. ASSUME ~spoiled' PROVE properties' = {}
  <2>1. ~spoiled /\ ~(n < Len(keys))
    BY <1>1, <1>3
  <2>2. Len(keys) \in Nat /\ n = Len(keys)
    BY <2>1 DEF CrashTypes
  <2>3. result = "works"
    BY <2>2 DEF RemoveOld
  <2>4. properties' = properties \ ToSet(SubSeq(keys, 1, Len(keys)))
    BY <2>2, <2>3 DEF RemoveOld
  <2>5. SubSeq(keys, 1, Len(keys)) = keys
    BY DEF CrashTypes
  <2>6. QED
    BY <2>1, <2>4, <2>5 DEF Tracked
<1>4. ToSet(keys') = {}
  BY <1>1 DEF ToSet
<1>5. QED
  BY <1>1, <1>2, <1>3, <1>4 DEF CrashReportIsCurrent, Tracked

\* Steps that leave Crashify alone keep it.
LEMMA CrashSame ==
  ASSUME CrashInv, UNCHANGED crashVars, "started" \notin flags' => "started" \notin flags
  PROVE  CrashInv'
BY DEF CrashInv, CrashTypes, CrashReportIsCurrent, Tracked, crashVars

\* A descriptor keeps it, published or not.
LEMMA DescriptorNext ==
  ASSUME CrashInv, "started" \in flags, flags' = flags, NEW passes \in BOOLEAN,
         Descriptor(passes)
  PROVE  CrashInv'
<1>1. CASE passes
  BY <1>1, PublishNext DEF Descriptor
<1>2. CASE ~passes
  BY <1>2, CrashSame DEF Descriptor
<1>3. QED
  BY <1>1, <1>2

\* Every action keeps it.
LEMMA CrashNext ==
  ASSUME PassInv, CrashInv, [Next]_vars
  PROVE  CrashInv'
<1>0. at = "load" => "started" \in flags
  BY DEF PassInv, Unstarted
<1>1. CASE UNCHANGED vars
  BY <1>1, CrashSame DEF vars, crashVars
<1>2. CASE Request \/ Settle \/ ObjectFails \/ DriveEnds \/ Remind \/ DispatchEnds
           \/ Destroy \/ TransportChanges
  <2>1. UNCHANGED crashVars
    BY <1>2 DEF Request, Settle, ObjectFails, DriveEnds, Remind, DispatchEnds,
       Destroy, TransportChanges
  <2>2. "started" \notin flags' => "started" \notin flags
    BY <1>2 DEF Request, Settle, ObjectFails, Fail, DriveEnds, Remind, DispatchEnds,
       Destroy, TransportChanges, passVars
  <2>3. QED
    BY <2>1, <2>2, CrashSame
<1>3. ASSUME NEW dt \in Steps, Teardown(dt) PROVE CrashInv'
  BY <1>3, RemoveNext DEF Teardown
<1>4. ASSUME NEW dt \in Steps, NEW entries \in 0 .. MaxEntries, BeginPass(dt, entries)
      PROVE  CrashInv'
  <2>1. UNCHANGED <<keys, properties, accepted, spoiled>>
    BY <1>4 DEF BeginPass
  <2>2. CASE disabled' = disabled /\ flags' = flags
    BY <2>1, <2>2, CrashSame DEF crashVars
  <2>3. CASE "started" \notin flags /\ disabled' = FALSE
    BY <2>1, <2>3 DEF CrashInv, CrashTypes, CrashReportIsCurrent, Tracked
  <2>4. QED
    BY <1>4, <2>2, <2>3 DEF BeginPass
<1>5. ASSUME NEW dt \in Steps, Update(dt) PROVE CrashInv'
  BY <1>5, CrashSame DEF Update, passVars
<1>6. CASE LoadEntry
  BY <1>0, <1>6, DescriptorNext DEF LoadEntry
<1>7. CASE InitFails
  BY <1>0, <1>7, DescriptorNext DEF InitFails, Fail
<1>8. ASSUME NEW status \in {"enter", "exit"}, StateChanged(status) PROVE CrashInv'
  BY <1>8, CrashSame DEF StateChanged, passVars
<1>9. QED
  BY <1>1, <1>2, <1>3, <1>4, <1>5, <1>6, <1>7, <1>8 DEF Next, Frame, Inside

-----------------------------------------------------------------------------
(***************************************************************************)
(* The theorems.                                                           *)
(***************************************************************************)

\* The three invariants hold of every behaviour.
LEMMA Invariance == Spec => [](PassInv /\ NoticeInv /\ CrashInv)
<1>1. Init => PassInv /\ NoticeInv /\ CrashInv
  BY PassInit, NoticeInit, CrashInit
<1>2. PassInv /\ NoticeInv /\ CrashInv /\ [Next]_vars
        => (PassInv /\ NoticeInv /\ CrashInv)'
  BY PassNext, NoticeNext, CrashNext
<1>3. QED
  BY <1>1, <1>2, PTL DEF Spec

\* Every variable keeps its type, for any list and any number of reloads.
THEOREM TypeCorrect == Spec => []TypeOK
<1>1. PassInv /\ NoticeInv /\ CrashInv => TypeOK
  BY DEF PassInv, PassTypes, NoticeInv, Notices, NoticeRecord, CrashInv, CrashTypes,
         TypeOK
<1>2. QED
  BY <1>1, Invariance, PTL

\* No reminder comes before its interval, whatever pruning did to the date of the
\* last attempt.
THEOREM RemindersKeepIntervals == Spec => []RemindersAreSpaced
<1>1. NoticeInv => RemindersAreSpaced
  BY DEF NoticeInv, Notices, Paced, RemindersAreSpaced
<1>2. QED
  BY <1>1, Invariance, PTL

\* A latched failure is never left without an attempt for an interval.
THEOREM NoSilence == Spec => []NeverSilentForLong
<1>1. NoticeInv => NeverSilentForLong
  BY DEF NoticeInv, NeverSilentForLong
<1>2. QED
  BY <1>1, Invariance, PTL

\* The properties Crashify holds are this generation's, but for failed calls.
THEOREM PropertiesAreCurrent == Spec => []CrashReportIsCurrent
<1>1. CrashInv => CrashReportIsCurrent
  BY DEF CrashInv
<1>2. QED
  BY <1>1, Invariance, PTL

\* Only a completed reload forgets a failure, and never one of its own generation.
THEOREM RecordsOutliveTheReload == Spec => NoticesOutliveTheReload
<1> DEFINE Kept == \A g \in notice.latched \ notice'.latched :
                     pass = "reload" /\ pass' = None /\ g < generation'
<1>1. PassInv /\ NoticeInv /\ [Next]_vars => [Kept]_vars
  <2> SUFFICES ASSUME PassInv, NoticeInv, Next PROVE Kept
    BY DEF vars
  <2>0. transport \in BOOLEAN /\ target \in Nat
    BY AlertAssumption DEF PassInv, PassTypes
  <2>1. CASE Request \/ Destroy \/ TransportChanges \/ DispatchEnds \/ LoadEntry
             \/ DriveEnds
    BY <2>1 DEF Request, Destroy, TransportChanges, DispatchEnds, LoadEntry, DriveEnds
  <2>2. ASSUME NEW dt \in Steps, Frame(dt) PROVE Kept
    <3>1. notice' = Aged(notice, dt) /\ dt \in Nat
      BY <2>2, AlertAssumption DEF Frame, Teardown, BeginPass, Update
    <3>2. QED
      BY <3>1, AgedNotice DEF NoticeInv
  <2>3. CASE InitFails \/ ObjectFails
    <3>1. PICK framework \in BOOLEAN : Fail(framework)
      BY <2>3 DEF InitFails, ObjectFails
    <3>2. notice.latched \subseteq notice'.latched
      BY <2>0, <3>1, ActiveInRange, FailedNotice DEF Fail, NoticeInv
    <3>3. QED
      BY <3>2
  <2>4. CASE Settle
    <3>1. CASE notice' = notice
      BY <3>1
    <3>2. CASE notice' # notice
      <4>1. /\ notice' = Pruned(notice, target) /\ pass = "reload" /\ pass' = None
            /\ generation' = target
        BY <2>4, <3>2 DEF Settle
      <4>2. notice.latched \subseteq Nat
        BY AlertAssumption DEF NoticeInv, Notices, NoticeRecord
      <4>3. notice'.latched = {h \in notice.latched : h >= target}
        BY <2>0, <4>1, PrunedNotice DEF NoticeInv
      <4>4. QED
        BY <2>0, <4>1, <4>2, <4>3
    <3>3. QED
      BY <3>1, <3>2
  <2>5. CASE Remind
    BY <2>0, <2>5, RemindedNotice DEF Remind, NoticeInv
  <2>6. ASSUME NEW status \in {"enter", "exit"}, StateChanged(status) PROVE Kept
    BY <2>0, <2>6, RemindedNotice DEF StateChanged, NoticeInv
  <2>7. QED
    BY <2>1, <2>2, <2>3, <2>4, <2>5, <2>6 DEF Next, Inside
<1>2. QED
  BY <1>1, Invariance, PTL DEF Spec, NoticesOutliveTheReload
================================================================================
