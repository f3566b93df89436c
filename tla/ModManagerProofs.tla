--------------------------- MODULE ModManagerProofs ---------------------------
(***************************************************************************)
(* Machine-checked theorems about ModManager, for any names, any mods.lst  *)
(* contents and any number of reload requests.                             *)
(*                                                                         *)
(* The inductive invariant is built in three layers, each proved on top of *)
(* the one before it: Shape (types and control), Custody (who holds which  *)
(* object) and Account (no object is ever forgotten).                      *)
(***************************************************************************)
EXTENDS ModManager, FiniteSetTheorems, FunctionTheorems, SequenceTheorems, TLAPS

-------------------------------------------------------------------------------
(* Sequences of entry numbers.                                             *)

\* Does sequence s list i?
InQueue(s, i) == \E k \in DOMAIN s : s[k] = i

\* Does sequence s go from later entries to earlier ones?
Falls(s) == \A j, k \in 1..Len(s) : j < k => s[j] > s[k]

\* An index is in an appended queue when it was in it, or is the one appended.
LEMMA InAppend ==
  ASSUME NEW S, NEW s \in Seq(S), NEW x \in S, NEW i
  PROVE  InQueue(Append(s, x), i) <=> InQueue(s, i) \/ i = x
<1>1. /\ Len(Append(s, x)) = Len(s) + 1 /\ Len(s) \in Nat
      /\ DOMAIN s = 1..Len(s) /\ DOMAIN Append(s, x) = 1..(Len(s) + 1)
      /\ \A k \in 1..Len(s) : Append(s, x)[k] = s[k]
      /\ Append(s, x)[Len(s) + 1] = x
  OBVIOUS
<1>2. ASSUME NEW k \in 1..(Len(s) + 1)
      PROVE  k \in 1..Len(s) \/ k = Len(s) + 1
  BY <1>1
<1>3. 1..Len(s) \subseteq 1..(Len(s) + 1) /\ Len(s) + 1 \in 1..(Len(s) + 1)
  BY <1>1
<1> QED
  BY <1>1, <1>2, <1>3, Zenon DEF InQueue

\* An index is in two queues put together when it is in one of them.
LEMMA InConcat ==
  ASSUME NEW S, NEW s \in Seq(S), NEW t \in Seq(S), NEW i
  PROVE  InQueue(s \o t, i) <=> InQueue(s, i) \/ InQueue(t, i)
<1>1. /\ s \o t \in Seq(S) /\ Len(s \o t) = Len(s) + Len(t)
      /\ \A k \in 1..(Len(s) + Len(t)) :
           (s \o t)[k] = IF k <= Len(s) THEN s[k] ELSE t[k - Len(s)]
      /\ Len(s) \in Nat /\ Len(t) \in Nat
      /\ DOMAIN s = 1..Len(s) /\ DOMAIN t = 1..Len(t)
      /\ DOMAIN (s \o t) = 1..(Len(s) + Len(t))
  BY ConcatProperties
<1>2. ASSUME InQueue(s \o t, i)
      PROVE  InQueue(s, i) \/ InQueue(t, i)
  <2>1. PICK k \in 1..(Len(s) + Len(t)) : (s \o t)[k] = i
    BY <1>1, <1>2 DEF InQueue
  <2>2. CASE k <= Len(s)
    <3>1. k \in 1..Len(s) /\ s[k] = i
      BY <1>1, <2>1, <2>2
    <3> QED
      BY <1>1, <3>1 DEF InQueue
  <2>3. CASE ~(k <= Len(s))
    <3>1. k - Len(s) \in 1..Len(t) /\ t[k - Len(s)] = i
      BY <1>1, <2>1, <2>3
    <3> QED
      BY <1>1, <3>1 DEF InQueue
  <2> QED
    BY <2>2, <2>3
<1>3. ASSUME InQueue(s, i)
      PROVE  InQueue(s \o t, i)
  <2>1. PICK k \in 1..Len(s) : s[k] = i
    BY <1>1, <1>3 DEF InQueue
  <2>2. k \in 1..(Len(s) + Len(t)) /\ (s \o t)[k] = i
    BY <1>1, <2>1
  <2> QED
    BY <1>1, <2>2 DEF InQueue
<1>4. ASSUME InQueue(t, i)
      PROVE  InQueue(s \o t, i)
  <2>1. PICK k \in 1..Len(t) : t[k] = i
    BY <1>1, <1>4 DEF InQueue
  <2>2. k + Len(s) \in 1..(Len(s) + Len(t)) /\ (s \o t)[k + Len(s)] = i
    BY <1>1, <2>1
  <2> QED
    BY <1>1, <2>2 DEF InQueue
<1> QED
  BY <1>2, <1>3, <1>4

\* An index is in the tail of a queue only if it was in the queue.
LEMMA InTail ==
  ASSUME NEW S, NEW s \in Seq(S), s # <<>>, NEW i
  PROVE  InQueue(s, i) <=> i = Head(s) \/ InQueue(Tail(s), i)
<1>1. /\ Tail(s) \in Seq(S) /\ Len(Tail(s)) = Len(s) - 1 /\ Len(s) \in Nat \ {0}
      /\ \A k \in 1..Len(Tail(s)) : Tail(s)[k] = s[k + 1]
      /\ DOMAIN s = 1..Len(s) /\ DOMAIN Tail(s) = 1..(Len(s) - 1)
      /\ Head(s) = s[1]
  BY HeadTailProperties, EmptySeq
<1>2. ASSUME InQueue(s, i)
      PROVE  i = Head(s) \/ InQueue(Tail(s), i)
  <2>1. PICK k \in 1..Len(s) : s[k] = i
    BY <1>1, <1>2 DEF InQueue
  <2>2. CASE k = 1
    BY <1>1, <2>1, <2>2
  <2>3. CASE k # 1
    <3>1. k - 1 \in 1..(Len(s) - 1) /\ Tail(s)[k - 1] = i
      BY <1>1, <2>1, <2>3
    <3> QED
      BY <1>1, <3>1 DEF InQueue
  <2> QED
    BY <2>2, <2>3
<1>3. ASSUME InQueue(Tail(s), i)
      PROVE  InQueue(s, i)
  <2>1. PICK k \in 1..(Len(s) - 1) : Tail(s)[k] = i
    BY <1>1, <1>3 DEF InQueue
  <2>2. k + 1 \in 1..Len(s) /\ s[k + 1] = i
    BY <1>1, <2>1
  <2> QED
    BY <1>1, <2>2 DEF InQueue
<1>4. InQueue(s, Head(s))
  <2>1. 1 \in 1..Len(s)
    BY <1>1
  <2> QED
    BY <1>1, <2>1 DEF InQueue
<1> QED
  BY <1>2, <1>3, <1>4

\* `Descending' is a sequence of a set of entry numbers, lists all of it, and
\* falls: the number of larger elements is a one-to-one rank from 0 to |S| - 1.
LEMMA DescendingLists ==
  ASSUME NEW n \in Nat, NEW S \in SUBSET (1..n)
  PROVE  /\ Descending(S) \in Seq(S)
         /\ \A i : InQueue(Descending(S), i) <=> i \in S
         /\ Falls(Descending(S))
<1> DEFINE N == Cardinality(S)
           rank == [i \in S |-> Cardinality(After(S, i))]
<1>1. IsFiniteSet(S) /\ N \in Nat
  <2>1. IsFiniteSet(1..n)
    BY FS_Interval
  <2>2. IsFiniteSet(S)
    BY <2>1, FS_Subset
  <2> QED
    BY <2>2, FS_CardinalityType
<1>0. \A i \in S : i \in Int
  OBVIOUS
<1>2. \A i \in S : IsFiniteSet(After(S, i)) /\ rank[i] \in 0..(N - 1)
  <2> SUFFICES ASSUME NEW i \in S
               PROVE  IsFiniteSet(After(S, i)) /\ rank[i] \in 0..(N - 1)
    OBVIOUS
  <2>1. After(S, i) \subseteq S \ {i}
    BY DEF After
  <2>2. IsFiniteSet(S \ {i}) /\ Cardinality(S \ {i}) = N - 1
    BY <1>1, FS_RemoveElement
  <2>3. /\ IsFiniteSet(After(S, i))
        /\ Cardinality(After(S, i)) <= N - 1
    BY <2>1, <2>2, FS_Subset
  <2>4. Cardinality(After(S, i)) \in Nat
    BY <2>3, FS_CardinalityType
  <2> QED
    BY <2>3, <2>4, <1>1
<1>3. \A i, j \in S : i < j => rank[j] < rank[i]
  <2> SUFFICES ASSUME NEW i \in S, NEW j \in S, i < j
               PROVE  rank[j] < rank[i]
    OBVIOUS
  <2>1. After(S, j) \subseteq After(S, i) \ {j} /\ j \in After(S, i)
    <3>1. ASSUME NEW k \in After(S, j)
          PROVE  k \in After(S, i) \ {j}
      <4>1. k \in S /\ k > j
        BY DEF After
      <4>2. k > i /\ k # j
        BY <1>0, <4>1
      <4> QED
        BY <4>1, <4>2 DEF After
    <3> QED
      BY <3>1 DEF After
  <2>2. /\ IsFiniteSet(After(S, i) \ {j})
        /\ Cardinality(After(S, i) \ {j}) = Cardinality(After(S, i)) - 1
    BY <1>2, <2>1, FS_RemoveElement
  <2>3. Cardinality(After(S, j)) <= Cardinality(After(S, i)) - 1
    BY <2>1, <2>2, FS_Subset
  <2> QED
    BY <2>3, <1>2
<1>4. \A i, j \in S : rank[i] = rank[j] => i = j
  BY <1>2, <1>3
<1>5. rank \in Injection(S, 0..(N - 1))
  <2>1. rank \in [S -> 0..(N - 1)]
    BY <1>2
  <2> HIDE DEF rank, N
  <2> QED
    BY <2>1, <1>4, Fun_IsInj
<1>6. IsFiniteSet(0..(N - 1)) /\ Cardinality(0..(N - 1)) = N
  <2> HIDE DEF N
  <2>1. 0 \in Int /\ N - 1 \in Int
    BY <1>1
  <2>2. /\ IsFiniteSet(0..(N - 1))
        /\ Cardinality(0..(N - 1)) = IF 0 > N - 1 THEN 0 ELSE (N - 1) - 0 + 1
    BY <2>1, FS_Interval
  <2> QED
    BY <1>1, <2>2
<1>7. \A r \in 0..(N - 1) : \E i \in S : rank[i] = r
  <2>1. rank \in Surjection(S, 0..(N - 1))
    <3> HIDE DEF rank
    <3> QED
      BY <1>5, <1>6, FS_Injection
  <2> HIDE DEF rank, N
  <2> QED
    BY <2>1 DEF Surjection
<1>8. \A k \in 1..N : \E i \in S : Cardinality(After(S, i)) = k - 1
  BY <1>1, <1>7
<1>9. \A k \in 1..N : /\ Descending(S)[k] \in S
                      /\ Cardinality(After(S, Descending(S)[k])) = k - 1
  BY <1>8 DEF Descending
<1>10. \A i \in S : rank[i] + 1 \in 1..N /\ Descending(S)[rank[i] + 1] = i
  <2> SUFFICES ASSUME NEW i \in S
               PROVE  rank[i] + 1 \in 1..N /\ Descending(S)[rank[i] + 1] = i
    OBVIOUS
  <2>1. rank[i] + 1 \in 1..N
    BY <1>1, <1>2
  <2>2. /\ Descending(S)[rank[i] + 1] \in S
        /\ rank[Descending(S)[rank[i] + 1]] = rank[i]
    BY <1>2, <1>9, <2>1
  <2> QED
    BY <1>4, <2>1, <2>2
<1>11. Descending(S) = [k \in 1..N |-> Descending(S)[k]]
  BY DEF Descending
<1>12. Descending(S) \in Seq(S) /\ DOMAIN Descending(S) = 1..N
  <2> HIDE DEF N
  <2> QED
    BY <1>1, <1>9, <1>11
<1>13. \A i \in S : InQueue(Descending(S), i)
  <2> HIDE DEF N, rank
  <2> QED
    BY <1>10, <1>12 DEF InQueue
<1>14. \A i : InQueue(Descending(S), i) => i \in S
  <2> HIDE DEF N
  <2> QED
    BY <1>9, <1>12 DEF InQueue
<1>15. Falls(Descending(S))
  <2>1. Len(Descending(S)) = N
    <3> HIDE DEF N
    <3> QED
      BY <1>1, <1>12
  <2>2. ASSUME NEW j \in 1..N, NEW k \in 1..N, j < k
        PROVE  Descending(S)[j] > Descending(S)[k]
    <3> DEFINE a == Descending(S)[j]
               b == Descending(S)[k]
    <3>1. a \in S /\ b \in S /\ rank[a] = j - 1 /\ rank[b] = k - 1
      BY <1>9
    <3> HIDE DEF rank, a, b, N
    <3>2. j - 1 < k - 1 /\ ~(k - 1 < j - 1)
      BY <1>1, <2>2
    <3>3. ~(a < b) /\ a # b
      BY <1>3, <3>1, <3>2
    <3>4. a \in Int /\ b \in Int
      BY <1>0, <3>1
    <3>5. a > b
      BY <3>3, <3>4
    <3> QED
      BY <3>5 DEF a, b
  <2> HIDE DEF N
  <2> QED
    BY <2>1, <2>2 DEF Falls
<1> QED
  BY <1>12, <1>13, <1>14, <1>15

-------------------------------------------------------------------------------
(* Layer 1: types and control.                                             *)

\* Where the handler continues: a drain is a detour on the way to `ret'.
Heading == IF pc \in {"drain", "draining", "on_unload"} THEN ret ELSE pc

Loading  == {"run", "init", "loaded", "stopped", "advance", "escape"}
Teardown == {"forward", "on_reload", "rescan"}

\* The cleanup queue and the batch being drained are empty outside the code
\* that fills and empties them, so mods.lst is read again with nothing queued.
QueueControl ==
  /\ batch # <<>> => pc \in {"draining", "on_unload"}
  /\ queue # <<>> => pc \in {"drain", "fan", "update", "gsc"}
  /\ pc = "on_unload" => batch # <<>>

\* The pass is open while one of its entries is loaded and closed during a
\* teardown; its cursor is inside the list except on the anchor update.
CursorControl ==
  /\ Heading \in Loading => PassOpen
  /\ Heading \in Teardown \cup {"detach"} => ~PassOpen
  /\ PassOpen => cursor \in 0..Len(mods)
  /\ cursor = 0 => pc = "advance"

\* A callback on an outer object is executing for an entry that has one.
CallControl ==
  /\ pc = "init" => mods[cursor].object # NoObj
  /\ pc \in {"update", "gsc", "on_reload"} =>
       idx \in DOMAIN mods /\ mods[idx].object # NoObj

\* Entries hold objects that run() has returned.
Made ==
  \A i \in DOMAIN mods : mods[i].object <= nobj /\ mods[i].cleanup <= nobj

Shape == TypeOK /\ QueueControl /\ CursorControl /\ CallControl /\ Made

\* An entry sequence keeps its type when every entry is mapped to an entry.
LEMMA MappedSeq ==
  ASSUME NEW S, NEW T, NEW s \in Seq(S), NEW f \in [DOMAIN s -> T]
  PROVE  f \in Seq(T) /\ Len(f) = Len(s) /\ DOMAIN f = DOMAIN s
OBVIOUS

\* A scan of mods.lst is a sequence of entries (_scan_mods).
LEMMA ScanType ==
  ASSUME NEW order \in Seq(Names)
  PROVE  /\ Scan(order) \in Seq(Entries)
         /\ \A i \in DOMAIN Scan(order) :
              Scan(order)[i].object = NoObj /\ Scan(order)[i].cleanup = NoObj
BY DEF Scan, Entry, Entries, EntryStates, NoObj

\* Claiming an entry gives an entry (_queue_cleanup).
LEMMA ClaimType ==
  ASSUME NEW e \in Entries
  PROVE  /\ Claim(e) \in Entries
         /\ Claim(e).object = NoObj
         /\ Claim(e).cleanup \in {e.object, e.cleanup}
BY DEF Claim, Entries, NoObj

\* What detaching every entry does to the types.
LEMMA DetachAllShape ==
  ASSUME EntriesOK, DetachAll
  PROVE  /\ mods' \in Seq(Entries)
         /\ Len(mods') = Len(mods) /\ DOMAIN mods' = DOMAIN mods
         /\ \A i \in DOMAIN mods : mods'[i] = Claim(mods[i])
         /\ queue' \in Seq(DOMAIN mods)
<1>1. \A i \in DOMAIN mods : mods[i] \in Entries
  BY DEF EntriesOK
<1>2. mods' \in [DOMAIN mods -> Entries]
  BY <1>1, ClaimType DEF DetachAll
<1>3. mods' \in Seq(Entries) /\ Len(mods') = Len(mods) /\ DOMAIN mods' = DOMAIN mods
  BY <1>2, MappedSeq DEF EntriesOK
<1> DEFINE S == {i \in Attached : ~mods[i].claimed}
<1>4. DOMAIN mods = 1..Len(mods) /\ Len(mods) \in Nat
  BY DEF EntriesOK
<1>5. S \in SUBSET DOMAIN mods
  BY DEF Attached
<1>6. Descending(S) \in Seq(S)
  BY <1>4, <1>5, DescendingLists
<1>7. Descending(S) \in Seq(DOMAIN mods)
  BY <1>5, <1>6, SeqMonotonic
<1>8. queue' \in Seq(DOMAIN mods)
  BY <1>7, ConcatProperties DEF DetachAll, EntriesOK
<1> QED
  BY <1>3, <1>8 DEF DetachAll

\* What the failure of entry f does to the types.
LEMMA FailureShape ==
  ASSUME EntriesOK, FieldsOK, NEW f \in DOMAIN mods, HandleLifecycleFailure(f)
  PROVE  /\ mods' \in Seq(Entries)
         /\ Len(mods') = Len(mods) /\ DOMAIN mods' = DOMAIN mods
         /\ \A i \in DOMAIN mods :
              /\ mods'[i].object \in {mods[i].object, NoObj}
              /\ mods'[i].cleanup \in {mods[i].object, mods[i].cleanup}
         /\ queue' \in Seq(DOMAIN mods)
         /\ records' \subseteq [object : Nat, generation : Nat, framework : BOOLEAN]
         /\ stopPass' \in BOOLEAN /\ genFailed' \in BOOLEAN
<1>1. DOMAIN mods = 1..Len(mods) /\ Len(mods) \in Nat
      /\ \A i \in DOMAIN mods : mods[i] \in Entries
  BY DEF EntriesOK
<1>2. CASE mods[f].failed
  BY <1>1, <1>2 DEF HandleLifecycleFailure, EntriesOK, FieldsOK, entryVars, stopVars
<1>3. CASE ~mods[f].failed
  <2>1. Record(f) \in [object : Nat, generation : Nat, framework : BOOLEAN]
    BY <1>1 DEF Record, ActiveGeneration, Entries, FieldsOK
  <2>2. records' \subseteq [object : Nat, generation : Nat, framework : BOOLEAN]
    BY <1>3, <2>1 DEF HandleLifecycleFailure, EntriesOK
  <2>3. CASE StopGeneration(f)
    <3> DEFINE F(i) == [Claim(mods[i]) EXCEPT !.state = Stopped(i, f),
                                              !.failed = @ \/ i = f]
    <3>1. \A i \in DOMAIN mods : /\ F(i) \in Entries
                                 /\ F(i).object = Claim(mods[i]).object
                                 /\ F(i).cleanup = Claim(mods[i]).cleanup
      <4> SUFFICES ASSUME NEW i \in DOMAIN mods
                   PROVE  /\ F(i) \in Entries
                          /\ F(i).object = Claim(mods[i]).object
                          /\ F(i).cleanup = Claim(mods[i]).cleanup
        OBVIOUS
      <4>1. Claim(mods[i]) \in Entries /\ mods[i].state \in EntryStates
        BY <1>1, ClaimType DEF Entries
      <4>2. Stopped(i, f) \in EntryStates
        BY <4>1 DEF Stopped, EntryStates
      <4> QED
        BY <4>1, <4>2 DEF Entries
    <3>2. mods' = [i \in DOMAIN mods |-> F(i)]
      BY <2>3 DEF StopGeneration
    <3>3. mods' \in Seq(Entries) /\ Len(mods') = Len(mods) /\ DOMAIN mods' = DOMAIN mods
      <4> HIDE DEF F
      <4>1. mods' \in [DOMAIN mods -> Entries]
        BY <3>1, <3>2
      <4> QED
        BY <4>1, MappedSeq DEF EntriesOK
    <3>4. \A i \in DOMAIN mods :
              /\ mods'[i].object \in {mods[i].object, NoObj}
              /\ mods'[i].cleanup \in {mods[i].object, mods[i].cleanup}
      <4> HIDE DEF F
      <4> QED
        BY <1>1, <3>1, <3>2, ClaimType
    <3> DEFINE S == {i \in DOMAIN mods :
                      /\ ~mods[i].done
                      /\ \/ mods[i].object # NoObj
                         \/ mods[i].claimed /\ mods[i].cleanup # NoObj}
    <3>5. S \in SUBSET (1..Len(mods))
      BY <1>1
    <3>6. queue' = Descending(S)
      BY <2>3 DEF StopGeneration
    <3>7. queue' \in Seq(DOMAIN mods)
      <4> HIDE DEF S
      <4> QED
        BY <1>1, <3>5, <3>6, DescendingLists, SeqMonotonic
    <3> QED
      BY <2>2, <2>3, <3>3, <3>4, <3>7 DEF StopGeneration
  <2>4. CASE Disable(f)
    <3> DEFINE e == [Claim(mods[f]) EXCEPT !.state = "disabled", !.failed = TRUE]
    <3>1. e \in Entries /\ e.object = NoObj
          /\ e.cleanup \in {mods[f].object, mods[f].cleanup}
      <4>1. Claim(mods[f]) \in Entries
        BY <1>1, ClaimType
      <4> QED
        BY <1>1, <4>1, ClaimType DEF Entries, EntryStates
    <3>2. mods' = [mods EXCEPT ![f] = e]
      BY <2>4 DEF Disable
    <3>3. /\ mods' \in Seq(Entries) /\ Len(mods') = Len(mods)
          /\ DOMAIN mods' = DOMAIN mods
          /\ \A i \in DOMAIN mods : mods'[i] = IF i = f THEN e ELSE mods[i]
      <4> HIDE DEF e
      <4> QED
        BY <1>1, <3>1, <3>2 DEF EntriesOK
    <3>4. \A i \in DOMAIN mods :
              /\ mods'[i].object \in {mods[i].object, NoObj}
              /\ mods'[i].cleanup \in {mods[i].object, mods[i].cleanup}
      <4> HIDE DEF e
      <4> QED
        BY <3>1, <3>3
    <3>5. queue' \in Seq(DOMAIN mods)
      <4>1. queue \in Seq(DOMAIN mods) /\ Append(queue, f) \in Seq(DOMAIN mods)
        BY AppendProperties DEF EntriesOK
      <4> QED
        BY <2>4, <4>1 DEF Disable
    <3> QED
      BY <2>2, <2>4, <3>3, <3>4, <3>5 DEF Disable, stopVars, FieldsOK
  <2> QED
    BY <1>3, <2>3, <2>4 DEF HandleLifecycleFailure
<1> QED
  BY <1>2, <1>3

\* The manager starts with its types and control invariants (init).
LEMMA ShapeInit == Init => Shape
<1> SUFFICES ASSUME Init
             PROVE  Shape
  OBVIOUS
<1>1. mods \in Seq(Entries)
      /\ \A i \in DOMAIN mods : mods[i].object = NoObj /\ mods[i].cleanup = NoObj
  <2>1. CASE mods = <<>>
    BY <2>1
  <2>2. CASE \E order \in Orders : mods = Scan(order)
    BY <2>2, ConstantsAssumption, ScanType
  <2> QED
    BY <2>1, <2>2 DEF Init, ScanResults
<1>2. EntriesOK
  BY <1>1 DEF Init, EntriesOK
<1>3. FieldsOK /\ ReloadOK /\ ControlOK /\ HistoryOK
  BY DEF Init, FieldsOK, ReloadOK, ControlOK, HistoryOK, Controls,
     Continuations, NoData, Nil, NoObj
<1>4. QueueControl /\ CursorControl /\ CallControl
  BY DEF Init, QueueControl, CursorControl, CallControl, Heading, Loading,
     Teardown, PassOpen, Nil
<1>5. Made
  BY <1>1 DEF Init, Made, NoObj
<1> QED
  BY <1>2, <1>3, <1>4, <1>5 DEF Shape, TypeOK

\* Replacing one entry by an entry keeps the list's type and length.
LEMMA EntryReplaced ==
  ASSUME EntriesOK, NEW i \in DOMAIN mods, NEW e \in Entries,
         mods' = [mods EXCEPT ![i] = e]
  PROVE  /\ mods' \in Seq(Entries)
         /\ Len(mods') = Len(mods) /\ DOMAIN mods' = DOMAIN mods
         /\ \A j \in DOMAIN mods : mods'[j] = IF j = i THEN e ELSE mods[j]
BY DEF EntriesOK

\* The steps that leave the entries, their queues and their objects alone.
EntriesUnchanged == UNCHANGED <<mods, queue, batch, records, nobj, gone>>

\* The steps that change no entry, queue or record.
LEMMA QuietSteps ==
  ASSUME ControlOK,
         \/ RequestReload \/ SetReloadRequested
         \/ Update \/ GameStateChanged \/ Destroy
         \/ DrainEnds \/ CallOnReload \/ EntryLoaded
         \/ AdvanceCursor \/ DriveUpdate \/ CallEntry \/ FanOutEnds
         \/ \E retired \in BOOLEAN : EntryStopped(retired) \/ Settle(retired)
         \/ LoadEscapes \/ InitReturns \/ CallbackReturns
         \/ \E outcome \in {"data", "nil", "absent", "error"} :
              OnReloadReturns(outcome)
         \/ UNCHANGED vars
  PROVE  EntriesUnchanged /\ (pc' = "on_unload" => pc = "on_unload")
<1> USE DEF ControlOK, Continuations, EntriesUnchanged, vars, fieldVars, historyVars, entryVars, objectVars
<1>1. CASE RequestReload \/ SetReloadRequested
  BY <1>1 DEF RequestReload, SetReloadRequested, Ask
<1>2. CASE Update
  BY <1>2 DEF Update, UpdateTeardown, UpdateAnchor, UpdateLoad, UpdateDrive,
          DrainCleanup
<1>3. CASE GameStateChanged \/ DriveUpdate
  BY <1>3 DEF GameStateChanged, DriveUpdate, Dispatch,
          DrainCleanup, FanOut
<1>4. CASE Destroy \/ DrainEnds \/ CallOnReload
  BY <1>4 DEF Destroy, DrainEnds, CallOnReload, DrainCleanup
<1>5. CASE EntryLoaded \/ AdvanceCursor \/ CallEntry \/ FanOutEnds
  BY <1>5 DEF EntryLoaded, AdvanceCursor, CallEntry, FanOutEnds, DrainCleanup
<1>6. CASE \E retired \in BOOLEAN : EntryStopped(retired) \/ Settle(retired)
  BY <1>6 DEF EntryStopped, Settle, DrainCleanup
<1>7. CASE LoadEscapes \/ InitReturns \/ CallbackReturns
  BY <1>7 DEF LoadEscapes, InitReturns, CallbackReturns, DrainCleanup
<1>8. ASSUME NEW outcome, OnReloadReturns(outcome)
      PROVE  EntriesUnchanged /\ pc' = "forward"
  BY <1>8 DEF OnReloadReturns
<1>9. CASE UNCHANGED vars
  BY <1>9
<1> QED
  BY <1>1, <1>2, <1>3, <1>4, <1>5, <1>6, <1>7, <1>8, <1>9

SameList == Len(mods') = Len(mods) /\ DOMAIN mods' = DOMAIN mods

\* What a step does to the entries: it keeps their types, and their number
\* unless it reads mods.lst again.
LEMMA EntriesNext ==
  ASSUME Shape, [Next]_vars
  PROVE  /\ EntriesOK' /\ Made'
         /\ nobj' \in Nat /\ gone' \subseteq 0..nobj'
         /\ SameList \/ pc = "rescan"
<1> DEFINE Goal == /\ EntriesOK' /\ Made'
                   /\ nobj' \in Nat /\ gone' \subseteq 0..nobj'
                   /\ SameList \/ pc = "rescan"
           Bounds == \A i \in DOMAIN mods :
                       mods'[i].object <= nobj' /\ mods'[i].cleanup <= nobj'
<1>0. /\ EntriesOK /\ FieldsOK /\ Made
      /\ nobj \in Nat /\ gone \subseteq 0..nobj
      /\ \A i \in DOMAIN mods : /\ mods[i] \in Entries
                                /\ mods[i].object \in 0..nobj
                                /\ mods[i].cleanup \in 0..nobj
  <2>1. \A i \in DOMAIN mods : mods[i] \in Entries
    BY DEF Shape, TypeOK, EntriesOK
  <2>2. \A i \in DOMAIN mods : mods[i].object \in 0..nobj /\ mods[i].cleanup \in 0..nobj
    BY <2>1 DEF Shape, TypeOK, HistoryOK, Made, Entries
  <2> QED
    BY <2>1, <2>2 DEF Shape, TypeOK, HistoryOK
<1>1. ASSUME EntriesUnchanged
      PROVE  Goal
  BY <1>0, <1>1 DEF EntriesUnchanged, EntriesOK, Made, SameList
\* A step that maps entries to entries.
<1>2. ASSUME mods' \in Seq(Entries), SameList, Bounds,
             queue' \in Seq(DOMAIN mods), batch' \in Seq(DOMAIN mods),
             records' \subseteq [object : Nat, generation : Nat, framework : BOOLEAN],
             nobj' \in Nat, gone' \subseteq 0..nobj'
      PROVE  Goal
  BY <1>2 DEF EntriesOK, Made, SameList
<1>3. CASE TakeQueue
  <2>1. /\ UNCHANGED <<mods, records, nobj, gone>>
        /\ batch' = queue /\ queue' = <<>>
    BY <1>3 DEF TakeQueue, historyVars, objectVars
  <2> QED
    BY <1>0, <2>1 DEF EntriesOK, Made, SameList
<1>4. CASE CallOnUnload
  <2> DEFINE h == Head(batch)
  <2>1. /\ h \in DOMAIN mods
        /\ Tail(batch) \in Seq(DOMAIN mods) /\ batch \in Seq(DOMAIN mods)
    BY <1>0, <1>4, HeadTailProperties DEF CallOnUnload, EntriesOK
  <2>2. UNCHANGED <<queue, records, nobj>>
    BY <1>4 DEF CallOnUnload
  <2>3. CASE mods[h].done
    <3> DEFINE e == [mods[h] EXCEPT !.cleanup = NoObj]
    <3>1. mods' = [mods EXCEPT ![h] = e] /\ batch' = Tail(batch) /\ gone' = gone
      BY <1>4, <2>3 DEF CallOnUnload
    <3>2. e \in Entries /\ e.object = mods[h].object /\ e.cleanup = 0
      BY <1>0, <2>1 DEF Entries, NoObj
    <3> HIDE DEF e, h
    <3>3. /\ mods' \in Seq(Entries) /\ SameList
          /\ \A j \in DOMAIN mods : mods'[j] = IF j = h THEN e ELSE mods[j]
      BY <1>0, <2>1, <3>1, <3>2, EntryReplaced DEF SameList
    <3>4. Bounds
      BY <1>0, <2>2, <3>2, <3>3
    <3>5. /\ queue' \in Seq(DOMAIN mods) /\ batch' \in Seq(DOMAIN mods)
          /\ gone' \subseteq 0..nobj'
      BY <1>0, <2>1, <2>2, <3>1 DEF EntriesOK
    <3> QED
      BY <1>0, <1>2, <2>2, <3>3, <3>4, <3>5 DEF EntriesOK
  <2>4. CASE ~mods[h].done
    <3> DEFINE e == [mods[h] EXCEPT !.done = TRUE]
    <3>1. /\ mods' = [mods EXCEPT ![h] = e] /\ batch' = batch
          /\ gone' = gone \cup {mods[h].cleanup}
      BY <1>4, <2>4 DEF CallOnUnload
    <3>2. e \in Entries /\ e.object = mods[h].object /\ e.cleanup = mods[h].cleanup
      BY <1>0, <2>1 DEF Entries
    <3> HIDE DEF e, h
    <3>3. /\ mods' \in Seq(Entries) /\ SameList
          /\ \A j \in DOMAIN mods : mods'[j] = IF j = h THEN e ELSE mods[j]
      BY <1>0, <2>1, <3>1, <3>2, EntryReplaced DEF SameList
    <3>4. Bounds
      BY <1>0, <2>1, <2>2, <3>2, <3>3
    <3>5. /\ queue' \in Seq(DOMAIN mods) /\ batch' \in Seq(DOMAIN mods)
          /\ gone' \subseteq 0..nobj'
      BY <1>0, <2>1, <2>2, <3>1 DEF EntriesOK
    <3> QED
      BY <1>0, <1>2, <2>2, <3>3, <3>4, <3>5 DEF EntriesOK
  <2> QED
    BY <2>3, <2>4
<1>5. ASSUME NEW ok \in BOOLEAN, OnUnloadReturns(ok)
      PROVE  Goal
  <2> DEFINE h == Head(batch)
             e == [mods[h] EXCEPT !.cleanup = NoObj]
  <2>1. /\ h \in DOMAIN mods
        /\ Tail(batch) \in Seq(DOMAIN mods)
    <3>1. batch # <<>> /\ batch \in Seq(DOMAIN mods)
      BY <1>0, <1>5 DEF OnUnloadReturns, EntriesOK, Shape, QueueControl
    <3> QED
      BY <3>1, HeadTailProperties
  <2>2. /\ mods' = [mods EXCEPT ![h] = e] /\ batch' = Tail(batch)
        /\ UNCHANGED <<queue, records, nobj, gone>>
    BY <1>5 DEF OnUnloadReturns, historyVars, objectVars
  <2>3. e \in Entries /\ e.object = mods[h].object /\ e.cleanup = 0
    BY <1>0, <2>1 DEF Entries, NoObj
  <2> HIDE DEF e, h
  <2>4. /\ mods' \in Seq(Entries) /\ SameList
        /\ \A j \in DOMAIN mods : mods'[j] = IF j = h THEN e ELSE mods[j]
    BY <1>0, <2>1, <2>2, <2>3, EntryReplaced DEF SameList
  <2>5. Bounds
    BY <1>0, <2>2, <2>3, <2>4
  <2>6. /\ queue' \in Seq(DOMAIN mods) /\ batch' \in Seq(DOMAIN mods)
        /\ gone' \subseteq 0..nobj'
    BY <1>0, <2>1, <2>2 DEF EntriesOK
  <2> QED
    BY <1>0, <1>2, <2>2, <2>4, <2>5, <2>6 DEF EntriesOK
<1>6. ASSUME TeardownDetach \/ DestroyDetach
      PROVE  Goal
  <2>1. DetachAll /\ UNCHANGED <<batch, records, nobj, gone>>
    BY <1>6 DEF TeardownDetach, DestroyDetach, historyVars, objectVars
  <2>2. /\ mods' \in Seq(Entries) /\ SameList
        /\ queue' \in Seq(DOMAIN mods)
        /\ \A i \in DOMAIN mods : mods'[i] = Claim(mods[i])
    BY <1>0, <2>1, DetachAllShape DEF SameList
  <2>3. Bounds
    BY <1>0, <2>1, <2>2, ClaimType DEF NoObj
  <2> QED
    BY <1>0, <1>2, <2>1, <2>2, <2>3 DEF EntriesOK
<1>7. ASSUME NEW order \in Orders, NEW readable \in BOOLEAN,
             NEW retired \in BOOLEAN, Rescan(order, readable, retired)
      PROVE  Goal
  <2>1. /\ pc = "rescan" /\ UNCHANGED <<queue, batch, records, nobj, gone>>
        /\ mods' = Scan(order) \/ mods' = <<>>
    BY <1>7 DEF Rescan, historyVars, objectVars
  <2>2. queue = <<>> /\ batch = <<>>
    BY <2>1 DEF Shape, QueueControl
  <2>3. /\ mods' \in Seq(Entries)
        /\ \A i \in DOMAIN mods' : mods'[i].object = NoObj /\ mods'[i].cleanup = NoObj
    <3>1. order \in Seq(Names)
      BY ConstantsAssumption
    <3>2. CASE mods' = <<>>
      BY <3>2
    <3>3. CASE mods' = Scan(order)
      BY <3>1, <3>3, ScanType
    <3> QED
      BY <2>1, <3>2, <3>3
  <2> QED
    BY <1>0, <2>1, <2>2, <2>3 DEF EntriesOK, Made, NoObj
<1>8. CASE FinalizeLoadPass
  <2> DEFINE F(i) == IF stopPass /\ mods[i].state = "not_loaded"
                     THEN [mods[i] EXCEPT !.state = "skipped"] ELSE mods[i]
  <2>1. \A i \in DOMAIN mods : /\ F(i) \in Entries
                               /\ F(i).object = mods[i].object
                               /\ F(i).cleanup = mods[i].cleanup
    <3> SUFFICES ASSUME NEW i \in DOMAIN mods
                 PROVE  /\ F(i) \in Entries
                        /\ F(i).object = mods[i].object
                        /\ F(i).cleanup = mods[i].cleanup
      OBVIOUS
    <3>1. mods[i] \in Entries
      BY <1>0
    <3> QED
      BY <3>1 DEF Entries, EntryStates
  <2>2. /\ mods' = [i \in DOMAIN mods |-> F(i)]
        /\ UNCHANGED <<queue, batch, nobj, gone>>
    BY <1>8 DEF FinalizeLoadPass, historyVars, objectVars
  <2>3. records' \subseteq records
    BY <1>8 DEF FinalizeLoadPass, SettleReload
  <2> HIDE DEF F
  <2>4. mods' \in [DOMAIN mods -> Entries]
    BY <2>1, <2>2
  <2>5. mods' \in Seq(Entries) /\ SameList
    BY <1>0, <2>4, MappedSeq DEF EntriesOK, SameList
  <2>6. Bounds
    BY <1>0, <2>1, <2>2
  <2> QED
    BY <1>0, <1>2, <2>2, <2>3, <2>5, <2>6 DEF EntriesOK
<1>9. ASSUME NEW ok \in BOOLEAN, RunReturnsNoObject(ok)
      PROVE  Goal
  <2> DEFINE e == [mods[cursor] EXCEPT !.state = IF ok THEN "dmf_driven" ELSE "failed",
                                       !.object = IF ok THEN @ ELSE NoObj]
  <2>1. cursor \in DOMAIN mods
    BY <1>0, <1>9 DEF RunReturnsNoObject, Shape, CursorControl, Heading, Loading,
       PassOpen, Nil, EntriesOK
  <2>2. /\ e \in Entries /\ e.object \in {mods[cursor].object, NoObj}
        /\ e.cleanup = mods[cursor].cleanup
    <3>1. mods[cursor] \in Entries
      BY <1>0, <2>1
    <3> QED
      BY <3>1 DEF Entries, EntryStates, NoObj
  <2>3. mods' = [mods EXCEPT ![cursor] = e] /\ UNCHANGED <<queue, batch, records, nobj, gone>>
    BY <1>9 DEF RunReturnsNoObject, historyVars, objectVars
  <2> HIDE DEF e
  <2>4. /\ mods' \in Seq(Entries) /\ SameList
        /\ \A j \in DOMAIN mods : mods'[j] = IF j = cursor THEN e ELSE mods[j]
    BY <1>0, <2>1, <2>2, <2>3, EntryReplaced DEF SameList
  <2>5. Bounds
    BY <1>0, <2>1, <2>2, <2>3, <2>4 DEF NoObj
  <2> QED
    BY <1>0, <1>2, <2>3, <2>4, <2>5 DEF EntriesOK
<1>10. CASE RunReturnsObject
  <2> DEFINE e == [mods[cursor] EXCEPT !.object = nobj + 1, !.state = "running"]
  <2>1. cursor \in DOMAIN mods
    BY <1>0, <1>10 DEF RunReturnsObject, Shape, CursorControl, Heading, Loading,
       PassOpen, Nil, EntriesOK
  <2>2. e \in Entries /\ e.object = nobj + 1 /\ e.cleanup = mods[cursor].cleanup
    <3>1. mods[cursor] \in Entries /\ nobj + 1 \in Nat
      BY <1>0, <2>1
    <3> HIDE <1>0
    <3> QED
      BY <3>1 DEF Entries, EntryStates
  <2>3. /\ mods' = [mods EXCEPT ![cursor] = e] /\ nobj' = nobj + 1
        /\ UNCHANGED <<queue, batch, records, gone>>
    BY <1>10 DEF RunReturnsObject
  <2> HIDE DEF e
  <2>4. /\ mods' \in Seq(Entries) /\ SameList
        /\ \A j \in DOMAIN mods : mods'[j] = IF j = cursor THEN e ELSE mods[j]
    BY <1>0, <2>1, <2>2, <2>3, EntryReplaced DEF SameList
  <2>5. Bounds /\ nobj' \in Nat /\ gone' \subseteq 0..nobj'
    BY <1>0, <2>1, <2>2, <2>3, <2>4
  <2> QED
    BY <1>0, <1>2, <2>3, <2>4, <2>5 DEF EntriesOK
<1>11. ASSUME InitRaises \/ CallbackRaises
       PROVE  Goal
  <2>1. PICK f \in DOMAIN mods : HandleLifecycleFailure(f)
    <3>1. CASE InitRaises
      <4>1. cursor \in DOMAIN mods
        BY <1>0, <3>1 DEF InitRaises, Shape, CursorControl, Heading, Loading,
           PassOpen, Nil, EntriesOK
      <4> QED
        BY <3>1, <4>1 DEF InitRaises
    <3>2. CASE CallbackRaises
      BY <3>2 DEF CallbackRaises, Shape, CallControl
    <3> QED
      BY <1>11, <3>1, <3>2
  <2>2. UNCHANGED <<batch, nobj, gone>>
    BY <1>11 DEF InitRaises, CallbackRaises, historyVars, objectVars
  <2>3. /\ mods' \in Seq(Entries) /\ SameList
        /\ \A i \in DOMAIN mods :
             /\ mods'[i].object \in {mods[i].object, NoObj}
             /\ mods'[i].cleanup \in {mods[i].object, mods[i].cleanup}
        /\ queue' \in Seq(DOMAIN mods)
        /\ records' \subseteq [object : Nat, generation : Nat, framework : BOOLEAN]
    BY <1>0, <2>1, FailureShape DEF SameList
  <2>4. Bounds
    <3> SUFFICES ASSUME NEW i \in DOMAIN mods
                 PROVE  mods'[i].object <= nobj' /\ mods'[i].cleanup <= nobj'
      OBVIOUS
    <3>1. mods[i].object \in 0..nobj /\ mods[i].cleanup \in 0..nobj /\ nobj' = nobj
      BY <1>0, <2>2
    <3> QED
      BY <1>0, <2>3, <3>1 DEF NoObj
  <2> QED
    BY <1>0, <1>2, <2>2, <2>3, <2>4 DEF EntriesOK
<1> QED
  BY <1>1, <1>3, <1>4, <1>5, <1>6, <1>7, <1>8, <1>9, <1>10, <1>11, QuietSteps
     DEF Next, Manager, ModCode, Shape, TypeOK

\* A reload without data has a type.
LEMMA NoDataType == NoData \in [Names -> Nat]
  BY DEF NoData, NoObj

\* Every step keeps the types of the fields that are not about entries.
LEMMA FieldsNext ==
  ASSUME Shape, [Next]_vars
  PROVE  FieldsOK' /\ ReloadOK' /\ ControlOK' /\ HistoryOK'
<1> DEFINE Goal == FieldsOK' /\ ReloadOK' /\ ControlOK' /\ HistoryOK'
<1>0. /\ EntriesOK /\ FieldsOK /\ ReloadOK /\ ControlOK /\ HistoryOK
      /\ nobj' \in Nat /\ gone' \subseteq 0..nobj'
  BY EntriesNext DEF Shape, TypeOK
<1> USE <1>0 DEF FieldsOK, ReloadOK, ControlOK, HistoryOK, Controls,
        Continuations, Callbacks, Nil, ClosePass, LeaveLoop, DrainCleanup,
        FanOut, Dispatch, Ask, vars,
        fieldVars, historyVars, entryVars, passVars, stopVars, globalVars,
        reloadVars, adapterVars, loopVars, objectVars, eraVars, askVars
<1>1. CASE RequestReload
  BY <1>1 DEF RequestReload
<1>2. CASE SetReloadRequested
  BY <1>2 DEF SetReloadRequested
<1>3. CASE UpdateTeardown
  <2>1. FieldsOK'
    BY <1>3 DEF UpdateTeardown
  <2>2. ReloadOK'
    BY <1>3, NoDataType DEF UpdateTeardown, ForgetReload
  <2>3. ControlOK' /\ HistoryOK'
    BY <1>3 DEF UpdateTeardown, ForgetReload
  <2> QED
    BY <2>1, <2>2, <2>3
<1>4. CASE UpdateAnchor
  <2>1. FieldsOK'
    <3>1. CASE NewPass("reload", generation + 1) /\ UNCHANGED modsLoaded
      <4>1. generation + 1 \in Nat
        OBVIOUS
      <4> QED
        BY <1>4, <3>1, <4>1 DEF UpdateAnchor, NewPass, Resume
    <3>2. CASE modsLoaded' = TRUE /\ NewPass("initial", 1)
      BY <1>4, <3>2 DEF UpdateAnchor, NewPass, Resume
    <3> QED
      BY <1>4, <3>1, <3>2 DEF UpdateAnchor
  <2>2. ReloadOK' /\ ControlOK' /\ HistoryOK'
    BY <1>4 DEF UpdateAnchor
  <2> QED
    BY <2>1, <2>2
<1>5. CASE UpdateLoad
  <2>1. dmfGlobals' \in BOOLEAN /\ loadIndex' \in Nat
    BY <1>5 DEF UpdateLoad, PassOpen
  <2>2. FieldsOK'
    BY <1>5, <2>1 DEF UpdateLoad
  <2>3. ReloadOK' /\ ControlOK' /\ HistoryOK'
    BY <1>5 DEF UpdateLoad
  <2> QED
    BY <2>2, <2>3
<1>6. CASE UpdateDrive
  BY <1>6 DEF UpdateDrive
<1>7. CASE GameStateChanged
  BY <1>7 DEF GameStateChanged
<1>8. CASE Destroy
  <2>1. FieldsOK'
    BY <1>8 DEF Destroy
  <2>2. ReloadOK'
    BY <1>8, NoDataType DEF Destroy
  <2>3. ControlOK' /\ HistoryOK'
    BY <1>8 DEF Destroy
  <2> QED
    BY <2>1, <2>2, <2>3
<1>9. CASE TakeQueue
  BY <1>9 DEF TakeQueue
<1>10. CASE CallOnUnload
  BY <1>10 DEF CallOnUnload
<1>11. CASE DrainEnds
  BY <1>11 DEF DrainEnds
<1>12. CASE CallOnReload
  <2>1. idx' \in Nat
    BY <1>12 DEF CallOnReload, Attached, EntriesOK
  <2> QED
    BY <1>12, <2>1 DEF CallOnReload
<1>13. CASE TeardownDetach
  BY <1>13 DEF TeardownDetach
<1>14. CASE EntryLoaded
  BY <1>14 DEF EntryLoaded
<1>15. ASSUME NEW retired \in BOOLEAN, EntryStopped(retired)
       PROVE  Goal
  BY <1>15 DEF EntryStopped, RetireGenerationGlobals, RetirementRaises
<1>16. CASE AdvanceCursor
  BY <1>16 DEF AdvanceCursor, NextCursor
<1>17. CASE FinalizeLoadPass
  <2>1. FieldsOK'
    BY <1>17 DEF FinalizeLoadPass
  <2>2. ReloadOK'
    <3>1. CASE passKind = "reload"
      <4>1. SettleReload /\ UNCHANGED requested
        BY <1>17, <3>1 DEF FinalizeLoadPass
      <4>2. reloadData' \in [Names -> Nat]
        BY <4>1 DEF SettleReload, NoData, NoObj
      <4>3. report' \in {"clean", "errors"}
        BY <4>1 DEF SettleReload
      <4> QED
        BY <4>1, <4>2, <4>3 DEF SettleReload
    <3>2. CASE passKind # "reload"
      BY <1>17, <3>2 DEF FinalizeLoadPass
    <3> QED
      BY <3>1, <3>2
  <2>3. ControlOK' /\ HistoryOK'
    BY <1>17 DEF FinalizeLoadPass
  <2> QED
    BY <2>1, <2>2, <2>3
<1>18. CASE DriveUpdate
  BY <1>18 DEF DriveUpdate
<1>19. CASE CallEntry
  <2>1. idx' \in Nat
    BY <1>19 DEF CallEntry, Attached, EntriesOK
  <2> QED
    BY <1>19, <2>1 DEF CallEntry
<1>20. CASE FanOutEnds
  BY <1>20 DEF FanOutEnds
<1>21. ASSUME NEW retired \in BOOLEAN, Settle(retired)
       PROVE  Goal
  <2>1. globalsRetired' \in BOOLEAN /\ dmfGlobals' \in BOOLEAN /\ survived' \in BOOLEAN
    BY <1>21 DEF Settle, RetireGenerationGlobals, RetirementRaises
  <2>2. FieldsOK'
    BY <1>21, <2>1 DEF Settle
  <2>3. ReloadOK' /\ ControlOK' /\ HistoryOK'
    BY <1>21 DEF Settle
  <2> QED
    BY <2>2, <2>3
<1>22. CASE DestroyDetach
  BY <1>22 DEF DestroyDetach
<1>23. CASE RunReturnsObject
  BY <1>23 DEF RunReturnsObject
<1>24. CASE LoadEscapes
  BY <1>24 DEF LoadEscapes
<1>25. CASE InitReturns
  BY <1>25 DEF InitReturns
<1>26. CASE InitRaises
  <2>1. cursor \in DOMAIN mods /\ HandleLifecycleFailure(cursor)
    BY <1>26 DEF InitRaises, Shape, CursorControl, Heading, Loading, PassOpen,
       EntriesOK
  <2>2. stopPass' \in BOOLEAN /\ genFailed' \in BOOLEAN
    BY <2>1, FailureShape
  <2> QED
    BY <1>26, <2>2 DEF InitRaises
<1>27. CASE CallbackReturns
  BY <1>27 DEF CallbackReturns
<1>28. CASE CallbackRaises
  <2>1. idx \in DOMAIN mods /\ HandleLifecycleFailure(idx)
    BY <1>28 DEF CallbackRaises, Shape, CallControl
  <2>2. stopPass' \in BOOLEAN /\ genFailed' \in BOOLEAN
    BY <2>1, FailureShape
  <2> QED
    BY <1>28, <2>2 DEF CallbackRaises
<1>29. ASSUME NEW ok \in BOOLEAN,
          OnUnloadReturns(ok)
       PROVE  Goal
  BY <1>29 DEF OnUnloadReturns
<1>30. ASSUME NEW ok \in BOOLEAN,
          RunReturnsNoObject(ok)
       PROVE  Goal
  BY <1>30 DEF RunReturnsNoObject
<1>31. ASSUME NEW outcome \in {"data", "nil", "absent", "error"},
          OnReloadReturns(outcome)
       PROVE  Goal
  <2>1. mods[idx].name \in Names /\ mods[idx].object \in Nat
    <3>1. idx \in DOMAIN mods
      BY <1>31 DEF OnReloadReturns, Shape, CallControl
    <3>2. mods[idx] \in Entries
      BY <3>1 DEF EntriesOK
    <3> QED
      BY <3>2 DEF Entries
  <2>2. reloadData' \in [Names -> Nat]
    BY <1>31, <2>1 DEF OnReloadReturns, NoObj
  <2>3. FieldsOK' /\ ControlOK' /\ HistoryOK'
    BY <1>31 DEF OnReloadReturns
  <2> QED
    BY <1>31, <2>2, <2>3 DEF OnReloadReturns
<1>32. ASSUME NEW order \in Orders, NEW readable \in BOOLEAN,
          NEW retired \in BOOLEAN, Rescan(order, readable, retired)
       PROVE  Goal
  BY <1>32 DEF Rescan, RetireGenerationGlobals, RetirementRaises
<1>33. CASE UNCHANGED vars
  BY <1>33
<1> QED
  BY <1>1, <1>2, <1>3, <1>4, <1>5, <1>6, <1>7, <1>8, <1>9, <1>10,
     <1>11, <1>12, <1>13, <1>14, <1>15, <1>16, <1>17, <1>18, <1>19, <1>20,
     <1>21, <1>22, <1>23, <1>24, <1>25, <1>26, <1>27, <1>28, <1>29, <1>30,
     <1>31, <1>32, <1>33
     DEF Next, Update, Manager, ModCode

\* Every step keeps the control invariants.
LEMMA ControlNext ==
  ASSUME Shape, [Next]_vars
  PROVE  QueueControl' /\ CursorControl' /\ CallControl'
<1> DEFINE Goal == QueueControl' /\ CursorControl' /\ CallControl'
<1>0. /\ QueueControl /\ CursorControl /\ CallControl
      /\ Len(mods) \in Nat /\ DOMAIN mods = 1..Len(mods)
      /\ SameList \/ pc = "rescan"
      /\ cursor \in Nat \cup {Nil} /\ pc \in Controls /\ ret \in Continuations
      /\ event \in {"update", "gsc"}
  BY EntriesNext DEF Shape, TypeOK, EntriesOK, FieldsOK, ControlOK
<1> USE <1>0 DEF QueueControl, CursorControl, CallControl, SameList, Heading,
        Loading, Teardown, PassOpen, Controls, Continuations, Callbacks, Nil,
        ClosePass, LeaveLoop, DrainCleanup, FanOut, Dispatch, Ask, vars,
        fieldVars, historyVars, entryVars, passVars, stopVars, globalVars,
        reloadVars, adapterVars, loopVars, objectVars, eraVars, askVars
<1>1. CASE RequestReload
  BY <1>1 DEF RequestReload
<1>2. CASE SetReloadRequested
  BY <1>2 DEF SetReloadRequested
<1>3. CASE UpdateTeardown
  BY <1>3 DEF UpdateTeardown
<1>4. CASE UpdateAnchor
  BY <1>4 DEF UpdateAnchor, NewPass, ReplacementDue
<1>5. CASE UpdateLoad
  BY <1>5 DEF UpdateLoad
<1>6. CASE UpdateDrive
  BY <1>6 DEF UpdateDrive
<1>7. CASE GameStateChanged
  BY <1>7 DEF GameStateChanged
<1>8. CASE Destroy
  BY <1>8 DEF Destroy
<1>9. CASE TakeQueue
  BY <1>9 DEF TakeQueue
<1>10. CASE CallOnUnload
  BY <1>10 DEF CallOnUnload
<1>11. CASE DrainEnds
  BY <1>11 DEF DrainEnds
<1>12. CASE CallOnReload
  BY <1>12 DEF CallOnReload, NextAttached, Attached
<1>13. CASE TeardownDetach
  BY <1>13 DEF TeardownDetach
<1>14. CASE EntryLoaded
  BY <1>14 DEF EntryLoaded
<1>15. ASSUME NEW retired \in BOOLEAN, EntryStopped(retired)
       PROVE  Goal
  BY <1>15 DEF EntryStopped
<1>16. CASE AdvanceCursor
  BY <1>16 DEF AdvanceCursor, PassComplete, NextCursor
<1>17. CASE FinalizeLoadPass
  BY <1>17 DEF FinalizeLoadPass, PassComplete, NextCursor
<1>18. CASE DriveUpdate
  BY <1>18 DEF DriveUpdate
<1>19. CASE CallEntry
  BY <1>19 DEF CallEntry, NextAttached, Attached
<1>20. CASE FanOutEnds
  BY <1>20 DEF FanOutEnds
<1>21. ASSUME NEW retired \in BOOLEAN, Settle(retired)
       PROVE  Goal
  BY <1>21 DEF Settle
<1>22. CASE DestroyDetach
  BY <1>22 DEF DestroyDetach
<1>23. CASE RunReturnsObject
  <2>1. mods'[cursor].object = nobj + 1 /\ nobj \in Nat
    BY <1>23 DEF RunReturnsObject, Shape, TypeOK, HistoryOK, EntriesOK
  <2> QED
    BY <1>23, <2>1 DEF RunReturnsObject, NoObj
<1>24. CASE LoadEscapes
  BY <1>24 DEF LoadEscapes
<1>25. CASE InitReturns
  BY <1>25 DEF InitReturns
<1>26. CASE InitRaises
  BY <1>26 DEF InitRaises
<1>27. CASE CallbackReturns
  BY <1>27 DEF CallbackReturns
<1>28. CASE CallbackRaises
  BY <1>28 DEF CallbackRaises
<1>29. ASSUME NEW ok \in BOOLEAN,
          OnUnloadReturns(ok)
       PROVE  Goal
  BY <1>29 DEF OnUnloadReturns
<1>30. ASSUME NEW ok \in BOOLEAN,
          RunReturnsNoObject(ok)
       PROVE  Goal
  BY <1>30 DEF RunReturnsNoObject
<1>31. ASSUME NEW outcome \in {"data", "nil", "absent", "error"},
          OnReloadReturns(outcome)
       PROVE  Goal
  BY <1>31 DEF OnReloadReturns
<1>32. ASSUME NEW order \in Orders, NEW readable \in BOOLEAN,
          NEW retired \in BOOLEAN, Rescan(order, readable, retired)
       PROVE  Goal
  BY <1>32 DEF Rescan
<1>33. CASE UNCHANGED vars
  BY <1>33
<1> QED
  BY <1>1, <1>2, <1>3, <1>4, <1>5, <1>6, <1>7, <1>8, <1>9, <1>10,
     <1>11, <1>12, <1>13, <1>14, <1>15, <1>16, <1>17, <1>18, <1>19, <1>20,
     <1>21, <1>22, <1>23, <1>24, <1>25, <1>26, <1>27, <1>28, <1>29, <1>30,
     <1>31, <1>32, <1>33
     DEF Next, Update, Manager, ModCode

\* Every step keeps the types and the control invariants.
LEMMA ShapeNext == Shape /\ [Next]_vars => Shape'
BY EntriesNext, FieldsNext, ControlNext DEF Shape, TypeOK

\* The fields, entries and queues of the manager keep their types, and every
\* entry number that is queued or being drained is one of the current list.
THEOREM TypeCorrect == Spec => []TypeOK
<1>1. Init => Shape
  BY ShapeInit
<1>2. Shape /\ [Next]_vars => Shape'
  BY ShapeNext
<1>3. Shape => TypeOK
  BY DEF Shape
<1> QED
  BY <1>1, <1>2, <1>3, PTL DEF Spec

-------------------------------------------------------------------------------
(* Layer 2: who holds which object.                                        *)

Fresh(e) ==
  /\ e.state = "not_loaded"
  /\ e.object = NoObj /\ e.cleanup = NoObj
  /\ ~e.failed /\ ~e.claimed /\ ~e.done

\* The entries an open pass has not reached are untouched, and so is the whole
\* list when a pass is about to begin.
Untried ==
  /\ PassOpen /\ ~stopPass =>
       \A i \in DOMAIN mods :
         i > cursor \/ (i = cursor /\ Heading \notin Loading \ {"run"})
           => Fresh(mods[i])
  /\ pc = "run" => ~stopPass
  /\ inProgress /\ ~PassOpen /\ Heading \notin Teardown =>
       \A i \in DOMAIN mods : Fresh(mods[i])
  /\ PassOpen /\ inProgress => passKind = "reload"
  /\ ~modsLoaded =>
       /\ ~PassOpen /\ ~inProgress /\ ~requested /\ ~loadDone
       /\ generation = 0 /\ Heading \notin Teardown
       /\ \A i \in DOMAIN mods : Fresh(mods[i])

\* An entry drives a live object, or owes one an on_unload, or neither.
EntryCustody(e) ==
  /\ e.object # NoObj =>
       ~e.failed /\ ~e.claimed /\ e.state = "running" /\ e.object \notin gone
  /\ ~e.claimed => ~e.done /\ e.cleanup = NoObj
  /\ e.cleanup # NoObj /\ ~e.done => e.cleanup \notin gone

EntriesInCustody == \A i \in DOMAIN mods : EntryCustody(mods[i])

\* No two entries hold the same object.
Disjoint ==
  \A i, j \in DOMAIN mods : i # j =>
    /\ mods[i].object # NoObj => mods[i].object # mods[j].object
    /\ mods[i].object # NoObj => mods[i].object # mods[j].cleanup
    /\ mods[i].cleanup # NoObj => mods[i].cleanup # mods[j].cleanup

Owes(e) == e.cleanup # NoObj /\ ~e.done

\* A queued entry has its on_unload owed or already called.
Queued(e) == e.claimed /\ (e.done \/ e.cleanup # NoObj)

QueuesOwe ==
  /\ \A i \in DOMAIN mods :
       InQueue(queue, i) \/ InQueue(batch, i) => Queued(mods[i])
  /\ pc = "on_unload" => mods[Head(batch)].done /\ mods[Head(batch)].cleanup # NoObj

Custody ==
  /\ Untried
  /\ EntriesInCustody
  /\ Disjoint
  /\ QueuesOwe
  /\ 0 \notin gone

\* What a step may do to an entry e that becomes f, other than attaching a new
\* object to it or calling its on_unload.
Kept(e, f) ==
  /\ f.object = e.object /\ f.cleanup = e.cleanup
  /\ f.claimed = e.claimed /\ f.done = e.done
  /\ e.object # NoObj => f.failed = e.failed /\ f.state = e.state

Detached(e, f) ==
  /\ e.object # NoObj
  /\ f.object = NoObj /\ f.cleanup = e.object /\ f.claimed /\ ~f.done

Settled(e, f) ==
  /\ e.done
  /\ f.object = NoObj /\ f.cleanup = NoObj /\ f.claimed /\ f.done

Carried == \A i \in DOMAIN mods : \/ Kept(mods[i], mods'[i])
                                  \/ Detached(mods[i], mods'[i])
                                  \/ Settled(mods[i], mods'[i])

\* Steps that only carry entries on keep custody.
LEMMA CustodyCarried ==
  ASSUME EntriesOK, EntriesOK', EntriesInCustody, Disjoint, SameList,
         gone' = gone, Carried
  PROVE  EntriesInCustody' /\ Disjoint'
<1>1. ASSUME NEW i \in DOMAIN mods
      PROVE  /\ mods[i] \in Entries /\ mods'[i] \in Entries
             /\ EntryCustody(mods[i])
             /\ \/ Kept(mods[i], mods'[i])
                \/ Detached(mods[i], mods'[i])
                \/ Settled(mods[i], mods'[i])
  BY DEF EntriesOK, SameList, EntriesInCustody, Carried
<1>2. ASSUME NEW i \in DOMAIN mods
      PROVE  /\ mods'[i].object # NoObj =>
                  /\ mods'[i].object = mods[i].object
             /\ mods'[i].cleanup # NoObj =>
                  \/ mods'[i].cleanup = mods[i].cleanup
                  \/ mods[i].object # NoObj /\ mods'[i].cleanup = mods[i].object
  BY <1>1 DEF Kept, Detached, Settled
<1>3. EntriesInCustody'
  <2> SUFFICES ASSUME NEW i \in DOMAIN mods
               PROVE  EntryCustody(mods[i])'
    BY DEF EntriesInCustody, SameList
  <2>1. CASE Kept(mods[i], mods'[i])
    BY <1>1, <2>1 DEF EntryCustody, Kept, Entries
  <2>2. CASE Detached(mods[i], mods'[i])
    BY <1>1, <2>2 DEF EntryCustody, Detached, Entries
  <2>3. CASE Settled(mods[i], mods'[i])
    BY <1>1, <2>3 DEF EntryCustody, Settled, Entries
  <2> QED
    BY <1>1, <2>1, <2>2, <2>3
<1>4. Disjoint'
  <2> SUFFICES ASSUME NEW i \in DOMAIN mods, NEW j \in DOMAIN mods, i # j
               PROVE  /\ mods'[i].object # NoObj => mods'[i].object # mods'[j].object
                      /\ mods'[i].object # NoObj => mods'[i].object # mods'[j].cleanup
                      /\ mods'[i].cleanup # NoObj => mods'[i].cleanup # mods'[j].cleanup
    BY DEF Disjoint, SameList
  <2>1. /\ mods[i].object # NoObj => mods[i].object # mods[j].object
        /\ mods[i].object # NoObj => mods[i].object # mods[j].cleanup
        /\ mods[i].cleanup # NoObj => mods[i].cleanup # mods[j].cleanup
        /\ mods[j].object # NoObj => mods[j].object # mods[i].cleanup
    BY DEF Disjoint
  <2> QED
    BY <1>2, <2>1
<1> QED
  BY <1>3, <1>4

\* Claiming an entry in custody detaches what it holds, or keeps it as it is.
LEMMA ClaimCarries ==
  ASSUME NEW e \in Entries, EntryCustody(e),
         NEW f, f.object = Claim(e).object, f.cleanup = Claim(e).cleanup,
         f.claimed = Claim(e).claimed, f.done = Claim(e).done
  PROVE  /\ e.object = NoObj => Kept(e, f)
         /\ e.object # NoObj => Detached(e, f)
BY DEF Claim, Kept, Detached, EntryCustody, Entries, NoObj

\* A fresh entry has nothing to claim.
LEMMA ClaimFresh ==
  ASSUME NEW e \in Entries, Fresh(e)
  PROVE  Claim(e) = e
BY DEF Claim, Fresh, Entries, NoObj

\* Detaching every entry carries each one on, and queues what it detached.
LEMMA DetachAllCarries ==
  ASSUME EntriesOK, EntriesInCustody, DetachAll
  PROVE  /\ SameList
         /\ \A i \in DOMAIN mods :
              /\ mods[i].object = NoObj => Kept(mods[i], mods'[i])
              /\ mods[i].object # NoObj => Detached(mods[i], mods'[i])
              /\ Fresh(mods[i]) => mods'[i] = mods[i]
              /\ mods'[i].object = NoObj
              /\ InQueue(queue', i) <=> InQueue(queue, i) \/ mods[i].object # NoObj
<1>1. /\ SameList /\ \A i \in DOMAIN mods : mods'[i] = Claim(mods[i])
      /\ \A i \in DOMAIN mods : mods[i] \in Entries /\ EntryCustody(mods[i])
  BY DetachAllShape DEF EntriesOK, SameList, EntriesInCustody
<1>2. ASSUME NEW i \in DOMAIN mods
      PROVE  /\ mods[i].object = NoObj => Kept(mods[i], mods'[i])
             /\ mods[i].object # NoObj => Detached(mods[i], mods'[i])
             /\ Fresh(mods[i]) => mods'[i] = mods[i]
             /\ mods'[i].object = NoObj
  BY <1>1, ClaimCarries, ClaimFresh, ClaimType
<1> DEFINE S == {i \in Attached : ~mods[i].claimed}
<1>3. \A i \in DOMAIN mods : i \in S <=> mods[i].object # NoObj
  BY <1>1 DEF Attached, EntryCustody
<1>4. /\ Descending(S) \in Seq(S)
      /\ \A i : InQueue(Descending(S), i) <=> i \in S
  <2>1. DOMAIN mods = 1..Len(mods) /\ Len(mods) \in Nat
    BY DEF EntriesOK
  <2>2. S \in SUBSET (1..Len(mods))
    BY <2>1 DEF Attached
  <2> HIDE DEF S
  <2> QED
    BY <2>1, <2>2, DescendingLists
<1>5. /\ queue' = queue \o Descending(S) /\ queue \in Seq(DOMAIN mods)
      /\ Descending(S) \in Seq(DOMAIN mods)
  <2>1. S \in SUBSET DOMAIN mods
    BY DEF Attached
  <2> QED
    BY <1>4, <2>1, SeqMonotonic DEF DetachAll, EntriesOK
<1>6. \A i \in DOMAIN mods :
        InQueue(queue', i) <=> InQueue(queue, i) \/ mods[i].object # NoObj
  <2> HIDE DEF S
  <2> QED
    BY <1>3, <1>4, <1>5, InConcat
<1> QED
  BY <1>1, <1>2, <1>6

\* So does a failure, of one entry or of the whole generation.
LEMMA FailureCarries ==
  ASSUME EntriesOK, FieldsOK, EntriesInCustody,
         NEW f \in DOMAIN mods, mods[f].object # NoObj, HandleLifecycleFailure(f)
  PROVE  /\ SameList
         /\ \A i \in DOMAIN mods :
              /\ Kept(mods[i], mods'[i]) \/ Detached(mods[i], mods'[i])
              /\ ~stopPass' /\ i # f => mods'[i] = mods[i]
              /\ InQueue(queue', i) =>
                   \/ InQueue(queue, i)
                   \/ mods[i].object # NoObj /\ Detached(mods[i], mods'[i])
                   \/ Queued(mods[i])
              /\ Owes(mods'[i]) /\ (Owes(mods[i]) => InQueue(queue, i)) =>
                   InQueue(queue', i)
<1>1. /\ \A i \in DOMAIN mods : mods[i] \in Entries /\ EntryCustody(mods[i])
      /\ DOMAIN mods = 1..Len(mods) /\ Len(mods) \in Nat
      /\ queue \in Seq(DOMAIN mods)
  BY DEF EntriesOK, EntriesInCustody
<1>2. SameList
  BY FailureShape DEF SameList
<1>3. ~mods[f].failed /\ ~mods[f].claimed
  BY <1>1 DEF EntryCustody
<1>4. CASE StopGeneration(f)
  <2>1. ASSUME NEW i \in DOMAIN mods
        PROVE  /\ mods'[i].object = Claim(mods[i]).object
               /\ mods'[i].cleanup = Claim(mods[i]).cleanup
               /\ mods'[i].claimed = Claim(mods[i]).claimed
               /\ mods'[i].done = Claim(mods[i]).done
    <3>1. Claim(mods[i]) \in Entries
      BY <1>1, ClaimType
    <3>2. mods'[i] = [Claim(mods[i]) EXCEPT !.state = Stopped(i, f),
                                            !.failed = @ \/ i = f]
      BY <1>4 DEF StopGeneration
    <3> QED
      BY <3>1, <3>2 DEF Entries
  <2>2. ASSUME NEW i \in DOMAIN mods
        PROVE  /\ mods[i].object = NoObj => Kept(mods[i], mods'[i])
               /\ mods[i].object # NoObj => Detached(mods[i], mods'[i])
    BY <1>1, <2>1, ClaimCarries
  <2> DEFINE S == {i \in DOMAIN mods :
                    /\ ~mods[i].done
                    /\ \/ mods[i].object # NoObj
                       \/ mods[i].claimed /\ mods[i].cleanup # NoObj}
  <2>3. \A i \in DOMAIN mods : InQueue(queue', i) <=> i \in S
    <3>1. S \in SUBSET (1..Len(mods)) /\ queue' = Descending(S)
      BY <1>1, <1>4 DEF StopGeneration
    <3> HIDE DEF S
    <3> QED
      BY <1>1, <3>1, DescendingLists
  <2>4. ASSUME NEW i \in DOMAIN mods
        PROVE  /\ i \in S => \/ mods[i].object # NoObj
                             \/ Queued(mods[i])
               /\ Owes(mods'[i]) => i \in S
    BY <1>1, <2>2 DEF Queued, Owes, Kept, Detached, EntryCustody
  <2>5. stopPass' = TRUE
    BY <1>4 DEF StopGeneration
  <2> HIDE DEF S
  <2> QED
    BY <1>2, <2>2, <2>3, <2>4, <2>5
<1>5. CASE Disable(f)
  <2> DEFINE e == [Claim(mods[f]) EXCEPT !.state = "disabled", !.failed = TRUE]
  <2>1. /\ e.object = Claim(mods[f]).object
        /\ e.cleanup = Claim(mods[f]).cleanup
        /\ e.claimed = Claim(mods[f]).claimed
        /\ e.done = Claim(mods[f]).done
    BY <1>1, ClaimType DEF Entries
  <2>2. mods' = [mods EXCEPT ![f] = e] /\ queue' = Append(queue, f)
    BY <1>3, <1>5 DEF Disable
  <2> HIDE DEF e
  <2>3. Detached(mods[f], e)
    BY <1>1, <2>1, ClaimCarries
  <2>4. mods'[f] = e /\ \A i \in DOMAIN mods : i # f => mods'[i] = mods[i]
    BY <1>1, <2>2
  <2>5. \A i : InQueue(queue', i) <=> InQueue(queue, i) \/ i = f
    BY <1>1, <2>2, InAppend
  <2>6. \A i \in DOMAIN mods : Kept(mods[i], mods[i])
    BY DEF Kept
  <2> QED
    BY <1>2, <2>3, <2>4, <2>5, <2>6
<1> QED
  BY <1>3, <1>4, <1>5 DEF HandleLifecycleFailure

\* Every entry of a new scan is fresh (_scan_mods).
LEMMA ScanFresh ==
  ASSUME NEW order \in Seq(Names)
  PROVE  \A i \in DOMAIN Scan(order) : Fresh(Scan(order)[i])
BY DEF Scan, Entry, Fresh, NoObj

\* An entry whose run() is executing is fresh.
LEMMA RunIsFresh ==
  ASSUME Shape, Untried, pc = "run"
  PROVE  cursor \in DOMAIN mods /\ Fresh(mods[cursor])
<1>1. PassOpen /\ cursor \in 1..Len(mods)
  BY DEF Shape, TypeOK, FieldsOK, CursorControl, Heading, Loading
<1>2. cursor \in DOMAIN mods
  BY <1>1 DEF Shape, TypeOK, EntriesOK
<1> QED
  BY <1>1, <1>2 DEF Untried, Heading, Loading

\* A failing callback was executing on an attached entry.
LEMMA FailsAttached ==
  ASSUME Shape, InitRaises \/ CallbackRaises
  PROVE  \E f \in DOMAIN mods : mods[f].object # NoObj /\ HandleLifecycleFailure(f)
<1>1. CASE InitRaises
  <2>1. cursor \in DOMAIN mods /\ mods[cursor].object # NoObj
    BY <1>1 DEF InitRaises, Shape, TypeOK, EntriesOK, FieldsOK, CursorControl,
       CallControl, Heading, Loading, PassOpen, Nil
  <2> QED
    BY <1>1, <2>1 DEF InitRaises
<1>2. CASE CallbackRaises
  BY <1>2 DEF CallbackRaises, Shape, CallControl
<1> QED
  BY <1>1, <1>2

\* Every step keeps custody of the objects.
LEMMA HoldingNext ==
  ASSUME Shape, Custody, [Next]_vars
  PROVE  EntriesInCustody' /\ Disjoint' /\ QueuesOwe' /\ 0 \notin gone'
<1> DEFINE Goal == EntriesInCustody' /\ Disjoint' /\ QueuesOwe' /\ 0 \notin gone'
<1>0. /\ EntriesOK /\ EntriesOK' /\ FieldsOK /\ ControlOK
      /\ Untried /\ EntriesInCustody /\ Disjoint /\ QueuesOwe /\ 0 \notin gone
      /\ DOMAIN mods = 1..Len(mods) /\ Len(mods) \in Nat
      /\ \A i \in DOMAIN mods : /\ mods[i] \in Entries /\ EntryCustody(mods[i])
                                /\ mods[i].object \in 0..nobj
                                /\ mods[i].cleanup \in 0..nobj
  <2>1. \A i \in DOMAIN mods : mods[i] \in Entries
    BY DEF Shape, TypeOK, EntriesOK
  <2>2. \A i \in DOMAIN mods : mods[i].object \in 0..nobj /\ mods[i].cleanup \in 0..nobj
    BY <2>1 DEF Shape, TypeOK, HistoryOK, Made, Entries
  <2>3. EntriesOK'
    BY EntriesNext
  <2>4. DOMAIN mods = 1..Len(mods) /\ Len(mods) \in Nat
    BY DEF Shape, TypeOK, EntriesOK
  <2> QED
    BY <2>1, <2>2, <2>3, <2>4 DEF Shape, TypeOK, Custody, EntriesInCustody
<1>1. ASSUME EntriesUnchanged, pc' = "on_unload" => pc = "on_unload"
      PROVE  Goal
  BY <1>0, <1>1 DEF EntriesUnchanged, EntriesInCustody, EntryCustody, Disjoint,
     QueuesOwe, Queued, InQueue
<1>2. CASE TakeQueue
  <2>1. /\ UNCHANGED <<mods, gone>> /\ batch' = queue /\ queue' = <<>>
        /\ pc' # "on_unload"
    BY <1>2 DEF TakeQueue, historyVars, objectVars
  <2>2. \A i : ~InQueue(<<>>, i)
    BY DEF InQueue
  <2>3. \A i : InQueue(queue, i) <=> InQueue(batch', i)
    BY <2>1
  <2>4. QueuesOwe'
    BY <1>0, <2>1, <2>2, <2>3 DEF QueuesOwe, Queued
  <2> QED
    BY <1>0, <2>1, <2>4 DEF EntriesInCustody, EntryCustody, Disjoint
\* Entries that carry on, and whose queues hold nothing new but what they owe.
<1>3. ASSUME SameList, gone' = gone, pc' # "on_unload", Carried,
             \A i \in DOMAIN mods : InQueue(queue', i) \/ InQueue(batch', i) =>
               \/ Queued(mods[i])
               \/ Detached(mods[i], mods'[i])
      PROVE  Goal
  <2>1. EntriesInCustody' /\ Disjoint'
    BY <1>0, <1>3, CustodyCarried
  <2>2. ASSUME NEW i \in DOMAIN mods,
               Queued(mods[i]) \/ Detached(mods[i], mods'[i])
        PROVE  Queued(mods'[i])
    <3>1. /\ EntryCustody(mods[i])
          /\ \/ Kept(mods[i], mods'[i])
             \/ Detached(mods[i], mods'[i])
             \/ Settled(mods[i], mods'[i])
      BY <1>0, <1>3 DEF Carried
    <3> QED
      BY <2>2, <3>1 DEF Queued, EntryCustody, Kept, Detached, Settled
  <2>3. QueuesOwe'
    BY <1>3, <2>2 DEF QueuesOwe, SameList
  <2> QED
    BY <1>0, <1>3, <2>1, <2>3
<1>4. CASE CallOnUnload
  <2> DEFINE h == Head(batch)
  <2>1. /\ h \in DOMAIN mods /\ batch \in Seq(DOMAIN mods) /\ batch # <<>>
        /\ \A i : InQueue(batch, i) <=> i = h \/ InQueue(Tail(batch), i)
        /\ queue' = queue
    BY <1>0, <1>4, HeadTailProperties, InTail DEF CallOnUnload, EntriesOK
  <2>2. /\ Queued(mods[h]) /\ mods[h].claimed /\ mods[h].object = NoObj
        /\ mods[h] \in Entries
    BY <1>0, <2>1 DEF QueuesOwe, Queued, EntryCustody
  <2>3. CASE mods[h].done
    <3> DEFINE e == [mods[h] EXCEPT !.cleanup = NoObj]
    <3>1. /\ mods' = [mods EXCEPT ![h] = e] /\ batch' = Tail(batch) /\ gone' = gone
          /\ pc' = "draining"
      BY <1>4, <2>3 DEF CallOnUnload
    <3>2. e \in Entries /\ Settled(mods[h], e)
      BY <2>2, <2>3 DEF Entries, Settled, NoObj
    <3> HIDE DEF e, h
    <3>3. /\ SameList
          /\ \A j \in DOMAIN mods : mods'[j] = IF j = h THEN e ELSE mods[j]
      BY <1>0, <2>1, <3>1, <3>2, EntryReplaced DEF SameList
    <3>4. Carried
      BY <3>2, <3>3 DEF Carried, Kept
    <3>5. \A i \in DOMAIN mods : InQueue(queue', i) \/ InQueue(batch', i) =>
            Queued(mods[i])
      BY <1>0, <2>1, <3>1 DEF QueuesOwe
    <3> QED
      BY <1>3, <3>1, <3>3, <3>4, <3>5
  <2>4. CASE ~mods[h].done
    <3> DEFINE e == [mods[h] EXCEPT !.done = TRUE]
    <3>1. /\ mods' = [mods EXCEPT ![h] = e] /\ batch' = batch
          /\ gone' = gone \cup {mods[h].cleanup}
      BY <1>4, <2>4 DEF CallOnUnload
    <3>2. /\ e \in Entries /\ e.object = NoObj /\ e.cleanup = mods[h].cleanup
          /\ e.claimed /\ e.done /\ mods[h].cleanup # NoObj
      BY <2>2, <2>4 DEF Entries, Queued
    <3> HIDE DEF e, h
    <3>3. /\ SameList
          /\ \A j \in DOMAIN mods : mods'[j] = IF j = h THEN e ELSE mods[j]
      BY <1>0, <2>1, <3>1, <3>2, EntryReplaced DEF SameList
    <3>4. EntriesInCustody'
      <4> SUFFICES ASSUME NEW i \in DOMAIN mods
                   PROVE  EntryCustody(mods[i])'
        BY <3>3 DEF EntriesInCustody, SameList
      <4>1. CASE i = h
        BY <2>1, <3>2, <3>3, <4>1 DEF EntryCustody
      <4>2. CASE i # h
        <5>1. mods'[i] = mods[i] /\ EntryCustody(mods[i])
          BY <1>0, <3>3, <4>2
        <5>2. /\ mods[i].object # NoObj => mods[i].object # mods[h].cleanup
              /\ mods[i].cleanup # NoObj => mods[i].cleanup # mods[h].cleanup
          BY <1>0, <2>1, <4>2 DEF Disjoint
        <5> QED
          BY <3>1, <5>1, <5>2 DEF EntryCustody
      <4> QED
        BY <4>1, <4>2
    <3>5. Disjoint'
      <4>1. \A i \in DOMAIN mods : /\ mods'[i].object = mods[i].object
                                   /\ mods'[i].cleanup = mods[i].cleanup
        BY <2>2, <3>2, <3>3
      <4> QED
        BY <1>0, <3>3, <4>1 DEF Disjoint, SameList
    <3>6. QueuesOwe'
      <4>1. \A i \in DOMAIN mods : Queued(mods[i]) => Queued(mods'[i])
        BY <3>2, <3>3 DEF Queued
      <4>2. mods'[Head(batch')].done /\ mods'[Head(batch')].cleanup # NoObj
        BY <2>1, <3>1, <3>2, <3>3 DEF h
      <4> QED
        BY <1>0, <2>1, <3>1, <3>3, <4>1, <4>2 DEF QueuesOwe, SameList, InQueue
    <3> QED
      BY <1>0, <3>1, <3>2, <3>4, <3>5, <3>6 DEF NoObj
  <2> QED
    BY <2>3, <2>4
<1>5. ASSUME NEW ok \in BOOLEAN, OnUnloadReturns(ok)
      PROVE  Goal
  <2> DEFINE h == Head(batch)
             e == [mods[h] EXCEPT !.cleanup = NoObj]
  <2>1. /\ h \in DOMAIN mods
        /\ \A i : InQueue(batch, i) <=> i = h \/ InQueue(Tail(batch), i)
    <3>1. batch # <<>> /\ batch \in Seq(DOMAIN mods)
      BY <1>0, <1>5 DEF OnUnloadReturns, EntriesOK, Shape, QueueControl
    <3> QED
      BY <3>1, HeadTailProperties, InTail
  <2>2. /\ mods' = [mods EXCEPT ![h] = e] /\ batch' = Tail(batch)
        /\ queue' = queue /\ gone' = gone /\ pc' = "draining"
    BY <1>5 DEF OnUnloadReturns, historyVars, objectVars
  <2>3. /\ mods[h].done /\ mods[h].claimed /\ mods[h].object = NoObj
        /\ mods[h] \in Entries
    BY <1>0, <1>5, <2>1 DEF OnUnloadReturns, QueuesOwe, EntryCustody
  <2>4. e \in Entries /\ Settled(mods[h], e)
    BY <2>3 DEF Entries, Settled, NoObj
  <2> HIDE DEF e, h
  <2>5. /\ SameList
        /\ \A j \in DOMAIN mods : mods'[j] = IF j = h THEN e ELSE mods[j]
    BY <1>0, <2>1, <2>2, <2>4, EntryReplaced DEF SameList
  <2>6. Carried
    BY <2>4, <2>5 DEF Carried, Kept
  <2>7. \A i \in DOMAIN mods : InQueue(queue', i) \/ InQueue(batch', i) =>
          Queued(mods[i])
    BY <1>0, <2>1, <2>2 DEF QueuesOwe
  <2> QED
    BY <1>3, <2>2, <2>5, <2>6, <2>7
<1>6. ASSUME TeardownDetach \/ DestroyDetach
      PROVE  Goal
  <2>1. DetachAll /\ gone' = gone /\ batch' = batch /\ pc' # "on_unload"
    BY <1>6 DEF TeardownDetach, DestroyDetach, DrainCleanup, historyVars, objectVars
  <2>2. SameList /\ Carried
    BY <1>0, <2>1, DetachAllCarries DEF Carried
  <2>3. \A i \in DOMAIN mods : InQueue(queue', i) \/ InQueue(batch', i) =>
          Queued(mods[i]) \/ Detached(mods[i], mods'[i])
    BY <1>0, <2>1, DetachAllCarries DEF QueuesOwe
  <2> QED
    BY <1>3, <2>1, <2>2, <2>3
<1>7. ASSUME NEW order \in Orders, NEW readable \in BOOLEAN,
             NEW retired \in BOOLEAN, Rescan(order, readable, retired)
      PROVE  Goal
  <2>1. /\ pc = "rescan" /\ pc' = "idle" /\ UNCHANGED <<queue, batch, gone>>
        /\ mods' = Scan(order) \/ mods' = <<>>
    BY <1>7 DEF Rescan, historyVars, objectVars
  <2>2. queue' = <<>> /\ batch' = <<>>
    BY <2>1 DEF Shape, QueueControl
  <2>3. \A i \in DOMAIN mods' : Fresh(mods'[i])
    <3>1. order \in Seq(Names)
      BY ConstantsAssumption
    <3> QED
      BY <2>1, <3>1, ScanFresh
  <2>4. EntriesInCustody' /\ Disjoint'
    BY <2>3 DEF EntriesInCustody, EntryCustody, Disjoint, Fresh
  <2>5. QueuesOwe'
    BY <2>1, <2>2 DEF QueuesOwe, InQueue
  <2> QED
    BY <1>0, <2>1, <2>4, <2>5
<1>8. CASE FinalizeLoadPass
  <2>1. /\ mods' = [i \in DOMAIN mods |->
                      IF stopPass /\ mods[i].state = "not_loaded"
                      THEN [mods[i] EXCEPT !.state = "skipped"] ELSE mods[i]]
        /\ UNCHANGED <<queue, batch, gone>> /\ pc' # "on_unload"
    BY <1>8 DEF FinalizeLoadPass, historyVars, objectVars
  <2>2. SameList
    BY <1>0, <2>1 DEF SameList, EntriesOK
  <2>3. ASSUME NEW i \in DOMAIN mods
        PROVE  Kept(mods[i], mods'[i])
    <3>1. mods[i] \in Entries /\ EntryCustody(mods[i])
      BY <1>0
    <3>2. mods'[i] = IF stopPass /\ mods[i].state = "not_loaded"
                     THEN [mods[i] EXCEPT !.state = "skipped"] ELSE mods[i]
      BY <2>1
    <3> QED
      BY <3>1, <3>2 DEF Kept, EntryCustody, Entries
  <2>4. Carried
    BY <2>3 DEF Carried
  <2>5. \A i \in DOMAIN mods : InQueue(queue', i) \/ InQueue(batch', i) =>
          Queued(mods[i])
    BY <1>0, <2>1 DEF QueuesOwe
  <2> QED
    BY <1>3, <2>1, <2>2, <2>4, <2>5
<1>9. ASSUME NEW ok \in BOOLEAN, RunReturnsNoObject(ok)
      PROVE  Goal
  <2> DEFINE e == [mods[cursor] EXCEPT !.state = IF ok THEN "dmf_driven" ELSE "failed",
                                       !.object = IF ok THEN @ ELSE NoObj]
  <2>1. cursor \in DOMAIN mods /\ Fresh(mods[cursor])
    BY <1>0, <1>9, RunIsFresh DEF RunReturnsNoObject
  <2>2. e \in Entries /\ Kept(mods[cursor], e)
    <3>1. mods[cursor] \in Entries
      BY <1>0, <2>1
    <3> QED
      BY <2>1, <3>1 DEF Entries, EntryStates, Kept, Fresh, NoObj
  <2>3. /\ mods' = [mods EXCEPT ![cursor] = e]
        /\ UNCHANGED <<queue, batch, gone>> /\ pc' # "on_unload"
    BY <1>9 DEF RunReturnsNoObject, DrainCleanup, historyVars, objectVars
  <2> HIDE DEF e
  <2>4. /\ SameList
        /\ \A j \in DOMAIN mods : mods'[j] = IF j = cursor THEN e ELSE mods[j]
    BY <1>0, <2>1, <2>2, <2>3, EntryReplaced DEF SameList
  <2>5. Carried
    BY <2>2, <2>4 DEF Carried, Kept
  <2>6. \A i \in DOMAIN mods : InQueue(queue', i) \/ InQueue(batch', i) =>
          Queued(mods[i])
    BY <1>0, <2>3 DEF QueuesOwe
  <2> QED
    BY <1>3, <2>3, <2>4, <2>5, <2>6
<1>10. CASE RunReturnsObject
  <2> DEFINE e == [mods[cursor] EXCEPT !.object = nobj + 1, !.state = "running"]
  <2>1. /\ cursor \in DOMAIN mods /\ Fresh(mods[cursor]) /\ nobj \in Nat
        /\ mods[cursor] \in Entries
    BY <1>0, <1>10, RunIsFresh DEF RunReturnsObject, Shape, TypeOK, HistoryOK
  <2>2. /\ e \in Entries /\ e.object = nobj + 1 /\ e.cleanup = NoObj
        /\ ~e.failed /\ ~e.claimed /\ ~e.done /\ e.state = "running"
    <3>1. nobj + 1 \in Nat
      BY <2>1
    <3> QED
      BY <2>1, <3>1 DEF Entries, EntryStates, Fresh
  <2>3. /\ mods' = [mods EXCEPT ![cursor] = e]
        /\ UNCHANGED <<queue, batch, gone>> /\ pc' # "on_unload"
    BY <1>10 DEF RunReturnsObject
  <2> HIDE DEF e
  <2>4. /\ SameList
        /\ \A j \in DOMAIN mods : mods'[j] = IF j = cursor THEN e ELSE mods[j]
    BY <1>0, <2>1, <2>2, <2>3, EntryReplaced DEF SameList
  <2>5. nobj + 1 \notin gone /\ nobj + 1 # NoObj
        /\ \A i \in DOMAIN mods : /\ mods[i].object # nobj + 1
                                  /\ mods[i].cleanup # nobj + 1
    BY <1>0, <2>1 DEF Shape, TypeOK, HistoryOK, NoObj
  <2>6. EntriesInCustody'
    <3> SUFFICES ASSUME NEW i \in DOMAIN mods
                 PROVE  EntryCustody(mods[i])'
      BY <2>4 DEF EntriesInCustody, SameList
    <3>1. EntryCustody(mods[i])
      BY <1>0
    <3> QED
      BY <2>2, <2>3, <2>4, <2>5, <3>1 DEF EntryCustody
  <2>7. Disjoint'
    <3> SUFFICES ASSUME NEW i \in DOMAIN mods, NEW j \in DOMAIN mods, i # j
                 PROVE  /\ mods'[i].object # NoObj => mods'[i].object # mods'[j].object
                        /\ mods'[i].object # NoObj => mods'[i].object # mods'[j].cleanup
                        /\ mods'[i].cleanup # NoObj => mods'[i].cleanup # mods'[j].cleanup
      BY <2>4 DEF Disjoint, SameList
    <3>1. /\ mods[i].object # NoObj => mods[i].object # mods[j].object
          /\ mods[i].object # NoObj => mods[i].object # mods[j].cleanup
          /\ mods[i].cleanup # NoObj => mods[i].cleanup # mods[j].cleanup
      BY <1>0 DEF Disjoint
    <3> QED
      BY <2>2, <2>4, <2>5, <3>1
  <2>8. QueuesOwe'
    <3>1. \A i \in DOMAIN mods : Queued(mods[i]) => Queued(mods'[i])
      BY <2>1, <2>4 DEF Queued, Fresh
    <3> QED
      BY <1>0, <2>3, <2>4, <3>1 DEF QueuesOwe, SameList
  <2> QED
    BY <1>0, <2>3, <2>6, <2>7, <2>8
<1>11. ASSUME InitRaises \/ CallbackRaises
       PROVE  Goal
  <2>1. PICK f \in DOMAIN mods :
          mods[f].object # NoObj /\ HandleLifecycleFailure(f)
    BY <1>11, FailsAttached
  <2>2. gone' = gone /\ batch' = batch /\ pc' # "on_unload"
    BY <1>11 DEF InitRaises, CallbackRaises, DrainCleanup, historyVars, objectVars
  <2>3. SameList /\ Carried
    BY <1>0, <2>1, FailureCarries DEF Carried
  <2>4. \A i \in DOMAIN mods : InQueue(queue', i) \/ InQueue(batch', i) =>
          Queued(mods[i]) \/ Detached(mods[i], mods'[i])
    BY <1>0, <2>1, <2>2, FailureCarries DEF QueuesOwe
  <2> QED
    BY <1>3, <2>2, <2>3, <2>4
<1> QED
  BY <1>0, <1>1, <1>2, <1>4, <1>5, <1>6, <1>7, <1>8, <1>9, <1>10, <1>11, QuietSteps
     DEF Next, Manager, ModCode

\* The entry at the head of the batch was claimed for its cleanup.
LEMMA CallOnUnloadClaimed ==
  ASSUME Shape, Custody, batch # <<>>
  PROVE  Head(batch) \in DOMAIN mods /\ mods[Head(batch)].claimed
<1>1. batch \in Seq(DOMAIN mods)
  BY DEF Shape, TypeOK, EntriesOK
<1>2. Head(batch) \in DOMAIN mods
  BY <1>1, HeadTailProperties
<1>3. InQueue(batch, Head(batch))
  BY <1>1, InTail
<1> QED
  BY <1>2, <1>3 DEF Custody, QueuesOwe, Queued

\* Every step leaves the untried entries of a pass untouched, and a pass only
\* begins on a list that is untouched.
LEMMA UntriedNext ==
  ASSUME Shape, Custody, [Next]_vars
  PROVE  Untried'
<1> DEFINE Goal == Untried'
<1>0. /\ EntriesOK /\ FieldsOK /\ ControlOK
      /\ QueueControl /\ CursorControl /\ CallControl
      /\ Untried /\ EntriesInCustody /\ QueuesOwe
      /\ Len(mods) \in Nat /\ DOMAIN mods = 1..Len(mods)
      /\ cursor \in Nat \cup {Nil} /\ pc \in Controls /\ ret \in Continuations
      /\ passErrors \in BOOLEAN /\ generation \in Nat
  BY DEF Shape, TypeOK, EntriesOK, FieldsOK, ControlOK, Custody
<1> USE <1>0 DEF Untried, CursorControl, Heading, Loading, Teardown, PassOpen,
        Controls, Continuations, Callbacks, Nil, ClosePass, LeaveLoop,
        DrainCleanup, FanOut, Dispatch, Ask, vars,
        fieldVars, historyVars, entryVars, passVars, stopVars, globalVars,
        reloadVars, adapterVars, loopVars, objectVars, eraVars, askVars
<1>1. CASE RequestReload
  BY <1>1 DEF RequestReload
<1>2. CASE SetReloadRequested
  <2>1. modsLoaded \/ ~ModCodeRan
    <3> SUFFICES ASSUME ~modsLoaded
                 PROVE  ~ModCodeRan
      OBVIOUS
    <3>1. \A i \in DOMAIN mods : /\ mods[i].state = "not_loaded"
                                 /\ mods[i].object = NoObj /\ ~mods[i].claimed
      BY DEF Fresh
    <3>2. pc \notin {"run", "init", "on_reload"}
      OBVIOUS
    <3>3. pc \notin {"update", "gsc"}
      BY <3>1 DEF CallControl
    <3>4. pc # "on_unload"
      BY <3>1, CallOnUnloadClaimed DEF QueueControl
    <3> QED
      BY <3>1, <3>2, <3>3, <3>4 DEF ModCodeRan
  <2> QED
    BY <1>2, <2>1 DEF SetReloadRequested
<1>3. CASE UpdateTeardown
  BY <1>3 DEF UpdateTeardown, ForgetReload
<1>4. CASE UpdateAnchor
  BY <1>4 DEF UpdateAnchor, NewPass, Resume, ReplacementDue
<1>5. CASE UpdateLoad
  BY <1>5 DEF UpdateLoad
<1>6. CASE UpdateDrive
  BY <1>6 DEF UpdateDrive
<1>7. CASE GameStateChanged
  BY <1>7 DEF GameStateChanged
<1>8. CASE Destroy
  BY <1>8 DEF Destroy
<1>9. CASE TakeQueue
  BY <1>9 DEF TakeQueue
<1>10. CASE CallOnUnload
  <2>1. SameList /\ \A i \in DOMAIN mods : Fresh(mods[i]) => Fresh(mods'[i])
    <3>1. /\ Head(batch) \in DOMAIN mods /\ mods[Head(batch)].claimed
      BY <1>10, CallOnUnloadClaimed DEF CallOnUnload
    <3>2. \A i \in DOMAIN mods : i # Head(batch) => mods'[i] = mods[i]
      BY <1>10 DEF CallOnUnload, EntriesOK
    <3>3. SameList
      BY <1>10 DEF CallOnUnload, EntriesOK, SameList
    <3> QED
      BY <3>1, <3>2, <3>3 DEF Fresh
  <2> QED
    BY <1>10, <2>1 DEF CallOnUnload, SameList
<1>11. CASE DrainEnds
  BY <1>11 DEF DrainEnds
<1>12. CASE CallOnReload
  BY <1>12 DEF CallOnReload
<1>13. CASE TeardownDetach
  <2>1. SameList /\ \A i \in DOMAIN mods : Fresh(mods[i]) => Fresh(mods'[i])
    BY <1>13, DetachAllCarries DEF TeardownDetach
  <2> QED
    BY <1>13, <2>1 DEF TeardownDetach, SameList
<1>14. CASE EntryLoaded
  BY <1>14 DEF EntryLoaded
<1>15. ASSUME NEW retired \in BOOLEAN, EntryStopped(retired)
       PROVE  Goal
  BY <1>15 DEF EntryStopped
<1>16. CASE AdvanceCursor
  BY <1>16 DEF AdvanceCursor, PassComplete, NextCursor
<1>17. CASE FinalizeLoadPass
  BY <1>17 DEF FinalizeLoadPass, PassComplete, NextCursor, SettleReload
<1>18. CASE DriveUpdate
  BY <1>18 DEF DriveUpdate
<1>19. CASE CallEntry
  <2>1. event \in {"update", "gsc"}
    BY DEF ControlOK
  <2> QED
    BY <1>19, <2>1 DEF CallEntry
<1>20. CASE FanOutEnds
  BY <1>20 DEF FanOutEnds
<1>21. ASSUME NEW retired \in BOOLEAN, Settle(retired)
       PROVE  Goal
  BY <1>21 DEF Settle
<1>22. CASE DestroyDetach
  <2>1. SameList /\ \A i \in DOMAIN mods : Fresh(mods[i]) => Fresh(mods'[i])
    BY <1>22, DetachAllCarries DEF DestroyDetach
  <2> QED
    BY <1>22, <2>1 DEF DestroyDetach, SameList
<1>23. CASE RunReturnsObject
  <2>1. SameList /\ \A i \in DOMAIN mods : i # cursor => mods'[i] = mods[i]
    BY <1>23 DEF RunReturnsObject, EntriesOK, SameList
  <2> QED
    BY <1>23, <2>1 DEF RunReturnsObject, SameList
<1>24. CASE LoadEscapes
  BY <1>24 DEF LoadEscapes
<1>25. CASE InitReturns
  BY <1>25 DEF InitReturns
<1>26. CASE InitRaises
  <2>1. PICK f \in DOMAIN mods :
          mods[f].object # NoObj /\ HandleLifecycleFailure(f)
    BY <1>26, FailsAttached
  <2>2. ~Fresh(mods[f])
    BY <2>1 DEF Fresh
  <2>3. /\ SameList
        /\ \A i \in DOMAIN mods : ~stopPass' /\ Fresh(mods[i]) => Fresh(mods'[i])
    BY <2>1, <2>2, FailureCarries
  <2>4. ~stopPass' => ~stopPass
    BY <2>1 DEF HandleLifecycleFailure, Disable, StopGeneration
  <2> QED
    BY <1>26, <2>2, <2>3, <2>4 DEF InitRaises, SameList
<1>27. CASE CallbackReturns
  BY <1>27 DEF CallbackReturns
<1>28. CASE CallbackRaises
  <2>1. PICK f \in DOMAIN mods :
          mods[f].object # NoObj /\ HandleLifecycleFailure(f)
    BY <1>28, FailsAttached
  <2>2. ~Fresh(mods[f])
    BY <2>1 DEF Fresh
  <2>3. /\ SameList
        /\ \A i \in DOMAIN mods : ~stopPass' /\ Fresh(mods[i]) => Fresh(mods'[i])
    BY <2>1, <2>2, FailureCarries
  <2>4. ~stopPass' => ~stopPass
    BY <2>1 DEF HandleLifecycleFailure, Disable, StopGeneration
  <2> QED
    BY <1>28, <2>2, <2>3, <2>4 DEF CallbackRaises, SameList
<1>29. ASSUME NEW ok \in BOOLEAN,
          OnUnloadReturns(ok)
       PROVE  Goal
  <2>1. SameList /\ \A i \in DOMAIN mods : Fresh(mods[i]) => Fresh(mods'[i])
    <3>1. /\ Head(batch) \in DOMAIN mods /\ mods[Head(batch)].claimed
      BY <1>29, CallOnUnloadClaimed DEF OnUnloadReturns, QueueControl
    <3>2. \A i \in DOMAIN mods : i # Head(batch) => mods'[i] = mods[i]
      BY <1>29 DEF OnUnloadReturns, EntriesOK
    <3>3. SameList
      BY <1>29 DEF OnUnloadReturns, EntriesOK, SameList
    <3> QED
      BY <3>1, <3>2, <3>3 DEF Fresh
  <2> QED
    BY <1>29, <2>1 DEF OnUnloadReturns, SameList
<1>30. ASSUME NEW ok \in BOOLEAN,
          RunReturnsNoObject(ok)
       PROVE  Goal
  <2>1. SameList /\ \A i \in DOMAIN mods : i # cursor => mods'[i] = mods[i]
    BY <1>30 DEF RunReturnsNoObject, EntriesOK, SameList
  <2> QED
    BY <1>30, <2>1 DEF RunReturnsNoObject, SameList
<1>31. ASSUME NEW outcome \in {"data", "nil", "absent", "error"},
          OnReloadReturns(outcome)
       PROVE  Goal
  BY <1>31 DEF OnReloadReturns
<1>32. ASSUME NEW order \in Orders, NEW readable \in BOOLEAN,
          NEW retired \in BOOLEAN, Rescan(order, readable, retired)
       PROVE  Goal
  <2>1. \A i \in DOMAIN mods' : Fresh(mods'[i])
    <3>1. order \in Seq(Names)
      BY ConstantsAssumption
    <3> QED
      BY <1>32, <3>1, ScanFresh DEF Rescan
  <2> QED
    BY <1>32, <2>1 DEF Rescan
<1>33. CASE UNCHANGED vars
  BY <1>33
<1> QED
  BY <1>1, <1>2, <1>3, <1>4, <1>5, <1>6, <1>7, <1>8, <1>9, <1>10,
     <1>11, <1>12, <1>13, <1>14, <1>15, <1>16, <1>17, <1>18, <1>19, <1>20,
     <1>21, <1>22, <1>23, <1>24, <1>25, <1>26, <1>27, <1>28, <1>29, <1>30,
     <1>31, <1>32, <1>33
     DEF Next, Update, Manager, ModCode

\* Nothing is held or owed when the manager starts (init).
LEMMA CustodyInit == Init => Custody
<1> SUFFICES ASSUME Init
             PROVE  Custody
  OBVIOUS
<1>1. \A i \in DOMAIN mods : Fresh(mods[i])
  <2>1. CASE mods = <<>>
    BY <2>1
  <2>2. CASE \E order \in Orders : mods = Scan(order)
    BY <2>2, ConstantsAssumption, ScanFresh
  <2> QED
    BY <2>1, <2>2 DEF Init, ScanResults
<1>2. EntriesInCustody /\ Disjoint
  BY <1>1 DEF EntriesInCustody, EntryCustody, Disjoint, Fresh
<1>3. QueuesOwe /\ 0 \notin gone
  BY DEF Init, QueuesOwe, InQueue
<1>4. Untried
  BY <1>1 DEF Init, Untried, Heading, Teardown, PassOpen
<1> QED
  BY <1>2, <1>3, <1>4 DEF Custody

\* Every step keeps custody: the two halves together.
LEMMA CustodyNext == Shape /\ Custody /\ [Next]_vars => Custody'
BY HoldingNext, UntriedNext DEF Custody

\* Shape and custody are invariant together.
LEMMA CustodyInvariant == Spec => [](Shape /\ Custody)
<1>1. Init => Shape /\ Custody
  BY ShapeInit, CustodyInit
<1>2. Shape /\ Custody /\ [Next]_vars => (Shape /\ Custody)'
  BY ShapeNext, CustodyNext
<1> QED
  BY <1>1, <1>2, PTL DEF Spec

\* An entry that failed, or whose cleanup was claimed, never holds an object
\* that could be driven again (_handle_lifecycle_failure, _queue_cleanup).
THEOREM FailedOnceIsDetached == Spec => []OneStrike
<1>1. Shape /\ Custody => OneStrike
  BY DEF Custody, EntriesInCustody, EntryCustody, OneStrike, Attached
<1> QED
  BY <1>1, CustodyInvariant, PTL

\* Every driving and on_reload call finds an object that run() returned and
\* whose on_unload was never called (_call_outer, _call_teardown).
THEOREM CallsFindLiveObjects == Spec => []NoCallAfterUnload
<1>1. ASSUME Shape, Custody
      PROVE  NoCallAfterUnload
  <2> SUFFICES ASSUME pc \in Driving \cup {"on_reload"}
               PROVE  CalledObject \in 1..nobj /\ CalledObject \notin gone
    BY DEF NoCallAfterUnload
  <2>1. \E i \in DOMAIN mods : mods[i].object # NoObj /\ CalledObject = mods[i].object
    <3>1. CASE pc = "init"
      <4>1. cursor \in DOMAIN mods
        BY <1>1, <3>1 DEF Shape, TypeOK, EntriesOK, FieldsOK, CursorControl,
           Heading, Loading, PassOpen, Nil
      <4>2. CalledObject = mods[cursor].object
        BY <3>1 DEF CalledObject, CalledEntry
      <4> QED
        BY <1>1, <3>1, <4>1, <4>2 DEF Shape, CallControl
    <3>2. CASE pc \in {"update", "gsc", "on_reload"}
      <4>1. CalledObject = mods[idx].object
        BY <3>2 DEF CalledObject, CalledEntry
      <4> QED
        BY <1>1, <3>2, <4>1 DEF Shape, CallControl
    <3> QED
      BY <3>1, <3>2 DEF Driving
  <2>2. PICK i \in DOMAIN mods : mods[i].object # NoObj /\ CalledObject = mods[i].object
    BY <2>1
  <2>3. mods[i].object \in Nat /\ nobj \in Nat /\ mods[i].object <= nobj
    <3>1. mods[i] \in Entries
      BY <1>1 DEF Shape, TypeOK, EntriesOK
    <3>2. nobj \in Nat /\ mods[i].object <= nobj
      BY <1>1 DEF Shape, TypeOK, HistoryOK, Made
    <3> QED
      BY <3>1, <3>2 DEF Entries
  <2>4. mods[i].object \notin gone
    BY <1>1, <2>2 DEF Custody, EntriesInCustody, EntryCustody
  <2> QED
    BY <2>2, <2>3, <2>4 DEF NoObj
<1> QED
  BY <1>1, CustodyInvariant, PTL

\* No object has its on_unload called twice, whatever failures, framework stops,
\* teardowns and destroys detach it (_queue_cleanup, _drain_cleanup).
THEOREM UnloadsAtMostOnce == Spec => UnloadOnce
<1>1. ASSUME Shape, Custody, [Next]_vars, pc' = "on_unload", pc # "on_unload"
      PROVE  CalledObject' \in 1..nobj /\ CalledObject' \notin gone
  <2>1. CallOnUnload
    <3> SUFFICES ASSUME ~CallOnUnload
                 PROVE  FALSE
      OBVIOUS
    <3>1. ControlOK
      BY <1>1 DEF Shape, TypeOK
    <3>2. \/ TakeQueue \/ TeardownDetach \/ DestroyDetach \/ FinalizeLoadPass
          \/ RunReturnsObject \/ InitRaises \/ CallbackRaises
          \/ \E ok \in BOOLEAN : OnUnloadReturns(ok) \/ RunReturnsNoObject(ok)
          \/ \E order \in Orders, readable \in BOOLEAN, retired \in BOOLEAN :
               Rescan(order, readable, retired)
      BY <1>1, <3>1, QuietSteps DEF Next, Manager, ModCode
    <3>3. pc' # "on_unload"
      BY <3>2 DEF TakeQueue, TeardownDetach, DestroyDetach, FinalizeLoadPass,
         RunReturnsObject, InitRaises, CallbackRaises, OnUnloadReturns,
         RunReturnsNoObject, Rescan, DrainCleanup
    <3> QED
      BY <1>1, <3>3
  <2> DEFINE h == Head(batch)
  <2>2. /\ ~mods[h].done /\ batch' = batch
        /\ mods' = [mods EXCEPT ![h].done = TRUE]
    BY <1>1, <2>1 DEF CallOnUnload
  <2>3. batch # <<>> /\ h \in DOMAIN mods /\ Queued(mods[h])
    <3>1. batch # <<>> /\ batch \in Seq(DOMAIN mods)
      BY <1>1, <2>1 DEF CallOnUnload, Shape, TypeOK, EntriesOK
    <3>2. h \in DOMAIN mods /\ InQueue(batch, h)
      BY <3>1, HeadTailProperties, InTail
    <3> QED
      BY <1>1, <3>1, <3>2 DEF Custody, QueuesOwe
  <2>4. mods[h].cleanup # NoObj /\ mods[h].cleanup \notin gone
    BY <1>1, <2>2, <2>3 DEF Queued, Custody, EntriesInCustody, EntryCustody
  <2>5. mods[h] \in Entries /\ mods[h].cleanup <= nobj /\ nobj \in Nat
    BY <1>1, <2>3 DEF Shape, TypeOK, EntriesOK, HistoryOK, Made
  <2>6. CalledObject' = mods[h].cleanup
    <3>1. mods'[h].cleanup = mods[h].cleanup
      BY <2>2, <2>3, <2>5 DEF Entries
    <3> QED
      BY <1>1, <2>2, <3>1 DEF CalledObject, CalledEntry
  <2> QED
    BY <2>4, <2>5, <2>6 DEF Entries, NoObj
<1>2. Shape /\ Custody /\ [Next]_vars =>
        [pc' = "on_unload" /\ pc # "on_unload" =>
           /\ CalledObject' \in 1..nobj
           /\ CalledObject' \notin gone]_vars
  BY <1>1
<1> QED
  BY <1>2, CustodyInvariant, PTL DEF Spec, UnloadOnce

-------------------------------------------------------------------------------
(* Layer 3: no object is forgotten.                                        *)

\* The entry holds object o: it drives it or owes its on_unload.
Holds(e, o) == e.object = o \/ (Owes(e) /\ e.cleanup = o)

\* Every object was unloaded, or an entry holds it.
Held ==
  \A o \in 1..nobj : o \in gone \/ \E i \in DOMAIN mods : Holds(mods[i], o)

\* Every entry that owes an on_unload is queued, or in the batch being drained.
OwedIsQueued ==
  \A i \in DOMAIN mods :
    Owes(mods[i]) => InQueue(queue, i) \/ InQueue(batch, i)

\* The list is only read again when every entry was detached.
DetachedAtRescan ==
  Heading = "rescan" => \A i \in DOMAIN mods : mods[i].object = NoObj

Account == Held /\ OwedIsQueued /\ DetachedAtRescan

\* No object exists when the manager starts, so all are accounted for (init).
LEMMA AccountInit == Init => Account
<1> SUFFICES ASSUME Init
             PROVE  Account
  OBVIOUS
<1>1. Held
  BY DEF Init, Held
<1>2. OwedIsQueued
  <2>1. ASSUME NEW i \in DOMAIN mods
        PROVE  ~Owes(mods[i])
    <3>1. \A j \in DOMAIN mods : Fresh(mods[j])
      BY CustodyInit DEF Init, Custody, Untried
    <3> QED
      BY <2>1, <3>1 DEF Fresh, Owes
  <2> QED
    BY <2>1 DEF OwedIsQueued
<1> QED
  BY <1>1, <1>2 DEF Account, DetachedAtRescan, Init, Heading

\* When nothing is attached, queued or being drained, everything was unloaded.
LEMMA AllUnloaded ==
  ASSUME Shape, Custody, Account, queue = <<>>, batch = <<>>,
         NEW o \in 1..nobj, \A i \in DOMAIN mods : mods[i].object # o
  PROVE  o \in gone
<1>1. \A i \in DOMAIN mods : ~Owes(mods[i])
  BY DEF Account, OwedIsQueued, InQueue
<1> QED
  BY <1>1 DEF Account, Held, Holds

\* Every step accounts for every object.
LEMMA AccountNext ==
  ASSUME Shape, Custody, Account, [Next]_vars
  PROVE  Account'
<1> DEFINE Goal == Account'
<1>0. /\ EntriesOK /\ FieldsOK /\ ControlOK /\ nobj \in Nat
      /\ EntriesInCustody /\ Disjoint /\ QueuesOwe
      /\ Held /\ OwedIsQueued /\ DetachedAtRescan
      /\ Len(mods) \in Nat /\ DOMAIN mods = 1..Len(mods)
      /\ \A i \in DOMAIN mods : mods[i] \in Entries /\ EntryCustody(mods[i])
  BY DEF Shape, TypeOK, EntriesOK, HistoryOK, Custody, EntriesInCustody, Account
\* The steps that neither reach the end of a teardown nor attach an object.
<1>1. ASSUME Heading' = "rescan" => Heading = "rescan",
             SameList, Carried
      PROVE  DetachedAtRescan'
  BY <1>0, <1>1 DEF DetachedAtRescan, SameList, Carried, Kept, Detached, Settled
<1>2. ASSUME SameList, Carried, gone' = gone, nobj' = nobj
      PROVE  Held'
  <2>1. ASSUME NEW i \in DOMAIN mods, NEW o \in 1..nobj, Holds(mods[i], o)
        PROVE  Holds(mods'[i], o)
    <3>1. /\ \/ Kept(mods[i], mods'[i])
             \/ Detached(mods[i], mods'[i])
             \/ Settled(mods[i], mods'[i])
          /\ EntryCustody(mods[i]) /\ o # NoObj
      BY <1>0, <1>2 DEF Carried, NoObj
    <3> QED
      BY <2>1, <3>1 DEF Holds, Owes, Kept, Detached, Settled, EntryCustody
  <2> QED
    BY <1>0, <1>2, <2>1 DEF Held, SameList
<1>3. ASSUME EntriesUnchanged, Heading' = "rescan" => Heading = "rescan"
      PROVE  Goal
  BY <1>0, <1>3 DEF EntriesUnchanged, Account, Held, OwedIsQueued, DetachedAtRescan
<1>4. CASE TakeQueue
  <2>1. /\ UNCHANGED <<mods, gone, nobj>> /\ batch' = queue /\ queue' = <<>>
        /\ pc = "drain" /\ pc' = "draining" /\ ret' = ret
    BY <1>4 DEF TakeQueue, historyVars, objectVars
  <2>2. batch = <<>>
    BY <2>1 DEF Shape, QueueControl
  <2>3. OwedIsQueued'
    BY <1>0, <2>1, <2>2 DEF OwedIsQueued, InQueue
  <2>4. Heading' = Heading
    BY <2>1 DEF Heading
  <2> QED
    BY <1>0, <2>1, <2>3, <2>4 DEF Account, Held, DetachedAtRescan
<1>5. CASE CallOnUnload
  <2> DEFINE h == Head(batch)
  <2>1. /\ h \in DOMAIN mods /\ mods[h].claimed
        /\ \A i : InQueue(batch, i) <=> i = h \/ InQueue(Tail(batch), i)
    BY <1>0, <1>5, CallOnUnloadClaimed, InTail DEF CallOnUnload, EntriesOK
  <2>2. mods[h].object = NoObj /\ mods[h] \in Entries
    BY <1>0, <2>1 DEF EntryCustody
  <2>3. Heading' = Heading /\ nobj' = nobj /\ queue' = queue
    BY <1>5 DEF CallOnUnload, Heading
  <2>4. CASE mods[h].done
    <3> DEFINE e == [mods[h] EXCEPT !.cleanup = NoObj]
    <3>1. /\ mods' = [mods EXCEPT ![h] = e] /\ batch' = Tail(batch) /\ gone' = gone
      BY <1>5, <2>4 DEF CallOnUnload
    <3>2. e \in Entries /\ Settled(mods[h], e) /\ ~Owes(e)
      BY <2>1, <2>2, <2>4 DEF Entries, Settled, Owes, NoObj
    <3> HIDE DEF e, h
    <3>3. /\ SameList
          /\ \A j \in DOMAIN mods : mods'[j] = IF j = h THEN e ELSE mods[j]
      BY <1>0, <2>1, <3>1, <3>2, EntryReplaced DEF SameList
    <3>4. Carried
      BY <3>2, <3>3 DEF Carried, Kept
    <3>5. OwedIsQueued'
      BY <1>0, <2>1, <2>3, <3>1, <3>2, <3>3 DEF OwedIsQueued, SameList
    <3> QED
      BY <1>1, <1>2, <2>3, <3>1, <3>3, <3>4, <3>5 DEF Account
  <2>5. CASE ~mods[h].done
    <3> DEFINE e == [mods[h] EXCEPT !.done = TRUE]
    <3>1. /\ mods' = [mods EXCEPT ![h] = e] /\ batch' = batch
          /\ gone' = gone \cup {mods[h].cleanup}
      BY <1>5, <2>5 DEF CallOnUnload
    <3>2. /\ e \in Entries /\ e.object = NoObj /\ ~Owes(e)
      BY <2>2 DEF Entries, Owes
    <3> HIDE DEF e, h
    <3>3. /\ SameList
          /\ \A j \in DOMAIN mods : mods'[j] = IF j = h THEN e ELSE mods[j]
      BY <1>0, <2>1, <3>1, <3>2, EntryReplaced DEF SameList
    <3>4. Held'
      <4> SUFFICES ASSUME NEW o \in 1..nobj, o \notin gone'
                   PROVE  \E i \in DOMAIN mods : Holds(mods'[i], o)
        BY <2>3, <3>3 DEF Held, SameList
      <4>1. PICK i \in DOMAIN mods : Holds(mods[i], o)
        BY <1>0, <3>1 DEF Held
      <4>2. i # h
        BY <2>2, <3>1, <4>1 DEF Holds, NoObj
      <4> QED
        BY <3>3, <4>1, <4>2
    <3>5. OwedIsQueued'
      BY <1>0, <2>3, <3>1, <3>2, <3>3 DEF OwedIsQueued, SameList
    <3>6. DetachedAtRescan'
      BY <1>0, <2>3, <3>2, <3>3 DEF DetachedAtRescan, SameList
    <3> QED
      BY <3>4, <3>5, <3>6 DEF Account
  <2> QED
    BY <2>4, <2>5
<1>6. ASSUME NEW ok \in BOOLEAN, OnUnloadReturns(ok)
      PROVE  Goal
  <2> DEFINE h == Head(batch)
             e == [mods[h] EXCEPT !.cleanup = NoObj]
  <2>1. /\ h \in DOMAIN mods /\ mods[h].claimed /\ mods[h].done
        /\ \A i : InQueue(batch, i) <=> i = h \/ InQueue(Tail(batch), i)
    <3>1. batch # <<>> /\ batch \in Seq(DOMAIN mods) /\ mods[h].done
      BY <1>0, <1>6 DEF OnUnloadReturns, EntriesOK, Shape, QueueControl, QueuesOwe
    <3> QED
      BY <3>1, CallOnUnloadClaimed, InTail
  <2>2. /\ mods' = [mods EXCEPT ![h] = e] /\ batch' = Tail(batch)
        /\ UNCHANGED <<queue, gone, nobj>>
    BY <1>6 DEF OnUnloadReturns, historyVars, objectVars
  <2>3. mods[h].object = NoObj /\ mods[h] \in Entries
    BY <1>0, <2>1 DEF EntryCustody
  <2>4. e \in Entries /\ Settled(mods[h], e) /\ ~Owes(e)
    BY <2>1, <2>3 DEF Entries, Settled, Owes, NoObj
  <2> HIDE DEF e, h
  <2>5. /\ SameList
        /\ \A j \in DOMAIN mods : mods'[j] = IF j = h THEN e ELSE mods[j]
    BY <1>0, <2>1, <2>2, <2>4, EntryReplaced DEF SameList
  <2>6. Carried
    BY <2>4, <2>5 DEF Carried, Kept
  <2>7. OwedIsQueued'
    BY <1>0, <2>1, <2>2, <2>4, <2>5 DEF OwedIsQueued, SameList
  <2>8. Heading' = Heading
    BY <1>6 DEF OnUnloadReturns, Heading
  <2> QED
    BY <1>1, <1>2, <2>2, <2>5, <2>6, <2>7, <2>8 DEF Account
<1>7. ASSUME TeardownDetach \/ DestroyDetach
      PROVE  Goal
  <2>1. DetachAll /\ UNCHANGED <<gone, nobj, batch>>
    BY <1>7 DEF TeardownDetach, DestroyDetach, historyVars, objectVars
  <2>2. SameList /\ Carried
    BY <1>0, <2>1, DetachAllCarries DEF Carried
  <2>3. OwedIsQueued'
    <3> SUFFICES ASSUME NEW i \in DOMAIN mods, Owes(mods'[i])
                 PROVE  InQueue(queue', i) \/ InQueue(batch', i)
      BY <2>2 DEF OwedIsQueued, SameList
    <3>1. Owes(mods[i]) \/ mods[i].object # NoObj
      BY <1>0, <2>1, DetachAllCarries DEF Kept, Owes
    <3> QED
      BY <1>0, <2>1, <3>1, DetachAllCarries DEF OwedIsQueued
  <2>4. DetachedAtRescan'
    BY <1>0, <2>1, <2>2, DetachAllCarries DEF DetachedAtRescan, SameList
  <2> QED
    BY <1>2, <2>1, <2>2, <2>3, <2>4 DEF Account
<1>8. ASSUME NEW order \in Orders, NEW readable \in BOOLEAN,
             NEW retired \in BOOLEAN, Rescan(order, readable, retired)
      PROVE  Goal
  <2>1. /\ pc = "rescan" /\ pc' = "idle" /\ UNCHANGED <<queue, batch, gone, nobj>>
        /\ mods' = Scan(order) \/ mods' = <<>>
    BY <1>8 DEF Rescan, historyVars, objectVars
  <2>2. queue = <<>> /\ batch = <<>>
    BY <2>1 DEF Shape, QueueControl
  <2>3. \A i \in DOMAIN mods : mods[i].object = NoObj
    BY <1>0, <2>1 DEF DetachedAtRescan, Heading
  <2>4. \A o \in 1..nobj : o \in gone
    BY <2>2, <2>3, AllUnloaded DEF NoObj
  <2>5. \A i \in DOMAIN mods' : Fresh(mods'[i])
    <3>1. order \in Seq(Names)
      BY ConstantsAssumption
    <3> QED
      BY <2>1, <3>1, ScanFresh
  <2> QED
    BY <2>1, <2>4, <2>5 DEF Account, Held, OwedIsQueued, DetachedAtRescan,
       Heading, Owes, Fresh
<1>9. CASE FinalizeLoadPass
  <2>1. /\ mods' = [i \in DOMAIN mods |->
                      IF stopPass /\ mods[i].state = "not_loaded"
                      THEN [mods[i] EXCEPT !.state = "skipped"] ELSE mods[i]]
        /\ UNCHANGED <<queue, batch, gone, nobj>> /\ pc' = "drive"
    BY <1>9 DEF FinalizeLoadPass, historyVars, objectVars
  <2>2. SameList
    BY <1>0, <2>1 DEF SameList, EntriesOK
  <2>3. ASSUME NEW i \in DOMAIN mods
        PROVE  Kept(mods[i], mods'[i])
    <3>1. mods[i] \in Entries /\ EntryCustody(mods[i])
      BY <1>0
    <3>2. mods'[i] = IF stopPass /\ mods[i].state = "not_loaded"
                     THEN [mods[i] EXCEPT !.state = "skipped"] ELSE mods[i]
      BY <2>1
    <3> QED
      BY <3>1, <3>2 DEF Kept, EntryCustody, Entries
  <2>4. Carried /\ OwedIsQueued'
    BY <1>0, <2>1, <2>2, <2>3 DEF Carried, OwedIsQueued, SameList, Owes, Kept
  <2>5. Heading' # "rescan"
    BY <2>1 DEF Heading
  <2> QED
    BY <1>1, <1>2, <2>1, <2>2, <2>4, <2>5 DEF Account
<1>10. ASSUME NEW ok \in BOOLEAN, RunReturnsNoObject(ok)
       PROVE  Goal
  <2> DEFINE e == [mods[cursor] EXCEPT !.state = IF ok THEN "dmf_driven" ELSE "failed",
                                       !.object = IF ok THEN @ ELSE NoObj]
  <2>1. cursor \in DOMAIN mods /\ Fresh(mods[cursor])
    BY <1>10, RunIsFresh DEF RunReturnsNoObject, Custody
  <2>2. e \in Entries /\ Kept(mods[cursor], e)
    <3>1. mods[cursor] \in Entries
      BY <1>0, <2>1
    <3> QED
      BY <2>1, <3>1 DEF Entries, EntryStates, Kept, Fresh, NoObj
  <2>3. /\ mods' = [mods EXCEPT ![cursor] = e]
        /\ UNCHANGED <<queue, batch, gone, nobj>>
        /\ pc' = "drain" /\ ret' = "loaded"
    BY <1>10 DEF RunReturnsNoObject, DrainCleanup, historyVars, objectVars
  <2> HIDE DEF e
  <2>4. /\ SameList
        /\ \A j \in DOMAIN mods : mods'[j] = IF j = cursor THEN e ELSE mods[j]
    BY <1>0, <2>1, <2>2, <2>3, EntryReplaced DEF SameList
  <2>5. Carried
    BY <2>2, <2>4 DEF Carried, Kept
  <2>6. OwedIsQueued'
    BY <1>0, <2>2, <2>3, <2>4 DEF OwedIsQueued, SameList, Owes, Kept
  <2>7. Heading' # "rescan"
    BY <2>3 DEF Heading
  <2> QED
    BY <1>1, <1>2, <2>3, <2>4, <2>5, <2>6, <2>7 DEF Account
<1>11. CASE RunReturnsObject
  <2> DEFINE e == [mods[cursor] EXCEPT !.object = nobj + 1, !.state = "running"]
  <2>1. /\ cursor \in DOMAIN mods /\ Fresh(mods[cursor])
        /\ mods[cursor] \in Entries
    BY <1>0, <1>11, RunIsFresh DEF RunReturnsObject, Custody
  <2>2. e \in Entries /\ e.object = nobj + 1 /\ e.cleanup = NoObj
    <3>1. nobj + 1 \in Nat
      BY <1>0
    <3> QED
      BY <2>1, <3>1 DEF Entries, EntryStates, Fresh
  <2>3. /\ mods' = [mods EXCEPT ![cursor] = e] /\ nobj' = nobj + 1
        /\ UNCHANGED <<queue, batch, gone>> /\ pc' = "init"
    BY <1>11 DEF RunReturnsObject
  <2> HIDE DEF e
  <2>4. /\ SameList
        /\ \A j \in DOMAIN mods : mods'[j] = IF j = cursor THEN e ELSE mods[j]
    BY <1>0, <2>1, <2>2, <2>3, EntryReplaced DEF SameList
  <2>5. Held'
    <3> SUFFICES ASSUME NEW o \in 1..(nobj + 1), o \notin gone
                 PROVE  \E i \in DOMAIN mods : Holds(mods'[i], o)
      BY <2>3, <2>4 DEF Held, SameList
    <3>1. CASE o = nobj + 1
      BY <2>1, <2>2, <2>4, <3>1 DEF Holds
    <3>2. CASE o # nobj + 1
      <4>1. o \in 1..nobj
        BY <1>0, <3>2
      <4>2. PICK i \in DOMAIN mods : Holds(mods[i], o)
        BY <1>0, <4>1 DEF Held
      <4>3. i # cursor
        BY <2>1, <4>1, <4>2 DEF Holds, Owes, Fresh, NoObj
      <4> QED
        BY <2>4, <4>2, <4>3
    <3> QED
      BY <3>1, <3>2
  <2>6. OwedIsQueued'
    BY <1>0, <2>2, <2>3, <2>4 DEF OwedIsQueued, SameList, Owes
  <2>7. DetachedAtRescan'
    BY <2>3 DEF DetachedAtRescan, Heading
  <2> QED
    BY <2>5, <2>6, <2>7 DEF Account
<1>12. ASSUME InitRaises \/ CallbackRaises
       PROVE  Goal
  <2>1. PICK f \in DOMAIN mods :
          mods[f].object # NoObj /\ HandleLifecycleFailure(f)
    BY <1>12, FailsAttached
  <2>2. /\ UNCHANGED <<gone, nobj, batch>>
        /\ pc \in {"init", "update", "gsc"}
        /\ pc' = "fan" \/ (pc' = "drain" /\ ret' = "loaded")
    BY <1>12 DEF InitRaises, CallbackRaises, DrainCleanup, historyVars, objectVars
  <2>3. SameList /\ Carried
    BY <1>0, <2>1, FailureCarries DEF Carried
  <2>4. batch = <<>>
    BY <2>2 DEF Shape, QueueControl
  <2>5. OwedIsQueued'
    <3> SUFFICES ASSUME NEW i \in DOMAIN mods, Owes(mods'[i])
                 PROVE  InQueue(queue', i)
      BY <2>3 DEF OwedIsQueued, SameList
    <3>1. Owes(mods[i]) => InQueue(queue, i)
      BY <1>0, <2>4 DEF OwedIsQueued, InQueue
    <3> QED
      BY <1>0, <2>1, <3>1, FailureCarries
  <2>6. Heading' # "rescan"
    BY <2>2 DEF Heading
  <2> QED
    BY <1>1, <1>2, <2>2, <2>3, <2>5, <2>6 DEF Account
\* The quiet steps: only the teardown itself heads for the rescan.
<1>13. ASSUME EntriesUnchanged, [Next]_vars, ~TakeQueue, ~CallOnUnload,
              ~TeardownDetach
       PROVE  Heading' = "rescan" => Heading = "rescan"
  <2> USE <1>0 DEF Heading, ControlOK, Continuations
  <2>1. CASE UNCHANGED vars
    BY <2>1 DEF vars
  <2>2. CASE RequestReload \/ SetReloadRequested
    BY <2>2 DEF RequestReload, SetReloadRequested, Ask
  <2>3. CASE Update
    BY <2>3 DEF Update, UpdateTeardown, UpdateAnchor, UpdateLoad, UpdateDrive,
       DrainCleanup
  <2>4. CASE GameStateChanged \/ DriveUpdate
    BY <2>4 DEF GameStateChanged, DriveUpdate, Dispatch, DrainCleanup, FanOut
  <2>5. CASE Destroy \/ CallOnReload \/ DestroyDetach
    BY <2>5 DEF Destroy, CallOnReload, DestroyDetach, DrainCleanup
  <2>6. CASE DrainEnds
    BY <2>6 DEF DrainEnds
  <2>7. CASE EntryLoaded \/ AdvanceCursor \/ FinalizeLoadPass \/ CallEntry \/ FanOutEnds
    BY <2>7 DEF EntryLoaded, AdvanceCursor, FinalizeLoadPass, CallEntry, FanOutEnds,
       DrainCleanup
  <2>8. CASE \E retired \in BOOLEAN : EntryStopped(retired) \/ Settle(retired)
    BY <2>8 DEF EntryStopped, Settle, DrainCleanup
  <2>9. CASE \/ RunReturnsObject \/ LoadEscapes \/ InitReturns
             \/ InitRaises \/ CallbackReturns \/ CallbackRaises
    BY <2>9 DEF RunReturnsObject, LoadEscapes, InitReturns, InitRaises,
       CallbackReturns, CallbackRaises, DrainCleanup
  <2>10. ASSUME NEW ok, OnUnloadReturns(ok) \/ RunReturnsNoObject(ok)
         PROVE  Heading' = "rescan" => Heading = "rescan"
    BY <2>10 DEF OnUnloadReturns, RunReturnsNoObject, DrainCleanup
  <2>11. ASSUME NEW outcome, OnReloadReturns(outcome)
         PROVE  Heading' = "rescan" => Heading = "rescan"
    BY <2>11 DEF OnReloadReturns
  <2>12. ASSUME NEW order, NEW readable, NEW retired, Rescan(order, readable, retired)
         PROVE  Heading' = "rescan" => Heading = "rescan"
    BY <2>12 DEF Rescan
  <2> QED
    BY <1>13, <2>1, <2>2, <2>3, <2>4, <2>5, <2>6, <2>7, <2>8, <2>9, <2>10, <2>11,
       <2>12 DEF Next, Manager, ModCode
<1> QED
  BY <1>0, <1>3, <1>4, <1>5, <1>6, <1>7, <1>8, <1>9, <1>10, <1>11, <1>12, <1>13,
     QuietSteps DEF Next, Manager, ModCode

\* Shape, custody and account are invariant together.
LEMMA AccountInvariant == Spec => [](Shape /\ Custody /\ Account)
<1>1. Init => Account
  BY AccountInit
<1>2. Shape /\ Custody /\ Account /\ [Next]_vars => Account'
  BY AccountNext
<1> QED
  BY <1>1, <1>2, CustodyInvariant, PTL DEF Spec

\* A teardown has unloaded every object when it reads mods.lst again: nothing of
\* the old generation outlives it (_begin_reload).
THEOREM TeardownIsComplete == Spec => []OldGenerationUnloaded
<1>1. ASSUME Shape, Custody, Account, pc = "rescan"
      PROVE  gone = 1..nobj
  <2>1. queue = <<>> /\ batch = <<>>
    BY <1>1 DEF Shape, QueueControl
  <2>2. \A i \in DOMAIN mods : mods[i].object = NoObj
    BY <1>1 DEF Account, DetachedAtRescan, Heading
  <2>3. \A o \in 1..nobj : o \in gone
    BY <1>1, <2>1, <2>2, AllUnloaded DEF NoObj
  <2>4. gone \subseteq 0..nobj /\ 0 \notin gone /\ nobj \in Nat
    BY <1>1 DEF Shape, TypeOK, HistoryOK, Custody
  <2>5. gone \subseteq 1..nobj
    BY <2>4
  <2> QED
    BY <2>3, <2>5
<1>2. Shape /\ Custody /\ Account => OldGenerationUnloaded
  BY <1>1 DEF OldGenerationUnloaded
<1> QED
  BY <1>2, AccountInvariant, PTL

\* Between two handlers every object is attached to its entry or was unloaded:
\* no handler ends with cleanup owed (_drain_cleanup at every handler's end).
THEOREM RestOwesNothing == Spec => []NothingOwedAtRest
<1>1. ASSUME Shape, Custody, Account, pc = "idle"
      PROVE  /\ queue = <<>>
             /\ 1..nobj = gone \cup {mods[i].object : i \in Attached}
             /\ \A i \in Attached : mods[i].object \notin gone
  <2>1. queue = <<>> /\ batch = <<>>
    BY <1>1 DEF Shape, QueueControl
  <2>2. gone \subseteq 0..nobj /\ 0 \notin gone /\ nobj \in Nat
    BY <1>1 DEF Shape, TypeOK, HistoryOK, Custody
  <2>3. \A i \in Attached : mods[i].object \in 1..nobj /\ mods[i].object \notin gone
    <3> SUFFICES ASSUME NEW i \in DOMAIN mods, mods[i].object # NoObj
                 PROVE  mods[i].object \in 1..nobj /\ mods[i].object \notin gone
      BY DEF Attached
    <3>1. mods[i] \in Entries /\ mods[i].object <= nobj
      BY <1>1 DEF Shape, TypeOK, EntriesOK, Made
    <3>2. mods[i].object \notin gone
      BY <1>1 DEF Custody, EntriesInCustody, EntryCustody
    <3> QED
      BY <2>2, <3>1, <3>2 DEF Entries, NoObj
  <2>4. ASSUME NEW o \in 1..nobj
        PROVE  o \in gone \cup {mods[i].object : i \in Attached}
    <3>1. CASE \E i \in DOMAIN mods : mods[i].object = o
      BY <3>1 DEF Attached, NoObj
    <3>2. CASE \A i \in DOMAIN mods : mods[i].object # o
      BY <1>1, <2>1, <3>2, AllUnloaded
    <3> QED
      BY <3>1, <3>2
  <2>5. gone \subseteq 1..nobj
    BY <2>2
  <2>6. {mods[i].object : i \in Attached} \subseteq 1..nobj
    BY <2>3
  <2> QED
    BY <2>1, <2>3, <2>4, <2>5, <2>6
<1>2. Shape /\ Custody /\ Account => NothingOwedAtRest
  BY <1>1 DEF NothingOwedAtRest
<1> QED
  BY <1>2, AccountInvariant, PTL

===============================================================================
