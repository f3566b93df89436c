----------------------------- MODULE LogSinkProofs -----------------------------
(***************************************************************************)
(* What holds of the print sink and the log for every string, every        *)
(* budget and every sequence of worker lines.                              *)
(***************************************************************************)
EXTENDS LogSink, TextProofs

\* A thread in relay_log is there with a line of its own; one of the sink keeps
\* to the budgets.  The lock is held by a thread with a line.
CallsFit ==
  /\ \A t \in Threads : call[t] # NoLine => call[t].by = t
  /\ call["engine"] # NoLine =>
       call["engine"].len <= LineBudget /\ call["engine"].ends
  /\ lock \in Threads => call[lock] # NoLine

LogInv == TypeOK /\ LinesFit /\ StreamsAgree /\ CallsFit

\* The inductive invariant holds when the callback is entered.
LEMMA LogInvInit == Init => LogInv
<1> SUFFICES ASSUME Init PROVE LogInv
  OBVIOUS
<1> USE BudgetAssumption DEF Init, Start, Levels, Threads
<1>1. input \in Seq(Bytes)
  <2>1. PICK n \in 0 .. MaxInput : input \in [1 .. n -> Bytes]
    BY DEF BoundedSeq, SeqOf
  <2> QED
    BY <2>1
<1>2. NoLine \in Lines
  BY DEF NoLine, Lines, Threads
<1>3. TypeOK
  BY <1>1, <1>2 DEF TypeOK
<1>4. LinesFit
  BY DEF LinesFit
<1>5. StreamsAgree
  BY DEF StreamsAgree
<1>6. CallsFit
  BY DEF CallsFit
<1> QED
  BY <1>3, <1>4, <1>5, <1>6 DEF LogInv

\* What a thread hands to relay_log is a line of its own, or nothing.
LEMMA LogHandsOver ==
  ASSUME NEW t \in Threads, NEW lv \in Levels, NEW text \in Seq(Nat),
         NEW len \in Nat, TypeOK, call[t] = NoLine, Log(t, lv, text, len)
  PROVE  /\ call' \in [Threads -> Lines]
         /\ \A u \in Threads \ {t} : call'[u] = call[u]
         /\ call'[t] # NoLine => /\ call'[t].by = t
                                 /\ call'[t].len = len
                                 /\ call'[t].ends = (len + 1 < MessageSize)
<1> DEFINE m == Message(t, text, len)
<1>1. m \in Lines
  <2>1. (len + 1 < MessageSize) \in BOOLEAN
    OBVIOUS
  <2> QED
    BY <2>1, Zenon DEF Message, Lines, Threads
<1>2. call' = call \/ call' = [call EXCEPT ![t] = m]
  BY DEF Log
<1>3. /\ m.by = t /\ m.len = len /\ m.ends = (len + 1 < MessageSize)
  BY DEF Message
<1>4. call \in [Threads -> Lines]
  BY DEF TypeOK
<1>5. CASE call' = call
  BY <1>4, <1>5
<1>6. CASE call' = [call EXCEPT ![t] = m]
  <2>1. call'[t] = m /\ \A u \in Threads \ {t} : call'[u] = call[u]
    BY <1>4, <1>6
  <2>2. call' \in [Threads -> Lines]
    BY <1>1, <1>4, <1>6
  <2> HIDE DEF m
  <2> QED
    BY <1>3, <2>1, <2>2
<1> QED
  BY <1>2, <1>5, <1>6

\* A line of the sink keeps to the line budget and its newline is kept.
LEMMA EmitFits ==
  ASSUME NEW text \in Seq(Nat), NEW len \in Nat, TypeOK, CallsFit,
         call["engine"] = NoLine, Emit(text, len)
  PROVE  /\ call' \in [Threads -> Lines]
         /\ call'["worker"] = call["worker"]
         /\ call'["engine"] # NoLine =>
              /\ call'["engine"].by = "engine"
              /\ call'["engine"].len <= LineBudget
              /\ call'["engine"].ends
<1> DEFINE n == IF len > LineBudget THEN LineBudget ELSE len
<1>1. n \in Nat /\ n <= LineBudget
  BY BudgetAssumption
<1>2. n + 1 < MessageSize
  BY <1>1, BudgetAssumption
<1>3. Log("engine", "info", text, n)
  BY DEF Emit
<1> HIDE DEF n
<1> QED
  BY <1>1, <1>2, <1>3, LogHandsOver DEF Threads, Levels

\* A step of the renderer that emits, or does not, keeps the log's invariant.
LEMMA RenderingKeeps ==
  ASSUME LogInv, Rendering \/ (at = "marker" /\ UNCHANGED <<owed, level, opened, lock, debug, file>>),
         call["engine"] = NoLine,
         call' = call \/ (\E text \in Seq(Nat), len \in Nat : Emit(text, len)),
         input' = input, i' \in Nat, line' \in Seq(Nat), fill' \in Nat,
         fill' <= LineBudget, at' \in {"scan", "marker", "done"}
  PROVE  LogInv'
<1> USE DEF LogInv
<1>1. UNCHANGED <<owed, level, opened, lock, debug, file>>
  BY DEF Rendering
<1>2. /\ call' \in [Threads -> Lines]
      /\ call'["worker"] = call["worker"]
      /\ call'["engine"] # NoLine =>
           /\ call'["engine"].by = "engine"
           /\ call'["engine"].len <= LineBudget
           /\ call'["engine"].ends
  <2>1. CASE call' = call
    BY <2>1 DEF TypeOK
  <2>2. CASE \E text \in Seq(Nat), len \in Nat : Emit(text, len)
    BY <2>2, EmitFits
  <2> QED
    BY <2>1, <2>2
<1>3. TypeOK'
  BY <1>1, <1>2 DEF TypeOK
<1>4. LinesFit'
  BY <1>1 DEF LinesFit
<1>5. lock # "engine"
  BY DEF CallsFit, Threads
<1>6. StreamsAgree'
  BY <1>1, <1>2, <1>5 DEF StreamsAgree, Threads
<1>7. CallsFit'
  BY <1>1, <1>2, <1>5 DEF CallsFit, Threads
<1> QED
  BY <1>3, <1>4, <1>6, <1>7

\* Every step keeps the inductive invariant.
LEMMA LogInvNext == LogInv /\ [Next]_vars => LogInv'
<1> SUFFICES ASSUME LogInv, [Next]_vars PROVE LogInv'
  OBVIOUS
<1> USE DEF LogInv
<1>1. CASE EndLine
  <2>1. AfterBreak \in Nat
    BY DEF AfterBreak, TypeOK
  <2>2. line \in Seq(Nat) /\ fill \in Nat /\ Emit(line, fill)
    BY <1>1 DEF EndLine, TypeOK
  <2>3. call["engine"] = NoLine /\ Rendering /\ input' = input
    BY <1>1 DEF EndLine, Rendering
  <2>4. i' \in Nat /\ line' = <<>> /\ fill' = 0 /\ at' = at
    BY <1>1, <2>1 DEF EndLine
  <2>5. fill' <= LineBudget /\ line' \in Seq(Nat) /\ fill' \in Nat
    BY <2>4, BudgetAssumption
  <2> QED
    BY <2>2, <2>3, <2>4, <2>5, RenderingKeeps DEF TypeOK
<1>2. CASE AddByte
  <2>1. call["engine"] = NoLine /\ Rendering /\ input' = input
    BY <1>2 DEF AddByte, Rendering
  <2>2. i' \in Nat /\ at' = at
    BY <1>2 DEF AddByte, TypeOK
  <2>3. Width(input[i + 1]) \in Nat /\ Width(input[i + 1]) <= LineBudget
    BY BudgetAssumption DEF Width
  <2>4. CASE Fits(input[i + 1])
    <3>1. line' = Append(line, i + 1) /\ fill' = fill + Width(input[i + 1]) /\ call' = call
      BY <1>2, <2>4 DEF AddByte
    <3>2. line' \in Seq(Nat)
      BY <3>1 DEF TypeOK
    <3>3. fill' \in Nat /\ fill' <= LineBudget
      BY <2>3, <2>4, <3>1 DEF TypeOK, Fits
    <3> QED
      BY <2>1, <2>2, <3>1, <3>2, <3>3, RenderingKeeps DEF TypeOK
  <2>5. CASE ~Fits(input[i + 1])
    <3>1. line' = <<i + 1>> /\ fill' = Width(input[i + 1]) /\ Emit(line, fill)
      BY <1>2, <2>5 DEF AddByte, NextLine
    <3>2. line' \in Seq(Nat) /\ line \in Seq(Nat) /\ fill \in Nat
      BY <3>1 DEF TypeOK
    <3> QED
      BY <2>1, <2>2, <2>3, <3>1, <3>2, RenderingKeeps DEF TypeOK
  <2> QED
    BY <2>4, <2>5
<1>3. CASE Flush
  <2>1. call["engine"] = NoLine /\ Rendering /\ input' = input
    BY <1>3 DEF Flush, Rendering
  <2>2. i' = i /\ line' = <<>> /\ fill' = 0 /\ at' \in {"marker", "done"}
    BY <1>3 DEF Flush
  <2>3. call' = call \/ Emit(line, fill)
    BY <1>3 DEF Flush
  <2>4. line \in Seq(Nat) /\ fill \in Nat /\ i' \in Nat /\ line' \in Seq(Nat)
    BY <2>2 DEF TypeOK
  <2>5. fill' \in Nat /\ fill' <= LineBudget
    BY <2>2, BudgetAssumption
  <2> QED
    BY <2>1, <2>2, <2>3, <2>4, <2>5, RenderingKeeps
<1>4. CASE Truncated
  <2>1. Marker \in Seq(Nat) /\ Emit(Marker, 1)
    BY <1>4 DEF Truncated, Marker
  <2>2. /\ at = "marker" /\ at' = "done" /\ call["engine"] = NoLine
        /\ UNCHANGED <<input, i, line, fill, owed, level, opened, lock, debug, file>>
    BY <1>4 DEF Truncated
  <2>3. i' \in Nat /\ line' \in Seq(Nat) /\ fill' \in Nat /\ fill' <= LineBudget
    BY <2>2 DEF TypeOK, LinesFit
  <2> QED
    BY <2>1, <2>2, <2>3, RenderingKeeps
<1>5. CASE WorkerLogs
  <2>1. Head(owed) \in Levels /\ Tail(owed) \in Seq(Levels) /\ <<Len(owed)>> \in Seq(Nat)
    BY <1>5 DEF WorkerLogs, TypeOK
  <2>2. Log("worker", Head(owed), <<Len(owed)>>, 1) /\ call["worker"] = NoLine
    BY <1>5 DEF WorkerLogs
  <2>3. /\ call' \in [Threads -> Lines]
        /\ call'["engine"] = call["engine"]
        /\ call'["worker"] # NoLine => call'["worker"].by = "worker"
    BY <2>1, <2>2, LogHandsOver DEF Threads
  <2>4. /\ UNCHANGED <<renderVars, level, opened, lock, debug, file>>
        /\ owed' = Tail(owed)
    BY <1>5 DEF WorkerLogs
  <2>5. TypeOK'
    BY <2>1, <2>3, <2>4 DEF TypeOK, renderVars
  <2>6. LinesFit'
    BY <2>4 DEF LinesFit, renderVars
  <2>7. lock # "worker"
    BY <2>2 DEF CallsFit, Threads
  <2>8. StreamsAgree'
    BY <2>3, <2>4, <2>7 DEF StreamsAgree, Threads
  <2>9. CallsFit'
    BY <2>3, <2>4, <2>7 DEF CallsFit, Threads
  <2> QED
    BY <2>5, <2>6, <2>8, <2>9
<1>6. ASSUME NEW t \in Threads, WriteDebug(t) PROVE LogInv'
  <2>1. /\ call[t] # NoLine /\ lock = "none" /\ lock' = t
        /\ debug' = Append(debug, call[t])
        /\ UNCHANGED <<renderVars, owed, level, opened, call, file>>
    BY <1>6 DEF WriteDebug
  <2>2. call[t] \in Lines /\ t \in Threads /\ debug \in Seq(Lines)
    BY DEF TypeOK
  <2>3. debug' \in Seq(Lines)
    BY <2>1, <2>2
  <2>4. TypeOK'
    BY <2>1, <2>3 DEF TypeOK, renderVars
  <2>5. call[t].by = t /\ (t = "engine" => call[t].len <= LineBudget /\ call[t].ends)
    BY <2>1 DEF CallsFit
  <2>6. LinesFit'
    <3>1. ASSUME NEW k \in DOMAIN debug', debug'[k].by = "engine"
          PROVE  debug'[k].len <= LineBudget /\ debug'[k].ends
      <4>1. CASE k \in DOMAIN debug
        <5>1. debug'[k] = debug[k]
          BY <2>1, <2>2, <4>1
        <5> QED
          BY <3>1, <4>1, <5>1 DEF LinesFit
      <4>2. CASE k \notin DOMAIN debug
        <5>1. debug'[k] = call[t]
          BY <2>1, <2>2, <4>2
        <5> QED
          BY <2>5, <3>1, <5>1
      <4> QED
        BY <4>1, <4>2
    <3>2. fill' <= LineBudget
      BY <2>1 DEF LinesFit, renderVars
    <3> QED
      BY <3>1, <3>2 DEF LinesFit
  <2>7. StreamsAgree'
    BY <2>1 DEF StreamsAgree, Threads
  <2>8. CallsFit'
    BY <2>1 DEF CallsFit
  <2> QED
    BY <2>4, <2>6, <2>7, <2>8
<1>7. ASSUME NEW t \in Threads, WriteFile(t) PROVE LogInv'
  <2>1. /\ lock = t /\ lock' = "none"
        /\ file' = IF opened THEN Append(file, call[t]) ELSE file
        /\ call' = [call EXCEPT ![t] = NoLine]
        /\ UNCHANGED <<renderVars, owed, level, opened, debug>>
    BY <1>7 DEF WriteFile
  <2>2. NoLine \in Lines /\ call \in [Threads -> Lines] /\ file \in Seq(Lines)
    BY DEF TypeOK, NoLine, Lines
  <2>3. call' \in [Threads -> Lines] /\ call'[t] = NoLine
        /\ \A u \in Threads \ {t} : call'[u] = call[u]
    BY <2>1, <2>2
  <2>4. file' \in Seq(Lines)
    BY <2>1, <2>2
  <2>5. TypeOK'
    BY <2>1, <2>3, <2>4 DEF TypeOK, renderVars
  <2>6. LinesFit'
    BY <2>1 DEF LinesFit, renderVars
  <2>7. StreamsAgree'
    BY <2>1 DEF StreamsAgree, Threads
  <2>8. CallsFit'
    BY <2>1, <2>3 DEF CallsFit, Threads
  <2> QED
    BY <2>5, <2>6, <2>7, <2>8
<1>8. CASE UNCHANGED vars
  BY <1>8 DEF vars, renderVars, TypeOK, LinesFit, StreamsAgree, CallsFit
<1> QED
  BY <1>1, <1>2, <1>3, <1>4, <1>5, <1>6, <1>7, <1>8 DEF Next, Engine, Worker, Threads

\* The inductive invariant holds throughout.
LEMMA LogInvAlways == Spec => []LogInv
  BY LogInvInit, LogInvNext, PTL DEF Spec

\* The variables of the sink and the log have their types.
THEOREM TypeCorrect == Spec => []TypeOK
<1>1. LogInv => TypeOK
  BY DEF LogInv
<1> QED
  BY <1>1, LogInvAlways, PTL

\* No line of a print overruns the line buffer or loses its newline in
\* relay_log, for budgets of at least four bytes.
THEOREM SinkNeverOverruns == Spec => []LinesFit
<1>1. LogInv => LinesFit
  BY DEF LogInv
<1> QED
  BY <1>1, LogInvAlways, PTL

\* The log and the debugger see the same lines in the same order.
THEOREM OneOrderOfLines == Spec => []StreamsAgree
<1>1. LogInv => StreamsAgree
  BY DEF LogInv
<1> QED
  BY <1>1, LogInvAlways, PTL

-----------------------------------------------------------------------------
(***************************************************************************)
(* What the operators on sequences do with one more element.               *)
(***************************************************************************)

\* The prefixes of what is kept.
Sifts(f, s, S, C) ==
  /\ f \in [0 .. Len(s) -> Seq(C)]
  /\ f[0] = <<>>
  /\ \A k \in 0 .. Len(s) - 1 :
       f[k + 1] = IF s[k + 1] \in S THEN Append(f[k], s[k + 1]) ELSE f[k]

\* OnlyIn is the last of them.
LEMMA OnlyInSifts ==
  ASSUME NEW C, NEW s \in Seq(C), NEW S
  PROVE  \E f : Sifts(f, s, S, C) /\ OnlyIn(s, S) = f[Len(s)]
<1> DEFINE n == Len(s)
           V == Seq(C)
           G == [p \in Nat \X V |-> IF p[1] < n /\ s[p[1] + 1] \in S
                                    THEN Append(p[2], s[p[1] + 1]) ELSE p[2]]
           it == CHOOSE it : it = [k \in 0 .. n |->
                   IF k = 0 THEN <<>>
                   ELSE IF s[k] \in S THEN Append(it[k - 1], s[k]) ELSE it[k - 1]]
<1>1. n \in Nat /\ \A k \in 1 .. n : s[k] \in C
  OBVIOUS
<1>2. OnlyIn(s, S) = it[n]
  BY Zenon DEF OnlyIn
<1>3. Moves(G, V)
  <2>1. \A k \in Nat : \A v \in V :
          (IF k < n /\ s[k + 1] \in S THEN Append(v, s[k + 1]) ELSE v) \in V
    <3> SUFFICES ASSUME NEW k \in Nat, NEW v \in V
                 PROVE  (IF k < n /\ s[k + 1] \in S THEN Append(v, s[k + 1]) ELSE v) \in V
        OBVIOUS
    <3>1. k < n => Append(v, s[k + 1]) \in V
      BY <1>1
    <3> QED
      BY <3>1
  <2> QED
    BY <2>1 DEF Moves
<1>4. <<>> \in V
  OBVIOUS
<1>5. PICK h : Follows(h, <<>>, G, V)
  <2> HIDE DEF G, V
  <2> QED
    BY <1>3, <1>4, Recursion
<1>6. /\ \A k \in Nat : h[k] \in V
      /\ h[0] = <<>>
      /\ \A k \in Nat : h[k + 1] = G[<<k, h[k]>>]
  BY <1>5 DEF Follows
<1>7. \A k \in 0 .. n - 1 :
        h[k + 1] = IF s[k + 1] \in S THEN Append(h[k], s[k + 1]) ELSE h[k]
  <2> SUFFICES ASSUME NEW k \in 0 .. n - 1
               PROVE  h[k + 1] = IF s[k + 1] \in S THEN Append(h[k], s[k + 1])
                                 ELSE h[k]
      OBVIOUS
  <2> HIDE DEF n, V
  <2>1. k \in Nat /\ k < n /\ h[k] \in V /\ h[k + 1] = G[<<k, h[k]>>]
    <3> HIDE DEF G
    <3>1. k \in Nat /\ k < n
      BY <1>1
    <3> QED
      BY <1>6, <3>1
  <2>2. G[<<k, h[k]>>] = IF k < n /\ s[k + 1] \in S THEN Append(h[k], s[k + 1])
                         ELSE h[k]
    BY <2>1
  <2> QED
    BY <2>1, <2>2
<1> DEFINE f == [k \in 0 .. n |-> h[k]]
<1> HIDE DEF G, V, n
<1>8. f = [k \in 0 .. n |->
             IF k = 0 THEN <<>>
             ELSE IF s[k] \in S THEN Append(f[k - 1], s[k]) ELSE f[k - 1]]
  <2> SUFFICES ASSUME NEW k \in 0 .. n
               PROVE  f[k] = IF k = 0 THEN <<>>
                             ELSE IF s[k] \in S THEN Append(f[k - 1], s[k])
                             ELSE f[k - 1]
      OBVIOUS
  <2>1. CASE k = 0
    BY <1>6, <2>1
  <2>2. CASE k # 0
    <3>1. k - 1 \in 0 .. n - 1 /\ (k - 1) + 1 = k /\ k - 1 \in 0 .. n
      BY <1>1, <2>2
    <3>2. h[(k - 1) + 1] = IF s[(k - 1) + 1] \in S THEN Append(h[k - 1], s[(k - 1) + 1])
                           ELSE h[k - 1]
      BY <1>7, <3>1
    <3>3. f[k] = h[k] /\ f[k - 1] = h[k - 1]
      BY <3>1
    <3> HIDE DEF f
    <3> QED
      BY <2>2, <3>1, <3>2, <3>3
  <2> QED
    BY <2>1, <2>2
<1>9. it = [k \in 0 .. n |->
             IF k = 0 THEN <<>>
             ELSE IF s[k] \in S THEN Append(it[k - 1], s[k]) ELSE it[k - 1]]
  <2> HIDE DEF f
  <2> QED
    BY <1>8, Zenon
<1> HIDE DEF it
<1>10. it[0] = <<>>
  BY <1>1, <1>9
<1>11. \A k \in 0 .. n - 1 :
         it[k + 1] = IF s[k + 1] \in S THEN Append(it[k], s[k + 1]) ELSE it[k]
  <2> SUFFICES ASSUME NEW k \in 0 .. n - 1
               PROVE  it[k + 1] = IF s[k + 1] \in S THEN Append(it[k], s[k + 1])
                                  ELSE it[k]
      OBVIOUS
  <2>1. k + 1 \in 0 .. n /\ (k + 1) - 1 = k /\ k + 1 # 0
    BY <1>1
  <2> QED
    BY <1>9, <2>1
<1> DEFINE T == {k \in Nat : k <= n => it[k] \in V}
<1>12. 0 \in T
  BY <1>4, <1>10
<1>13. ASSUME NEW k \in Nat, k \in T PROVE k + 1 \in T
  <2> SUFFICES ASSUME k + 1 <= n PROVE it[k + 1] \in V
    OBVIOUS
  <2>1. k \in 0 .. n - 1 /\ it[k] \in V /\ k + 1 \in 1 .. n
    BY <1>1, <1>13
  <2>2. s[k + 1] \in C
    BY <1>1, <2>1
  <2>3. Append(it[k], s[k + 1]) \in V
    BY <2>1, <2>2 DEF V
  <2> HIDE DEF f
  <2> QED
    BY <1>11, <2>1, <2>3
<1>14. \A k \in Nat : k \in T
  <2> HIDE DEF T
  <2> QED
    BY <1>12, <1>13, NatSetInduction
<1>15. it \in [0 .. n -> V]
  <2>1. \A k \in 0 .. n : it[k] \in V
    BY <1>1, <1>14
  <2> HIDE DEF f, T
  <2>2. DOMAIN it = 0 .. n /\ it = [k \in DOMAIN it |-> it[k]]
    BY <1>9
  <2> QED
    BY <2>1, <2>2
<1> QED
  BY <1>2, <1>10, <1>11, <1>15 DEF Sifts, V, n

\* Two such prefixes agree where the sequences do.
LEMMA SiftsAgree ==
  ASSUME NEW C, NEW s \in Seq(C), NEW x \in C, NEW S, NEW f, NEW g,
         Sifts(f, s, S, C), Sifts(g, Append(s, x), S, C)
  PROVE  g[Len(s)] = f[Len(s)]
<1> DEFINE n == Len(s)
           T == {k \in Nat : k <= n => g[k] = f[k]}
<1>1. n \in Nat /\ Len(Append(s, x)) = n + 1
      /\ \A k \in 1 .. n : Append(s, x)[k] = s[k]
  OBVIOUS
<1> HIDE DEF n
<1>2. 0 \in T
  BY DEF Sifts
<1>3. ASSUME NEW k \in Nat, k \in T PROVE k + 1 \in T
  <2> SUFFICES ASSUME k + 1 <= n PROVE g[k + 1] = f[k + 1]
    OBVIOUS
  <2>1. /\ k \in 0 .. n - 1 /\ k \in 0 .. (n + 1) - 1 /\ g[k] = f[k]
        /\ k + 1 \in 1 .. n
    BY <1>1, <1>3
  <2>2. f[k + 1] = IF s[k + 1] \in S THEN Append(f[k], s[k + 1]) ELSE f[k]
    BY <2>1 DEF Sifts, n
  <2>3. g[k + 1] = IF Append(s, x)[k + 1] \in S
                   THEN Append(g[k], Append(s, x)[k + 1]) ELSE g[k]
    BY <1>1, <2>1 DEF Sifts
  <2>4. Append(s, x)[k + 1] = s[k + 1]
    BY <1>1, <2>1
  <2> QED
    BY <2>1, <2>2, <2>3, <2>4
<1>4. n \in T
  <2> HIDE DEF T
  <2> QED
    BY <1>1, <1>2, <1>3, NatSetInduction
<1> QED
  BY <1>1, <1>4 DEF n

\* So one more element is appended, or not.
LEMMA OnlyInNext ==
  ASSUME NEW C, NEW s \in Seq(C), NEW x \in C, NEW S
  PROVE  /\ OnlyIn(s, S) \in Seq(C)
         /\ OnlyIn(Append(s, x), S)
              = IF x \in S THEN Append(OnlyIn(s, S), x) ELSE OnlyIn(s, S)
<1>1. Append(s, x) \in Seq(C) /\ Len(s) \in Nat /\ Len(Append(s, x)) = Len(s) + 1
      /\ Append(s, x)[Len(s) + 1] = x
  OBVIOUS
<1>2. PICK f : Sifts(f, s, S, C) /\ OnlyIn(s, S) = f[Len(s)]
  BY OnlyInSifts
<1>3. PICK g : Sifts(g, Append(s, x), S, C)
               /\ OnlyIn(Append(s, x), S) = g[Len(Append(s, x))]
  BY <1>1, OnlyInSifts
<1>4. g[Len(s)] = f[Len(s)]
  BY <1>2, <1>3, SiftsAgree
<1>5. Len(s) \in 0 .. (Len(s) + 1) - 1
  BY <1>1
<1>6. g[Len(s) + 1] = IF x \in S THEN Append(g[Len(s)], x) ELSE g[Len(s)]
  BY <1>1, <1>3, <1>5 DEF Sifts
<1>7. OnlyIn(s, S) \in Seq(C)
  BY <1>1, <1>2 DEF Sifts
<1> QED
  BY <1>1, <1>2, <1>3, <1>4, <1>6, <1>7

\* Of nothing, nothing.
LEMMA OnlyInEmpty == ASSUME NEW S PROVE OnlyIn(<<>>, S) = <<>>
<1>1. <<>> \in Seq({}) /\ Len(<<>>) = 0
  OBVIOUS
<1>2. PICK f : Sifts(f, <<>>, S, {}) /\ OnlyIn(<<>>, S) = f[Len(<<>>)]
  BY <1>1, OnlyInSifts
<1> QED
  BY <1>1, <1>2 DEF Sifts

\* A run of a function on states ends in a state.
LEMMA RunsTyped ==
  ASSUME NEW V, NEW C, NEW s \in Seq(C), NEW G, Steps(G, V, C), NEW a \in V, NEW b,
         Runs(G, a, s, b)
  PROVE  b \in V
<1>1. PICK F : /\ F[0] = a /\ F[Len(s)] = b
               /\ \A k \in 1 .. Len(s) : F[k] = G[<<F[k - 1], s[k]>>]
  BY DEF Runs
<1>2. Len(s) \in Nat /\ \A k \in 1 .. Len(s) : s[k] \in C
  OBVIOUS
<1> DEFINE S == {k \in Nat : k <= Len(s) => F[k] \in V}
<1>3. 0 \in S
  BY <1>1
<1>4. ASSUME NEW k \in Nat, k \in S PROVE k + 1 \in S
  <2> SUFFICES ASSUME k + 1 <= Len(s) PROVE F[k + 1] \in V
    OBVIOUS
  <2>1. k + 1 \in 1 .. Len(s) /\ (k + 1) - 1 = k /\ F[k] \in V
    BY <1>2, <1>4
  <2>2. F[k + 1] = G[<<F[k], s[k + 1]>>] /\ s[k + 1] \in C
    BY <1>1, <1>2, <2>1
  <2> QED
    BY <2>1, <2>2 DEF Steps
<1>5. \A k \in Nat : k \in S
  <2> HIDE DEF S
  <2> QED
    BY <1>3, <1>4, NatSetInduction
<1> QED
  BY <1>1, <1>2, <1>5

\* The width of a text in the string s.
WidthIn(s, text) == FoldLeft(LAMBDA n, p : n + Width(s[p]), 0, text)

\* A byte takes one or four.
LEMMA WidthTypes ==
  \A b : Width(b) \in Nat /\ Width(b) >= 1 /\ Width(b) <= 4
BY DEF Width

\* What a position adds to a width.
WidthGraph(s, C) == [p \in Nat \X C |-> p[1] + Width(s[p[2]])]

\* It adds up the bytes.
LEMMA WidthRuns ==
  ASSUME NEW s, NEW C, NEW text \in Seq(C)
  PROVE  /\ WidthIn(s, text) \in Nat
         /\ Runs(WidthGraph(s, C), 0, text, WidthIn(s, text))
<1> DEFINE add(n, p) == n + Width(s[p])
           G == WidthGraph(s, C)
           it == CHOOSE it : it = [t \in SUBSET (DOMAIN text) |->
                   IF t = {} THEN 0 ELSE add(it[t \ {Max(t)}], text[Max(t)])]
<1>1. WidthIn(s, text) = it[DOMAIN text]
  BY Zenon DEF WidthIn, FoldLeft, MapThenFoldSet
<1>2. Steps(G, Nat, C)
  BY WidthTypes DEF Steps, WidthGraph
<1>3. \A n \in Nat : \A c \in C : G[<<n, c>>] = add(n, c)
  BY DEF WidthGraph
<1> HIDE DEF add, G
<1>4. it = [t \in SUBSET (DOMAIN text) |->
              IF t = {} THEN 0 ELSE add(it[t \ {Max(t)}], text[Max(t)])]
  <2>1. \E h : h = [t \in SUBSET (DOMAIN text) |->
              IF t = {} THEN 0 ELSE add(h[t \ {Max(t)}], text[Max(t)])]
    <3>1. PICK h : /\ Sweeps(h, G, 0, text)
                   /\ \A t \in SUBSET (DOMAIN text) : h[t] \in Nat
      BY <1>2, SweepExists
    <3>2. ASSUME NEW t \in SUBSET (DOMAIN text), t # {}
          PROVE  G[<<h[t \ {Max(t)}], text[Max(t)]>>]
                   = add(h[t \ {Max(t)}], text[Max(t)])
      <4>1. Max(t) \in DOMAIN text /\ text[Max(t)] \in C
        BY <3>2, MaxInDomain
      <4>2. h[t \ {Max(t)}] \in Nat
        BY <3>1
      <4> QED
        BY <1>3, <4>1, <4>2
    <3>3. h = [t \in SUBSET (DOMAIN text) |->
                 IF t = {} THEN 0 ELSE add(h[t \ {Max(t)}], text[Max(t)])]
      BY <3>1, <3>2 DEF Sweeps
    <3> QED
      BY <3>3
  <2> QED
    BY <2>1, Zenon
<1> HIDE DEF it
<1>5. it[{}] = 0
  BY <1>4
<1>6. ASSUME NEW t \in SUBSET (DOMAIN text), t # {}, it[t \ {Max(t)}] \in Nat
      PROVE  it[t] = G[<<it[t \ {Max(t)}], text[Max(t)]>>]
  <2>1. Max(t) \in DOMAIN text /\ text[Max(t)] \in C
    BY <1>6, MaxInDomain
  <2>2. it[t] = add(it[t \ {Max(t)}], text[Max(t)])
    BY <1>4, <1>6
  <2> QED
    BY <1>3, <1>6, <2>1, <2>2
<1>7. 0 \in Nat
  OBVIOUS
<1>8. Runs(G, 0, text, it[DOMAIN text]) /\ it[DOMAIN text] \in Nat
  <2> DEFINE z == 0
             V == Nat
  <2>1. z \in V /\ it[{}] = z /\ Steps(G, V, C)
    BY <1>2, <1>5
  <2>2. \A t \in SUBSET (DOMAIN text) : t # {} /\ it[t \ {Max(t)}] \in V =>
          it[t] = G[<<it[t \ {Max(t)}], text[Max(t)]>>]
    BY <1>6
  <2> HIDE DEF z, V
  <2>3. Runs(G, z, text, it[DOMAIN text])
    BY <2>1, <2>2, SweepRuns
  <2>4. it[DOMAIN text] \in V
    BY <2>1, <2>3, RunsTyped
  <2> QED
    BY <2>3, <2>4 DEF z, V
<1> QED
  BY <1>1, <1>8 DEF G

\* One more byte adds its width.
LEMMA WidthNext ==
  ASSUME NEW s, NEW C, NEW text \in Seq(C), NEW p \in C
  PROVE  /\ WidthIn(s, text) \in Nat
         /\ WidthIn(s, Append(text, p)) = WidthIn(s, text) + Width(s[p])
<1> DEFINE G == WidthGraph(s, C)
<1>1. \A n \in Nat : G[<<n, p>>] = n + Width(s[p])
  BY DEF WidthGraph
<1>2. \A t \in Seq(C) : WidthIn(s, t) \in Nat /\ Runs(G, 0, t, WidthIn(s, t))
  BY WidthRuns
<1> HIDE DEF G
<1>3. <<p>> \in Seq(C) /\ Append(text, p) = text \o <<p>> /\ text \o <<p>> \in Seq(C)
  BY ConcatOne
<1>4. WidthIn(s, text) \in Nat
  BY <1>2
<1>5. Runs(G, WidthIn(s, text), <<p>>, WidthIn(s, text) + Width(s[p]))
  <2>1. G[<<WidthIn(s, text), p>>] = WidthIn(s, text) + Width(s[p])
    BY <1>1, <1>4
  <2>2. Runs(G, WidthIn(s, text), <<p>>, G[<<WidthIn(s, text), p>>])
    BY RunsOne
  <2> QED
    BY <2>1, <2>2
<1>6. Runs(G, 0, text \o <<p>>, WidthIn(s, text) + Width(s[p]))
  BY <1>2, <1>3, <1>5, RunsConcat
<1>7. Runs(G, 0, text \o <<p>>, WidthIn(s, text \o <<p>>))
  BY <1>2, <1>3
<1>8. WidthIn(s, text \o <<p>>) = WidthIn(s, text) + Width(s[p])
  <2> DEFINE z == 0
             w == WidthIn(s, text) + Width(s[p])
  <2>1. Runs(G, z, text \o <<p>>, w) /\ Runs(G, z, text \o <<p>>, WidthIn(s, text \o <<p>>))
    BY <1>6, <1>7
  <2> HIDE DEF z, w
  <2>2. WidthIn(s, text \o <<p>>) = w
    BY <1>3, <2>1, RunsUnique
  <2> QED
    BY <2>2 DEF w
<1> QED
  BY <1>3, <1>4, <1>8

\* No byte has no width.
LEMMA WidthEmpty == ASSUME NEW s PROVE WidthIn(s, <<>>) = 0
<1>1. <<>> \in Seq({})
  OBVIOUS
<1> DEFINE G == WidthGraph(s, {})
<1>2. Runs(G, 0, <<>>, WidthIn(s, <<>>))
  BY <1>1, WidthRuns
<1> HIDE DEF G
<1>3. Runs(G, 0, <<>>, 0)
  BY RunsEmpty
<1> QED
  BY <1>1, <1>2, <1>3, RunsUnique

\* Flattening one more sequence puts it behind the others.
LEMMA FlattenNext ==
  ASSUME NEW C, NEW seqs \in Seq(Seq(C)), NEW t \in Seq(C)
  PROVE  /\ FlattenSeq(seqs) \in Seq(C)
         /\ FlattenSeq(Append(seqs, t)) = FlattenSeq(seqs) \o t
<1> DEFINE n == Len(seqs)
           more == Append(seqs, t)
<1>1. /\ n \in Nat /\ more \in Seq(Seq(C)) /\ Len(more) = n + 1 /\ more[n + 1] = t
      /\ \A k \in 1 .. n : more[k] = seqs[k]
  OBVIOUS
<1>2. PICK f : Joins(f, seqs, C) /\ FlattenSeq(seqs) = f[n]
  BY FlattenJoins
<1>3. PICK g : Joins(g, more, C) /\ FlattenSeq(more) = g[Len(more)]
  BY <1>1, FlattenJoins
<1> HIDE DEF more
<1> DEFINE T == {k \in Nat : k <= n => g[k] = f[k]}
<1>4. 0 \in T
  BY <1>2, <1>3 DEF Joins
<1>5. ASSUME NEW k \in Nat, k \in T PROVE k + 1 \in T
  <2> SUFFICES ASSUME k + 1 <= n PROVE g[k + 1] = f[k + 1]
    OBVIOUS
  <2>1. k \in 0 .. n - 1 /\ k \in 0 .. Len(more) - 1 /\ g[k] = f[k] /\ k + 1 \in 1 .. n
    BY <1>1, <1>5
  <2>2. f[k + 1] = f[k] \o seqs[k + 1]
    BY <1>2, <2>1 DEF Joins
  <2>3. g[k + 1] = g[k] \o more[k + 1]
    BY <1>3, <2>1 DEF Joins
  <2> QED
    BY <1>1, <2>1, <2>2, <2>3
<1>6. n \in T
  <2> HIDE DEF T
  <2> QED
    BY <1>1, <1>4, <1>5, NatSetInduction
<1>7. g[n] = f[n] /\ f[n] \in Seq(C)
  BY <1>1, <1>2, <1>6 DEF Joins
<1>8. n \in 0 .. Len(more) - 1
  BY <1>1
<1>9. g[n + 1] = g[n] \o more[n + 1]
  BY <1>3, <1>8 DEF Joins
<1> QED
  BY <1>1, <1>2, <1>3, <1>7, <1>9 DEF more

\* Of nothing, nothing.
LEMMA FlattenEmpty == FlattenSeq(<<>>) = <<>>
<1>1. <<>> \in Seq(Seq({})) /\ Len(<<>>) = 0
  OBVIOUS
<1>2. PICK f : Joins(f, <<>>, {}) /\ FlattenSeq(<<>>) = f[Len(<<>>)]
  BY <1>1, FlattenJoins
<1> QED
  BY <1>1, <1>2 DEF Joins

\* One element behind two sequences.
LEMMA ConcatAppend ==
  ASSUME NEW C, NEW s \in Seq(C), NEW t \in Seq(C), NEW c \in C
  PROVE  s \o Append(t, c) = Append(s \o t, c)
<1> DEFINE u == s \o Append(t, c)
           v == Append(s \o t, c)
<1>1. Append(t, c) \in Seq(C) /\ s \o t \in Seq(C) /\ Len(Append(t, c)) = Len(t) + 1
      /\ Len(s) \in Nat /\ Len(t) \in Nat
  OBVIOUS
<1>2. u \in Seq(C) /\ v \in Seq(C) /\ Len(u) = Len(s) + (Len(t) + 1)
      /\ Len(v) = (Len(s) + Len(t)) + 1
  BY <1>1
<1>3. ASSUME NEW k \in 1 .. Len(u) PROVE u[k] = v[k]
  <2>1. CASE k <= Len(s)
    BY <1>1, <1>2, <2>1
  <2>2. CASE k > Len(s) /\ k <= Len(s) + Len(t)
    BY <1>1, <1>2, <2>2
  <2>3. CASE k = Len(s) + Len(t) + 1
    BY <1>1, <1>2, <2>3
  <2> QED
    BY <1>1, <1>2, <2>1, <2>2, <2>3
<1> HIDE DEF u, v
<1>4. Len(u) = Len(v)
  BY <1>1, <1>2
<1>5. u = v
  BY <1>2, <1>3, <1>4
<1> QED
  BY <1>5 DEF u, v

\* A function on the first n positions is a sequence of n elements.
LEMMA PositionsMakeSeq ==
  ASSUME NEW S, NEW n \in Nat, NEW f \in [1 .. n -> S]
  PROVE  f \in Seq(S) /\ Len(f) = n
<1>1. f \in Seq(S)
  OBVIOUS
<1>2. DOMAIN f = 1 .. n /\ DOMAIN f = 1 .. Len(f) /\ Len(f) \in Nat
  BY <1>1
<1> QED
  BY <1>1, <1>2

\* A sequence is the function of its positions.
LEMMA SeqIsItsPositions ==
  ASSUME NEW S, NEW f \in Seq(S)
  PROVE  f = [k \in 1 .. Len(f) |-> f[k]]
OBVIOUS

\* Sequences of fewer things are sequences of more.
LEMMA SeqGrows ==
  ASSUME NEW S, NEW T, S \subseteq T, NEW f \in Seq(S)
  PROVE  f \in Seq(T)
OBVIOUS

\* The lines of S that the engine thread has written or is on its way to write.
StreamOf(d, c, l, S) ==
  OnlyIn(d, S) \o (IF c # NoLine /\ l # "engine" /\ c \in S THEN <<c>> ELSE <<>>)

Stream(S) == StreamOf(debug, call["engine"], lock, S)

\* What it writes that is no marker.
Spoken == {m \in OfSink : m.text # Marker}

\* It is a sequence of lines, and the line on its way is last.
LEMMA StreamForms ==
  ASSUME NEW d \in Seq(Lines), NEW c \in Lines, NEW l, NEW S
  PROVE  /\ StreamOf(d, c, l, S) \in Seq(Lines)
         /\ c # NoLine /\ l # "engine" /\ c \in S =>
              StreamOf(d, c, l, S) = Append(OnlyIn(d, S), c)
         /\ ~(c # NoLine /\ l # "engine" /\ c \in S) =>
              StreamOf(d, c, l, S) = OnlyIn(d, S)
<1>1. OnlyIn(d, S) \in Seq(Lines)
  BY OnlyInNext
<1>2. CASE c # NoLine /\ l # "engine" /\ c \in S
  <2>1. StreamOf(d, c, l, S) = OnlyIn(d, S) \o <<c>>
    BY <1>2 DEF StreamOf
  <2>2. OnlyIn(d, S) \o <<c>> = Append(OnlyIn(d, S), c)
    BY <1>1, ConcatOne
  <2>3. Append(OnlyIn(d, S), c) \in Seq(Lines)
    BY <1>1
  <2> QED
    BY <1>2, <2>1, <2>2, <2>3
<1>3. CASE ~(c # NoLine /\ l # "engine" /\ c \in S)
  <2>1. StreamOf(d, c, l, S) = OnlyIn(d, S) \o <<>>
    BY <1>3 DEF StreamOf
  <2>2. OnlyIn(d, S) \o <<>> = OnlyIn(d, S)
    BY <1>1
  <2> QED
    BY <1>1, <1>3, <2>1, <2>2
<1> QED
  BY <1>2, <1>3

\* A line the engine thread hands to relay_log comes last.
LEMMA StreamEmits ==
  ASSUME NEW S \in SUBSET OfSink, NEW text \in Seq(Nat), NEW len \in Nat,
         LogInv, level = "info", call["engine"] = NoLine, Emit(text, len),
         len <= LineBudget, lock' = lock, debug' = debug
  PROVE  LET m == Message("engine", text, len) IN
         /\ m \in OfSink
         /\ Stream(S)' = IF m \in S THEN Append(Stream(S), m) ELSE Stream(S)
<1> DEFINE m == Message("engine", text, len)
<1>1. m \in Lines /\ m.by = "engine"
  <2>1. (len + 1 < MessageSize) \in BOOLEAN
    OBVIOUS
  <2> QED
    BY <2>1, Zenon DEF Message, Lines, Threads
<1>2. m # NoLine
  BY <1>1 DEF NoLine
<1>3. call'["engine"] = m
  <2>1. Log("engine", "info", text, len)
    BY BudgetAssumption DEF Emit
  <2>2. call' = [call EXCEPT !["engine"] = m]
    BY <2>1 DEF Log
  <2>3. call \in [Threads -> Lines] /\ "engine" \in Threads
    BY DEF LogInv, TypeOK, Threads
  <2> HIDE DEF m
  <2> QED
    BY <2>2, <2>3
<1>4. lock # "engine"
  BY DEF LogInv, CallsFit, Threads
<1> HIDE DEF m
<1>5. Stream(S)' = StreamOf(debug, m, lock, S)
  BY <1>3 DEF Stream
<1>6. Stream(S) = OnlyIn(debug, S)
  <2>1. debug \in Seq(Lines) /\ call["engine"] \in Lines
    BY DEF LogInv, TypeOK, Threads
  <2> QED
    BY <2>1, StreamForms DEF Stream
<1>7. m \in S => StreamOf(debug, m, lock, S) = Append(OnlyIn(debug, S), m)
  BY <1>1, <1>2, <1>4, StreamForms DEF LogInv, TypeOK
<1>8. m \notin S => StreamOf(debug, m, lock, S) = OnlyIn(debug, S)
  BY <1>1, StreamForms DEF LogInv, TypeOK
<1> QED
  BY <1>1, <1>5, <1>6, <1>7, <1>8 DEF m, OfSink

\* What the worker logs, and how a line moves through the log, leave it alone.
LEMMA StreamStands ==
  ASSUME NEW S \in SUBSET OfSink, LogInv,
         \/ WorkerLogs
         \/ \E t \in Threads : WriteDebug(t) \/ WriteFile(t)
         \/ UNCHANGED <<debug, call, lock>>
  PROVE  Stream(S)' = Stream(S)
<1> DEFINE c == call["engine"]
           out == OnlyIn(debug, S)
<1> USE DEF LogInv
<1>0. /\ debug \in Seq(Lines) /\ call \in [Threads -> Lines]
      /\ \A t \in Threads : call[t] \in Lines
  BY DEF TypeOK
<1>1. "engine" \in Threads /\ "worker" \in Threads /\ "engine" # "worker"
      /\ "none" \notin Threads
  BY DEF Threads
<1>2. \A s \in S : s \in Lines /\ s.by = "engine"
  BY DEF OfSink
<1>3. CASE WorkerLogs
  <2>1. \/ call' = call
        \/ call' = [call EXCEPT !["worker"] = Message("worker", <<Len(owed)>>, 1)]
    BY <1>3 DEF WorkerLogs, Log
  <2>2. call'["engine"] = call["engine"]
    BY <1>0, <1>1, <2>1
  <2>3. UNCHANGED <<debug, lock>>
    BY <1>3 DEF WorkerLogs
  <2> QED
    BY <2>2, <2>3 DEF Stream
<1>4. ASSUME WriteDebug("engine") PROVE Stream(S)' = Stream(S)
  <2>1. /\ c # NoLine /\ lock = "none" /\ lock' = "engine"
        /\ debug' = Append(debug, c) /\ call' = call
    BY <1>4 DEF WriteDebug
  <2>2. c \in Lines /\ lock # "engine" /\ Append(debug, c) \in Seq(Lines)
    BY <1>0, <1>1, <2>1
  <2> HIDE DEF c
  <2>3. Stream(S)' = OnlyIn(Append(debug, c), S)
    <3>1. Stream(S)' = StreamOf(Append(debug, c), c, "engine", S)
      BY <2>1 DEF Stream, c
    <3> QED
      BY <2>2, <3>1, StreamForms
  <2>4. OnlyIn(Append(debug, c), S) = IF c \in S THEN Append(out, c) ELSE out
    BY <1>0, <2>2, OnlyInNext
  <2>5. Stream(S) = IF c \in S THEN Append(out, c) ELSE out
    <3>1. Stream(S) = StreamOf(debug, c, lock, S)
      BY DEF Stream, c
    <3>2. CASE c \in S
      BY <1>0, <2>1, <2>2, <3>1, <3>2, StreamForms
    <3>3. CASE c \notin S
      BY <1>0, <2>1, <2>2, <3>1, <3>3, StreamForms
    <3> QED
      BY <3>2, <3>3
  <2> QED
    BY <2>3, <2>4, <2>5
<1>5. ASSUME WriteDebug("worker") PROVE Stream(S)' = Stream(S)
  <2> DEFINE w == call["worker"]
  <2>1. /\ w # NoLine /\ lock = "none" /\ lock' = "worker"
        /\ debug' = Append(debug, w) /\ call' = call
    BY <1>5 DEF WriteDebug
  <2>2. w \in Lines /\ w.by = "worker"
    BY <1>0, <1>1, <2>1 DEF CallsFit
  <2>3. w \notin S
    BY <1>1, <1>2, <2>2
  <2> HIDE DEF w
  <2>4. OnlyIn(debug', S) = out
    BY <1>0, <2>1, <2>2, <2>3, OnlyInNext
  <2>5. lock # "engine" /\ lock' # "engine"
    BY <1>1, <2>1
  <2> QED
    BY <2>1, <2>4, <2>5 DEF Stream, StreamOf
<1>6. ASSUME WriteFile("engine") PROVE Stream(S)' = Stream(S)
  <2>1. lock = "engine" /\ lock' = "none" /\ debug' = debug
        /\ call' = [call EXCEPT !["engine"] = NoLine]
    BY <1>6 DEF WriteFile
  <2>2. call'["engine"] = NoLine
    BY <1>0, <1>1, <2>1
  <2> QED
    BY <2>1, <2>2 DEF Stream, StreamOf
<1>7. ASSUME WriteFile("worker") PROVE Stream(S)' = Stream(S)
  <2>1. lock = "worker" /\ lock' = "none" /\ debug' = debug
        /\ call' = [call EXCEPT !["worker"] = NoLine]
    BY <1>7 DEF WriteFile
  <2>2. call'["engine"] = call["engine"]
    BY <1>0, <1>1, <2>1
  <2>3. lock # "engine" /\ lock' # "engine"
    BY <1>1, <2>1
  <2> QED
    BY <2>1, <2>2, <2>3 DEF Stream, StreamOf
<1>8. CASE UNCHANGED <<debug, call, lock>>
  BY <1>8 DEF Stream
<1> QED
  BY <1>3, <1>4, <1>5, <1>6, <1>7, <1>8 DEF Threads

\* The lines that are no marker are those the properties speak of.
LEMMA SpokenLines == LogInv => SinkLines = Stream(Spoken)
<1> SUFFICES ASSUME LogInv PROVE SinkLines = Stream(Spoken)
  OBVIOUS
<1> DEFINE c == call["engine"]
<1>1. c \in Lines /\ (c # NoLine => c.by = "engine")
  BY DEF LogInv, TypeOK, CallsFit, Threads
<1>2. (c # NoLine /\ lock # "engine" /\ c.text # Marker)
        <=> (c # NoLine /\ lock # "engine" /\ c \in Spoken)
  BY <1>1 DEF Spoken, OfSink
<1> HIDE DEF c
<1>3. SinkLines = OnlyIn(debug, Spoken)
                    \o (IF c # NoLine /\ lock # "engine" /\ c.text # Marker
                        THEN <<c>> ELSE <<>>)
  BY DEF SinkLines, Spoken, c
<1> QED
  BY <1>2, <1>3 DEF Stream, StreamOf, c

\* A stream is a sequence of lines.
LEMMA StreamTypes == ASSUME LogInv, NEW S PROVE Stream(S) \in Seq(Lines)
<1>1. debug \in Seq(Lines) /\ call["engine"] \in Lines
  BY DEF LogInv, TypeOK, Threads
<1> QED
  BY <1>1, StreamForms DEF Stream

-----------------------------------------------------------------------------
(***************************************************************************)
(* The lines of the sink as the text of the string.                        *)
(***************************************************************************)

\* The bytes among the first n that end no line.
KeptIn(s, n) == {k \in 1 .. n : s[k] \notin Terminators}

\* The texts of the lines, and what is in the buffer.
TextsOf(sink) == [k \in DOMAIN sink |-> sink[k].text]
All(sink, text) == Append(TextsOf(sink), text)

\* The lines and the buffer are the text of the first n bytes.
Whole(s, n, sink, text) ==
  /\ \A k \in DOMAIN sink : /\ sink[k].text \in Seq(KeptIn(s, n))
                            /\ sink[k].len = WidthIn(s, sink[k].text)
  /\ text \in Seq(KeptIn(s, n))
  /\ FlattenSeq(All(sink, text)) = OnlyIn([k \in 1 .. n |-> k], KeptIn(s, Len(s)))

\* The texts of lines are texts, and one more line has one more.
LEMMA TextsNext ==
  ASSUME NEW sink \in Seq(Lines), NEW text \in Seq(Nat), NEW m \in Lines
  PROVE  /\ TextsOf(sink) \in Seq(Seq(Nat)) /\ Len(TextsOf(sink)) = Len(sink)
         /\ All(sink, text) \in Seq(Seq(Nat)) /\ Len(All(sink, text)) = Len(sink) + 1
         /\ \A k \in 1 .. Len(sink) : All(sink, text)[k] = sink[k].text
         /\ All(sink, text)[Len(sink) + 1] = text
         /\ TextsOf(Append(sink, m)) = All(sink, m.text)
<1>0. \A l \in Lines : l.text \in Seq(Nat)
  BY DEF Lines
<1>1. \A k \in 1 .. Len(sink) : sink[k] \in Lines /\ sink[k].text \in Seq(Nat)
  BY <1>0
<1>2. Len(sink) \in Nat /\ DOMAIN sink = 1 .. Len(sink)
  OBVIOUS
<1>3. TextsOf(sink) \in [1 .. Len(sink) -> Seq(Nat)]
  BY <1>1, <1>2 DEF TextsOf
<1>4. TextsOf(sink) \in Seq(Seq(Nat)) /\ Len(TextsOf(sink)) = Len(sink)
  BY <1>2, <1>3, PositionsMakeSeq
<1>5. \A k \in 1 .. Len(sink) : TextsOf(sink)[k] = sink[k].text
  BY <1>2 DEF TextsOf
<1>6. ASSUME NEW t \in Seq(Nat)
      PROVE  /\ All(sink, t) \in Seq(Seq(Nat)) /\ Len(All(sink, t)) = Len(sink) + 1
             /\ \A k \in 1 .. Len(sink) : All(sink, t)[k] = sink[k].text
             /\ All(sink, t)[Len(sink) + 1] = t
  BY <1>2, <1>4, <1>5 DEF All
<1>7. m.text \in Seq(Nat)
  BY DEF Lines
<1> DEFINE more == Append(sink, m)
<1>8. /\ more \in Seq(Lines) /\ DOMAIN more = 1 .. Len(sink) + 1
      /\ \A k \in 1 .. Len(sink) : more[k] = sink[k]
      /\ more[Len(sink) + 1] = m
  BY <1>2
<1> HIDE DEF more
<1>9. \A k \in 1 .. Len(sink) + 1 : more[k].text = All(sink, m.text)[k]
  <2> SUFFICES ASSUME NEW k \in 1 .. Len(sink) + 1
               PROVE  more[k].text = All(sink, m.text)[k]
      OBVIOUS
  <2>1. CASE k \in 1 .. Len(sink)
    BY <1>6, <1>7, <1>8, <2>1
  <2>2. CASE k = Len(sink) + 1
    BY <1>6, <1>7, <1>8, <2>2
  <2> QED
    BY <1>2, <2>1, <2>2
<1>10. TextsOf(more) = [k \in 1 .. Len(sink) + 1 |-> All(sink, m.text)[k]]
  BY <1>8, <1>9 DEF TextsOf
<1>11. All(sink, m.text) = [k \in 1 .. Len(sink) + 1 |-> All(sink, m.text)[k]]
  <2>1. All(sink, m.text) \in Seq(Seq(Nat)) /\ Len(All(sink, m.text)) = Len(sink) + 1
    BY <1>6, <1>7
  <2>2. All(sink, m.text) = [k \in 1 .. Len(All(sink, m.text)) |-> All(sink, m.text)[k]]
    BY <2>1, SeqIsItsPositions
  <2> QED
    BY <2>1, <2>2
<1> QED
  BY <1>4, <1>6, <1>10, <1>11 DEF more

\* The first n + 1 bytes without their last, and what is kept of them.
LEMMA KeptNext ==
  ASSUME NEW s \in Seq(Bytes), NEW n \in Nat, n < Len(s)
  PROVE  /\ KeptIn(s, n) \subseteq KeptIn(s, n + 1)
         /\ KeptIn(s, n + 1) \subseteq Nat
         /\ n + 1 \in KeptIn(s, Len(s)) <=> s[n + 1] \notin Terminators
         /\ n + 1 \in KeptIn(s, n + 1) <=> s[n + 1] \notin Terminators
         /\ OnlyIn([k \in 1 .. n |-> k], KeptIn(s, Len(s))) \in Seq(Nat)
         /\ OnlyIn([k \in 1 .. n + 1 |-> k], KeptIn(s, Len(s)))
              = IF s[n + 1] \notin Terminators
                THEN Append(OnlyIn([k \in 1 .. n |-> k], KeptIn(s, Len(s))), n + 1)
                ELSE OnlyIn([k \in 1 .. n |-> k], KeptIn(s, Len(s)))
<1> DEFINE K == KeptIn(s, Len(s))
           ids == [k \in 1 .. n |-> k]
<1>1. KeptIn(s, n) \subseteq KeptIn(s, n + 1) /\ KeptIn(s, n + 1) \subseteq Nat
  BY DEF KeptIn
<1>2. n + 1 \in K <=> s[n + 1] \notin Terminators
  BY DEF KeptIn
<1>3. n + 1 \in KeptIn(s, n + 1) <=> s[n + 1] \notin Terminators
  BY DEF KeptIn
<1>4. ids \in Seq(Nat) /\ Len(ids) = n /\ n + 1 \in Nat
  OBVIOUS
<1>5. Append(ids, n + 1) = [k \in 1 .. n + 1 |-> k]
  <2>1. Append(ids, n + 1) \in Seq(Nat) /\ Len(Append(ids, n + 1)) = n + 1
    BY <1>4
  <2>2. \A k \in 1 .. n + 1 : Append(ids, n + 1)[k] = k
    BY <1>4
  <2> QED
    BY <2>1, <2>2
<1> HIDE DEF K, ids
<1>6. /\ OnlyIn(ids, K) \in Seq(Nat)
      /\ OnlyIn(Append(ids, n + 1), K)
           = IF n + 1 \in K THEN Append(OnlyIn(ids, K), n + 1) ELSE OnlyIn(ids, K)
  <2> DEFINE c == n + 1
             V == Nat
  <2>1. ids \in Seq(V) /\ c \in V
    BY <1>4
  <2> HIDE DEF c, V
  <2>2. /\ OnlyIn(ids, K) \in Seq(V)
        /\ OnlyIn(Append(ids, c), K)
             = IF c \in K THEN Append(OnlyIn(ids, K), c) ELSE OnlyIn(ids, K)
    BY <2>1, OnlyInNext
  <2> QED
    BY <2>2 DEF c, V
<1> QED
  BY <1>1, <1>2, <1>3, <1>5, <1>6 DEF K, ids

\* A text of the first n bytes is one of the first n + 1.
LEMMA KeptGrows ==
  ASSUME NEW s, NEW n \in Nat
  PROVE  \A t \in Seq(KeptIn(s, n)) : t \in Seq(KeptIn(s, n + 1))
<1> DEFINE A == KeptIn(s, n)
           B == KeptIn(s, n + 1)
<1>1. A \subseteq B
  BY DEF KeptIn
<1> HIDE DEF A, B
<1>2. \A t \in Seq(A) : t \in Seq(B)
  BY <1>1, SeqGrows
<1> QED
  BY <1>2 DEF A, B

\* Positions of kept bytes are positions.
LEMMA KeptTexts ==
  ASSUME NEW s, NEW n \in Nat, NEW t \in Seq(KeptIn(s, n))
  PROVE  t \in Seq(Nat) /\ t # Marker
<1>1. KeptIn(s, n) \subseteq Nat /\ 0 \notin KeptIn(s, n)
  BY DEF KeptIn
<1>2. t \in Seq(Nat)
  BY <1>1
<1>3. ASSUME t = Marker PROVE FALSE
  <2>1. Len(t) = 1 /\ t[1] = 0
    BY <1>3 DEF Marker
  <2>2. t[1] \in KeptIn(s, n)
    BY <2>1
  <2> QED
    BY <1>1, <2>1, <2>2
<1> QED
  BY <1>2, <1>3

\* A byte that ends no line goes into the buffer.
LEMMA WholeAdd ==
  ASSUME NEW s \in Seq(Bytes), NEW n \in Nat, n < Len(s), s[n + 1] \notin Terminators,
         NEW sink \in Seq(Lines), NEW text, Whole(s, n, sink, text)
  PROVE  Whole(s, n + 1, sink, Append(text, n + 1))
<1> DEFINE F == FlattenSeq(TextsOf(sink))
<1>1. text \in Seq(KeptIn(s, n)) /\ text \in Seq(Nat)
  BY KeptTexts DEF Whole
<1>2. Append(text, n + 1) \in Seq(KeptIn(s, n + 1)) /\ Append(text, n + 1) \in Seq(Nat)
  <2>1. text \in Seq(KeptIn(s, n + 1)) /\ n + 1 \in KeptIn(s, n + 1)
    BY <1>1, KeptNext, KeptGrows
  <2> QED
    BY <1>1, <2>1
<1>3. \A k \in DOMAIN sink : /\ sink[k].text \in Seq(KeptIn(s, n + 1))
                             /\ sink[k].len = WidthIn(s, sink[k].text)
  BY KeptGrows DEF Whole
<1>4. TextsOf(sink) \in Seq(Seq(Nat))
  <2>1. NoLine \in Lines
    BY DEF NoLine, Lines
  <2> QED
    BY <1>1, <2>1, TextsNext
<1>5. /\ F \in Seq(Nat) /\ FlattenSeq(All(sink, text)) = F \o text
      /\ FlattenSeq(All(sink, Append(text, n + 1))) = F \o Append(text, n + 1)
  BY <1>1, <1>2, <1>4, FlattenNext DEF All
<1> HIDE DEF F
<1>6. F \o Append(text, n + 1) = Append(F \o text, n + 1)
  <2> DEFINE c == n + 1
             V == Nat
  <2>1. F \in Seq(V) /\ text \in Seq(V) /\ c \in V
    BY <1>1, <1>5
  <2> HIDE DEF c, V
  <2>2. F \o Append(text, c) = Append(F \o text, c)
    BY <2>1, ConcatAppend
  <2> QED
    BY <2>2 DEF c
<1> QED
  BY <1>2, <1>3, <1>5, <1>6, KeptNext DEF Whole

\* A line that is ended is one more line, and the buffer is empty.
LEMMA WholeEnd ==
  ASSUME NEW s \in Seq(Bytes), NEW n \in Nat, NEW sink \in Seq(Lines), NEW text,
         NEW m \in Lines, m.text = text, m.len = WidthIn(s, text), Whole(s, n, sink, text)
  PROVE  Whole(s, n, Append(sink, m), <<>>)
<1> DEFINE more == Append(sink, m)
<1>1. text \in Seq(KeptIn(s, n)) /\ text \in Seq(Nat)
  BY KeptTexts DEF Whole
<1>2. /\ more \in Seq(Lines) /\ Len(more) = Len(sink) + 1 /\ Len(sink) \in Nat
      /\ DOMAIN more = 1 .. Len(more) /\ DOMAIN sink = 1 .. Len(sink)
      /\ \A k \in 1 .. Len(sink) : more[k] = sink[k]
      /\ more[Len(sink) + 1] = m
  OBVIOUS
<1>3. TextsOf(more) = All(sink, text) /\ All(sink, text) \in Seq(Seq(Nat))
  BY <1>1, TextsNext
<1> HIDE DEF more
<1>4. FlattenSeq(All(more, <<>>)) = FlattenSeq(All(sink, text))
  <2>1. <<>> \in Seq(Nat)
    OBVIOUS
  <2>2. /\ FlattenSeq(All(sink, text)) \in Seq(Nat)
        /\ FlattenSeq(Append(All(sink, text), <<>>)) = FlattenSeq(All(sink, text)) \o <<>>
    BY <1>3, <2>1, FlattenNext
  <2>3. All(more, <<>>) = Append(All(sink, text), <<>>)
    BY <1>3 DEF All
  <2> DEFINE F == FlattenSeq(All(sink, text))
  <2> HIDE DEF F
  <2>4. F \in Seq(Nat) => F \o <<>> = F
    OBVIOUS
  <2> QED
    BY <2>2, <2>3, <2>4 DEF F
<1>5. \A k \in DOMAIN more : /\ more[k].text \in Seq(KeptIn(s, n))
                             /\ more[k].len = WidthIn(s, more[k].text)
  <2> SUFFICES ASSUME NEW k \in DOMAIN more
               PROVE  /\ more[k].text \in Seq(KeptIn(s, n))
                      /\ more[k].len = WidthIn(s, more[k].text)
      OBVIOUS
  <2>1. CASE k \in 1 .. Len(sink)
    BY <1>2, <2>1 DEF Whole
  <2>2. CASE k = Len(sink) + 1
    BY <1>1, <1>2, <2>2
  <2> QED
    BY <1>2, <2>1, <2>2
<1>6. <<>> \in Seq(KeptIn(s, n))
  OBVIOUS
<1> QED
  BY <1>4, <1>5, <1>6 DEF Whole, more

\* A terminator is in no line.
LEMMA WholeSkip ==
  ASSUME NEW s \in Seq(Bytes), NEW n \in Nat, n < Len(s), s[n + 1] \in Terminators,
         NEW sink \in Seq(Lines), Whole(s, n, sink, <<>>)
  PROVE  Whole(s, n + 1, sink, <<>>)
<1>1. \A k \in DOMAIN sink : /\ sink[k].text \in Seq(KeptIn(s, n + 1))
                             /\ sink[k].len = WidthIn(s, sink[k].text)
  BY KeptGrows DEF Whole
<1>2. <<>> \in Seq(KeptIn(s, n + 1))
  OBVIOUS
<1> QED
  BY <1>1, <1>2, KeptNext DEF Whole

-----------------------------------------------------------------------------
(***************************************************************************)
(* Where the lines are ended.                                              *)
(***************************************************************************)

\* The ends of line among the first n bytes, and the texts that go on in the next.
BreaksIn(s, n) == {k \in 1 .. n : \/ s[k] = "cr"
                                  \/ s[k] = "lf" /\ (k = 1 \/ s[k - 1] # "cr")}
ForcedIn(T) == {k \in 1 .. Len(T) - 1 : /\ T[k] # <<>> /\ T[k + 1] # <<>>
                                        /\ Head(T[k + 1]) = Last(T[k]) + 1}

\* The buffer ends with the last byte, unless that ended a line, all of it.
Placed(s, n, text) ==
  /\ text # <<>> => Last(text) = n
  /\ text = <<>> /\ n > 0 => s[n] \in Terminators
  /\ n > 0 /\ n < Len(s) /\ s[n] = "cr" => s[n + 1] # "lf"

\* The text leaves no byte out.
InOneRun(text) == \A p, q \in 1 .. Len(text) : text[q] - text[p] = q - p

\* Every line is ended by a terminator or for want of room.
Cut(s, n, sink, text) ==
  LET T == All(sink, text) IN
  /\ Placed(s, n, text)
  /\ \A k \in 1 .. Len(T) : InOneRun(T[k])
  /\ \A k \in ForcedIn(T) : sink[k].len + Width(s[Head(T[k + 1])]) > LineBudget
  /\ Len(sink) = Cardinality(BreaksIn(s, n)) + Cardinality(ForcedIn(T))

\* There are finitely many ends.
LEMMA BreaksFinite ==
  ASSUME NEW s, NEW n \in Nat
  PROVE  IsFiniteSet(BreaksIn(s, n)) /\ Cardinality(BreaksIn(s, n)) \in Nat
<1>1. IsFiniteSet(1 .. n)
  BY FS_Interval
<1>2. BreaksIn(s, n) \subseteq 1 .. n
  BY DEF BreaksIn
<1> QED
  BY <1>1, <1>2, FS_Subset, FS_CardinalityType

\* And finitely many texts that go on.
LEMMA ForcedFinite ==
  ASSUME NEW T \in Seq(Seq(Nat))
  PROVE  IsFiniteSet(ForcedIn(T)) /\ Cardinality(ForcedIn(T)) \in Nat
<1>1. Len(T) - 1 \in Int
  OBVIOUS
<1>2. IsFiniteSet(1 .. Len(T) - 1)
  BY <1>1, FS_Interval
<1>3. ForcedIn(T) \subseteq 1 .. Len(T) - 1
  BY DEF ForcedIn
<1> QED
  BY <1>2, <1>3, FS_Subset, FS_CardinalityType

\* One more element counts as one.
LEMMA OneMore ==
  ASSUME NEW S, IsFiniteSet(S), NEW x, x \notin S
  PROVE  Cardinality(S \cup {x}) = Cardinality(S) + 1
BY FS_AddElement

\* A byte that ends no line ends no line.
LEMMA BreaksStay ==
  ASSUME NEW s \in Seq(Bytes), NEW n \in Nat, s[n + 1] \notin Terminators
  PROVE  BreaksIn(s, n + 1) = BreaksIn(s, n)
BY DEF BreaksIn, Terminators

\* A terminator, with the LF a CR takes along, ends one.
LEMMA BreaksGrow ==
  ASSUME NEW s \in Seq(Bytes), NEW n \in Nat, n < Len(s), s[n + 1] \in Terminators,
         n > 0 /\ s[n] = "cr" => s[n + 1] # "lf",
         NEW m \in Nat,
         m = IF s[n + 1] = "cr" /\ n + 2 <= Len(s) /\ s[n + 2] = "lf"
             THEN n + 2 ELSE n + 1
  PROVE  Cardinality(BreaksIn(s, m)) = Cardinality(BreaksIn(s, n)) + 1
<1>1. n + 1 \notin BreaksIn(s, n)
  BY DEF BreaksIn
<1>2. BreaksIn(s, n + 1) = BreaksIn(s, n) \cup {n + 1}
  <2>1. (n + 1) - 1 = n /\ (n + 1 = 1 <=> n = 0)
    OBVIOUS
  <2>2. s[n + 1] = "cr" \/ (s[n + 1] = "lf" /\ (n + 1 = 1 \/ s[(n + 1) - 1] # "cr"))
    BY <2>1 DEF Terminators
  <2>3. 1 .. n + 1 = (1 .. n) \cup {n + 1}
    OBVIOUS
  <2> QED
    BY <2>2, <2>3 DEF BreaksIn
<1>3. BreaksIn(s, m) = BreaksIn(s, n + 1)
  <2>1. CASE m = n + 1
    BY <2>1
  <2>2. CASE m = n + 2
    <3>1. s[n + 1] = "cr" /\ s[n + 2] = "lf"
      BY <2>2
    <3>2. (n + 2) - 1 = n + 1 /\ n + 2 # 1 /\ "lf" # "cr"
      OBVIOUS
    <3>3. ~(s[n + 2] = "cr" \/ (s[n + 2] = "lf" /\ (n + 2 = 1 \/ s[(n + 2) - 1] # "cr")))
      BY <3>1, <3>2
    <3>4. 1 .. n + 2 = (1 .. n + 1) \cup {n + 2}
      OBVIOUS
    <3> QED
      BY <2>2, <3>3, <3>4 DEF BreaksIn
  <2> QED
    BY <2>1, <2>2
<1> QED
  BY <1>1, <1>2, <1>3, BreaksFinite, OneMore

\* An empty text goes on from none.
LEMMA ForcedEmpty ==
  ASSUME NEW T \in Seq(Seq(Nat))
  PROVE  ForcedIn(Append(T, <<>>)) = ForcedIn(T)
<1> DEFINE U == Append(T, <<>>)
<1>1. /\ Len(T) \in Nat /\ Len(U) = Len(T) + 1 /\ U[Len(T) + 1] = <<>>
      /\ \A k \in 1 .. Len(T) : U[k] = T[k]
  OBVIOUS
<1> HIDE DEF U
<1>2. ASSUME NEW k \in 1 .. Len(T) PROVE k \in ForcedIn(U) <=> k \in ForcedIn(T)
  <2>1. CASE k = Len(T)
    BY <1>1, <2>1 DEF ForcedIn
  <2>2. CASE k # Len(T)
    <3>1. k \in 1 .. Len(T) - 1 /\ k + 1 \in 1 .. Len(T) /\ k \in 1 .. Len(U) - 1
      BY <1>1, <2>2
    <3>2. U[k] = T[k] /\ U[k + 1] = T[k + 1]
      BY <1>1, <3>1
    <3> QED
      BY <3>1, <3>2 DEF ForcedIn
  <2> QED
    BY <2>1, <2>2
<1>3. ForcedIn(U) \subseteq 1 .. Len(T) /\ ForcedIn(T) \subseteq 1 .. Len(T)
  BY <1>1 DEF ForcedIn
<1> QED
  BY <1>2, <1>3 DEF U

\* The next byte in a line of its own goes on from the last text.
LEMMA ForcedMore ==
  ASSUME NEW T \in Seq(Seq(Nat)), NEW n \in Nat, Len(T) > 0,
         T[Len(T)] # <<>>, Last(T[Len(T)]) = n
  PROVE  /\ ForcedIn(Append(T, <<n + 1>>)) = ForcedIn(T) \cup {Len(T)}
         /\ Len(T) \notin ForcedIn(T)
<1> DEFINE U == Append(T, <<n + 1>>)
<1>0. <<n + 1>> \in Seq(Nat) /\ <<n + 1>> # <<>> /\ Head(<<n + 1>>) = n + 1
  OBVIOUS
<1>1. /\ Len(T) \in Nat /\ Len(U) = Len(T) + 1 /\ U[Len(T) + 1] = <<n + 1>>
      /\ \A k \in 1 .. Len(T) : U[k] = T[k]
  BY <1>0
<1> HIDE DEF U
<1>2. ASSUME NEW k \in 1 .. Len(T), k # Len(T)
      PROVE  k \in ForcedIn(U) <=> k \in ForcedIn(T)
  <2>1. k \in 1 .. Len(T) - 1 /\ k + 1 \in 1 .. Len(T) /\ k \in 1 .. Len(U) - 1
    BY <1>1, <1>2
  <2>2. U[k] = T[k] /\ U[k + 1] = T[k + 1]
    BY <1>1, <2>1
  <2> QED
    BY <2>1, <2>2 DEF ForcedIn
<1>3. Len(T) \in ForcedIn(U)
  <2>1. Len(T) \in 1 .. Len(U) - 1 /\ U[Len(T)] = T[Len(T)]
    BY <1>1
  <2>2. Head(U[Len(T) + 1]) = Last(U[Len(T)]) + 1 /\ U[Len(T) + 1] # <<>>
    BY <1>0, <1>1, <2>1
  <2> QED
    BY <2>1, <2>2 DEF ForcedIn
<1>4. ForcedIn(U) \subseteq 1 .. Len(T) /\ ForcedIn(T) \subseteq 1 .. Len(T)
  BY <1>1 DEF ForcedIn
<1>5. Len(T) \notin ForcedIn(T)
  BY <1>1 DEF ForcedIn
<1> QED
  BY <1>2, <1>3, <1>4, <1>5 DEF U

\* The next byte in the buffer forces nothing: the buffer begins as it did, or
\* it was empty and the byte before ended a line.
LEMMA ForcedStay ==
  ASSUME NEW P \in Seq(Seq(Nat)), NEW n \in Nat, NEW text \in Seq(Nat),
         text = <<>> => \A k \in 1 .. Len(P) : P[k] # <<>> => Last(P[k]) # n
  PROVE  ForcedIn(Append(P, Append(text, n + 1))) = ForcedIn(Append(P, text))
<1> DEFINE T == Append(P, text)
           U == Append(P, Append(text, n + 1))
<1>1. Append(text, n + 1) \in Seq(Nat) /\ Len(P) \in Nat
  OBVIOUS
<1>2. /\ Len(T) = Len(P) + 1 /\ T[Len(P) + 1] = text
      /\ \A k \in 1 .. Len(P) : T[k] = P[k]
  BY <1>1
<1>3. /\ Len(U) = Len(P) + 1 /\ U[Len(P) + 1] = Append(text, n + 1)
      /\ \A k \in 1 .. Len(P) : U[k] = P[k]
  BY <1>1
<1>4. /\ Append(text, n + 1) # <<>>
      /\ text # <<>> => Head(Append(text, n + 1)) = Head(text)
      /\ text = <<>> => Head(Append(text, n + 1)) = n + 1
  <2>1. Len(Append(text, n + 1)) = Len(text) + 1 /\ Len(text) \in Nat
        /\ Head(Append(text, n + 1)) = Append(text, n + 1)[1]
    OBVIOUS
  <2>2. CASE text = <<>>
    BY <2>1, <2>2
  <2>3. CASE text # <<>>
    <3>1. 1 \in 1 .. Len(text) /\ Head(text) = text[1]
      BY <2>3
    <3>2. Append(text, n + 1)[1] = text[1]
      BY <3>1
    <3> QED
      BY <2>1, <2>3, <3>1, <3>2
  <2> QED
    BY <2>2, <2>3
<1> DEFINE next == Append(text, n + 1)
<1> HIDE DEF T, U, next
<1>5. ASSUME NEW k \in 1 .. Len(P) PROVE k \in ForcedIn(U) <=> k \in ForcedIn(T)
  <2>1. k \in 1 .. Len(T) - 1 /\ k \in 1 .. Len(U) - 1 /\ U[k] = P[k] /\ T[k] = P[k]
    BY <1>1, <1>2, <1>3
  <2>2. CASE k # Len(P)
    <3>1. k + 1 \in 1 .. Len(P)
      BY <1>1, <2>2
    <3>2. U[k + 1] = T[k + 1]
      BY <1>2, <1>3, <3>1
    <3> QED
      BY <2>1, <3>2 DEF ForcedIn
  <2>3. CASE k = Len(P)
    <3>1. U[k + 1] = next /\ T[k + 1] = text
      BY <1>2, <1>3, <2>3 DEF next
    <3>2. CASE text # <<>>
      <4>1. next # <<>> /\ Head(next) = Head(text)
        BY <1>4, <3>2 DEF next
      <4> QED
        BY <2>1, <3>1, <3>2, <4>1 DEF ForcedIn
    <3>3. CASE text = <<>>
      <4>1. k \notin ForcedIn(T)
        BY <3>1, <3>3 DEF ForcedIn
      <4>2. ASSUME P[k] # <<>> PROVE Head(next) # Last(P[k]) + 1
        <5>1. Head(next) = n + 1 /\ Last(P[k]) # n
          BY <1>4, <3>3, <4>2 DEF next
        <5>2. P[k] \in Seq(Nat) /\ Len(P[k]) \in Nat /\ Len(P[k]) # 0
          BY <4>2
        <5>3. Last(P[k]) \in Nat
          BY <5>2 DEF Last
        <5> QED
          BY <5>1, <5>3
      <4>3. k \notin ForcedIn(U)
        BY <2>1, <3>1, <4>2 DEF ForcedIn
      <4> QED
        BY <4>1, <4>3
    <3> QED
      BY <3>2, <3>3
  <2> QED
    BY <2>2, <2>3
<1>6. ForcedIn(U) \subseteq 1 .. Len(P) /\ ForcedIn(T) \subseteq 1 .. Len(P)
  BY <1>1, <1>2, <1>3 DEF ForcedIn
<1> QED
  BY <1>5, <1>6 DEF T, U

\* A byte into a buffer with room.
LEMMA CutAdd ==
  ASSUME NEW s \in Seq(Bytes), NEW n \in Nat, n < Len(s), s[n + 1] \notin Terminators,
         NEW sink \in Seq(Lines), NEW text,
         Whole(s, n, sink, text), Cut(s, n, sink, text)
  PROVE  Cut(s, n + 1, sink, Append(text, n + 1))
<1> DEFINE next == Append(text, n + 1)
           T == All(sink, text)
           U == All(sink, next)
<1>1. text \in Seq(KeptIn(s, n)) /\ text \in Seq(Nat) /\ next \in Seq(Nat)
  BY KeptTexts DEF Whole
<1>2. /\ next # <<>> /\ Last(next) = n + 1 /\ Len(next) = Len(text) + 1
      /\ next[Len(text) + 1] = n + 1 /\ Len(text) \in Nat
      /\ \A k \in 1 .. Len(text) : next[k] = text[k]
  <2>1. /\ Len(next) = Len(text) + 1 /\ Len(text) \in Nat
        /\ next[Len(text) + 1] = n + 1
        /\ \A k \in 1 .. Len(text) : next[k] = text[k]
    BY <1>1
  <2> HIDE DEF next, T, U
  <2>2. next # <<>>
    <3>1. Len(next) # 0
      BY <2>1
    <3> QED
      BY <3>1
  <2>3. Last(next) = n + 1
    BY <2>1 DEF Last
  <2> QED
    BY <2>1, <2>2, <2>3
<1>3. NoLine \in Lines
  BY DEF NoLine, Lines
<1>4. /\ TextsOf(sink) \in Seq(Seq(Nat)) /\ Len(TextsOf(sink)) = Len(sink)
      /\ T \in Seq(Seq(Nat)) /\ Len(T) = Len(sink) + 1 /\ T[Len(sink) + 1] = text
      /\ \A k \in 1 .. Len(sink) : T[k] = sink[k].text
  BY <1>1, <1>3, TextsNext
<1>5. /\ U \in Seq(Seq(Nat)) /\ Len(U) = Len(sink) + 1 /\ U[Len(sink) + 1] = next
      /\ \A k \in 1 .. Len(sink) : U[k] = sink[k].text
  <2> HIDE DEF next
  <2> QED
    BY <1>1, <1>3, TextsNext
<1>6. /\ Placed(s, n, text)
      /\ \A k \in 1 .. Len(T) : InOneRun(T[k])
      /\ \A k \in ForcedIn(T) : sink[k].len + Width(s[Head(T[k + 1])]) > LineBudget
      /\ Len(sink) = Cardinality(BreaksIn(s, n)) + Cardinality(ForcedIn(T))
  BY DEF Cut
<1>7. ASSUME text = <<>>, NEW k \in 1 .. Len(sink), sink[k].text # <<>>
      PROVE  Last(sink[k].text) # n
  <2>1. sink[k].text \in Seq(KeptIn(s, n))
    BY DEF Whole
  <2> DEFINE t == sink[k].text
  <2>2. Len(t) \in 1 .. Len(t)
    BY <1>7, <2>1
  <2>3. Last(t) \in KeptIn(s, n)
    BY <2>1, <2>2 DEF Last
  <2>4. n \notin KeptIn(s, n)
    BY <1>6, <1>7 DEF KeptIn, Placed
  <2> QED
    BY <2>3, <2>4
<1>8. ForcedIn(U) = ForcedIn(T)
  <2> DEFINE P == TextsOf(sink)
  <2>1. \A k \in 1 .. Len(P) : P[k] = sink[k].text
    BY <1>4 DEF TextsOf
  <2>2. text = <<>> => \A k \in 1 .. Len(P) : P[k] # <<>> => Last(P[k]) # n
    BY <1>4, <1>7, <2>1
  <2>3. P \in Seq(Seq(Nat))
    BY <1>4
  <2> HIDE DEF P
  <2>4. ForcedIn(Append(P, Append(text, n + 1))) = ForcedIn(Append(P, text))
    BY <1>1, <2>2, <2>3, ForcedStay
  <2> QED
    BY <2>4 DEF P, All
<1>9. Placed(s, n + 1, next)
  <2>1. s[n + 1] # "cr"
    BY DEF Terminators
  <2> HIDE DEF next
  <2> QED
    BY <1>2, <2>1 DEF Placed
<1>10. InOneRun(text) /\ Placed(s, n, text)
  <2>1. Len(sink) + 1 \in 1 .. Len(T)
    BY <1>4
  <2> HIDE DEF T
  <2> QED
    BY <1>4, <1>6, <2>1
<1>11. InOneRun(next)
  <2> HIDE DEF next, T, U
  <2> SUFFICES ASSUME NEW p \in 1 .. Len(text) + 1, NEW q \in 1 .. Len(text) + 1
               PROVE  next[q] - next[p] = q - p
    BY <1>2 DEF InOneRun
  <2>1. \A k \in 1 .. Len(text) : next[k] \in Nat /\ next[k] = n + k - Len(text)
    <3> SUFFICES ASSUME NEW k \in 1 .. Len(text)
                 PROVE  next[k] \in Nat /\ next[k] = n + k - Len(text)
        OBVIOUS
    <3>1. text[k] \in Nat /\ next[k] = text[k] /\ Len(text) \in 1 .. Len(text) /\ text # <<>>
      BY <1>1, <1>2
    <3>2. text[Len(text)] = n
      BY <1>10, <3>1 DEF Placed, Last
    <3>3. text[Len(text)] - text[k] = Len(text) - k
      BY <1>10, <3>1 DEF InOneRun
    <3> QED
      BY <3>1, <3>2, <3>3
  <2>2. \A k \in 1 .. Len(text) + 1 : next[k] = n + k - Len(text)
    <3> SUFFICES ASSUME NEW k \in 1 .. Len(text) + 1 PROVE next[k] = n + k - Len(text)
      OBVIOUS
    <3>1. CASE k \in 1 .. Len(text)
      BY <2>1, <3>1
    <3>2. CASE k = Len(text) + 1
      <4>1. n + (Len(text) + 1) - Len(text) = n + 1
        BY <1>2
      <4> QED
        BY <1>2, <3>2, <4>1
    <3> QED
      BY <1>2, <3>1, <3>2
  <2>3. next[p] = n + p - Len(text) /\ next[q] = n + q - Len(text)
    BY <2>2
  <2> QED
    BY <1>2, <2>3
<1>12. \A k \in 1 .. Len(U) : InOneRun(U[k])
  <2> HIDE DEF next, T, U
  <2> SUFFICES ASSUME NEW k \in 1 .. Len(U) PROVE InOneRun(U[k])
    OBVIOUS
  <2>1. CASE k \in 1 .. Len(sink)
    <3>1. U[k] = T[k] /\ k \in 1 .. Len(T)
      BY <1>4, <1>5, <2>1
    <3> QED
      BY <1>6, <3>1
  <2>2. CASE k = Len(sink) + 1
    BY <1>5, <1>11, <2>2
  <2> QED
    BY <1>5, <2>1, <2>2
<1>13. ASSUME NEW k \in ForcedIn(U)
       PROVE  sink[k].len + Width(s[Head(U[k + 1])]) > LineBudget
  <2> HIDE DEF next, T, U
  <2>1. k \in ForcedIn(T) /\ k \in 1 .. Len(sink) /\ T[k + 1] # <<>>
    BY <1>4, <1>8 DEF ForcedIn
  <2>2. sink[k].len + Width(s[Head(T[k + 1])]) > LineBudget
    BY <1>6, <2>1
  <2>3. Head(U[k + 1]) = Head(T[k + 1])
    <3>1. CASE k + 1 \in 1 .. Len(sink)
      BY <1>4, <1>5, <3>1
    <3>2. CASE k + 1 = Len(sink) + 1
      <4>1. text # <<>> /\ T[k + 1] = text /\ U[k + 1] = next
        BY <1>4, <1>5, <2>1, <3>2
      <4>2. next[1] = text[1] /\ Head(text) = text[1] /\ Head(next) = next[1]
        <5>1. 1 \in 1 .. Len(text)
          BY <1>1, <4>1
        <5> QED
          BY <1>1, <1>2, <5>1
      <4> QED
        BY <4>1, <4>2
    <3> QED
      BY <2>1, <3>1, <3>2
  <2> QED
    BY <2>2, <2>3
<1>14. BreaksIn(s, n + 1) = BreaksIn(s, n)
  BY BreaksStay
<1> HIDE DEF next, T, U
<1>15. Cut(s, n + 1, sink, next)
  BY <1>6, <1>8, <1>9, <1>12, <1>13, <1>14 DEF Cut, T, U
<1> QED
  BY <1>15 DEF next

\* A byte that does not fit begins the next line.
LEMMA CutForced ==
  ASSUME NEW s \in Seq(Bytes), NEW n \in Nat, n < Len(s), s[n + 1] \notin Terminators,
         NEW sink \in Seq(Lines), NEW text, text # <<>>,
         NEW m \in Lines, m.text = text, m.len + Width(s[n + 1]) > LineBudget,
         Whole(s, n, sink, text), Cut(s, n, sink, text)
  PROVE  Cut(s, n + 1, Append(sink, m), <<n + 1>>)
<1> DEFINE T == All(sink, text)
           more == Append(sink, m)
           one == <<n + 1>>
           U == All(more, one)
<1>1. text \in Seq(Nat)
  BY KeptTexts DEF Whole
<1>2. one \in Seq(Nat) /\ Len(one) = 1 /\ one[1] = n + 1 /\ Head(one) = n + 1
      /\ one # <<>> /\ Last(one) = n + 1
  BY DEF Last
<1>3. /\ more \in Seq(Lines) /\ Len(more) = Len(sink) + 1 /\ Len(sink) \in Nat
      /\ \A k \in 1 .. Len(sink) : more[k] = sink[k]
      /\ more[Len(sink) + 1] = m
  OBVIOUS
<1>4. /\ T \in Seq(Seq(Nat)) /\ Len(T) = Len(sink) + 1 /\ T[Len(sink) + 1] = text
      /\ TextsOf(more) = T
  BY <1>1, TextsNext
<1>5. U = Append(T, one)
  BY <1>4 DEF All
<1> HIDE DEF T, more, one, U
<1>6. /\ Len(U) = Len(T) + 1 /\ U[Len(T) + 1] = one
      /\ \A k \in 1 .. Len(T) : U[k] = T[k]
  BY <1>2, <1>4, <1>5
<1>7. /\ Placed(s, n, text)
      /\ \A k \in 1 .. Len(T) : InOneRun(T[k])
      /\ \A k \in ForcedIn(T) : sink[k].len + Width(s[Head(T[k + 1])]) > LineBudget
      /\ Len(sink) = Cardinality(BreaksIn(s, n)) + Cardinality(ForcedIn(T))
  BY DEF Cut, T
<1>8. ForcedIn(U) = ForcedIn(T) \cup {Len(T)} /\ Len(T) \notin ForcedIn(T)
  <2>1. Len(T) > 0 /\ T[Len(T)] = text /\ Last(T[Len(T)]) = n
    BY <1>3, <1>4, <1>7 DEF Placed
  <2>2. ForcedIn(Append(T, <<n + 1>>)) = ForcedIn(T) \cup {Len(T)} /\ Len(T) \notin ForcedIn(T)
    BY <1>4, <2>1, ForcedMore
  <2> QED
    BY <1>5, <2>2 DEF one
<1>9. Cardinality(ForcedIn(U)) = Cardinality(ForcedIn(T)) + 1
  BY <1>4, <1>8, ForcedFinite, OneMore
<1>10. Placed(s, n + 1, one)
  <2>1. s[n + 1] # "cr"
    BY DEF Terminators
  <2> QED
    BY <1>2, <2>1 DEF Placed
<1>11. \A k \in 1 .. Len(U) : InOneRun(U[k])
  <2>1. InOneRun(one)
    <3>1. \A p, q \in 1 .. Len(one) : p = 1 /\ q = 1
      BY <1>2
    <3> QED
      BY <1>2, <3>1 DEF InOneRun
  <2> SUFFICES ASSUME NEW k \in 1 .. Len(U) PROVE InOneRun(U[k])
    OBVIOUS
  <2>2. CASE k \in 1 .. Len(T)
    BY <1>6, <1>7, <2>2
  <2>3. CASE k = Len(T) + 1
    BY <1>6, <2>1, <2>3
  <2> QED
    BY <1>4, <1>6, <2>2, <2>3
<1>12. ASSUME NEW k \in ForcedIn(U)
       PROVE  more[k].len + Width(s[Head(U[k + 1])]) > LineBudget
  <2>1. CASE k \in ForcedIn(T)
    <3>1. k \in 1 .. Len(sink) /\ k + 1 \in 1 .. Len(T)
      BY <1>3, <1>4, <2>1 DEF ForcedIn
    <3>2. more[k] = sink[k] /\ U[k + 1] = T[k + 1]
      BY <1>3, <1>6, <3>1
    <3> QED
      BY <1>7, <2>1, <3>2
  <2>2. CASE k = Len(T)
    <3>1. more[k] = m /\ U[k + 1] = one
      BY <1>3, <1>4, <1>6, <2>2
    <3> QED
      BY <1>2, <3>1
  <2> QED
    BY <1>8, <2>1, <2>2
<1>13. BreaksIn(s, n + 1) = BreaksIn(s, n)
  BY BreaksStay
<1>14. Len(more) = Cardinality(BreaksIn(s, n + 1)) + Cardinality(ForcedIn(U))
  BY <1>3, <1>4, <1>7, <1>9, <1>13, BreaksFinite, ForcedFinite
<1>15. Cut(s, n + 1, more, one)
  BY <1>10, <1>11, <1>12, <1>14 DEF Cut, U
<1> QED
  BY <1>15 DEF more, one

\* A terminator ends the line, empty or not.
LEMMA CutEnd ==
  ASSUME NEW s \in Seq(Bytes), NEW n \in Nat, n < Len(s), s[n + 1] \in Terminators,
         NEW sink \in Seq(Lines), NEW text, NEW l \in Lines, l.text = text,
         Whole(s, n, sink, text), Cut(s, n, sink, text), NEW m \in Nat,
         m = IF s[n + 1] = "cr" /\ n + 2 <= Len(s) /\ s[n + 2] = "lf"
             THEN n + 2 ELSE n + 1
  PROVE  Cut(s, m, Append(sink, l), <<>>)
<1> DEFINE T == All(sink, text)
           more == Append(sink, l)
           U == All(more, <<>>)
<1>1. text \in Seq(Nat)
  BY KeptTexts DEF Whole
<1>2. /\ more \in Seq(Lines) /\ Len(more) = Len(sink) + 1 /\ Len(sink) \in Nat
      /\ \A k \in 1 .. Len(sink) : more[k] = sink[k]
  OBVIOUS
<1>3. /\ T \in Seq(Seq(Nat)) /\ Len(T) = Len(sink) + 1 /\ TextsOf(more) = T
  BY <1>1, TextsNext
<1>4. U = Append(T, <<>>)
  BY <1>3 DEF All
<1> HIDE DEF T, more, U
<1>5. /\ Len(U) = Len(T) + 1 /\ U[Len(T) + 1] = <<>>
      /\ \A k \in 1 .. Len(T) : U[k] = T[k]
  <2>1. <<>> \in Seq(Nat)
    OBVIOUS
  <2> QED
    BY <1>3, <1>4, <2>1
<1>6. /\ Placed(s, n, text)
      /\ \A k \in 1 .. Len(T) : InOneRun(T[k])
      /\ \A k \in ForcedIn(T) : sink[k].len + Width(s[Head(T[k + 1])]) > LineBudget
      /\ Len(sink) = Cardinality(BreaksIn(s, n)) + Cardinality(ForcedIn(T))
  BY DEF Cut, T
<1>7. ForcedIn(U) = ForcedIn(T)
  BY <1>3, <1>4, ForcedEmpty
<1>8. Cardinality(BreaksIn(s, m)) = Cardinality(BreaksIn(s, n)) + 1
  <2>1. n > 0 /\ s[n] = "cr" => s[n + 1] # "lf"
    BY <1>6 DEF Placed
  <2> QED
    BY <2>1, BreaksGrow
<1>9. Placed(s, m, <<>>)
  <2>1. CASE m = n + 1
    <3>1. s[m] \in Terminators /\ (m < Len(s) /\ s[m] = "cr" => s[m + 1] # "lf")
      <4>1. m < Len(s) => n + 2 <= Len(s) /\ m + 1 = n + 2 /\ m # n + 2
        BY <2>1
      <4> QED
        BY <2>1, <4>1
    <3> QED
      BY <3>1 DEF Placed
  <2>2. CASE m = n + 2
    <3>1. s[m] = "lf" /\ "lf" # "cr" /\ "lf" \in Terminators
      BY <2>2 DEF Terminators
    <3> QED
      BY <3>1 DEF Placed
  <2> QED
    BY <2>1, <2>2
<1>10. \A k \in 1 .. Len(U) : InOneRun(U[k])
  <2>1. InOneRun(<<>>)
    BY DEF InOneRun
  <2> SUFFICES ASSUME NEW k \in 1 .. Len(U) PROVE InOneRun(U[k])
    OBVIOUS
  <2>2. CASE k \in 1 .. Len(T)
    BY <1>5, <1>6, <2>2
  <2>3. CASE k = Len(T) + 1
    BY <1>5, <2>1, <2>3
  <2> QED
    BY <1>2, <1>3, <1>5, <2>2, <2>3
<1>11. ASSUME NEW k \in ForcedIn(U)
       PROVE  more[k].len + Width(s[Head(U[k + 1])]) > LineBudget
  <2>1. k \in ForcedIn(T) /\ k \in 1 .. Len(sink) /\ k + 1 \in 1 .. Len(T)
    <3>1. k \in ForcedIn(T)
      BY <1>7
    <3>2. k \in 1 .. Len(T) - 1
      BY <3>1 DEF ForcedIn
    <3> QED
      BY <1>2, <1>3, <3>1, <3>2
  <2>2. more[k] = sink[k] /\ U[k + 1] = T[k + 1]
    BY <1>2, <1>5, <2>1
  <2> QED
    BY <1>6, <2>1, <2>2
<1>12. Len(more) = Cardinality(BreaksIn(s, m)) + Cardinality(ForcedIn(U))
  BY <1>2, <1>3, <1>6, <1>7, <1>8, BreaksFinite, ForcedFinite
<1>13. Cut(s, m, more, <<>>)
  BY <1>9, <1>10, <1>11, <1>12 DEF Cut, U
<1> QED
  BY <1>13 DEF more

\* A text of some bytes has a width.
LEMMA WidthPositive ==
  ASSUME NEW s, NEW text \in Seq(Nat), text # <<>>
  PROVE  WidthIn(s, text) >= 1
<1> DEFINE n == Len(text) - 1
           most == [k \in 1 .. n |-> text[k]]
           V == Nat
<1>1. n \in Nat /\ Len(text) = n + 1 /\ n + 1 \in 1 .. Len(text)
      /\ \A k \in 1 .. n : k \in 1 .. Len(text) /\ text[k] \in V
  BY DEF V
<1>2. text[n + 1] \in V
  BY <1>1
<1> HIDE DEF n
<1>3. most \in [1 .. n -> V]
  BY <1>1
<1>4. most \in Seq(V) /\ Len(most) = n
  <2> HIDE DEF most, V
  <2> QED
    BY <1>1, <1>3, PositionsMakeSeq
<1>5. text = Append(most, text[n + 1])
  <2>1. \A k \in 1 .. n : most[k] = text[k]
    OBVIOUS
  <2> HIDE DEF most
  <2> DEFINE u == Append(most, text[n + 1])
  <2>2. u \in Seq(V) /\ Len(u) = n + 1 /\ \A k \in 1 .. n + 1 : u[k] = text[k]
    BY <1>1, <1>2, <1>4, <2>1
  <2> HIDE DEF u
  <2>3. u = text
    BY <1>1, <2>2
  <2> QED
    BY <2>3 DEF u
<1> DEFINE p == text[n + 1]
<1> HIDE DEF most, p, V
<1>6. p \in V
  BY <1>2 DEF p
<1>7. WidthIn(s, most) \in Nat
      /\ WidthIn(s, Append(most, p)) = WidthIn(s, most) + Width(s[p])
  BY <1>4, <1>6, WidthNext
<1>8. WidthIn(s, most) + Width(s[p]) >= 1
  BY <1>7, WidthTypes
<1> QED
  BY <1>5, <1>7, <1>8 DEF p

-----------------------------------------------------------------------------
(***************************************************************************)
(* The lines of a print, step by step.                                     *)
(***************************************************************************)

\* With the lines let through, those so far and the buffer are the text of the
\* bytes consumed, and until the loop ends each line was rightly ended.
TextInv ==
  level = "info" =>
    /\ i <= Len(input)
    /\ fill = WidthIn(input, line)
    /\ Whole(input, i, Stream(Spoken), line)
    /\ at = "scan" => Cut(input, i, Stream(Spoken), line)

MarksIn(sink) == {k \in DOMAIN sink : sink[k].text = Marker}

\* There is no marker until the loop has left bytes, and then it is last.
MarkInv ==
  level = "info" =>
    /\ at = "marker" => i < Len(input)
    /\ at # "done" => MarksIn(Stream(OfSink)) = {}
    /\ at = "done" =>
         MarksIn(Stream(OfSink)) =
           IF i < Len(input) THEN {Len(Stream(OfSink))} ELSE {}

PrintInv == TextInv /\ MarkInv

\* A line of text is no marker.
LEMMA NoMarkAdded ==
  ASSUME NEW sink \in Seq(Lines), NEW m \in Lines, m.text # Marker
  PROVE  MarksIn(Append(sink, m)) = MarksIn(sink)
<1> DEFINE more == Append(sink, m)
<1>1. /\ Len(sink) \in Nat /\ DOMAIN sink = 1 .. Len(sink)
      /\ DOMAIN more = 1 .. Len(sink) + 1 /\ more[Len(sink) + 1] = m
      /\ \A k \in 1 .. Len(sink) : more[k] = sink[k]
  OBVIOUS
<1> HIDE DEF more
<1>2. MarksIn(more) = MarksIn(sink)
  BY <1>1 DEF MarksIn
<1> QED
  BY <1>2 DEF more

\* The marker is one.
LEMMA MarkAdded ==
  ASSUME NEW sink \in Seq(Lines), NEW m \in Lines, m.text = Marker, MarksIn(sink) = {}
  PROVE  MarksIn(Append(sink, m)) = {Len(Append(sink, m))}
<1> DEFINE more == Append(sink, m)
<1>1. /\ Len(sink) \in Nat /\ DOMAIN sink = 1 .. Len(sink) /\ Len(more) = Len(sink) + 1
      /\ DOMAIN more = 1 .. Len(sink) + 1 /\ more[Len(sink) + 1] = m
      /\ \A k \in 1 .. Len(sink) : more[k] = sink[k]
  OBVIOUS
<1> HIDE DEF more
<1>2. \A k \in 1 .. Len(sink) : more[k].text # Marker
  BY <1>1 DEF MarksIn
<1>3. MarksIn(more) = {Len(more)}
  BY <1>1, <1>2 DEF MarksIn
<1> QED
  BY <1>3 DEF more

\* The invariant holds when the callback is entered.
LEMMA PrintInvInit == Init => PrintInv
<1> SUFFICES ASSUME Init PROVE PrintInv
  OBVIOUS
<1>1. /\ i = 0 /\ line = <<>> /\ fill = 0 /\ at = "scan" /\ debug = <<>>
      /\ call["engine"] = NoLine
  BY DEF Init, Start, Threads
<1>2. input \in Seq(Bytes) /\ Len(input) \in Nat
  BY LogInvInit DEF LogInv, TypeOK
<1>3. \A S : Stream(S) = <<>>
  <2> SUFFICES ASSUME NEW S PROVE Stream(S) = <<>>
    OBVIOUS
  <2>1. StreamOf(<<>>, NoLine, lock, S) = OnlyIn(<<>>, S)
    <3>1. <<>> \in Seq(Lines) /\ NoLine \in Lines
      BY DEF NoLine, Lines
    <3> QED
      BY <3>1, StreamForms
  <2> QED
    BY <1>1, <2>1, OnlyInEmpty DEF Stream
<1>4. All(<<>>, <<>>) = <<<<>>>> /\ Len(<<<<>>>>) = 1 /\ <<<<>>>>[1] = <<>>
  <2>1. DOMAIN <<>> = {}
    OBVIOUS
  <2>2. TextsOf(<<>>) = <<>>
    BY <2>1 DEF TextsOf
  <2>3. \A e : Append(<<>>, e) = <<e>> /\ Len(<<e>>) = 1 /\ <<e>>[1] = e
    OBVIOUS
  <2> QED
    BY <2>2, <2>3 DEF All
<1>5. FlattenSeq(All(<<>>, <<>>)) = <<>>
  <2>1. <<>> \in Seq(Seq(Nat)) /\ <<>> \in Seq(Nat) /\ <<>> \o <<>> = <<>>
    OBVIOUS
  <2>2. FlattenSeq(Append(<<>>, <<>>)) = FlattenSeq(<<>>) \o <<>>
    BY <2>1, FlattenNext
  <2>3. Append(<<>>, <<>>) = <<<<>>>>
    OBVIOUS
  <2> QED
    BY <1>4, <2>1, <2>2, <2>3, FlattenEmpty
<1>6. [k \in 1 .. 0 |-> k] = <<>>
  <2>1. 1 .. 0 = {}
    OBVIOUS
  <2> QED
    BY <2>1
<1>7. Whole(input, 0, <<>>, <<>>)
  <2>1. DOMAIN <<>> = {} /\ <<>> \in Seq(KeptIn(input, 0))
    OBVIOUS
  <2>2. OnlyIn([k \in 1 .. 0 |-> k], KeptIn(input, Len(input))) = <<>>
    BY <1>6, OnlyInEmpty
  <2> QED
    BY <1>5, <2>1, <2>2 DEF Whole
<1>8. Cut(input, 0, <<>>, <<>>)
  <2>1. BreaksIn(input, 0) = {} /\ ForcedIn(<<<<>>>>) = {} /\ 1 - 1 = 0
    <3>1. 1 .. 0 = {} /\ 1 - 1 = 0
      OBVIOUS
    <3> QED
      BY <1>4, <3>1 DEF BreaksIn, ForcedIn
  <2>2. Placed(input, 0, <<>>)
    BY DEF Placed
  <2>3. \A k \in 1 .. Len(<<<<>>>>) : InOneRun(<<<<>>>>[k])
    <3>1. InOneRun(<<>>)
      BY DEF InOneRun
    <3>2. \A k \in 1 .. 1 : k = 1
      OBVIOUS
    <3> QED
      BY <1>4, <3>1, <3>2
  <2>4. Len(<<>>) = Cardinality({}) + Cardinality({})
    BY FS_EmptySet
  <2> QED
    BY <1>4, <2>1, <2>2, <2>3, <2>4 DEF Cut
<1>9. TextInv
  <2>1. 0 <= Len(input)
    BY <1>2
  <2> QED
    BY <1>1, <1>3, <1>7, <1>8, <2>1, WidthEmpty DEF TextInv
<1>10. MarkInv
  <2>1. MarksIn(<<>>) = {}
    BY DEF MarksIn
  <2> QED
    BY <1>1, <1>3, <2>1 DEF MarkInv
<1> QED
  BY <1>9, <1>10 DEF PrintInv

\* What an emission of the buffer adds to the lines.
LEMMA LineEmitted ==
  ASSUME LogInv, TextInv, level = "info", call["engine"] = NoLine,
         Emit(line, fill), lock' = lock, debug' = debug
  PROVE  \E m \in Lines :
           /\ m.text = line /\ m.len = fill /\ m.text # Marker
           /\ Stream(Spoken)' = Append(Stream(Spoken), m)
           /\ Stream(OfSink)' = Append(Stream(OfSink), m)
<1> DEFINE m == Message("engine", line, fill)
<1>1. line \in Seq(Nat) /\ fill \in Nat /\ fill <= LineBudget /\ i \in Nat
  BY DEF LogInv, TypeOK, LinesFit
<1>2. line # Marker
  BY <1>1, KeptTexts DEF TextInv, Whole
<1>3. m.text = line /\ m.len = fill
  BY DEF Message
<1>4. Spoken \in SUBSET OfSink /\ OfSink \in SUBSET OfSink
  BY DEF Spoken
<1> HIDE DEF m
<1>5. /\ m \in OfSink
      /\ Stream(Spoken)' = IF m \in Spoken THEN Append(Stream(Spoken), m) ELSE Stream(Spoken)
  BY <1>1, <1>4, StreamEmits DEF m
<1>6. Stream(OfSink)' = IF m \in OfSink THEN Append(Stream(OfSink), m) ELSE Stream(OfSink)
  BY <1>1, <1>4, StreamEmits DEF m
<1>7. m \in Spoken /\ m \in Lines
  BY <1>2, <1>3, <1>5 DEF Spoken, OfSink
<1> QED
  BY <1>2, <1>3, <1>5, <1>6, <1>7

\* A step of the renderer that emits nothing adds nothing.
LEMMA NothingEmitted ==
  ASSUME LogInv, call' = call, lock' = lock, debug' = debug
  PROVE  Stream(Spoken)' = Stream(Spoken) /\ Stream(OfSink)' = Stream(OfSink)
BY StreamStands DEF Spoken

\* A terminator.
LEMMA EndLineKeeps == ASSUME LogInv, PrintInv, EndLine PROVE PrintInv'
<1> SUFFICES ASSUME level = "info" PROVE PrintInv'
  <2>1. level' = level
    BY DEF EndLine, Rendering
  <2> QED
    BY <2>1 DEF PrintInv, TextInv, MarkInv
<1>1. /\ at = "scan" /\ call["engine"] = NoLine
      /\ UNCHANGED <<input, level, lock, debug, at>>
      /\ i < Len(input) /\ input[i + 1] \in Terminators
      /\ Emit(line, fill) /\ line' = <<>> /\ fill' = 0 /\ i' = AfterBreak
  BY DEF EndLine, Rendering, MoreInput
<1>2. /\ input \in Seq(Bytes) /\ Len(input) \in Nat /\ i \in Nat /\ fill \in Nat
      /\ Stream(Spoken) \in Seq(Lines) /\ Stream(OfSink) \in Seq(Lines)
  BY StreamTypes DEF LogInv, TypeOK
<1>3. /\ fill = WidthIn(input, line)
      /\ Whole(input, i, Stream(Spoken), line) /\ Cut(input, i, Stream(Spoken), line)
  BY <1>1 DEF PrintInv, TextInv
<1>4. PICK m \in Lines :
        /\ m.text = line /\ m.len = fill /\ m.text # Marker
        /\ Stream(Spoken)' = Append(Stream(Spoken), m)
        /\ Stream(OfSink)' = Append(Stream(OfSink), m)
  BY <1>1, LineEmitted DEF PrintInv
<1>5. /\ i' \in Nat
      /\ i' = IF input[i + 1] = "cr" /\ i + 2 <= Len(input) /\ input[i + 2] = "lf"
              THEN i + 2 ELSE i + 1
  BY <1>1, <1>2 DEF AfterBreak
<1>6. Cut(input, i', Append(Stream(Spoken), m), <<>>)
  BY <1>1, <1>2, <1>3, <1>4, <1>5, CutEnd
<1>7. Whole(input, i + 1, Append(Stream(Spoken), m), <<>>)
  <2>1. Whole(input, i, Append(Stream(Spoken), m), <<>>)
    BY <1>2, <1>3, <1>4, WholeEnd
  <2>2. Append(Stream(Spoken), m) \in Seq(Lines)
    BY <1>2
  <2> QED
    BY <1>1, <1>2, <2>1, <2>2, WholeSkip
<1>8. Whole(input, i', Append(Stream(Spoken), m), <<>>) /\ i' <= Len(input)
  <2>1. CASE i' = i + 1
    BY <1>1, <1>2, <1>7, <2>1
  <2>2. CASE i' = i + 2 /\ i' # i + 1
    <3> DEFINE n == i + 1
    <3>1. /\ n \in Nat /\ n < Len(input) /\ n + 1 = i + 2 /\ i' <= Len(input)
          /\ input[n + 1] \in Terminators
      <4>1. input[i + 2] = "lf" /\ i + 2 <= Len(input) /\ n + 1 = i + 2
        BY <1>2, <1>5, <2>2
      <4> QED
        BY <1>2, <2>2, <4>1 DEF Terminators
    <3>2. Append(Stream(Spoken), m) \in Seq(Lines)
      BY <1>2
    <3>3. Whole(input, n, Append(Stream(Spoken), m), <<>>)
      BY <1>7
    <3> HIDE DEF n
    <3>4. Whole(input, n + 1, Append(Stream(Spoken), m), <<>>)
      BY <1>2, <3>1, <3>2, <3>3, WholeSkip
    <3> QED
      BY <2>2, <3>1, <3>4
  <2> QED
    BY <1>5, <2>1, <2>2
<1>9. TextInv'
  <2>1. fill' = WidthIn(input', line')
    BY <1>1, WidthEmpty
  <2> QED
    BY <1>1, <1>4, <1>6, <1>8, <2>1 DEF TextInv
<1>10. MarkInv'
  <2>1. MarksIn(Append(Stream(OfSink), m)) = {}
    BY <1>1, <1>2, <1>4, NoMarkAdded DEF PrintInv, MarkInv
  <2> QED
    BY <1>1, <1>4, <2>1 DEF MarkInv
<1> QED
  BY <1>9, <1>10 DEF PrintInv

\* Any other byte.
LEMMA AddByteKeeps == ASSUME LogInv, PrintInv, AddByte PROVE PrintInv'
<1> SUFFICES ASSUME level = "info" PROVE PrintInv'
  <2>1. level' = level
    BY DEF AddByte, Rendering
  <2> QED
    BY <2>1 DEF PrintInv, TextInv, MarkInv
<1> DEFINE b == input[i + 1]
<1>1. /\ at = "scan" /\ call["engine"] = NoLine
      /\ UNCHANGED <<input, level, lock, debug, at>>
      /\ i < Len(input) /\ b \notin Terminators /\ i' = i + 1
  BY DEF AddByte, Rendering, MoreInput
<1>2. /\ input \in Seq(Bytes) /\ Len(input) \in Nat /\ i \in Nat /\ fill \in Nat
      /\ line \in Seq(Nat) /\ i + 1 \in Nat
      /\ Stream(Spoken) \in Seq(Lines) /\ Stream(OfSink) \in Seq(Lines)
  BY StreamTypes DEF LogInv, TypeOK
<1>3. /\ fill = WidthIn(input, line)
      /\ Whole(input, i, Stream(Spoken), line) /\ Cut(input, i, Stream(Spoken), line)
  BY <1>1 DEF PrintInv, TextInv
<1>4. i' <= Len(input') /\ i' = i + 1
  BY <1>1, <1>2
<1>5. CASE Fits(b)
  <2>1. line' = Append(line, i + 1) /\ fill' = fill + Width(b) /\ call' = call
    BY <1>5 DEF AddByte
  <2>2. /\ Stream(Spoken)' = Stream(Spoken)
        /\ Stream(OfSink)' = Stream(OfSink)
    BY <1>1, <2>1, NothingEmitted
  <2>3. fill' = WidthIn(input', line')
    <3> DEFINE p == i + 1
               V == Nat
    <3>1. line \in Seq(V) /\ p \in V
      BY <1>2
    <3> HIDE DEF p, V
    <3>2. WidthIn(input, Append(line, p)) = WidthIn(input, line) + Width(input[p])
      BY <3>1, WidthNext
    <3> QED
      BY <1>1, <1>3, <2>1, <3>2 DEF p
  <2>4. Whole(input, i + 1, Stream(Spoken), Append(line, i + 1))
    BY <1>1, <1>2, <1>3, WholeAdd
  <2>5. Cut(input, i + 1, Stream(Spoken), Append(line, i + 1))
    BY <1>1, <1>2, <1>3, CutAdd
  <2>6. TextInv'
    BY <1>1, <1>4, <2>1, <2>2, <2>3, <2>4, <2>5 DEF TextInv
  <2>7. MarkInv'
    BY <1>1, <2>2 DEF PrintInv, MarkInv
  <2> QED
    BY <2>6, <2>7 DEF PrintInv
<1>6. CASE ~Fits(b)
  <2>1. line' = <<i + 1>> /\ fill' = Width(b) /\ Emit(line, fill)
    BY <1>6 DEF AddByte, NextLine
  <2>2. PICK m \in Lines :
          /\ m.text = line /\ m.len = fill /\ m.text # Marker
          /\ Stream(Spoken)' = Append(Stream(Spoken), m)
          /\ Stream(OfSink)' = Append(Stream(OfSink), m)
    BY <1>1, <2>1, LineEmitted DEF PrintInv
  <2>3. fill + Width(b) > LineBudget
    BY <1>2, <1>6, WidthTypes, BudgetAssumption DEF Fits
  <2>4. line # <<>>
    <3>1. Width(b) \in Nat /\ Width(b) <= 4 /\ LineBudget \in Nat /\ LineBudget >= 4
      BY WidthTypes, BudgetAssumption
    <3>2. fill # 0
      BY <1>2, <2>3, <3>1
    <3> QED
      BY <1>3, <3>2, WidthEmpty
  <2>5. Whole(input, i + 1, Append(Stream(Spoken), m), <<i + 1>>)
    <3>1. Whole(input, i, Append(Stream(Spoken), m), <<>>)
      BY <1>2, <1>3, <2>2, WholeEnd
    <3>2. Append(Stream(Spoken), m) \in Seq(Lines)
      BY <1>2
    <3>3. Whole(input, i + 1, Append(Stream(Spoken), m), Append(<<>>, i + 1))
      BY <1>1, <1>2, <3>1, <3>2, WholeAdd
    <3>4. Append(<<>>, i + 1) = <<i + 1>>
      OBVIOUS
    <3> QED
      BY <3>3, <3>4
  <2>6. Cut(input, i + 1, Append(Stream(Spoken), m), <<i + 1>>)
    BY <1>1, <1>2, <1>3, <2>2, <2>3, <2>4, CutForced
  <2>7. fill' = WidthIn(input', line')
    <3> DEFINE p == i + 1
               V == Nat
    <3>1. <<>> \in Seq(V) /\ p \in V /\ Append(<<>>, p) = <<p>>
      BY <1>2
    <3> HIDE DEF p, V
    <3>2. WidthIn(input, Append(<<>>, p)) = WidthIn(input, <<>>) + Width(input[p])
      BY <3>1, WidthNext
    <3>3. Width(input[p]) \in Nat /\ 0 + Width(input[p]) = Width(input[p])
      BY WidthTypes
    <3>4. WidthIn(input, <<p>>) = Width(input[p])
      BY <3>1, <3>2, <3>3, WidthEmpty
    <3> QED
      BY <1>1, <2>1, <3>4 DEF p
  <2>8. TextInv'
    BY <1>1, <1>4, <2>1, <2>2, <2>5, <2>6, <2>7 DEF TextInv
  <2>9. MarkInv'
    <3>1. MarksIn(Append(Stream(OfSink), m)) = {}
      BY <1>1, <1>2, <2>2, NoMarkAdded DEF PrintInv, MarkInv
    <3> QED
      BY <1>1, <2>2, <3>1 DEF MarkInv
  <2> QED
    BY <2>8, <2>9 DEF PrintInv
<1> QED
  BY <1>5, <1>6

\* The end of the loop.
LEMMA FlushKeeps == ASSUME LogInv, PrintInv, Flush PROVE PrintInv'
<1> SUFFICES ASSUME level = "info" PROVE PrintInv'
  <2>1. level' = level
    BY DEF Flush, Rendering
  <2> QED
    BY <2>1 DEF PrintInv, TextInv, MarkInv
<1>1. /\ at = "scan" /\ call["engine"] = NoLine
      /\ UNCHANGED <<input, level, lock, debug, i>>
      /\ line' = <<>> /\ fill' = 0
      /\ at' = IF i < Len(input) THEN "marker" ELSE "done"
  BY DEF Flush, Rendering, BytesLeft
<1>2. /\ input \in Seq(Bytes) /\ i \in Nat /\ fill \in Nat /\ line \in Seq(Nat)
      /\ Stream(Spoken) \in Seq(Lines) /\ Stream(OfSink) \in Seq(Lines)
  BY StreamTypes DEF LogInv, TypeOK
<1>3. /\ fill = WidthIn(input, line) /\ i <= Len(input)
      /\ Whole(input, i, Stream(Spoken), line) /\ MarksIn(Stream(OfSink)) = {}
  BY <1>1 DEF PrintInv, TextInv, MarkInv
<1>4. /\ Whole(input, i, Stream(Spoken)', <<>>)
      /\ MarksIn(Stream(OfSink)') = {}
  <2>1. CASE fill > 0
    <3>1. Emit(line, fill)
      BY <2>1 DEF Flush
    <3>2. PICK m \in Lines :
            /\ m.text = line /\ m.len = fill /\ m.text # Marker
            /\ Stream(Spoken)' = Append(Stream(Spoken), m)
            /\ Stream(OfSink)' = Append(Stream(OfSink), m)
      BY <1>1, <3>1, LineEmitted DEF PrintInv
    <3>3. Whole(input, i, Append(Stream(Spoken), m), <<>>)
      BY <1>2, <1>3, <3>2, WholeEnd
    <3>4. MarksIn(Append(Stream(OfSink), m)) = {}
      BY <1>2, <1>3, <3>2, NoMarkAdded
    <3> QED
      BY <3>2, <3>3, <3>4
  <2>2. CASE ~(fill > 0)
    <3>1. call' = call
      BY <2>2 DEF Flush
    <3>2. line = <<>>
      <4>1. ~(WidthIn(input, line) >= 1)
        BY <1>2, <1>3, <2>2
      <4> QED
        BY <1>2, <4>1, WidthPositive
    <3> QED
      BY <1>1, <1>3, <3>1, <3>2, NothingEmitted
  <2> QED
    BY <2>1, <2>2
<1>5. TextInv'
  <2>1. fill' = WidthIn(input', line')
    BY <1>1, WidthEmpty
  <2>2. at' # "scan" /\ i' <= Len(input')
    BY <1>1, <1>3
  <2> QED
    BY <1>1, <1>4, <2>1, <2>2 DEF TextInv
<1>6. MarkInv'
  BY <1>1, <1>4 DEF MarkInv
<1> QED
  BY <1>5, <1>6 DEF PrintInv

\* The marker.
LEMMA TruncatedKeeps == ASSUME LogInv, PrintInv, Truncated PROVE PrintInv'
<1> SUFFICES ASSUME level = "info" PROVE PrintInv'
  <2>1. level' = level
    BY DEF Truncated
  <2> QED
    BY <2>1 DEF PrintInv, TextInv, MarkInv
<1>1. /\ at = "marker" /\ call["engine"] = NoLine /\ Emit(Marker, 1) /\ at' = "done"
      /\ UNCHANGED <<input, i, line, fill, level, lock, debug>>
  BY DEF Truncated
<1>2. Stream(OfSink) \in Seq(Lines)
  BY StreamTypes
<1> DEFINE m == Message("engine", Marker, 1)
<1>3. m.text = Marker
  BY DEF Message
<1>4. Marker \in Seq(Nat) /\ 1 \in Nat /\ 1 <= LineBudget
      /\ Spoken \in SUBSET OfSink /\ OfSink \in SUBSET OfSink
  BY BudgetAssumption DEF Marker, Spoken
<1> DEFINE one == 1
<1> HIDE DEF m, one
<1>5. /\ m \in OfSink
      /\ Stream(Spoken)' = IF m \in Spoken THEN Append(Stream(Spoken), m) ELSE Stream(Spoken)
  <2>1. Emit(Marker, one) /\ one \in Nat /\ one <= LineBudget
    BY <1>1, <1>4 DEF one
  <2>2. m = Message("engine", Marker, one)
    BY DEF m, one
  <2> QED
    BY <1>1, <1>4, <2>1, <2>2, StreamEmits
<1>6. Stream(OfSink)' = IF m \in OfSink THEN Append(Stream(OfSink), m) ELSE Stream(OfSink)
  <2>1. Emit(Marker, one) /\ one \in Nat /\ one <= LineBudget
    BY <1>1, <1>4 DEF one
  <2>2. m = Message("engine", Marker, one)
    BY DEF m, one
  <2> QED
    BY <1>1, <1>4, <2>1, <2>2, StreamEmits
<1>7. /\ Stream(Spoken)' = Stream(Spoken)
      /\ Stream(OfSink)' = Append(Stream(OfSink), m) /\ m \in Lines
  BY <1>3, <1>5, <1>6 DEF Spoken, OfSink
<1>8. TextInv'
  BY <1>1, <1>7 DEF PrintInv, TextInv
<1>9. MarkInv'
  <2>1. i < Len(input) /\ MarksIn(Stream(OfSink)) = {}
    BY <1>1 DEF PrintInv, MarkInv
  <2>2. MarksIn(Append(Stream(OfSink), m)) = {Len(Append(Stream(OfSink), m))}
    BY <1>2, <1>3, <1>7, <2>1, MarkAdded
  <2> QED
    BY <1>1, <1>7, <2>1, <2>2 DEF MarkInv
<1> QED
  BY <1>8, <1>9 DEF PrintInv

\* Every step keeps the invariant of the print.
LEMMA PrintInvNext == LogInv /\ PrintInv /\ [Next]_vars => PrintInv'
<1> SUFFICES ASSUME LogInv, PrintInv, [Next]_vars PROVE PrintInv'
  OBVIOUS
<1>1. CASE EndLine
  BY <1>1, EndLineKeeps
<1>2. CASE AddByte
  BY <1>2, AddByteKeeps
<1>3. CASE Flush
  BY <1>3, FlushKeeps
<1>4. CASE Truncated
  BY <1>4, TruncatedKeeps
<1>5. CASE \/ WorkerLogs
           \/ \E t \in Threads : WriteDebug(t) \/ WriteFile(t)
           \/ UNCHANGED vars
  <2>1. UNCHANGED <<input, i, line, fill, at, level>>
    BY <1>5 DEF WorkerLogs, WriteDebug, WriteFile, vars, renderVars
  <2>2. /\ Stream(Spoken)' = Stream(Spoken)
        /\ Stream(OfSink)' = Stream(OfSink)
    <3>1. \/ WorkerLogs
          \/ \E t \in Threads : WriteDebug(t) \/ WriteFile(t)
          \/ UNCHANGED <<debug, call, lock>>
      BY <1>5 DEF vars
    <3> QED
      BY <3>1, StreamStands DEF Spoken
  <2> QED
    BY <2>1, <2>2 DEF PrintInv, TextInv, MarkInv
<1> QED
  BY <1>1, <1>2, <1>3, <1>4, <1>5 DEF Next, Engine, Worker, Threads

\* It holds throughout, with the log's.
LEMMA PrintInvAlways == Spec => [](LogInv /\ PrintInv)
  BY LogInvInit, LogInvNext, PrintInvInit, PrintInvNext, PTL DEF Spec

\* No byte of a print is lost, doubled or moved on its way into the log, and its
\* lines are ended where it ends them or where the line budget forces it: for
\* every string and every pair of budgets.
THEOREM LinesAreTheString == Spec => []LinesAreTheText
<1>1. LogInv /\ PrintInv => LinesAreTheText
  <2> SUFFICES ASSUME LogInv, PrintInv, level = "info" PROVE LinesAreTheText
    BY DEF LinesAreTheText, BytesKept, BreaksAreJustified
  <2>1. SinkLines = Stream(Spoken) /\ Stream(Spoken) \in Seq(Lines)
    BY SpokenLines, StreamTypes
  <2>2. \A t : RenderedWidth(t) = WidthIn(input, t)
    BY Zenon DEF RenderedWidth, WidthIn
  <2>3. Texts = All(SinkLines, line)
    BY DEF Texts, All, TextsOf
  <2>4. KeptIn(input, Len(input)) = {k \in DOMAIN input : input[k] \notin Terminators}
    BY DEF KeptIn, LogInv, TypeOK
  <2>5. BytesKept
    <3>1. Whole(input, i, SinkLines, line) /\ fill = WidthIn(input, line)
      BY <2>1 DEF PrintInv, TextInv
    <3> HIDE DEF Texts
    <3> QED
      BY <2>2, <2>3, <2>4, <3>1 DEF BytesKept, Whole
  <2>6. BreaksAreJustified
    <3> SUFFICES ASSUME at = "scan" PROVE BreaksAreJustified
      BY DEF BreaksAreJustified
    <3>1. Cut(input, i, SinkLines, line)
      BY <2>1 DEF PrintInv, TextInv
    <3>2. DOMAIN Texts = 1 .. Len(Texts)
      <4>1. line \in Seq(Nat) /\ NoLine \in Lines
        BY DEF LogInv, TypeOK, NoLine, Lines
      <4>2. All(SinkLines, line) \in Seq(Seq(Nat))
        BY <2>1, <4>1, TextsNext
      <4> QED
        BY <2>3, <4>2
    <3> DEFINE T == Texts
    <3>3. /\ \A k \in 1 .. Len(T) : InOneRun(T[k])
          /\ \A k \in ForcedIn(T) : SinkLines[k].len + Width(input[Head(T[k + 1])]) > LineBudget
          /\ Len(SinkLines) = Cardinality(BreaksIn(input, i)) + Cardinality(ForcedIn(T))
      BY <2>3, <3>1 DEF Cut
    <3> QED
      BY <3>2, <3>3 DEF BreaksAreJustified, BreaksIn, ForcedIn, InOneRun
  <2> QED
    BY <2>5, <2>6 DEF LinesAreTheText
<1> QED
  BY <1>1, PrintInvAlways, PTL

\* The loop stops behind the allowance, or at the end of the string: i passes the
\* budget only with the LF of a CR that it took as the budget's last byte.
CutInv ==
  /\ i <= Len(input)
  /\ i <= InputBudget \/ (i = InputBudget + 1 /\ Allowance = InputBudget + 1)
  /\ i = InputBudget => Allowance = InputBudget
  /\ at # "scan" => i >= Len(input) \/ i >= InputBudget

\* A terminator takes the loop to the budget, or over it with an LF.
LEMMA EndLineCuts ==
  ASSUME TypeOK, CutInv, EndLine
  PROVE  CutInv'
<1>1. /\ input \in Seq(Bytes) /\ Len(input) \in Nat /\ i \in Nat /\ InputBudget \in Nat
      /\ input' = input /\ at' = at /\ at = "scan"
      /\ i < Len(input) /\ i < InputBudget /\ i' = AfterBreak
  BY BudgetAssumption DEF TypeOK, EndLine, Rendering, MoreInput
<1>2. Allowance' = Allowance
  BY <1>1 DEF Allowance
<1>3. CASE input[i + 1] = "cr" /\ i + 2 <= Len(input) /\ input[i + 2] = "lf"
  <2>1. i' = i + 2
    BY <1>1, <1>3 DEF AfterBreak
  <2>2. CASE i + 2 < InputBudget
    BY <1>1, <1>2, <1>3, <2>1, <2>2 DEF CutInv
  <2>3. CASE i + 2 = InputBudget
    <3>1. input[InputBudget] = "lf"
      BY <1>3, <2>3
    <3>2. Allowance = InputBudget
      BY <3>1 DEF Allowance
    <3> QED
      BY <1>1, <1>2, <1>3, <2>1, <2>3, <3>2 DEF CutInv
  <2>4. CASE i + 1 = InputBudget
    <3>1. InputBudget + 1 = i + 2 /\ InputBudget \in 1 .. Len(input) - 1
      BY <1>1, <1>3, <2>4
    <3>2. input[InputBudget] = "cr" /\ input[InputBudget + 1] = "lf"
      BY <1>3, <2>4, <3>1
    <3>3. Allowance = InputBudget + 1
      BY <3>1, <3>2 DEF Allowance
    <3> QED
      BY <1>1, <1>2, <1>3, <2>1, <3>1, <3>3 DEF CutInv
  <2> QED
    BY <1>1, <2>2, <2>3, <2>4
<1>4. CASE ~(input[i + 1] = "cr" /\ i + 2 <= Len(input) /\ input[i + 2] = "lf")
  <2>1. i' = i + 1
    BY <1>1, <1>4 DEF AfterBreak
  <2>2. i + 1 = InputBudget => Allowance = InputBudget
    <3> SUFFICES ASSUME i + 1 = InputBudget, InputBudget \in 1 .. Len(input) - 1,
                        input[InputBudget] = "cr", input[InputBudget + 1] = "lf"
                 PROVE  FALSE
      BY DEF Allowance
    <3>1. i + 2 = InputBudget + 1 /\ i + 2 <= Len(input)
      BY <1>1
    <3> QED
      BY <1>4, <3>1
  <2> QED
    BY <1>1, <1>2, <2>1, <2>2 DEF CutInv
<1> QED
  BY <1>3, <1>4

\* Every step keeps it.
LEMMA CutNext ==
  ASSUME TypeOK, CutInv, [Next]_vars
  PROVE  CutInv'
<1>1. CASE EndLine
  BY <1>1, EndLineCuts
<1>2. CASE AddByte
  <2>1. /\ Len(input) \in Nat /\ i \in Nat /\ InputBudget \in Nat
        /\ input' = input /\ at' = at /\ at = "scan"
        /\ i < Len(input) /\ i < InputBudget /\ i' = i + 1
        /\ input[i + 1] # "cr"
    BY <1>2, BudgetAssumption DEF TypeOK, AddByte, Rendering, MoreInput, Terminators
  <2>2. Allowance' = Allowance
    BY <2>1 DEF Allowance
  <2>3. i + 1 = InputBudget => Allowance = InputBudget
    BY <2>1 DEF Allowance
  <2> QED
    BY <2>1, <2>2, <2>3 DEF CutInv
<1>3. CASE Flush
  <2>1. /\ Len(input) \in Nat /\ i \in Nat /\ InputBudget \in Nat
        /\ input' = input /\ i' = i /\ ~(i < Len(input) /\ i < InputBudget)
    BY <1>3, BudgetAssumption DEF TypeOK, Flush, Rendering, MoreInput
  <2>2. Allowance' = Allowance
    BY <2>1 DEF Allowance
  <2> QED
    BY <2>1, <2>2 DEF CutInv
<1>4. CASE \/ Truncated \/ WorkerLogs
           \/ \E t \in Threads : WriteDebug(t) \/ WriteFile(t)
           \/ UNCHANGED vars
  <2>1. /\ input' = input /\ i' = i
        /\ at' # "scan" => at # "scan"
    BY <1>4 DEF Truncated, WorkerLogs, WriteDebug, WriteFile, vars, renderVars
  <2>2. Allowance' = Allowance
    BY <2>1 DEF Allowance
  <2> QED
    BY <2>1, <2>2 DEF CutInv
<1> QED
  BY <1>1, <1>2, <1>3, <1>4 DEF Next, Engine, Worker, Threads

\* It holds before the first byte, and so throughout.
LEMMA CutInvAlways == Spec => [](LogInv /\ CutInv)
<1>1. Init => CutInv
  <2> SUFFICES ASSUME Init PROVE CutInv
    OBVIOUS
  <2>1. i = 0 /\ at = "scan" /\ Len(input) \in Nat /\ InputBudget \in Nat
    BY LogInvInit, BudgetAssumption DEF Init, Start, LogInv, TypeOK
  <2>2. i = InputBudget => Allowance = InputBudget
    BY <2>1 DEF Allowance
  <2> QED
    BY <2>1, <2>2 DEF CutInv
<1>2. LogInv /\ CutInv /\ [Next]_vars => LogInv' /\ CutInv'
  BY LogInvNext, CutNext DEF LogInv
<1> QED
  BY <1>1, <1>2, LogInvInit, PTL DEF Spec

\* Once the loop is over, bytes are left exactly in a string longer than the
\* allowance.
LEMMA CutAtAllowance ==
  ASSUME TypeOK, CutInv, at # "scan"
  PROVE  i < Len(input) <=> Len(input) > Allowance
<1>1. i \in Nat /\ Len(input) \in Nat /\ InputBudget \in Nat
  BY BudgetAssumption DEF TypeOK
<1>2. Allowance = InputBudget \/ Allowance = InputBudget + 1
  BY DEF Allowance
<1>3. Allowance = InputBudget + 1 => InputBudget + 1 <= Len(input)
  BY <1>1 DEF Allowance
<1> QED
  BY <1>1, <1>2, <1>3 DEF CutInv

\* A print that is cut short says so, once and last, and no other does.
THEOREM MarkerIsLast == Spec => []DropsAreMarked
<1>1. LogInv /\ PrintInv /\ CutInv => DropsAreMarked
  <2> SUFFICES ASSUME LogInv, PrintInv, CutInv, SinkDone
               PROVE  Marks = IF Len(input) > Allowance THEN LastOfSink ELSE {}
    BY DEF DropsAreMarked
  <2>1. at = "done" /\ call["engine"] = NoLine /\ level = "info" /\ TypeOK
    BY DEF SinkDone, LogInv
  <2>2. Stream(OfSink) = OnlyIn(debug, OfSink)
    BY <2>1, StreamForms DEF Stream, LogInv, TypeOK, Threads
  <2>3. MarksIn(Stream(OfSink)) = IF i < Len(input) THEN {Len(Stream(OfSink))} ELSE {}
    BY <2>1 DEF PrintInv, MarkInv
  <2>4. i < Len(input) <=> Len(input) > Allowance
    BY <2>1, CutAtAllowance
  <2>5. Marks = MarksIn(Stream(OfSink)) /\ LastOfSink = {Len(Stream(OfSink))}
    BY <2>2 DEF Marks, LastOfSink, MarksIn
  <2> QED
    BY <2>3, <2>4, <2>5
<1> QED
  BY <1>1, PrintInvAlways, CutInvAlways, PTL
===============================================================================
