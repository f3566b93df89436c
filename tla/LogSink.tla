-------------------------------- MODULE LogSink --------------------------------
(***************************************************************************)
(* The Lua print sink and the log it writes to: log_sink_render cuts one   *)
(* printed string into lines on the engine thread, each line goes through  *)
(* shell_log_sink_emit to relay_log, and the worker thread logs lines of   *)
(* its own at the same time.                                               *)
(*                                                                         *)
(* A byte is one of four kinds and is told apart by its position in the    *)
(* string, so a line is the sequence of the positions of its bytes, and    *)
(* fill the number of bytes they take once rendered.                       *)
(***************************************************************************)
EXTENDS Naturals, Sequences, FiniteSets, SequencesExt

CONSTANTS
  InputBudget,   \* LOG_SINK_INPUT_BUDGET, 4096
  LineBudget,    \* LOG_SINK_LINE_BUDGET, 768
  MessageSize,   \* the size of relay_log's msg, 1024
  MaxInput,      \* bound: the longest printed string
  WorkerLines    \* the lines the worker logs meanwhile, by level

Bytes == {"plain", "control", "cr", "lf"}
Terminators == {"cr", "lf"}
Levels == {"error", "info"}
Threads == {"engine", "worker"}

\* A control byte becomes \xNN; the buffer of an empty line takes that, and
\* msg takes a full line with its newline and its NUL.
ASSUME BudgetAssumption ==
  /\ InputBudget \in Nat
  /\ LineBudget \in Nat /\ LineBudget >= 4
  /\ MessageSize \in Nat /\ MessageSize >= LineBudget + 2
  /\ MaxInput \in Nat
  /\ WorkerLines \in Seq(Levels)

VARIABLES
  input,    \* the printed string
  i,        \* the bytes of it that were consumed
  line,     \* the positions whose bytes are in the line buffer
  fill,     \* the bytes in the line buffer
  at,       \* log_sink_render: scan, marker, done
  owed,     \* the lines the worker has yet to log
  level,    \* g_log_level
  opened,   \* g_log is open
  call,     \* by thread, the line it is in relay_log with
  lock,     \* the thread that holds g_log_lock, or "none"
  debug,    \* what OutputDebugStringA was given
  file      \* what was written to the log

renderVars == <<input, i, line, fill, at>>
vars == <<renderVars, owed, level, opened, call, lock, debug, file>>

Width(b) == IF b = "control" THEN 4 ELSE 1

\* The truncation marker stands at no position.
Marker == <<0>>
NoLine == [by |-> "none", text |-> <<>>, len |-> 0, ends |-> FALSE]

\* vsnprintf keeps what fits msg: the newline is last, and the first to go.
Message(t, text, len) ==
  [by |-> t, text |-> text, len |-> len, ends |-> len + 1 < MessageSize]

Start(holder) ==
  /\ input \in BoundedSeq(Bytes, MaxInput)
  /\ i = 0
  /\ line = <<>>
  /\ fill = 0
  /\ at = "scan"
  /\ owed = WorkerLines
  /\ level \in Levels
  /\ opened \in BOOLEAN
  /\ call = [t \in Threads |-> NoLine]
  /\ lock = holder
  /\ debug = <<>>
  /\ file = <<>>

\* Fault variant: lua_log_sink_cb takes g_log_lock around the rendering.
CallbackHoldsLock == Start("callback")

Init == Start("none")

\* relay_log up to the lock: a filtered line is dropped.
Log(t, lv, text, len) ==
  call' = IF lv = "info" /\ level = "error" THEN call
          ELSE [call EXCEPT ![t] = Message(t, text, len)]

Emit(text, len) ==
  Log("engine", "info", text, IF len > LineBudget THEN LineBudget ELSE len)

-----------------------------------------------------------------------------
(***************************************************************************)
(* log_sink_render.  A step is a byte, or what follows the last one; the   *)
(* engine thread goes on when relay_log has returned.                      *)
(***************************************************************************)

Rendering ==
  /\ at = "scan"
  /\ call["engine"] = NoLine
  /\ UNCHANGED <<input, owed, level, opened, lock, debug, file>>

\* Fault variant: the budget is off by one.
MoreInputAtTheBudget == i < Len(input) /\ i <= InputBudget

\* i < len, and the budget is not used up.
MoreInput == i < Len(input) /\ i < InputBudget

\* A CR takes the LF after it along, also the one behind the budget.
AfterBreak ==
  IF input[i + 1] = "cr" /\ i + 2 <= Len(input) /\ input[i + 2] = "lf"
  THEN i + 2 ELSE i + 1

\* A terminator ends the line, empty or not.
EndLine ==
  /\ Rendering
  /\ MoreInput
  /\ input[i + 1] \in Terminators
  /\ Emit(line, fill)
  /\ line' = <<>>
  /\ fill' = 0
  /\ i' = AfterBreak
  /\ UNCHANGED at

\* Fault variant: room is needed for the input byte, not for its replacement.
FitsUnrendered(b) == fill + 1 <= LineBudget

Fits(b) == fill + Width(b) <= LineBudget

\* Fault variant: the byte that did not fit is gone with the flushed line.
NextLineWithout(p) == <<>>

NextLine(p) == <<p>>

\* Any other byte; the line is flushed first if the replacement does not fit.
AddByte ==
  /\ Rendering
  /\ MoreInput
  /\ input[i + 1] \notin Terminators
  /\ IF Fits(input[i + 1])
     THEN /\ line' = Append(line, i + 1)
          /\ fill' = fill + Width(input[i + 1])
          /\ UNCHANGED call
     ELSE /\ Emit(line, fill)
          /\ line' = NextLine(i + 1)
          /\ fill' = Width(input[i + 1])
  /\ i' = i + 1
  /\ UNCHANGED at

\* What makes `truncated' true.
BytesLeft == i < Len(input)

\* The loop ends, by the budget if bytes are left; a partial line is emitted.
Flush ==
  /\ Rendering
  /\ ~MoreInput
  /\ IF fill > 0 THEN Emit(line, fill) ELSE UNCHANGED call
  /\ line' = <<>>
  /\ fill' = 0
  /\ at' = IF BytesLeft THEN "marker" ELSE "done"
  /\ UNCHANGED i

Truncated ==
  /\ at = "marker"
  /\ call["engine"] = NoLine
  /\ Emit(Marker, 1)
  /\ at' = "done"
  /\ UNCHANGED <<input, i, line, fill, owed, level, opened, lock, debug, file>>

-----------------------------------------------------------------------------
(***************************************************************************)
(* The worker's lines, and relay_log under g_log_lock.                     *)
(***************************************************************************)

WorkerLogs ==
  /\ owed # <<>>
  /\ call["worker"] = NoLine
  /\ Log("worker", Head(owed), <<Len(owed)>>, 1)
  /\ owed' = Tail(owed)
  /\ UNCHANGED <<renderVars, level, opened, lock, debug, file>>

\* Fault variant: the lock is not taken.
WriteDebugUnlocked(t) ==
  /\ call[t] # NoLine
  /\ lock # t
  /\ lock' = t
  /\ debug' = Append(debug, call[t])
  /\ UNCHANGED <<renderVars, owed, level, opened, call, file>>

\* AcquireSRWLockExclusive, OutputDebugStringA.
WriteDebug(t) ==
  /\ call[t] # NoLine
  /\ lock = "none"
  /\ lock' = t
  /\ debug' = Append(debug, call[t])
  /\ UNCHANGED <<renderVars, owed, level, opened, call, file>>

\* fputs and fflush if the log could be opened, ReleaseSRWLockExclusive.
WriteFile(t) ==
  /\ call[t] # NoLine
  /\ lock = t
  /\ lock' = "none"
  /\ file' = IF opened THEN Append(file, call[t]) ELSE file
  /\ call' = [call EXCEPT ![t] = NoLine]
  /\ UNCHANGED <<renderVars, owed, level, opened, debug>>

Engine ==
  \/ EndLine
  \/ AddByte
  \/ Flush
  \/ Truncated
  \/ WriteDebug("engine")
  \/ WriteFile("engine")

Worker == WorkerLogs \/ WriteDebug("worker") \/ WriteFile("worker")

Next == Engine \/ Worker

Spec == Init /\ [][Next]_vars

\* Both threads are scheduled; the worker's lines end, so a thread that waits
\* for the lock gets it.
FairSpec == Spec /\ WF_vars(Engine) /\ WF_vars(Worker)

-----------------------------------------------------------------------------
Lines == [by : Threads \cup {"none"}, text : Seq(Nat), len : Nat, ends : BOOLEAN]

TypeOK ==
  /\ input \in Seq(Bytes)
  /\ i \in Nat
  /\ line \in Seq(Nat)
  /\ fill \in Nat
  /\ at \in {"scan", "marker", "done"}
  /\ owed \in Seq(Levels)
  /\ level \in Levels
  /\ opened \in BOOLEAN
  /\ call \in [Threads -> Lines]
  /\ lock \in Threads \cup {"none"}
  /\ debug \in Seq(Lines)
  /\ file \in Seq(Lines)

\* What s has of S, in the order of s.
OnlyIn(s, S) ==
  LET kept[n \in 0 .. Len(s)] ==
        IF n = 0 THEN <<>>
        ELSE IF s[n] \in S THEN Append(kept[n - 1], s[n]) ELSE kept[n - 1]
  IN kept[Len(s)]

OfSink == {m \in Lines : m.by = "engine"}

\* The lines of the sink so far, the one on its way into the log included.
SinkLines ==
  OnlyIn(debug, {m \in OfSink : m.text # Marker})
    \o (IF /\ call["engine"] # NoLine
           /\ lock # "engine"
           /\ call["engine"].text # Marker
        THEN <<call["engine"]>> ELSE <<>>)

\* The text of the lines, with the one in the buffer last.
Texts == Append([k \in DOMAIN SinkLines |-> SinkLines[k].text], line)

RenderedWidth(text) == FoldLeft(LAMBDA n, p : n + Width(input[p]), 0, text)

\* No byte of the string is lost, doubled or moved: the lines that were emitted
\* and the buffer hold exactly the consumed bytes that end no line, in order,
\* and every length handed to the log is that of the rendered text.
BytesKept ==
  level = "info" =>
    /\ FlattenSeq(Texts) =
         OnlyIn([k \in 1 .. i |-> k], {k \in DOMAIN input : input[k] \notin Terminators})
    /\ fill = RenderedWidth(line)
    /\ \A k \in DOMAIN SinkLines :
         SinkLines[k].len = RenderedWidth(SinkLines[k].text)

\* A terminator ends exactly one line, a CRLF counts as one, and a line is
\* ended anywhere else only when the next byte's replacement did not fit.
BreaksAreJustified ==
  LET breaks == {k \in 1 .. i : \/ input[k] = "cr"
                                \/ input[k] = "lf" /\ (k = 1 \/ input[k - 1] # "cr")}
      forced == {k \in 1 .. Len(Texts) - 1 :
                   /\ Texts[k] # <<>> /\ Texts[k + 1] # <<>>
                   /\ Head(Texts[k + 1]) = Last(Texts[k]) + 1}
  IN level = "info" /\ at = "scan" =>
       /\ Len(SinkLines) = Cardinality(breaks) + Cardinality(forced)
       /\ \A k \in DOMAIN Texts : \A p, q \in 1 .. Len(Texts[k]) :
            Texts[k][q] - Texts[k][p] = q - p
       /\ \A k \in forced :
            SinkLines[k].len + Width(input[Head(Texts[k + 1])]) > LineBudget

\* The lines of a string are its text: all of its bytes, ended where it ends them
\* or where the budget forces it.
LinesAreTheText == BytesKept /\ BreaksAreJustified

\* A line of the sink keeps to the line budget, and relay_log's buffer keeps
\* its newline: a control byte's four never overrun either.
LinesFit ==
  /\ fill <= LineBudget
  /\ \A k \in DOMAIN debug : debug[k].by = "engine" =>
       debug[k].len <= LineBudget /\ debug[k].ends

\* The bytes that a print may take: the budget's, and an LF behind the budget whose
\* CR is the budget's last byte.
Allowance ==
  IF /\ InputBudget \in 1 .. Len(input) - 1
     /\ input[InputBudget] = "cr"
     /\ input[InputBudget + 1] = "lf"
  THEN InputBudget + 1 ELSE InputBudget

\* Of a print that is over: the lines of the sink, and which of them are markers.
SinkDone == at = "done" /\ call["engine"] = NoLine /\ level = "info"
Marks == LET sink == OnlyIn(debug, OfSink)
         IN {k \in DOMAIN sink : sink[k].text = Marker}
LastOfSink == {Len(OnlyIn(debug, OfSink))}

\* The marker is written once, after the last line, for the strings longer than
\* the allowance and for no others: nothing is dropped silently and nothing is
\* called dropped that was written.  The header promises it for every string
\* longer than the budget (LongInputIsMarked); they differ by the CRLF across it.
DropsAreMarked ==
  SinkDone => Marks = IF Len(input) > Allowance THEN LastOfSink ELSE {}

\* log_sink.h: "if len > LOG_SINK_INPUT_BUDGET, lines are emitted for the first
\* LOG_SINK_INPUT_BUDGET input bytes, then EXACTLY ONE truncation-marker line".
LongInputIsMarked ==
  SinkDone /\ Len(input) > InputBudget => Marks = LastOfSink

\* The debugger and the log see the same lines in the same order: the log is
\* behind by at most the one line whose writer holds the lock.
StreamsAgree ==
  opened => debug = IF lock \in Threads THEN Append(file, call[lock]) ELSE file

\* A print returns: the engine thread is never stuck in the sink.
PrintReturns == <>(at = "done" /\ call["engine"] = NoLine)
===============================================================================
