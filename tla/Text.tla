---------------------------------- MODULE Text ----------------------------------
(***************************************************************************)
(* The string helpers of the launcher and the shell, and what reads their  *)
(* output: the command line and the C runtime that splits it, the Lua      *)
(* literals of the chunk and the Lua reader.                               *)
(*                                                                         *)
(* A string is a sequence of characters, a character a name for what the   *)
(* code tells apart: backslash, slash, quote, space, tab, control, and     *)
(* others.  A buffer of n bytes takes a string of length n - 1.            *)
(***************************************************************************)
EXTENDS Naturals, Sequences, SequencesExt

Blanks == {"space", "tab"}
Separators == {"backslash", "slash"}

FitsBuffer(s, size) == Len(s) + 1 <= size

\* The position of the last character of s in chars, 0 if there is none.
LastOf(s, chars) ==
  LET at == {k \in DOMAIN s : s[k] \in chars}
  IN IF at = {} THEN 0 ELSE CHOOSE k \in at : \A m \in at : m <= k

Repeat(c, n) == [k \in 1 .. n |-> c]

-----------------------------------------------------------------------------
(***************************************************************************)
(* The command line of the game.                                           *)
(***************************************************************************)

\* Fault variant: backslashes in front of a quote are not doubled.
EscapedQuoteOnce(run) == Append(Repeat("backslash", run + 1), "quote")

\* A quote inside a token, after a run of backslashes.
EscapedQuote(run) == Append(Repeat("backslash", 2 * run + 1), "quote")

\* The loop of render_token: what was put, and the run of backslashes held back.
RenderChar(state, c) ==
  CASE c = "backslash" -> [state EXCEPT !.run = @ + 1]
    [] c = "quote" -> [put |-> state.put \o EscapedQuote(state.run), run |-> 0]
    [] OTHER -> [put |-> Append(state.put \o Repeat("backslash", state.run), c),
                 run |-> 0]

RenderToken(token) ==
  IF token # <<>> /\ \A k \in DOMAIN token : token[k] \notin Blanks \cup {"quote"}
  THEN token
  ELSE LET r == FoldLeft(RenderChar, [put |-> <<>>, run |-> 0], token)
       IN <<"quote">> \o r.put \o Repeat("backslash", 2 * r.run) \o <<"quote">>

\* Each byte is put only where it and the NUL fit: the line fits, or is refused.
CommandLine(exe, args) ==
  <<"quote">> \o exe \o <<"quote">> \o
    FlattenSeq([k \in DOMAIN args |-> <<"space">> \o RenderToken(args[k])])

\* The C runtime's argv: the program name ends at its quote; after that 2n
\* backslashes and a quote are n backslashes and a quoting mark, 2n + 1 are n
\* and a quote, and a doubled quote inside quotes is a quote.
CrtChar(state, c) ==
  LET kept == state.word \o Repeat("backslash", state.run)
      half == state.word \o Repeat("backslash", state.run \div 2)
      plain == [state EXCEPT !.run = 0, !.closed = FALSE, !.open = TRUE]
  IN CASE c = "backslash" ->
            [plain EXCEPT !.word = @, !.run = state.run + 1]
       [] c = "quote" /\ state.run % 2 = 1 ->
            [plain EXCEPT !.word = Append(half, c)]
       [] c = "quote" /\ state.run = 0 /\ state.closed ->
            [plain EXCEPT !.word = Append(@, c), !.quoted = TRUE]
       [] c = "quote" /\ state.run % 2 = 0 /\ ~(state.run = 0 /\ state.closed) ->
            [plain EXCEPT !.word = half, !.quoted = ~@, !.closed = state.quoted]
       [] c \in Blanks /\ ~state.quoted ->
            IF state.open
            THEN [state EXCEPT !.args = Append(@, kept), !.word = <<>>,
                               !.run = 0, !.open = FALSE, !.closed = FALSE]
            ELSE state
       [] OTHER -> [plain EXCEPT !.word = Append(kept, c)]

CrtArgv(text) ==
  LET name == CHOOSE n \in 2 .. Len(text) :
                text[n] = "quote" /\ \A m \in 2 .. n - 1 : text[m] # "quote"
      rest == FoldLeft(CrtChar,
                [args |-> <<>>, word |-> <<>>, run |-> 0, quoted |-> FALSE,
                 open |-> FALSE, closed |-> FALSE],
                Append(SubSeq(text, name + 1, Len(text)), "space"))
  IN <<SubSeq(text, 2, name - 1)>> \o rest.args

-----------------------------------------------------------------------------
(***************************************************************************)
(* Paths.                                                                  *)
(***************************************************************************)

StripTrailingSeps(path) ==
  SubSeq(path, 1, LastOf(path, ToSet(path) \ Separators))

\* Fault variant: one segment is stripped.
ParentDir(path, size) ==
  LET p == StripTrailingSeps(path)
      dir == SubSeq(p, 1, LastOf(p, Separators) - 1)
  IN IF dir # <<>> /\ FitsBuffer(dir, size) THEN dir ELSE <<>>

\* relay_derive_game_dir, with <<>> for -1: everything before the separator
\* before the last one.
DeriveGameDir(path, size) ==
  LET p == StripTrailingSeps(path)
      last == LastOf(p, Separators)
      prev == LastOf(SubSeq(p, 1, last - 1), Separators)
      dir == SubSeq(p, 1, prev - 1)
  IN IF last # 0 /\ prev > 1 /\ FitsBuffer(dir, size) THEN dir ELSE <<>>

\* trampoline_join_path, with <<>> for -1.
JoinPath(dir, name, size) ==
  LET path == IF LastOf(dir, Separators) = Len(dir) THEN dir \o name
              ELSE dir \o <<"backslash">> \o name
  IN IF dir # <<>> /\ name # <<>> /\ FitsBuffer(path, size) THEN path ELSE <<>>

HasControl(s) == \E k \in DOMAIN s : s[k] = "control"

-----------------------------------------------------------------------------
(***************************************************************************)
(* The literals of the chunk.                                              *)
(***************************************************************************)

\* Fault variant: a quote is not escaped.
EscapeBackslash(s) ==
  FlattenSeq([k \in DOMAIN s |->
    IF s[k] = "backslash" THEN <<"backslash", s[k]>> ELSE <<s[k]>>])

\* trampoline_escape_path.
EscapePath(s) ==
  FlattenSeq([k \in DOMAIN s |->
    IF s[k] \in {"backslash", "quote"} THEN <<"backslash", s[k]>> ELSE <<s[k]>>])

\* A double-quoted Lua literal as the reader takes it: escaped characters stand
\* for themselves, and a bare quote or control character breaks the literal.
LuaReads(literal, value) ==
  LET read == FoldLeft(
        LAMBDA state, c :
          IF state.escaped
          THEN [state EXCEPT !.value = Append(@, c), !.escaped = FALSE]
          ELSE IF c = "backslash" THEN [state EXCEPT !.escaped = TRUE]
          ELSE [state EXCEPT !.value = Append(@, c),
                             !.sound = @ /\ c \notin {"quote", "control"}],
        [value |-> <<>>, escaped |-> FALSE, sound |-> TRUE], literal)
  IN read.sound /\ ~read.escaped /\ read.value = value
===============================================================================
