------------------------------ MODULE StartupProofs ------------------------------
(***************************************************************************)
(* Proofs about Startup, in two invariants.  The first says that what the  *)
(* launcher resolved is what its environment says when the game is         *)
(* created, and what the shell bakes.  The second says that what was       *)
(* resolved is what the operator asked for; it needs how the arguments are *)
(* divided into options, which the sections before it work out.            *)
(***************************************************************************)
EXTENDS Startup, TextProofs

Before == {"parse", "check", "publish"}

\* Nothing is published, and no game exists, until the settings are decided.
NothingYet ==
  /\ pc \in Before => env = parent
  /\ pc \in Before \cup {"build"} => game = "none"
  /\ game = "none" => worker = "none" /\ chunk = NoChunk

\* Where the launcher resolved no manager, none was there to read.
NoneToRead ==
  pc \in {"check", "publish", "build", "wait"} \/ game # "none" =>
    (cfg.value["manager"] = Unset => parent["manager"] \in {Unset, <<>>})

\* The environment of the game says what was resolved.
AsResolved ==
  pc \in {"build", "wait"} \/ game # "none" =>
    /\ env["manager"] = IF cfg.value["manager"] # Unset THEN cfg.value["manager"]
                        ELSE parent["manager"]
    /\ \A s \in Switches : env[s] = IF s \in cfg.on THEN One ELSE Unset
    /\ env["tree"] \in {One, Unset}

\* A command line that was used fits.
LineFits == game # "none" => FitsBuffer(line, LineSize)

StartupInv ==
  NothingYet /\ NoneToRead /\ AsResolved /\ LineFits /\ ManagerNeverSubstituted

\* The invariant holds before the first argument is read.
LEMMA StartupInvInit == Init => StartupInv
BY DEF Init, StartupInv, NothingYet, NoneToRead, AsResolved, LineFits,
       ManagerNeverSubstituted, NoChunk, Before

\* Parsing changes neither the environment nor the game.
LEMMA ParseKeeps == StartupInv /\ Parse => StartupInv'
<1> SUFFICES ASSUME StartupInv, Parse PROVE StartupInv'
    OBVIOUS
<1>1. /\ pc = "parse" /\ pc' \in {"parse", "exited"}
      /\ UNCHANGED <<parent, env, cfg, line, game, worker, chunk>>
  BY DEF Parse, ParseTail, ParseHelp, ParseVersion, ParseSwitch, ParseValue,
         ParseError, Parsing, Exit, shellVars
<1> QED
  BY <1>1 DEF StartupInv, NothingYet, NoneToRead, AsResolved, LineFits,
              ManagerNeverSubstituted, Before

\* An unreadable manager refuses the launch; another one is read, or was not
\* there.
LEMMA ResolveKeeps == StartupInv /\ Resolve => StartupInv'
<1> SUFFICES ASSUME StartupInv, Resolve PROVE StartupInv'
    OBVIOUS
<1>1. /\ pc = "parse" /\ pc' \in {"check", "exited"}
      /\ UNCHANGED <<parent, env, line, game, worker, chunk>>
  BY DEF Resolve, Exit, shellVars
<1>2. env = parent /\ game = "none" /\ chunk = NoChunk
  BY <1>1 DEF StartupInv, NothingYet, Before
<1>3. pc' = "check" /\ cfg'.value["manager"] = Unset
        => parent["manager"] \in {Unset, <<>>}
  <2> SUFFICES ASSUME pc' = "check", cfg'.value["manager"] = Unset
               PROVE parent["manager"] \in {Unset, <<>>}
      OBVIOUS
  <2>1. ~Refused("manager")
    BY DEF Resolve, Exit
  <2>2. PICK self \in SelfPaths :
          cfg' = [value |-> [s \in Settings |-> Resolved(s, self)],
                  on |-> {s \in Switches : s \in parsed.on \/ IsExactOne(s)},
                  version |-> FALSE, tail |-> parsed.tail]
    BY DEF Resolve, Exit
  <2>3. Resolved("manager", self) = Unset
    BY <2>2 DEF Settings
  <2>4. parsed.value["manager"] = Unset
    BY <2>3 DEF Resolved
  <2>5. ReadEnv("manager", BufferSize("manager")) \notin {"long", "set"}
    BY <2>1, <2>3, <2>4 DEF Resolved, Refused, ReadEnv
  <2> QED
    BY <1>2, <2>5 DEF ReadEnv
<1> QED
  BY <1>1, <1>2, <1>3 DEF StartupInv, NothingYet, NoneToRead, AsResolved, LineFits,
                          ManagerNeverSubstituted, Before, NoChunk

\* The check lets the settings through, or ends the launcher.
LEMMA CheckKeeps == ASSUME NEW b \in BOOLEAN PROVE StartupInv /\ Check(b) => StartupInv'
<1> SUFFICES ASSUME StartupInv, Check(b) PROVE StartupInv'
    OBVIOUS
<1>1. /\ pc = "check" /\ pc' \in {"publish", "exited"}
      /\ UNCHANGED <<parent, env, cfg, line, game, worker, chunk>>
  BY DEF Check, Exit, shellVars
<1> QED
  BY <1>1 DEF StartupInv, NothingYet, NoneToRead, AsResolved, LineFits,
              ManagerNeverSubstituted, Before

\* Every switch is set or removed, and the manager set or left.
LEMMA PublishKeeps ==
  ASSUME NEW b \in BOOLEAN PROVE StartupInv /\ Publish(b) => StartupInv'
<1> SUFFICES ASSUME StartupInv, Publish(b) PROVE StartupInv'
    OBVIOUS
<1>1. /\ pc = "publish" /\ pc' = "build"
      /\ UNCHANGED <<parent, cfg, line, game, worker, chunk>>
  BY DEF Publish, shellVars
<1>2. env = parent /\ game = "none" /\ chunk = NoChunk
  BY <1>1 DEF StartupInv, NothingYet, Before
<1>3. env'["manager"] = IF cfg.value["manager"] # Unset THEN cfg.value["manager"]
                        ELSE parent["manager"]
  BY <1>2 DEF Publish, Names, Settings, Switches
<1>4. \A s \in Switches : env'[s] = IF s \in cfg.on THEN One ELSE Unset
  <2> SUFFICES ASSUME NEW s \in Switches
               PROVE env'[s] = IF s \in cfg.on THEN One ELSE Unset
      OBVIOUS
  <2>1. env'[s] = Published(s \in cfg.on, s)
    BY DEF Publish, Names, Settings, Switches
  <2> QED
    BY <2>1 DEF Published
<1>5. env'["tree"] \in {One, Unset}
  <2>1. env'["tree"] = Published(InGameTree(b), "tree")
    BY DEF Publish, Names, Settings, Switches
  <2> QED
    BY <2>1 DEF Published
<1> QED
  BY <1>1, <1>2, <1>3, <1>4, <1>5
     DEF StartupInv, NothingYet, NoneToRead, AsResolved, LineFits,
         ManagerNeverSubstituted, Before, NoChunk

\* The game is created with that environment and a line that fits.
LEMMA CreateKeeps == StartupInv /\ Create => StartupInv'
<1> SUFFICES ASSUME StartupInv, Create PROVE StartupInv'
    OBVIOUS
<1>1. /\ pc = "build" /\ UNCHANGED <<parent, env, cfg, chunk>>
      /\ game = "none"
  BY DEF Create, StartupInv, NothingYet
<1>2. CASE pc' = "exited" /\ UNCHANGED <<line, game, worker>>
  BY <1>1, <1>2 DEF StartupInv, NothingYet, NoneToRead, AsResolved, LineFits,
                    ManagerNeverSubstituted, Before
<1>3. CASE /\ pc' = "wait" /\ game' = "suspended"
           /\ FitsBuffer(line', LineSize)
  BY <1>1, <1>3 DEF StartupInv, NothingYet, NoneToRead, AsResolved, LineFits,
                    ManagerNeverSubstituted, Before
<1> QED
  BY <1>2, <1>3 DEF Create, Exit

\* What the launcher does to the game changes no setting.
LEMMA EndKeeps == StartupInv /\ (Resume \/ GiveUp) => StartupInv'
<1> SUFFICES ASSUME StartupInv, Resume \/ GiveUp PROVE StartupInv'
    OBVIOUS
<1>1. /\ pc = "wait" /\ pc' = "exited"
      /\ UNCHANGED <<parent, env, cfg, line, worker, chunk>>
      /\ game' = game \/ game' # "none"
  BY DEF Resume, GiveUp, Exit, shellVars
<1>2. game = "none" => UNCHANGED game
  BY DEF Resume, GiveUp
<1> QED
  BY <1>1, <1>2 DEF StartupInv, NothingYet, NoneToRead, AsResolved, LineFits,
                    ManagerNeverSubstituted, Before

\* A manager that is not fatal is read whole, and escaped.
LEMMA ManagerReadWhole ==
  ASSUME NEW e, AsResolved, NoneToRead, game # "none", ~ManagerIsFatal(e)
  PROVE  Degradable("manager", PathSize)
           = IF cfg.value["manager"] = Unset THEN <<>> ELSE cfg.value["manager"]
<1>1. CASE ReadEnv("manager", PathSize) = "set"
  <2>1. /\ env["manager"] \notin {Unset, <<>>}
        /\ Degradable("manager", PathSize) = env["manager"]
    BY <1>1 DEF ReadEnv, ManagerIsFatal, Degradable
  <2> QED
    BY <2>1 DEF AsResolved, NoneToRead
<1>2. CASE ReadEnv("manager", PathSize) # "set"
  <2>1. env["manager"] \in {Unset, <<>>} /\ Degradable("manager", PathSize) = <<>>
    BY <1>2 DEF ReadEnv, ManagerIsFatal, Degradable
  <2> QED
    BY <2>1 DEF AsResolved, NoneToRead
<1> QED
  BY <1>1, <1>2

\* The shell stages what it read.
LEMMA ShellKeeps == StartupInv /\ Shell => StartupInv'
<1> SUFFICES ASSUME StartupInv, Shell PROVE StartupInv'
    OBVIOUS
<1>1. /\ game = "suspended" /\ game' # "none"
      /\ UNCHANGED <<parent, env, cfg, pc, line>>
  BY DEF Shell, OpenLog, Stage, Working
<1>2. ManagerNeverSubstituted'
  <2>1. CASE OpenLog
    BY <2>1, <1>1 DEF OpenLog, StartupInv, ManagerNeverSubstituted
  <2>2. ASSUME NEW self \in SelfPaths, NEW e \in {"not found", "other"}, Stage(self, e)
        PROVE  ManagerNeverSubstituted'
    <3>1. CASE UNCHANGED chunk
      BY <3>1, <1>1 DEF StartupInv, ManagerNeverSubstituted
    <3>2. CASE chunk' = NoChunk
      BY <3>2 DEF ManagerNeverSubstituted, NoChunk
    <3>3. ASSUME NEW loader, NEW entry, chunk' = BuildChunk(loader, entry),
                 ~ManagerIsFatal(e), chunk'.staged
          PROVE  ManagerNeverSubstituted'
      <4>1. chunk'.literals.manager = EscapePath(Degradable("manager", PathSize))
        BY <3>3 DEF BuildChunk, NoChunk
      <4>2. game # "none"
        BY <1>1
      <4>3. Degradable("manager", PathSize)
              = IF cfg.value["manager"] = Unset THEN <<>> ELSE cfg.value["manager"]
        BY <3>3, <4>2, ManagerReadWhole DEF StartupInv
      <4> QED
        BY <4>1, <4>3, <1>1 DEF ManagerNeverSubstituted
    <3>4. \/ chunk' = chunk \/ chunk' = NoChunk
          \/ ~ManagerIsFatal(e) /\ \E loader, entry : chunk' = BuildChunk(loader, entry)
      BY <2>2 DEF Stage
    <3>5. CASE ~chunk'.staged
      BY <3>5 DEF ManagerNeverSubstituted
    <3> QED
      BY <3>1, <3>2, <3>3, <3>4, <3>5
  <2> QED
    BY <2>1, <2>2 DEF Shell
<1> QED
  BY <1>1, <1>2 DEF StartupInv, NothingYet, NoneToRead, AsResolved, LineFits, Before

\* Every step preserves the invariant.
LEMMA StartupInvNext == StartupInv /\ [Next]_vars => StartupInv'
<1> SUFFICES ASSUME StartupInv, [Next]_vars PROVE StartupInv'
    OBVIOUS
<1>1. CASE Launcher
  BY <1>1, ParseKeeps, ResolveKeeps, CheckKeeps, PublishKeeps, CreateKeeps, EndKeeps
     DEF Launcher
<1>2. CASE Shell
  BY <1>2, ShellKeeps
<1>3. CASE UNCHANGED vars
  BY <1>3 DEF vars, StartupInv, NothingYet, NoneToRead, AsResolved, LineFits,
              ManagerNeverSubstituted, Before
<1> QED
  BY <1>1, <1>2, <1>3 DEF Next

\* The manager in a staged chunk is the one the launcher resolved, whatever the
\* arguments, the environment and the sizes of the buffers are: the launcher and
\* the shell read the variable separately, and no path between them drops it.
THEOREM ManagerIsTheResolvedOne == Spec => []ManagerNeverSubstituted
<1>1. StartupInv => ManagerNeverSubstituted
  BY DEF StartupInv
<1> QED
  BY <1>1, StartupInvInit, StartupInvNext, PTL DEF Spec

\* From the creation of the game on, its environment says 1 for exactly the
\* switches that were resolved, and has no other value in them or in the hint.
THEOREM SwitchesAreCanonical ==
  Spec => [](game # "none" =>
               /\ \A s \in Switches : env[s] = IF s \in cfg.on THEN One ELSE Unset
               /\ env["tree"] \in {One, Unset})
<1>1. StartupInv => (game # "none" =>
               /\ \A s \in Switches : env[s] = IF s \in cfg.on THEN One ELSE Unset
               /\ env["tree"] \in {One, Unset})
  BY DEF StartupInv, AsResolved
<1> QED
  BY <1>1, StartupInvInit, StartupInvNext, PTL DEF Spec

-----------------------------------------------------------------------------
(***************************************************************************)
(* The positions that are read as options.                                 *)
(***************************************************************************)

\* Whether position k of a is an option, told from the two positions in front.
OptionAfter(a, k, one, two) ==
  \/ k = 1
  \/ k > 1 /\ one /\ a[k - 1] \notin ValueFlags \cup {Separator}
  \/ k > 2 /\ two /\ a[k - 2] \in ValueFlags

\* OptionAt of the arguments a.
Options(a) ==
  CHOOSE f : f = [k \in Nat |->
    \/ k = 1
    \/ k > 1 /\ f[k - 1] /\ a[k - 1] \notin ValueFlags \cup {Separator}
    \/ k > 2 /\ f[k - 2] /\ a[k - 2] \in ValueFlags]

\* It is that function.
LEMMA OptionAtIsOptions == OptionAt = Options(argv)
BY Zenon DEF OptionAt, Options

\* The recursion has a solution, whatever the arguments are.
LEMMA OptionsUnfold ==
  ASSUME NEW a, NEW k \in Nat
  PROVE  Options(a)[k] <=> OptionAfter(a, k, Options(a)[k - 1], Options(a)[k - 2])
<1> DEFINE V == BOOLEAN \X BOOLEAN
           step(n, v) == <<OptionAfter(a, n + 1, v[1], v[2]), v[1]>>
           G == [p \in Nat \X V |-> step(p[1], p[2])]
<1> PICK no \in BOOLEAN : ~no
    OBVIOUS
<1>1. \A n, v : step(n, v) \in BOOLEAN \X {v[1]}
  BY Zenon DEF OptionAfter
<1>2. \A n \in Nat : \A v \in V : step(n, v) \in V
  <2> SUFFICES ASSUME NEW n \in Nat, NEW v \in V PROVE step(n, v) \in V
      OBVIOUS
  <2>1. v[1] \in BOOLEAN
    OBVIOUS
  <2> QED
    BY <1>1, <2>1
<1>3. Moves(G, V)
  <2> HIDE DEF step
  <2> QED
    BY <1>2 DEF Moves
<1>4. PICK f : Follows(f, <<no, no>>, G, V)
  <2> HIDE DEF G
  <2> QED
    BY <1>3, Recursion
<1> DEFINE g == [n \in Nat |-> f[n][1]]
<1>5. \A n \in Nat : f[n] \in V /\ f[n + 1] = step(n, f[n])
  <2> HIDE DEF step
  <2> QED
    BY <1>4 DEF Follows
<1>6. f[0] = <<no, no>>
  BY <1>4 DEF Follows
<1>7. \A n \in Nat : f[n + 1][1] = OptionAfter(a, n + 1, f[n][1], f[n][2])
                     /\ f[n + 1][2] = f[n][1]
  <2>1. \A x, y : <<x, y>>[1] = x /\ <<x, y>>[2] = y
    OBVIOUS
  <2>2. \A n, v : step(n, v)[1] = OptionAfter(a, n + 1, v[1], v[2])
                  /\ step(n, v)[2] = v[1]
    BY <2>1, Zenon
  <2> HIDE DEF step
  <2> QED
    BY <1>5, <2>2
<1> HIDE DEF step, G
<1>8. \A n \in Nat : g[n] = OptionAfter(a, n, g[n - 1], g[n - 2])
  <2> SUFFICES ASSUME NEW n \in Nat
               PROVE  g[n] = OptionAfter(a, n, g[n - 1], g[n - 2])
      OBVIOUS
  <2>1. CASE n = 0
    <3>1. g[n] = no
      BY <1>6, <2>1
    <3>2. ~OptionAfter(a, n, g[n - 1], g[n - 2])
      BY <2>1 DEF OptionAfter
    <3>3. OptionAfter(a, n, g[n - 1], g[n - 2]) \in BOOLEAN
      BY Zenon DEF OptionAfter
    <3> QED
      BY <3>1, <3>2, <3>3
  <2>2. CASE n # 0
    <3>1. n - 1 \in Nat /\ (n - 1) + 1 = n
      BY <2>2
    <3>2. f[n][1] = OptionAfter(a, n, f[n - 1][1], f[n - 1][2])
      BY <3>1, <1>7, Zenon
    <3>3. g[n] = f[n][1] /\ g[n - 1] = f[n - 1][1]
      BY <3>1
    <3>4. n > 2 => g[n - 2] = f[n - 1][2]
      <4> SUFFICES ASSUME n > 2 PROVE g[n - 2] = f[n - 1][2]
          OBVIOUS
      <4>1. n - 2 \in Nat /\ (n - 2) + 1 = n - 1
        OBVIOUS
      <4>2. f[(n - 2) + 1][2] = f[n - 2][1]
        BY <4>1, <1>7, Zenon
      <4>3. g[n - 2] = f[n - 2][1]
        BY <4>1
      <4> QED
        BY <4>1, <4>2, <4>3, Zenon
    <3>5. OptionAfter(a, n, f[n - 1][1], f[n - 1][2])
            = OptionAfter(a, n, g[n - 1], g[n - 2])
      BY <3>3, <3>4, Zenon DEF OptionAfter
    <3> QED
      BY <3>2, <3>3, <3>5, Zenon
  <2> QED
    BY <2>1, <2>2
<1> DEFINE F(h) == [n \in Nat |->
      \/ n = 1
      \/ n > 1 /\ h[n - 1] /\ a[n - 1] \notin ValueFlags \cup {Separator}
      \/ n > 2 /\ h[n - 2] /\ a[n - 2] \in ValueFlags]
<1>9. g = F(g)
  <2>1. F(g) = [n \in Nat |-> OptionAfter(a, n, g[n - 1], g[n - 2])]
    BY Zenon DEF OptionAfter
  <2>2. g = [n \in Nat |-> g[n]]
    OBVIOUS
  <2> QED
    BY <1>8, <2>1, <2>2, Zenon
<1>10. Options(a) = F(Options(a))
  BY <1>9, Zenon DEF Options
<1>11. F(Options(a))[k] = OptionAfter(a, k, Options(a)[k - 1], Options(a)[k - 2])
  BY Zenon DEF OptionAfter
<1> QED
  BY <1>10, <1>11, Zenon

-----------------------------------------------------------------------------
(***************************************************************************)
(* The flags, and where they are given.                                    *)
(***************************************************************************)

\* The token of a flag.
Token(s) ==
  CASE s = "game" -> "--game-binary"
    [] s = "mod" -> "--mod-path"
    [] s = "manager" -> "--mod-manager"
    [] s = "log" -> "--log-file"
    [] s = "level" -> "--log-level"
    [] s = "app" -> "--steam-app-id"
    [] s = "lua" -> "--log-lua"
    [] s = "append" -> "--log-append"
    [] s = "splash" -> "--skip-splash"

\* No two settings share a flag, and none has the separator or --version.
LEMMA FlagsDiffer ==
  /\ \A s, t \in Settings \cup Switches : Flag(s) = Flag(t) => s = t
  /\ \A s \in Settings \cup Switches : Flag(s) \notin {Separator, Version}
  /\ Separator # Version
<1>1. \A s \in Settings \cup Switches : Flag(s) = <<Token(s)>>
  BY DEF Flag, Token, Settings, Switches
<1>2. \A s, t \in Settings \cup Switches : Token(s) = Token(t) => s = t
  BY DEF Token, Settings, Switches
<1>3. \A s \in Settings \cup Switches : Token(s) \notin {"--", "--version"}
  BY DEF Token, Settings, Switches
<1>4. \A x, y : <<x>> = <<y>> => x = y
  OBVIOUS
<1>5. "--" # "--version"
  OBVIOUS
<1> QED
  BY <1>1, <1>2, <1>3, <1>4, <1>5, Zenon DEF Separator, Version

\* The flags of settings take values; no other token does.
LEMMA WhatTakesAValue ==
  /\ \A s \in Settings : Flag(s) \in ValueFlags
  /\ \A s \in Switches : Flag(s) \notin ValueFlags \cup {Separator}
  /\ Separator \notin ValueFlags
  /\ Version \notin ValueFlags \cup {Separator}
<1>1. \A s \in Settings : s \notin Switches
  BY DEF Settings, Switches
<1> QED
  BY <1>1, FlagsDiffer, Zenon DEF ValueFlags

GivenIn(a, flag, n) == {k \in 1 .. n : Options(a)[k] /\ a[k] = flag}

Latest(S) == CHOOSE k \in S : \A m \in S : m <= k

ValueIn(a, flag, n) ==
  IF GivenIn(a, flag, n) = {} THEN Unset ELSE a[1 + Latest(GivenIn(a, flag, n))]

\* After n arguments, at an option.
AtOption(a, n) == Options(a)[n + 1] /\ ~(Options(a)[n] /\ a[n] \in ValueFlags /\ n > 0)

\* The first argument is an option.
LEMMA StartsAtOption == ASSUME NEW a PROVE AtOption(a, 0)
<1>1. Options(a)[1] <=> OptionAfter(a, 1, Options(a)[1 - 1], Options(a)[1 - 2])
  BY OptionsUnfold
<1>2. OptionAfter(a, 1, Options(a)[1 - 1], Options(a)[1 - 2])
  BY Zenon DEF OptionAfter
<1>3. 0 + 1 = 1 /\ ~(0 > 0)
  OBVIOUS
<1> QED
  BY <1>1, <1>2, <1>3, Zenon DEF AtOption

\* Behind an option: the next position, and the one after it.
LEMMA BehindOption ==
  ASSUME NEW a, NEW n \in Nat, AtOption(a, n)
  PROVE  /\ Options(a)[n + 2] <=> a[n + 1] \notin ValueFlags \cup {Separator}
         /\ Options(a)[n + 3] <=>
              \/ Options(a)[n + 2] /\ a[n + 2] \notin ValueFlags \cup {Separator}
              \/ a[n + 1] \in ValueFlags
<1> DEFINE op(k) == Options(a)[k]
<1>1. op(n + 1) /\ ~(op(n) /\ a[n] \in ValueFlags /\ n > 0)
  BY Zenon DEF AtOption
<1>2. op(n + 2) <=> OptionAfter(a, n + 2, op(n + 1), op(n))
  <2>1. (n + 2) - 1 = n + 1 /\ (n + 2) - 2 = n /\ n + 2 \in Nat
    OBVIOUS
  <2>2. op(n + 2) <=> OptionAfter(a, n + 2, op((n + 2) - 1), op((n + 2) - 2))
    BY <2>1, OptionsUnfold
  <2> QED
    BY <2>1, <2>2, Zenon
<1>3. op(n + 3) <=> OptionAfter(a, n + 3, op(n + 2), op(n + 1))
  <2>1. (n + 3) - 1 = n + 2 /\ (n + 3) - 2 = n + 1 /\ n + 3 \in Nat
    OBVIOUS
  <2>2. op(n + 3) <=> OptionAfter(a, n + 3, op((n + 3) - 1), op((n + 3) - 2))
    BY <2>1, OptionsUnfold
  <2> QED
    BY <2>1, <2>2, Zenon
<1>4. /\ n + 2 # 1 /\ n + 2 > 1 /\ (n + 2 > 2 <=> n > 0) /\ (n + 2) - 1 = n + 1
      /\ (n + 2) - 2 = n /\ n + 3 # 1 /\ n + 3 > 1 /\ n + 3 > 2
      /\ (n + 3) - 1 = n + 2 /\ (n + 3) - 2 = n + 1
  OBVIOUS
<1> QED
  BY <1>1, <1>2, <1>3, <1>4, Zenon DEF OptionAfter

\* One more argument at an option adds its position to its own flag.
LEMMA GivenNext ==
  ASSUME NEW a, NEW n \in Nat, Options(a)[n + 1], NEW flag
  PROVE  GivenIn(a, flag, n + 1)
           = IF a[n + 1] = flag THEN GivenIn(a, flag, n) \cup {n + 1}
             ELSE GivenIn(a, flag, n)
<1> DEFINE op(k) == Options(a)[k] /\ a[k] = flag
<1>1. 1 .. n + 1 = (1 .. n) \cup {n + 1}
  OBVIOUS
<1>2. op(n + 1) <=> a[n + 1] = flag
  BY Zenon
<1>3. GivenIn(a, flag, n + 1) = {k \in 1 .. n + 1 : op(k)}
      /\ GivenIn(a, flag, n) = {k \in 1 .. n : op(k)}
  BY DEF GivenIn
<1> HIDE DEF op
<1>4. {k \in 1 .. n + 1 : op(k)}
        = {k \in 1 .. n : op(k)} \cup {k \in {n + 1} : op(k)}
  BY <1>1, Zenon
<1>5. {k \in {n + 1} : op(k)} = IF op(n + 1) THEN {n + 1} ELSE {}
  BY Zenon
<1>6. CASE op(n + 1)
  BY <1>2, <1>3, <1>4, <1>5, <1>6
<1>7. CASE ~op(n + 1)
  BY <1>2, <1>3, <1>4, <1>5, <1>7
<1> QED
  BY <1>6, <1>7

\* A position that is no option adds nothing.
LEMMA GivenSame ==
  ASSUME NEW a, NEW n \in Nat, ~Options(a)[n + 1], NEW flag
  PROVE  GivenIn(a, flag, n + 1) = GivenIn(a, flag, n)
<1>1. 1 .. n + 1 = (1 .. n) \cup {n + 1}
  OBVIOUS
<1> QED
  BY <1>1, Zenon DEF GivenIn

\* Of positions up to n, and the next one, that is the latest.
LEMMA LatestIsNext ==
  ASSUME NEW n \in Nat, NEW S \in SUBSET (1 .. n)
  PROVE  Latest(S \cup {n + 1}) = n + 1
<1> DEFINE T == S \cup {n + 1}
<1>1. n + 1 \in T /\ \A m \in T : m <= n + 1
  OBVIOUS
<1>2. \A x \in T : x \in Nat
  OBVIOUS
<1> HIDE DEF T
<1>3. Latest(T) \in T /\ \A m \in T : m <= Latest(T)
  BY <1>1, Zenon DEF Latest
<1>4. Latest(T) <= n + 1 /\ n + 1 <= Latest(T) /\ Latest(T) \in Nat
  BY <1>1, <1>2, <1>3
<1>5. Latest(T) = n + 1
  BY <1>4
<1> QED
  BY <1>5 DEF T

\* A token that takes no value: the next position is an option too.
LEMMA OneConsumed ==
  ASSUME NEW a, NEW n \in Nat, AtOption(a, n),
         a[n + 1] \notin ValueFlags \cup {Separator}
  PROVE  AtOption(a, n + 1)
<1>1. Options(a)[n + 2]
  BY BehindOption
<1>2. (n + 1) + 1 = n + 2
  OBVIOUS
<1> QED
  BY <1>1, <1>2, Zenon DEF AtOption

\* A flag and its value: the position of the value is not an option, the one
\* behind it is.
LEMMA TwoConsumed ==
  ASSUME NEW a, NEW n \in Nat, AtOption(a, n), a[n + 1] \in ValueFlags
  PROVE  AtOption(a, n + 2) /\ ~Options(a)[n + 2]
<1>1. ~Options(a)[n + 2] /\ Options(a)[n + 3]
  BY BehindOption, Zenon
<1>2. (n + 2) + 1 = n + 3
  OBVIOUS
<1> QED
  BY <1>1, <1>2, Zenon DEF AtOption

\* Nothing behind the separator is an option.
LEMMA NoneBehindSeparator ==
  ASSUME NEW a, NEW n \in Nat, AtOption(a, n), a[n + 1] = Separator
  PROVE  \A k \in Nat : k > n + 1 => ~Options(a)[k]
<1> DEFINE S == {m \in Nat : ~Options(a)[n + 2 + m] /\ ~Options(a)[n + 3 + m]}
<1>1. ~Options(a)[n + 2] /\ ~Options(a)[n + 3]
  BY BehindOption, WhatTakesAValue, Zenon
<1>2. 0 \in S
  <2>1. n + 2 + 0 = n + 2 /\ n + 3 + 0 = n + 3
    OBVIOUS
  <2> QED
    BY <1>1, <2>1
<1>3. \A m \in Nat : m \in S => m + 1 \in S
  <2> SUFFICES ASSUME NEW m \in Nat, m \in S PROVE m + 1 \in S
      OBVIOUS
  <2>1. ~Options(a)[n + 2 + m] /\ ~Options(a)[n + 3 + m]
    OBVIOUS
  <2>2. /\ n + 2 + (m + 1) = n + 3 + m /\ n + 3 + (m + 1) = n + 4 + m
        /\ n + 4 + m \in Nat /\ (n + 4 + m) - 1 = n + 3 + m
        /\ (n + 4 + m) - 2 = n + 2 + m /\ n + 4 + m # 1
    OBVIOUS
  <2>3. Options(a)[n + 4 + m] <=>
          OptionAfter(a, n + 4 + m, Options(a)[(n + 4 + m) - 1],
                      Options(a)[(n + 4 + m) - 2])
    BY <2>2, OptionsUnfold
  <2>4. ~Options(a)[n + 4 + m]
    BY <2>1, <2>2, <2>3, Zenon DEF OptionAfter
  <2> QED
    BY <2>1, <2>2, <2>4
<1>4. \A m \in Nat : m \in S
  <2> HIDE DEF S
  <2> QED
    BY <1>2, <1>3, NatSetInduction
<1> SUFFICES ASSUME NEW k \in Nat, k > n + 1 PROVE ~Options(a)[k]
    OBVIOUS
<1>5. k - (n + 2) \in Nat /\ n + 2 + (k - (n + 2)) = k
  OBVIOUS
<1> QED
  BY <1>4, <1>5

\* So what is given up to the separator is all that is given.
LEMMA GivenBySeparator ==
  ASSUME NEW a, NEW n \in Nat, AtOption(a, n), a[n + 1] = Separator,
         NEW m \in Nat, m >= n + 1, NEW flag
  PROVE  GivenIn(a, flag, m) = IF flag = Separator THEN GivenIn(a, flag, n) \cup {n + 1}
                               ELSE GivenIn(a, flag, n)
<1>1. \A k \in 1 .. m : k \notin 1 .. n + 1 => k \in Nat /\ k > n + 1
  OBVIOUS
<1>2. 1 .. n + 1 \subseteq 1 .. m
  OBVIOUS
<1>3. GivenIn(a, flag, m) = GivenIn(a, flag, n + 1)
  BY <1>1, <1>2, NoneBehindSeparator, Zenon DEF GivenIn
<1>4. Options(a)[n + 1]
  BY Zenon DEF AtOption
<1>5. GivenIn(a, flag, n + 1)
           = IF a[n + 1] = flag THEN GivenIn(a, flag, n) \cup {n + 1}
             ELSE GivenIn(a, flag, n)
  BY <1>4, GivenNext
<1> QED
  BY <1>3, <1>5

-----------------------------------------------------------------------------
(***************************************************************************)
(* The second invariant: what was parsed is what was given, what was       *)
(* resolved is what was asked for, and so on down to the chunk.            *)
(***************************************************************************)

\* What strings are made of.
Chars == STRING \cup {"backslash", "quote", "space", "info"}

Strings == Seq(Chars)

\* A launch starts from strings.
Launched ==
  /\ argv \in Seq(Strings \ {Unset})
  /\ parent \in [Names -> Strings]

\* The positions of the arguments' separators, as tails.
TailsIn(a) == {SubSeq(a, k + 1, Len(a)) : k \in GivenIn(a, Separator, Len(a))}

\* The flags of the first n arguments, by their positions.
ParsedOf(n) ==
  [value |-> [s \in Settings |-> ValueIn(argv, Flag(s), n)],
   on |-> {s \in Switches : GivenIn(argv, Flag(s), n) # {}},
   version |-> parsed.version,
   tail |-> parsed.tail]

\* Parsing stands at an option and no separator was passed, or it is through and
\* the tail follows the only one.
Undivided ==
  parsed.tail = <<>> /\ AtOption(argv, i) /\ GivenIn(argv, Separator, i) = {}

Divided == i = Len(argv) /\ TailsIn(argv) = {parsed.tail}

\* A value that was given is a string.
ValueThere ==
  \A s \in Settings :
    GivenIn(argv, Flag(s), i) # {} => ValueIn(argv, Flag(s), i) \in Strings \ {Unset}

AsGiven ==
  /\ i \in 0 .. Len(argv)
  /\ parsed = ParsedOf(i)
  /\ ValueThere
  /\ parsed.tail \in Seq(Strings)
  /\ Undivided \/ Divided

\* A setting as the arguments and the environment have it, Unset if neither has
\* one that fits.
Taken(s, size) ==
  IF GivenIn(argv, Flag(s), Len(argv)) # {} THEN ValueIn(argv, Flag(s), Len(argv))
  ELSE IF parent[s] \in {Unset, <<>>} \/ ~FitsBuffer(parent[s], size) THEN Unset
  ELSE parent[s]

Decided == pc \in {"check", "publish", "build", "wait"} \/ game # "none"

Checked == pc \in {"publish", "build", "wait"} \/ game # "none"

Handed == pc \in {"build", "wait"} \/ game # "none"

CfgAsTaken ==
  Decided =>
    /\ i = Len(argv)
    /\ cfg.tail = parsed.tail
    /\ cfg.on = {s \in Switches :
                   GivenIn(argv, Flag(s), Len(argv)) # {} \/ parent[s] = One}
    /\ \A s \in {"game", "mod", "manager"} : cfg.value[s] = Taken(s, PathSize)
    /\ cfg.value["level"] =
         IF Taken("level", LevelSize) = Unset THEN <<"info">>
         ELSE Taken("level", LevelSize)

\* There is a game to start, and an alternate manager has a name.
CheckHeld == Checked => cfg.value["game"] # Unset /\ cfg.value["manager"] # <<>>

EnvAsTaken ==
  Handed =>
    /\ env["mod"] = IF cfg.value["mod"] # Unset THEN cfg.value["mod"]
                    ELSE parent["mod"]
    /\ env["level"] = cfg.value["level"]
    /\ env["tree"] = One =>
         /\ cfg.value["mod"] # Unset /\ StripTrailingSeps(cfg.value["mod"]) # <<>>
         /\ DeriveGameDir(cfg.value["game"], PathSize) # <<>>

LineAsTaken == game # "none" => line = CommandLine(cfg.value["game"], cfg.tail)

\* A staged chunk has what the shell reads in the environment, and a game that
\* was ended, a manager that cannot be read.
Baked ==
  /\ chunk.staged =>
       /\ ~ManagerIsFatal("not found")
       /\ chunk.literals.mod = EscapePath(Degradable("mod", PathSize))
       /\ chunk.literals.manager = EscapePath(Degradable("manager", PathSize))
       /\ chunk.literals.level = EscapePath(Degradable("level", ShellLevelSize))
  /\ game = "exited" => ManagerIsFatal("other")

DeliveryInv ==
  Launched /\ AsGiven /\ CfgAsTaken /\ CheckHeld /\ EnvAsTaken /\ LineAsTaken /\ Baked

\* A sequence over one set is one over a larger set.
LEMMA WiderSeq ==
  ASSUME NEW A, NEW B, A \subseteq B, NEW s \in Seq(A) PROVE s \in Seq(B)
<1>1. /\ Len(s) \in Nat /\ DOMAIN s = 1 .. Len(s)
      /\ \A k \in 1 .. Len(s) : s[k] \in A
  OBVIOUS
<1>2. s \in [1 .. Len(s) -> B]
  BY <1>1
<1> QED
  BY <1>1, <1>2

\* The launches are launches from strings.
LEMMA LaunchesAreStrings ==
  ASSUME NEW l \in Launches
  PROVE  l.argv \in Seq(Strings \ {Unset}) /\ l.env \in [Names -> Strings]
<1>1. l.argv \in Seq(Seq(STRING) \ {Unset}) /\ l.env \in [Names -> Seq(STRING)]
  BY LaunchAssumption
<1>2. STRING \subseteq Chars
  BY DEF Chars
<1>3. Seq(STRING) \subseteq Strings
  BY <1>2, WiderSeq DEF Strings
<1>4. Seq(STRING) \ {Unset} \subseteq Strings \ {Unset}
  BY <1>3
<1> QED
  BY <1>1, <1>3, <1>4, WiderSeq

\* Nothing is given yet.
LEMMA NoneGiven == ASSUME NEW a, NEW flag PROVE GivenIn(a, flag, 0) = {}
<1>1. 1 .. 0 = {}
  OBVIOUS
<1> QED
  BY <1>1 DEF GivenIn

\* The invariant holds before the first argument is read.
LEMMA DeliveryInit == Init => DeliveryInv
<1> SUFFICES ASSUME Init PROVE DeliveryInv
    OBVIOUS
<1>1. PICK l \in Launches : argv = l.argv /\ parent = l.env
  BY DEF Init
<1>2. Launched
  BY <1>1, LaunchesAreStrings DEF Launched
<1>3. i = 0 /\ parsed = NothingParsed /\ pc = "parse" /\ game = "none"
      /\ chunk = NoChunk
  BY DEF Init
<1>4. AsGiven
  <2>1. parsed.tail = <<>> /\ parsed.version = FALSE
    BY <1>3, Zenon DEF NothingParsed
  <2>2. ParsedOf(0) = [value |-> [s \in Settings |-> Unset], on |-> {},
                       version |-> parsed.version, tail |-> parsed.tail]
    BY NoneGiven, Zenon DEF ParsedOf, ValueIn
  <2>3. parsed = ParsedOf(0)
    BY <1>3, <2>1, <2>2, Zenon DEF NothingParsed
  <2>4. Undivided
    BY <1>3, <2>1, NoneGiven, StartsAtOption DEF Undivided
  <2>5. Len(argv) \in Nat
    BY <1>2 DEF Launched
  <2>6. parsed.tail \in Seq(Strings)
    BY <2>1
  <2>7. ValueThere
    BY <1>3, NoneGiven DEF ValueThere
  <2> QED
    BY <1>3, <2>3, <2>4, <2>5, <2>6, <2>7 DEF AsGiven
<1> QED
  BY <1>2, <1>3, <1>4
     DEF DeliveryInv, CfgAsTaken, CheckHeld, EnvAsTaken, LineAsTaken, Baked,
         Decided, Checked, Handed, NoChunk

-----------------------------------------------------------------------------
(***************************************************************************)
(* The steps, one by one.                                                  *)
(***************************************************************************)

\* An argument that stands for itself, at an option, is on no list but its own.
LEMMA OneMore ==
  ASSUME AsGiven, i < Len(argv), Undivided,
         argv[i + 1] \notin ValueFlags \cup {Separator},
         argv' = argv, i' = i + 1
  PROVE  /\ AtOption(argv, i)'
         /\ GivenIn(argv, Separator, i)' = {}
         /\ ValueThere'
         /\ \A s \in Settings : ValueIn(argv, Flag(s), i') = ValueIn(argv, Flag(s), i)
         /\ \A s \in Switches : GivenIn(argv, Flag(s), i') # {} <=>
              argv[i + 1] = Flag(s) \/ GivenIn(argv, Flag(s), i) # {}
<1>1. i \in Nat /\ AtOption(argv, i) /\ GivenIn(argv, Separator, i) = {}
      /\ Options(argv)[i + 1]
  BY DEF AsGiven, Undivided, AtOption
<1>2. AtOption(argv, i + 1)
  BY <1>1, OneConsumed
<1>3. \A f : GivenIn(argv, f, i + 1)
               = IF argv[i + 1] = f THEN GivenIn(argv, f, i) \cup {i + 1}
                 ELSE GivenIn(argv, f, i)
  BY <1>1, GivenNext
<1>4. \A s \in Settings : GivenIn(argv, Flag(s), i + 1) = GivenIn(argv, Flag(s), i)
  BY <1>3, WhatTakesAValue, Zenon
<1>5. GivenIn(argv, Separator, i + 1) = {}
  BY <1>1, <1>3
<1>6. \A s \in Switches : GivenIn(argv, Flag(s), i + 1) # {} <=>
              argv[i + 1] = Flag(s) \/ GivenIn(argv, Flag(s), i) # {}
  BY <1>3
<1>7. \A s \in Settings : ValueIn(argv, Flag(s), i + 1) = ValueIn(argv, Flag(s), i)
  BY <1>4, Zenon DEF ValueIn
<1>8. ValueThere'
  BY <1>4, <1>7 DEF AsGiven, ValueThere
<1> QED
  BY <1>2, <1>5, <1>6, <1>7, <1>8

\* Whatever else the fields say, the record is the one of its fields.
LEMMA ParsedFields ==
  ASSUME AsGiven
  PROVE  /\ parsed = [value |-> parsed.value, on |-> parsed.on,
                      version |-> parsed.version, tail |-> parsed.tail]
         /\ parsed.value = [s \in Settings |-> ValueIn(argv, Flag(s), i)]
         /\ parsed.on = {s \in Switches : GivenIn(argv, Flag(s), i) # {}}
<1>1. parsed = ParsedOf(i)
  BY DEF AsGiven
<1>2. /\ ParsedOf(i).value = [s \in Settings |-> ValueIn(argv, Flag(s), i)]
      /\ ParsedOf(i).on = {s \in Switches : GivenIn(argv, Flag(s), i) # {}}
  BY Zenon DEF ParsedOf
<1> QED
  BY <1>1, <1>2, Zenon DEF ParsedOf

\* A switch is added to those that are on.
LEMMA SwitchParsed ==
  ASSUME AsGiven, Undivided, NEW s \in Switches, ParseSwitch(s) PROVE AsGiven'
<1>1. /\ i < Len(argv) /\ Flag(s) = argv[i + 1] /\ argv' = argv /\ i' = i + 1
      /\ parsed' = [parsed EXCEPT !.on = @ \cup {s}]
  BY DEF ParseSwitch, Parsing
<1>2. parsed' = [value |-> parsed.value, on |-> parsed.on \cup {s},
                 version |-> parsed.version, tail |-> parsed.tail]
  BY <1>1, ParsedFields
<1>3. /\ parsed'.value = parsed.value /\ parsed'.on = parsed.on \cup {s}
      /\ parsed'.tail = parsed.tail
      /\ parsed' = [value |-> parsed'.value, on |-> parsed'.on,
                    version |-> parsed'.version, tail |-> parsed'.tail]
  BY <1>2
<1>4. argv[i + 1] \notin ValueFlags \cup {Separator}
  BY <1>1, WhatTakesAValue
<1>5. parsed'.value = [t \in Settings |-> ValueIn(argv, Flag(t), i')]
  BY <1>1, <1>3, <1>4, OneMore, ParsedFields
<1>6. parsed'.on = {t \in Switches : GivenIn(argv, Flag(t), i') # {}}
  <2>1. \A t \in Switches : GivenIn(argv, Flag(t), i') # {} <=>
          argv[i + 1] = Flag(t) \/ GivenIn(argv, Flag(t), i) # {}
    BY <1>1, <1>4, OneMore
  <2>2. \A t \in Switches : argv[i + 1] = Flag(t) <=> t = s
    BY <1>1, FlagsDiffer
  <2> QED
    BY <1>3, <2>1, <2>2, ParsedFields
<1>7. parsed' = ParsedOf(i)'
  BY <1>1, <1>3, <1>5, <1>6 DEF ParsedOf
<1>8. Undivided'
  BY <1>1, <1>3, <1>4, OneMore DEF Undivided
<1>9. i' \in 0 .. Len(argv')
  BY <1>1 DEF AsGiven
<1>10. parsed'.tail \in Seq(Strings)
  BY <1>3 DEF AsGiven
<1>11. ValueThere'
  BY <1>1, <1>4, OneMore
<1> QED
  BY <1>7, <1>8, <1>9, <1>10, <1>11 DEF AsGiven

\* --version is noted, and is on no list.
LEMMA VersionParsed == ASSUME AsGiven, Undivided, ParseVersion PROVE AsGiven'
<1>1. /\ i < Len(argv) /\ Version = argv[i + 1] /\ argv' = argv /\ i' = i + 1
      /\ parsed' = [parsed EXCEPT !.version = TRUE]
  BY DEF ParseVersion, Parsing
<1>3. /\ parsed'.value = parsed.value /\ parsed'.on = parsed.on
      /\ parsed'.tail = parsed.tail
      /\ parsed' = [value |-> parsed'.value, on |-> parsed'.on,
                    version |-> parsed'.version, tail |-> parsed'.tail]
  BY <1>1, ParsedFields
<1>4. argv[i + 1] \notin ValueFlags \cup {Separator}
  BY <1>1, WhatTakesAValue
<1>5. parsed'.value = [t \in Settings |-> ValueIn(argv, Flag(t), i')]
  BY <1>1, <1>3, <1>4, OneMore, ParsedFields
<1>6. parsed'.on = {t \in Switches : GivenIn(argv, Flag(t), i') # {}}
  <2>1. \A t \in Switches : GivenIn(argv, Flag(t), i') # {} <=>
          argv[i + 1] = Flag(t) \/ GivenIn(argv, Flag(t), i) # {}
    BY <1>1, <1>4, OneMore
  <2>2. \A t \in Switches : argv[i + 1] # Flag(t)
    BY <1>1, FlagsDiffer
  <2> QED
    BY <1>3, <2>1, <2>2, ParsedFields
<1>7. parsed' = ParsedOf(i)'
  BY <1>1, <1>3, <1>5, <1>6 DEF ParsedOf
<1>8. Undivided'
  BY <1>1, <1>3, <1>4, OneMore DEF Undivided
<1>9. i' \in 0 .. Len(argv')
  BY <1>1 DEF AsGiven
<1>10. parsed'.tail \in Seq(Strings)
  BY <1>3 DEF AsGiven
<1>11. ValueThere'
  BY <1>1, <1>4, OneMore
<1> QED
  BY <1>7, <1>8, <1>9, <1>10, <1>11 DEF AsGiven

\* A flag and its value: the value is the last one of that flag, and adds to no
\* list even where it looks like a flag.
LEMMA OneValue ==
  ASSUME AsGiven, Undivided, NEW s \in Settings, Flag(s) = argv[i + 1]
  PROVE  /\ AtOption(argv, i + 2)
         /\ GivenIn(argv, Separator, i + 2) = {}
         /\ ValueIn(argv, Flag(s), i + 2) = argv[i + 2]
         /\ \A t \in Settings : t # s =>
              ValueIn(argv, Flag(t), i + 2) = ValueIn(argv, Flag(t), i)
         /\ \A t \in Settings : t # s =>
              GivenIn(argv, Flag(t), i + 2) = GivenIn(argv, Flag(t), i)
         /\ \A t \in Switches :
              GivenIn(argv, Flag(t), i + 2) = GivenIn(argv, Flag(t), i)
<1>1. i \in Nat /\ AtOption(argv, i) /\ GivenIn(argv, Separator, i) = {}
      /\ Options(argv)[i + 1]
  BY DEF AsGiven, Undivided, AtOption
<1>2. argv[i + 1] \in ValueFlags
  BY WhatTakesAValue
<1>3. AtOption(argv, i + 2) /\ ~Options(argv)[i + 2]
  BY <1>1, <1>2, TwoConsumed
<1>4. i + 1 \in Nat /\ (i + 1) + 1 = i + 2
  BY <1>1
<1>5. \A f : GivenIn(argv, f, i + 2) = GivenIn(argv, f, i + 1)
  BY <1>3, <1>4, GivenSame
<1>6. \A f : GivenIn(argv, f, i + 1)
               = IF argv[i + 1] = f THEN GivenIn(argv, f, i) \cup {i + 1}
                 ELSE GivenIn(argv, f, i)
  BY <1>1, GivenNext
<1>7. \A t \in Settings \cup Switches : t # s => argv[i + 1] # Flag(t)
  BY FlagsDiffer
<1>8. \A t \in Settings \cup Switches : t # s =>
        GivenIn(argv, Flag(t), i + 2) = GivenIn(argv, Flag(t), i)
  BY <1>5, <1>6, <1>7
<1>9. s \notin Switches
  BY DEF Settings, Switches
<1>10. argv[i + 1] # Separator
  BY FlagsDiffer
<1>11. ValueIn(argv, Flag(s), i + 2) = argv[i + 2]
  <2>1. GivenIn(argv, Flag(s), i + 2) = GivenIn(argv, Flag(s), i) \cup {i + 1}
    BY <1>5, <1>6
  <2>2. GivenIn(argv, Flag(s), i) \in SUBSET (1 .. i)
    BY Zenon DEF GivenIn
  <2>3. Latest(GivenIn(argv, Flag(s), i + 2)) = i + 1
    BY <1>1, <2>1, <2>2, LatestIsNext
  <2>4. 1 + (i + 1) = i + 2
    BY <1>1
  <2>5. GivenIn(argv, Flag(s), i + 2) # {}
    BY <2>1
  <2>6. ValueIn(argv, Flag(s), i + 2) = argv[1 + Latest(GivenIn(argv, Flag(s), i + 2))]
    BY <2>5, Zenon DEF ValueIn
  <2> QED
    BY <2>3, <2>4, <2>6
<1>12. \A t \in Settings : t # s =>
              ValueIn(argv, Flag(t), i + 2) = ValueIn(argv, Flag(t), i)
  <2>1. \A t \in Settings : t # s =>
          GivenIn(argv, Flag(t), i + 2) = GivenIn(argv, Flag(t), i)
    BY <1>8
  <2> QED
    BY <2>1, Zenon DEF ValueIn
<1>13. GivenIn(argv, Separator, i + 2) = {}
  BY <1>1, <1>5, <1>6, <1>10
<1> QED
  BY <1>3, <1>8, <1>9, <1>11, <1>12, <1>13

\* The value of a setting is replaced.
LEMMA ValueParsed ==
  ASSUME Launched, AsGiven, Undivided, NEW s \in Settings, ParseValue(s)
  PROVE  AsGiven'
<1>1. /\ i + 2 <= Len(argv) /\ Flag(s) = argv[i + 1] /\ argv' = argv /\ i' = i + 2
      /\ parsed' = [parsed EXCEPT !.value[s] = argv[i + 2]]
  BY DEF ParseValue, Parsing
<1>3. /\ parsed'.value = [parsed.value EXCEPT ![s] = argv[i + 2]]
      /\ parsed'.on = parsed.on /\ parsed'.tail = parsed.tail
      /\ parsed' = [value |-> parsed'.value, on |-> parsed'.on,
                    version |-> parsed'.version, tail |-> parsed'.tail]
  BY <1>1, ParsedFields
<1>4. /\ AtOption(argv, i + 2)
      /\ GivenIn(argv, Separator, i + 2) = {}
      /\ ValueIn(argv, Flag(s), i + 2) = argv[i + 2]
      /\ \A t \in Settings : t # s =>
              /\ ValueIn(argv, Flag(t), i + 2) = ValueIn(argv, Flag(t), i)
              /\ GivenIn(argv, Flag(t), i + 2) = GivenIn(argv, Flag(t), i)
      /\ \A t \in Switches :
              GivenIn(argv, Flag(t), i + 2) = GivenIn(argv, Flag(t), i)
  BY <1>1, OneValue
<1>5. parsed'.value = [t \in Settings |-> ValueIn(argv, Flag(t), i + 2)]
  BY <1>3, <1>4, ParsedFields
<1>6. parsed'.on = {t \in Switches : GivenIn(argv, Flag(t), i + 2) # {}}
  BY <1>3, <1>4, ParsedFields
<1>7. parsed' = ParsedOf(i)'
  BY <1>1, <1>3, <1>5, <1>6 DEF ParsedOf
<1>8. Undivided'
  BY <1>1, <1>3, <1>4 DEF Undivided
<1>9. i' \in 0 .. Len(argv')
  BY <1>1 DEF AsGiven
<1>10. parsed'.tail \in Seq(Strings)
  BY <1>3 DEF AsGiven
<1>11. ValueThere'
  <2>1. argv[i + 2] \in Strings \ {Unset}
    BY <1>1 DEF Launched, AsGiven
  <2> QED
    BY <1>1, <1>4, <2>1 DEF AsGiven, ValueThere
<1> QED
  BY <1>7, <1>8, <1>9, <1>10, <1>11 DEF AsGiven

\* Part of a sequence is a sequence over the same set.
LEMMA PartOfSeq ==
  ASSUME NEW A, NEW s \in Seq(A), NEW m \in Nat \ {0}
  PROVE  SubSeq(s, m, Len(s)) \in Seq(A)
<1>1. \A k \in 1 .. Len(s) : s[k] \in A
  OBVIOUS
<1>2. CASE m <= Len(s)
  BY <1>1, <1>2
<1>3. CASE m > Len(s)
  BY <1>3
<1> QED
  BY <1>2, <1>3

\* The separator ends what is parsed, and what follows it is the tail.
LEMMA TailParsed == ASSUME Launched, AsGiven, Undivided, ParseTail PROVE AsGiven'
<1>1. /\ i < Len(argv) /\ Separator = argv[i + 1] /\ argv' = argv
      /\ i' = Len(argv)
      /\ parsed' = [parsed EXCEPT !.tail = SubSeq(argv, i + 2, Len(argv))]
  BY DEF ParseTail, Parsing
<1>2. /\ i \in Nat /\ AtOption(argv, i) /\ GivenIn(argv, Separator, i) = {}
      /\ Len(argv) \in Nat /\ Len(argv) >= i + 1
  BY <1>1 DEF AsGiven, Undivided
<1>3. /\ parsed'.value = parsed.value /\ parsed'.on = parsed.on
      /\ parsed'.tail = SubSeq(argv, i + 2, Len(argv))
      /\ parsed' = [value |-> parsed'.value, on |-> parsed'.on,
                    version |-> parsed'.version, tail |-> parsed'.tail]
  BY <1>1, ParsedFields
<1>4. \A f : GivenIn(argv, f, Len(argv))
               = IF f = Separator THEN GivenIn(argv, f, i) \cup {i + 1}
                 ELSE GivenIn(argv, f, i)
  BY <1>1, <1>2, GivenBySeparator
<1>5. \A s \in Settings \cup Switches : Flag(s) # Separator
  BY FlagsDiffer
<1>6. \A s \in Settings \cup Switches :
        GivenIn(argv, Flag(s), Len(argv)) = GivenIn(argv, Flag(s), i)
  BY <1>4, <1>5
<1>7. \A s \in Settings :
        ValueIn(argv, Flag(s), Len(argv)) = ValueIn(argv, Flag(s), i)
  <2>1. \A s \in Settings :
          GivenIn(argv, Flag(s), Len(argv)) = GivenIn(argv, Flag(s), i)
    BY <1>6
  <2> QED
    BY <2>1, Zenon DEF ValueIn
<1>8. parsed'.value = [t \in Settings |-> ValueIn(argv, Flag(t), Len(argv))]
  BY <1>3, <1>7, ParsedFields
<1>9. parsed'.on = {t \in Switches : GivenIn(argv, Flag(t), Len(argv)) # {}}
  BY <1>3, <1>6, ParsedFields
<1>10. parsed' = ParsedOf(i)'
  BY <1>1, <1>3, <1>8, <1>9 DEF ParsedOf
<1>11. Divided'
  <2>1. GivenIn(argv, Separator, Len(argv)) = {i + 1}
    BY <1>2, <1>4
  <2>2. TailsIn(argv) = {SubSeq(argv, (i + 1) + 1, Len(argv))}
    BY <2>1, Zenon DEF TailsIn
  <2>3. (i + 1) + 1 = i + 2
    BY <1>2
  <2> QED
    BY <1>1, <1>3, <2>2, <2>3 DEF Divided
<1>12. i' \in 0 .. Len(argv')
  BY <1>1, <1>2
<1>13. parsed'.tail \in Seq(Strings)
  <2>1. argv \in Seq(Strings)
    <3>1. Strings \ {Unset} \subseteq Strings
      OBVIOUS
    <3> QED
      BY <3>1, WiderSeq DEF Launched
  <2>2. i + 2 \in Nat \ {0}
    BY <1>2
  <2> QED
    BY <1>3, <2>1, <2>2, PartOfSeq
<1>14. ValueThere'
  <2>1. \A s \in Settings :
          GivenIn(argv, Flag(s), Len(argv)) = GivenIn(argv, Flag(s), i)
    BY <1>6
  <2> QED
    BY <1>1, <1>7, <2>1 DEF AsGiven, ValueThere
<1> QED
  BY <1>10, <1>11, <1>12, <1>13, <1>14 DEF AsGiven

\* Nothing is parsed twice: where an argument is left, no separator was passed.
LEMMA StillUndivided == ASSUME AsGiven, i < Len(argv) PROVE Undivided
<1>1. i # Len(argv)
  BY DEF AsGiven
<1> QED
  BY <1>1 DEF AsGiven, Divided

\* Each step of the parser keeps the rest as it is.
LEMMA ParseDelivers == StartupInv /\ DeliveryInv /\ Parse => DeliveryInv'
<1> SUFFICES ASSUME StartupInv, DeliveryInv, Parse PROVE DeliveryInv'
    OBVIOUS
<1>1. /\ pc = "parse" /\ pc' \in {"parse", "exited"} /\ i < Len(argv)
      /\ UNCHANGED <<argv, parent, env, cfg, line, game, chunk>>
  BY DEF Parse, ParseTail, ParseHelp, ParseVersion, ParseSwitch, ParseValue,
         ParseError, Parsing, Exit, shellVars
<1>2. Launched /\ AsGiven /\ Undivided
  BY <1>1, StillUndivided DEF DeliveryInv
<1>3. AsGiven'
  <2>1. CASE ParseHelp \/ ParseError
    <3>1. UNCHANGED <<argv, i, parsed>>
      BY <2>1 DEF ParseHelp, ParseError, Parsing
    <3> QED
      BY <1>2, <3>1 DEF AsGiven, ParsedOf, Undivided, Divided, ValueThere
  <2> QED
    BY <2>1, <1>2, SwitchParsed, ValueParsed, VersionParsed, TailParsed DEF Parse
<1>4. game = "none" /\ chunk = NoChunk
  BY <1>1 DEF StartupInv, NothingYet, Before
<1>5. Launched'
  BY <1>1, <1>2 DEF Launched
<1> QED
  BY <1>1, <1>3, <1>4, <1>5
     DEF DeliveryInv, CfgAsTaken, CheckHeld, EnvAsTaken, LineAsTaken, Baked,
         Decided, Checked, Handed, NoChunk

\* What a flag or the environment gave, when all arguments are parsed.
LEMMA ResolvedIsTaken ==
  ASSUME Launched, AsGiven, i = Len(argv), env = parent,
         NEW s \in Settings, NEW self
  PROVE  Resolved(s, self) =
           IF Taken(s, BufferSize(s)) # Unset THEN Taken(s, BufferSize(s))
           ELSE CASE s = "log" -> DefaultPath(self, "relay.log")
                  [] s = "level" -> <<"info">>
                  [] s = "app" -> <<"1361210">>
                  [] OTHER -> Unset
<1>1. parsed.value[s] = ValueIn(argv, Flag(s), Len(argv))
  BY ParsedFields
<1>2. CASE GivenIn(argv, Flag(s), Len(argv)) # {}
  <2>1. ValueIn(argv, Flag(s), Len(argv)) # Unset
    BY <1>2 DEF AsGiven, ValueThere
  <2>2. Taken(s, BufferSize(s)) = ValueIn(argv, Flag(s), Len(argv))
    BY <1>2, Zenon DEF Taken
  <2> QED
    BY <1>1, <2>1, <2>2, Zenon DEF Resolved
<1>3. CASE GivenIn(argv, Flag(s), Len(argv)) = {}
  <2>1. parsed.value[s] = Unset
    BY <1>1, <1>3, Zenon DEF ValueIn
  <2>2. ReadEnv(s, BufferSize(s)) = "set" <=>
          parent[s] \notin {Unset, <<>>} /\ FitsBuffer(parent[s], BufferSize(s))
    BY DEF ReadEnv
  <2>3. Taken(s, BufferSize(s)) =
          IF ReadEnv(s, BufferSize(s)) = "set" THEN parent[s] ELSE Unset
    BY <1>3, <2>2, Zenon DEF Taken
  <2>4. CASE ReadEnv(s, BufferSize(s)) = "set"
    <3>1. parent[s] # Unset
      BY <2>2, <2>4
    <3> QED
      BY <2>1, <2>3, <2>4, <3>1, Zenon DEF Resolved
  <2>5. CASE ReadEnv(s, BufferSize(s)) # "set"
    BY <2>1, <2>3, <2>5, Zenon DEF Resolved
  <2> QED
    BY <2>4, <2>5
<1> QED
  BY <1>2, <1>3

\* What is resolved is what was taken.
LEMMA ResolveDelivers == StartupInv /\ DeliveryInv /\ Resolve => DeliveryInv'
<1> SUFFICES ASSUME StartupInv, DeliveryInv, Resolve PROVE DeliveryInv'
    OBVIOUS
<1>1. /\ pc = "parse" /\ pc' \in {"check", "exited"} /\ i = Len(argv)
      /\ UNCHANGED <<argv, parent, env, i, parsed, line, game, chunk>>
  BY DEF Resolve, Exit, shellVars
<1>2. game = "none" /\ chunk = NoChunk /\ env = parent
  BY <1>1 DEF StartupInv, NothingYet, Before
<1>3. Launched /\ AsGiven
  BY DEF DeliveryInv
<1>4. Launched' /\ AsGiven'
  BY <1>1, <1>3 DEF Launched, AsGiven, ParsedOf, Undivided, Divided, ValueThere
<1>5. CfgAsTaken'
  <2> SUFFICES ASSUME pc' = "check" PROVE CfgAsTaken'
      BY <1>1, <1>2 DEF CfgAsTaken, Decided
  <2>1. PICK self \in SelfPaths :
          cfg' = [value |-> [s \in Settings |-> Resolved(s, self)],
                  on |-> {s \in Switches : s \in parsed.on \/ IsExactOne(s)},
                  version |-> FALSE, tail |-> parsed.tail]
    BY DEF Resolve, Exit
  <2>2. /\ cfg'.value = [s \in Settings |-> Resolved(s, self)]
        /\ cfg'.on = {s \in Switches : s \in parsed.on \/ IsExactOne(s)}
        /\ cfg'.tail = parsed.tail
    BY <2>1
  <2>3. cfg'.on = {s \in Switches :
                   GivenIn(argv, Flag(s), Len(argv)) # {} \/ parent[s] = One}
    BY <1>1, <1>2, <1>3, <2>2, ParsedFields DEF IsExactOne
  <2>4. \A s \in {"game", "mod", "manager"} : cfg'.value[s] = Taken(s, PathSize)
    <3> SUFFICES ASSUME NEW s \in {"game", "mod", "manager"}
                 PROVE  cfg'.value[s] = Taken(s, PathSize)
        OBVIOUS
    <3>1. s \in Settings /\ BufferSize(s) = PathSize
          /\ s # "log" /\ s # "level" /\ s # "app"
      BY DEF Settings, BufferSize
    <3>2. Resolved(s, self) =
            IF Taken(s, PathSize) # Unset THEN Taken(s, PathSize) ELSE Unset
      BY <1>1, <1>2, <1>3, <3>1, ResolvedIsTaken
    <3> QED
      BY <2>2, <3>1, <3>2
  <2>5. cfg'.value["level"] =
          IF Taken("level", LevelSize) = Unset THEN <<"info">>
          ELSE Taken("level", LevelSize)
    <3>1. "level" \in Settings /\ BufferSize("level") = LevelSize
      BY DEF Settings, BufferSize
    <3>2. "level" # "log"
      OBVIOUS
    <3>3. Resolved("level", self) =
            IF Taken("level", LevelSize) # Unset THEN Taken("level", LevelSize)
            ELSE <<"info">>
      BY <1>1, <1>2, <1>3, <3>1, <3>2, ResolvedIsTaken
    <3> QED
      BY <2>2, <3>1, <3>3
  <2>6. \A s, size : Taken(s, size)' = Taken(s, size)
    BY <1>1 DEF Taken
  <2>7. /\ cfg'.tail = parsed'.tail
        /\ cfg'.on = {s \in Switches :
                        GivenIn(argv', Flag(s), Len(argv')) # {} \/ parent'[s] = One}
        /\ i' = Len(argv')
    BY <1>1, <2>2, <2>3
  <2>8. /\ \A s \in {"game", "mod", "manager"} : cfg'.value[s] = Taken(s, PathSize)'
        /\ cfg'.value["level"] =
             IF Taken("level", LevelSize)' = Unset THEN <<"info">>
             ELSE Taken("level", LevelSize)'
    BY <2>4, <2>5, <2>6
  <2> QED
    BY <2>7, <2>8 DEF CfgAsTaken
<1> QED
  BY <1>1, <1>2, <1>4, <1>5
     DEF DeliveryInv, CheckHeld, EnvAsTaken, LineAsTaken, Baked,
         Checked, Handed, NoChunk

asked == <<argv, parent, i, parsed, cfg>>

\* Past the parser, nothing that was asked for or resolved changes.
LEMMA AskedKept ==
  ASSUME Launched, AsGiven, CfgAsTaken, UNCHANGED asked, Decided' => Decided
  PROVE  Launched' /\ AsGiven' /\ CfgAsTaken'
<1>1. UNCHANGED <<argv, parent, i, parsed, cfg>>
  BY DEF asked
<1>2. Launched' /\ AsGiven'
  BY <1>1 DEF Launched, AsGiven, ParsedOf, Undivided, Divided, ValueThere
<1>3. \A s, size : Taken(s, size)' = Taken(s, size)
  BY <1>1 DEF Taken
<1>4. CASE ~Decided'
  BY <1>2, <1>4 DEF CfgAsTaken
<1>5. CASE Decided
  <2>1. /\ i' = Len(argv')
        /\ cfg'.tail = parsed'.tail
        /\ cfg'.on = {s \in Switches :
                       GivenIn(argv', Flag(s), Len(argv')) # {} \/ parent'[s] = One}
    BY <1>1, <1>5 DEF CfgAsTaken
  <2>2. /\ \A s \in {"game", "mod", "manager"} : cfg'.value[s] = Taken(s, PathSize)'
        /\ cfg'.value["level"] =
             IF Taken("level", LevelSize)' = Unset THEN <<"info">>
             ELSE Taken("level", LevelSize)'
    BY <1>1, <1>3, <1>5 DEF CfgAsTaken
  <2> QED
    BY <1>2, <2>1, <2>2 DEF CfgAsTaken
<1> QED
  BY <1>4, <1>5

\* The check lets through what it found, or ends the launcher.
LEMMA CheckDelivers ==
  ASSUME NEW b \in BOOLEAN PROVE StartupInv /\ DeliveryInv /\ Check(b) => DeliveryInv'
<1> SUFFICES ASSUME StartupInv, DeliveryInv, Check(b) PROVE DeliveryInv'
    OBVIOUS
<1>1. /\ pc = "check" /\ pc' \in {"publish", "exited"}
      /\ UNCHANGED <<env, line, game, chunk>> /\ UNCHANGED asked
      /\ pc' = "publish" =>
           cfg.value["game"] # Unset /\ cfg.value["manager"] # <<>>
  BY DEF Check, Exit, shellVars, asked
<1>2. game = "none" /\ chunk = NoChunk
  BY <1>1 DEF StartupInv, NothingYet, Before
<1>3. Launched' /\ AsGiven' /\ CfgAsTaken'
  BY <1>1, AskedKept DEF DeliveryInv, Decided
<1>4. CheckHeld'
  BY <1>1, <1>2 DEF CheckHeld, Checked, asked
<1> QED
  BY <1>1, <1>2, <1>3, <1>4
     DEF DeliveryInv, EnvAsTaken, LineAsTaken, Baked, Handed, NoChunk

\* The environment gets what was resolved.
LEMMA PublishDelivers ==
  ASSUME NEW b \in BOOLEAN
  PROVE  StartupInv /\ DeliveryInv /\ Publish(b) => DeliveryInv'
<1> SUFFICES ASSUME StartupInv, DeliveryInv, Publish(b) PROVE DeliveryInv'
    OBVIOUS
<1>1. /\ pc = "publish" /\ pc' = "build"
      /\ UNCHANGED <<line, game, chunk>> /\ UNCHANGED asked
  BY DEF Publish, shellVars, asked
<1>2. game = "none" /\ chunk = NoChunk /\ env = parent
  BY <1>1 DEF StartupInv, NothingYet, Before
<1>3. Launched' /\ AsGiven' /\ CfgAsTaken'
  BY <1>1, AskedKept DEF DeliveryInv, Decided
<1>4. CheckHeld'
  BY <1>1 DEF DeliveryInv, CheckHeld, Checked, asked
<1>5. /\ env'["mod"] = IF cfg.value["mod"] # Unset THEN cfg.value["mod"]
                       ELSE parent["mod"]
      /\ env'["level"] = cfg.value["level"]
      /\ env'["tree"] = Published(InGameTree(b), "tree")
  BY <1>2 DEF Publish, Names, Settings, Switches
<1>6. env'["tree"] = One =>
         /\ cfg.value["mod"] # Unset /\ StripTrailingSeps(cfg.value["mod"]) # <<>>
         /\ DeriveGameDir(cfg.value["game"], PathSize) # <<>>
  <2>1. One # Unset
    <3>1. "1" # "unset"
      OBVIOUS
    <3> QED
      BY <3>1 DEF One, Unset
  <2>2. env'["tree"] = One => InGameTree(b)
    BY <1>5, <2>1 DEF Published
  <2> QED
    BY <2>2 DEF InGameTree
<1>7. EnvAsTaken'
  BY <1>1, <1>5, <1>6 DEF EnvAsTaken, asked
<1> QED
  BY <1>1, <1>2, <1>3, <1>4, <1>7 DEF DeliveryInv, LineAsTaken, Baked, NoChunk

\* The command line is built of what was resolved.
LEMMA CreateDelivers == StartupInv /\ DeliveryInv /\ Create => DeliveryInv'
<1> SUFFICES ASSUME StartupInv, DeliveryInv, Create PROVE DeliveryInv'
    OBVIOUS
<1>1. /\ pc = "build" /\ UNCHANGED <<env, chunk>> /\ UNCHANGED asked
      /\ pc' \in {"exited", "wait"}
      /\ \/ UNCHANGED game
         \/ game' = "suspended" /\ line' = CommandLine(cfg.value["game"], cfg.tail)
  BY Zenon DEF Create, asked, Exit
<1>2. game = "none" /\ chunk = NoChunk
  BY <1>1 DEF StartupInv, NothingYet
<1>3. Launched' /\ AsGiven' /\ CfgAsTaken'
  BY <1>1, AskedKept DEF DeliveryInv, Decided
<1>4. CheckHeld' /\ EnvAsTaken'
  BY <1>1 DEF DeliveryInv, CheckHeld, EnvAsTaken, Checked, Handed, asked
<1>5. LineAsTaken'
  BY <1>1, <1>2 DEF LineAsTaken, asked
<1>6. Baked'
  BY <1>1, <1>2 DEF Baked, NoChunk
<1> QED
  BY <1>3, <1>4, <1>5, <1>6 DEF DeliveryInv

\* The game runs or is terminated with what it has.
LEMMA EndDelivers == StartupInv /\ DeliveryInv /\ (Resume \/ GiveUp) => DeliveryInv'
<1> SUFFICES ASSUME StartupInv, DeliveryInv, Resume \/ GiveUp PROVE DeliveryInv'
    OBVIOUS
<1>1. /\ pc = "wait" /\ pc' = "exited"
      /\ UNCHANGED <<env, line, chunk>> /\ UNCHANGED asked
      /\ game' = game \/ (game # "none" /\ game' \notin {"none", "exited"})
  <2>1. CASE Resume
    BY <2>1 DEF Resume, Exit, shellVars, asked
  <2>2. CASE GiveUp
    BY <2>2 DEF GiveUp, Exit, shellVars, asked
  <2> QED
    BY <2>1, <2>2
<1>2. Launched' /\ AsGiven' /\ CfgAsTaken'
  BY <1>1, AskedKept DEF DeliveryInv, Decided
<1>3. CheckHeld' /\ EnvAsTaken' /\ LineAsTaken'
  BY <1>1 DEF DeliveryInv, CheckHeld, EnvAsTaken, LineAsTaken, Checked, Handed, asked
<1>4. /\ \A e : ManagerIsFatal(e)' = ManagerIsFatal(e)
      /\ \A n, size : Degradable(n, size)' = Degradable(n, size)
  BY <1>1 DEF ManagerIsFatal, ReadEnv, Degradable
<1>5. Baked'
  BY <1>1, <1>4 DEF DeliveryInv, Baked
<1> QED
  BY <1>2, <1>3, <1>5 DEF DeliveryInv

\* The chunk is built of what the shell reads.
LEMMA BuildBakes ==
  ASSUME NEW loader, NEW entry, BuildChunk(loader, entry).staged
  PROVE  /\ BuildChunk(loader, entry).literals.mod = EscapePath(Degradable("mod", PathSize))
         /\ BuildChunk(loader, entry).literals.manager
              = EscapePath(Degradable("manager", PathSize))
         /\ BuildChunk(loader, entry).literals.level
              = EscapePath(Degradable("level", ShellLevelSize))
BY DEF BuildChunk, NoChunk

\* The shell stages it, or ends the game over a manager it cannot read.
LEMMA ShellDelivers == StartupInv /\ DeliveryInv /\ Shell => DeliveryInv'
<1> SUFFICES ASSUME StartupInv, DeliveryInv, Shell PROVE DeliveryInv'
    OBVIOUS
<1>1. /\ game = "suspended" /\ game' # "none"
      /\ UNCHANGED <<env, pc, line>> /\ UNCHANGED asked
  BY DEF Shell, OpenLog, Stage, Working, asked
<1>2. Launched' /\ AsGiven' /\ CfgAsTaken'
  BY <1>1, AskedKept DEF DeliveryInv, Decided
<1>3. CheckHeld' /\ EnvAsTaken' /\ LineAsTaken'
  BY <1>1 DEF DeliveryInv, CheckHeld, EnvAsTaken, LineAsTaken, Checked, Handed, asked
<1>4. /\ \A e : ManagerIsFatal(e)' = ManagerIsFatal(e)
      /\ \A n, size : Degradable(n, size)' = Degradable(n, size)
  BY <1>1 DEF ManagerIsFatal, ReadEnv, Degradable
<1>5. \A e \in {"not found", "other"} :
        /\ ManagerIsFatal(e) => ManagerIsFatal("other")
        /\ ~ManagerIsFatal(e) => ~ManagerIsFatal("not found")
  BY DEF ManagerIsFatal
<1>6. Baked'
  <2>1. CASE OpenLog
    BY <1>1, <1>4, <2>1 DEF OpenLog, DeliveryInv, Baked
  <2>2. ASSUME NEW self \in SelfPaths, NEW e \in {"not found", "other"}, Stage(self, e)
        PROVE  Baked'
    <3>1. CASE game' = "exited" /\ ManagerIsFatal(e) /\ UNCHANGED chunk
      BY <1>1, <1>4, <1>5, <3>1 DEF DeliveryInv, Baked
    <3>2. CASE game' = game /\ chunk' = NoChunk
      BY <1>1, <3>2 DEF Baked, NoChunk
    <3>3. ASSUME NEW loader, NEW entry, game' = game,
                 chunk' = BuildChunk(loader, entry), ~ManagerIsFatal(e)
          PROVE  Baked'
      <4>1. chunk'.staged =>
              /\ chunk'.literals.mod = EscapePath(Degradable("mod", PathSize))
              /\ chunk'.literals.manager = EscapePath(Degradable("manager", PathSize))
              /\ chunk'.literals.level
                   = EscapePath(Degradable("level", ShellLevelSize))
        BY <3>3, BuildBakes
      <4> QED
        BY <1>1, <1>4, <1>5, <3>3, <4>1 DEF Baked
    <3>4. \/ game' = "exited" /\ ManagerIsFatal(e) /\ UNCHANGED chunk
          \/ game' = game /\ chunk' = NoChunk
          \/ game' = game /\ ~ManagerIsFatal(e)
               /\ \E loader, entry : chunk' = BuildChunk(loader, entry)
      BY <2>2 DEF Stage
    <3> QED
      BY <3>1, <3>2, <3>3, <3>4
  <2> QED
    BY <2>1, <2>2 DEF Shell
<1> QED
  BY <1>2, <1>3, <1>6 DEF DeliveryInv

\* Every step preserves the second invariant, given the first.
LEMMA DeliveryNext == StartupInv /\ DeliveryInv /\ [Next]_vars => DeliveryInv'
<1> SUFFICES ASSUME StartupInv, DeliveryInv, [Next]_vars PROVE DeliveryInv'
    OBVIOUS
<1>1. CASE Launcher
  BY <1>1, ParseDelivers, ResolveDelivers, CheckDelivers, PublishDelivers,
     CreateDelivers, EndDelivers DEF Launcher
<1>2. CASE Shell
  BY <1>2, ShellDelivers
<1>3. CASE UNCHANGED vars
  <2>1. UNCHANGED asked /\ UNCHANGED <<pc, game, env, line, chunk>>
    BY <1>3 DEF vars, asked
  <2>2. Launched' /\ AsGiven' /\ CfgAsTaken'
    BY <2>1, AskedKept DEF DeliveryInv, Decided
  <2>3. CheckHeld' /\ EnvAsTaken' /\ LineAsTaken'
    BY <2>1 DEF DeliveryInv, CheckHeld, EnvAsTaken, LineAsTaken, Checked, Handed, asked
  <2>4. Baked'
    BY <2>1 DEF DeliveryInv, Baked, ManagerIsFatal, ReadEnv, Degradable
  <2> QED
    BY <2>2, <2>3, <2>4 DEF DeliveryInv
<1> QED
  BY <1>1, <1>2, <1>3 DEF Next

-----------------------------------------------------------------------------
(***************************************************************************)
(* What the operator asked for, and what was taken.                        *)
(***************************************************************************)

\* The definitions the properties are stated with are those of the invariant.
LEMMA AskedIs ==
  ASSUME Launched
  PROVE  /\ \A flag : Given(flag) = GivenIn(argv, flag, Len(argv))
         /\ AskedTail = TailsIn(argv)
         /\ \A s : Asked(s) =
              IF GivenIn(argv, Flag(s), Len(argv)) # {}
              THEN ValueIn(argv, Flag(s), Len(argv))
              ELSE IF parent[s] = Unset THEN <<>> ELSE parent[s]
<1>1. DOMAIN argv = 1 .. Len(argv)
  BY DEF Launched
<1>2. \A flag : Given(flag) = GivenIn(argv, flag, Len(argv))
  BY <1>1, OptionAtIsOptions, Zenon DEF Given, GivenIn
<1>3. AskedTail = TailsIn(argv)
  BY <1>2, Zenon DEF AskedTail, TailsIn
<1>4. \A s : Asked(s) =
              IF GivenIn(argv, Flag(s), Len(argv)) # {}
              THEN ValueIn(argv, Flag(s), Len(argv))
              ELSE IF parent[s] = Unset THEN <<>> ELSE parent[s]
  <2>1. \A s : Asked(s) = IF Given(Flag(s)) # {}
                          THEN argv[1 + Latest(Given(Flag(s)))]
                          ELSE IF parent[s] = Unset THEN <<>> ELSE parent[s]
    BY Zenon DEF Asked, Latest
  <2> QED
    BY <1>2, <2>1 DEF ValueIn
<1> QED
  BY <1>2, <1>3, <1>4

\* What was taken is what was asked for; where nothing was, no flag was given and
\* the environment had nothing, or nothing that fits.
LEMMA TakenIsAsked ==
  ASSUME Launched, AsGiven, i = Len(argv), NEW s \in Settings, NEW size
  PROVE  /\ Taken(s, size) # Unset =>
              Taken(s, size) = Asked(s) /\ Asked(s) \in Strings
         /\ Taken(s, size) = Unset =>
              /\ Given(Flag(s)) = {}
              /\ Asked(s) = IF parent[s] = Unset THEN <<>> ELSE parent[s]
              /\ parent[s] \in {Unset, <<>>} \/ ~FitsBuffer(parent[s], size)
<1>1. CASE GivenIn(argv, Flag(s), Len(argv)) # {}
  <2>1. ValueIn(argv, Flag(s), Len(argv)) \in Strings \ {Unset}
    BY <1>1 DEF AsGiven, ValueThere
  <2>2. Taken(s, size) = ValueIn(argv, Flag(s), Len(argv))
    BY <1>1, Zenon DEF Taken
  <2>3. Asked(s) = ValueIn(argv, Flag(s), Len(argv))
    BY <1>1, AskedIs
  <2> QED
    BY <2>1, <2>2, <2>3
<1>2. CASE GivenIn(argv, Flag(s), Len(argv)) = {}
  <2>1. Taken(s, size) =
          IF parent[s] \in {Unset, <<>>} \/ ~FitsBuffer(parent[s], size) THEN Unset
          ELSE parent[s]
    BY <1>2, Zenon DEF Taken
  <2>2. Asked(s) = IF parent[s] = Unset THEN <<>> ELSE parent[s]
    BY <1>2, AskedIs
  <2>3. Given(Flag(s)) = {}
    BY <1>2, AskedIs
  <2>4. parent[s] \in Strings
    BY DEF Launched, Names
  <2> QED
    BY <2>1, <2>2, <2>3, <2>4
<1> QED
  BY <1>1, <1>2

\* Where there is a game, all of it was asked for.
LEMMA GameIsAsked ==
  ASSUME DeliveryInv, game # "none"
  PROVE  /\ Launched /\ AsGiven /\ i = Len(argv)
         /\ \A s \in {"game", "mod", "manager"} : cfg.value[s] = Taken(s, PathSize)
BY DEF DeliveryInv, CfgAsTaken, Decided

\* What the shell reads has no control character.
LEMMA DegradedIsPlain ==
  ASSUME NEW name, NEW size, env[name] \in Strings
  PROVE  /\ Degradable(name, size) =
              IF env[name] \notin {Unset, <<>>} /\ Readable(env[name], size)
              THEN env[name] ELSE <<>>
         /\ LuaReads(EscapePath(Degradable(name, size)), Degradable(name, size))
<1>1. Degradable(name, size) =
              IF env[name] \notin {Unset, <<>>} /\ Readable(env[name], size)
              THEN env[name] ELSE <<>>
  BY DEF Degradable, ReadEnv, Readable
<1>2. Degradable(name, size) \in Seq(Chars) /\ ~HasControl(Degradable(name, size))
  BY <1>1 DEF Readable, HasControl, Strings
<1>3. "backslash" \in Chars
  BY DEF Chars
<1> QED
  BY <1>1, <1>2, <1>3, LuaReadsEscaped

\* The default level is one character of the model, and fits the shell's buffer.
LEMMA DefaultLevel ==
  /\ <<"info">> \in Strings /\ <<"info">> \notin {Unset, <<>>}
  /\ Readable(<<"info">>, ShellLevelSize)
<1>1. "info" # "unset" /\ "info" # "control"
  OBVIOUS
<1>2. \A c : c # "unset" => <<c>> # Unset /\ <<c>> # <<>>
  BY DEF Unset
<1>3. \A c : c # "control" => ~HasControl(<<c>>)
  BY DEF HasControl
<1>4. \A c : Len(<<c>>) = 1
  OBVIOUS
<1>5. "info" \in Chars
  BY DEF Chars
<1>6. \A c \in Chars : <<c>> \in Strings
  BY DEF Strings
<1>7. 1 + 1 <= ShellLevelSize
  BY SizeAssumption
<1>8. FitsBuffer(<<"info">>, ShellLevelSize)
  BY <1>4, <1>7, Zenon DEF FitsBuffer
<1> QED
  BY <1>1, <1>2, <1>3, <1>5, <1>6, <1>8, Zenon DEF Readable

\* The manager in the chunk.
LEMMA ManagerArrives ==
  ASSUME StartupInv, DeliveryInv, chunk.staged, game # "none"
  PROVE  LuaReads(chunk.literals.manager, Asked("manager"))
<1>1. /\ Launched /\ AsGiven /\ i = Len(argv)
      /\ cfg.value["manager"] = Taken("manager", PathSize)
      /\ "manager" \in Settings
  BY GameIsAsked DEF Settings
<1>2. /\ ~ManagerIsFatal("not found")
      /\ chunk.literals.manager = EscapePath(Degradable("manager", PathSize))
  BY DEF DeliveryInv, Baked
<1>3. Degradable("manager", PathSize)
        = IF cfg.value["manager"] = Unset THEN <<>> ELSE cfg.value["manager"]
  BY <1>2, ManagerReadWhole DEF StartupInv
<1>4. env["manager"] = IF cfg.value["manager"] # Unset THEN cfg.value["manager"]
                       ELSE parent["manager"]
  BY DEF StartupInv, AsResolved
<1>5. cfg.value["manager"] = Unset => parent["manager"] \in {Unset, <<>>}
  BY DEF StartupInv, NoneToRead
<1>6. env["manager"] \in Strings
  BY <1>1, <1>4, TakenIsAsked DEF Launched, Names
<1>7. Degradable("manager", PathSize) = Asked("manager")
  BY <1>1, <1>3, <1>5, TakenIsAsked
<1> QED
  BY <1>2, <1>6, <1>7, DegradedIsPlain

\* The mod path in the chunk.
LEMMA ModArrives ==
  ASSUME DeliveryInv, chunk.staged, game # "none"
  PROVE  LuaReads(chunk.literals.mod,
            IF Readable(Asked("mod"), PathSize) THEN Asked("mod") ELSE <<>>)
<1>1. /\ Launched /\ AsGiven /\ i = Len(argv)
      /\ cfg.value["mod"] = Taken("mod", PathSize) /\ "mod" \in Settings
  BY GameIsAsked DEF Settings
<1>2. chunk.literals.mod = EscapePath(Degradable("mod", PathSize))
  BY DEF DeliveryInv, Baked
<1>3. env["mod"] = IF cfg.value["mod"] # Unset THEN cfg.value["mod"] ELSE parent["mod"]
  BY DEF DeliveryInv, EnvAsTaken, Handed
<1>4. env["mod"] \in Strings
  BY <1>1, <1>3, TakenIsAsked DEF Launched, Names
<1>5. Degradable("mod", PathSize) =
        IF env["mod"] \notin {Unset, <<>>} /\ Readable(env["mod"], PathSize)
        THEN env["mod"] ELSE <<>>
  BY <1>4, DegradedIsPlain
<1>6. Degradable("mod", PathSize) =
        IF Readable(Asked("mod"), PathSize) THEN Asked("mod") ELSE <<>>
  <2>1. CASE cfg.value["mod"] # Unset
    BY <1>1, <1>3, <1>5, <2>1, TakenIsAsked
  <2>2. CASE cfg.value["mod"] = Unset
    BY <1>1, <1>3, <1>5, <2>2, TakenIsAsked DEF Readable
  <2> QED
    BY <2>1, <2>2
<1> QED
  BY <1>2, <1>4, <1>6, DegradedIsPlain

\* The level in the chunk.
LEMMA LevelArrives ==
  ASSUME DeliveryInv, chunk.staged, game # "none"
  PROVE  LET level == Asked("level")
             asEnv == Given(Flag("level")) = {}
                        /\ (level = <<>> \/ ~FitsBuffer(level, LevelSize))
         IN  LuaReads(chunk.literals.level,
               IF asEnv THEN <<"info">>
               ELSE IF Readable(level, ShellLevelSize) THEN level ELSE <<>>)
<1> DEFINE level == Asked("level")
           asEnv == Given(Flag("level")) = {}
                      /\ (level = <<>> \/ ~FitsBuffer(level, LevelSize))
           said == IF asEnv THEN <<"info">>
                   ELSE IF Readable(level, ShellLevelSize) THEN level ELSE <<>>
<1>1. /\ Launched /\ AsGiven /\ i = Len(argv) /\ "level" \in Settings
      /\ env["level"] = IF Taken("level", LevelSize) = Unset THEN <<"info">>
                        ELSE Taken("level", LevelSize)
  BY DEF DeliveryInv, CfgAsTaken, EnvAsTaken, Decided, Handed, Settings
<1>2. chunk.literals.level = EscapePath(Degradable("level", ShellLevelSize))
  BY DEF DeliveryInv, Baked
<1>3. env["level"] \in Strings
  BY <1>1, TakenIsAsked, DefaultLevel
<1>4. Degradable("level", ShellLevelSize) =
        IF env["level"] \notin {Unset, <<>>} /\ Readable(env["level"], ShellLevelSize)
        THEN env["level"] ELSE <<>>
  BY <1>3, DegradedIsPlain
<1>5. Degradable("level", ShellLevelSize) = said
  <2>1. CASE Taken("level", LevelSize) = Unset
    <3>1. asEnv
      BY <1>1, <2>1, TakenIsAsked
    <3> QED
      BY <1>1, <1>4, <2>1, <3>1, DefaultLevel
  <2>2. CASE Taken("level", LevelSize) # Unset
    <3>1. env["level"] = level /\ level # Unset
      BY <1>1, <2>2, TakenIsAsked
    <3>2. ~asEnv
      <4>1. Given(Flag("level")) = {} =>
              /\ Taken("level", LevelSize) = parent["level"]
              /\ parent["level"] # <<>> /\ FitsBuffer(parent["level"], LevelSize)
        BY <1>1, <2>2, AskedIs, Zenon DEF Taken
      <4> QED
        BY <1>1, <3>1, <4>1, <2>2
    <3> QED
      BY <1>4, <3>1, <3>2
  <2> QED
    BY <2>1, <2>2
<1> QED
  BY <1>2, <1>3, <1>5, DegradedIsPlain

\* A staged chunk says what was asked for.
LEMMA IntactHere == StartupInv /\ DeliveryInv => SettingsArriveIntact
<1> SUFFICES ASSUME StartupInv, DeliveryInv, chunk.staged
             PROVE  SettingsArriveIntact
    BY DEF SettingsArriveIntact
<1>1. game # "none"
  BY DEF StartupInv, NothingYet, NoChunk
<1> QED
  BY <1>1, ManagerArrives, ModArrives, LevelArrives DEF SettingsArriveIntact

\* The switches are the flags and the exact ones of the parent.
LEMMA DecidedHere == StartupInv /\ DeliveryInv => SwitchesAreDecidedHere
<1> SUFFICES ASSUME StartupInv, DeliveryInv, game # "none"
             PROVE  SwitchesAreDecidedHere
    BY DEF SwitchesAreDecidedHere
<1>1. /\ \A s \in Switches : env[s] = IF s \in cfg.on THEN One ELSE Unset
      /\ env["tree"] \in {One, Unset}
  BY DEF StartupInv, AsResolved
<1>2. cfg.on = {s \in Switches :
                  GivenIn(argv, Flag(s), Len(argv)) # {} \/ parent[s] = One}
  BY DEF DeliveryInv, CfgAsTaken, Decided
<1>3. \A s : Given(Flag(s)) = GivenIn(argv, Flag(s), Len(argv))
  BY AskedIs DEF DeliveryInv
<1>4. env["tree"] = One => Asked("mod") # <<>>
  <2> SUFFICES ASSUME env["tree"] = One PROVE Asked("mod") # <<>>
      OBVIOUS
  <2>1. cfg.value["mod"] # Unset /\ StripTrailingSeps(cfg.value["mod"]) # <<>>
    BY DEF DeliveryInv, EnvAsTaken, Handed
  <2>2. cfg.value["mod"] = Asked("mod")
    BY <2>1, GameIsAsked, TakenIsAsked DEF Settings
  <2>3. <<>> \in Seq(Chars)
    OBVIOUS
  <2>4. StripTrailingSeps(<<>>) = <<>>
    BY <2>3, StripTypes
  <2> QED
    BY <2>1, <2>2, <2>4
<1> QED
  BY <1>1, <1>2, <1>3, <1>4 DEF SwitchesAreDecidedHere

\* The line is split into the binary and the tail.
LEMMA ArgvHere == DeliveryInv => ArgvArrives
<1> SUFFICES ASSUME DeliveryInv, game # "none",
                    \A k \in DOMAIN Asked("game") : Asked("game")[k] # "quote"
             PROVE  \E tail \in IF AskedTail = {} THEN {<<>>} ELSE AskedTail :
                      CrtArgv(line) = <<Asked("game")>> \o tail
    BY DEF ArgvArrives
<1>1. /\ Launched /\ AsGiven /\ i = Len(argv)
      /\ cfg.value["game"] = Taken("game", PathSize) /\ "game" \in Settings
  BY GameIsAsked DEF Settings
<1>2. cfg.value["game"] # Unset
  BY DEF DeliveryInv, CheckHeld, Checked
<1>3. cfg.value["game"] = Asked("game") /\ Asked("game") \in Seq(Chars)
  BY <1>1, <1>2, TakenIsAsked DEF Strings
<1>4. cfg.tail = parsed.tail /\ line = CommandLine(cfg.value["game"], cfg.tail)
  BY DEF DeliveryInv, CfgAsTaken, LineAsTaken, Decided
<1>5. parsed.tail \in Seq(Seq(Chars))
  BY <1>1 DEF AsGiven, Strings
<1>6. "backslash" \in Chars /\ "quote" \in Chars /\ "space" \in Chars
  BY DEF Chars
<1>7. CrtArgv(line) = <<Asked("game")>> \o parsed.tail
  BY <1>3, <1>4, <1>5, <1>6, ArgvOfCommandLine
<1>8. parsed.tail \in IF AskedTail = {} THEN {<<>>} ELSE AskedTail
  <2>1. AskedTail = TailsIn(argv)
    BY <1>1, AskedIs
  <2>2. CASE Divided
    BY <2>1, <2>2 DEF Divided
  <2>3. CASE Undivided
    BY <1>1, <2>1, <2>3 DEF Undivided, TailsIn
  <2> QED
    BY <1>1, <2>2, <2>3 DEF AsGiven
<1> QED
  BY <1>7, <1>8

\* The hint was set for a game directory two segments above the binary.
LEMMA HintHere == DeliveryInv => HintIsAboutTheGameDir
<1> SUFFICES ASSUME DeliveryInv, env["tree"] = One, pc \in {"build", "wait"}
             PROVE  HintIsAboutTheGameDir
    BY DEF HintIsAboutTheGameDir
<1>1. DeriveGameDir(cfg.value["game"], PathSize) # <<>>
  BY DEF DeliveryInv, EnvAsTaken, Handed
<1>2. cfg.value["game"] # Unset /\ Launched /\ AsGiven /\ i = Len(argv)
      /\ cfg.value["game"] = Taken("game", PathSize) /\ "game" \in Settings
  BY DEF DeliveryInv, CheckHeld, CfgAsTaken, Checked, Decided, Settings
<1>3. cfg.value["game"] \in Seq(Chars)
  BY <1>2, TakenIsAsked DEF Strings
<1> QED
  BY <1>1, <1>3, GameDirIsTwoUp, Zenon DEF HintIsAboutTheGameDir

\* What the shell could not read is there, and is what was asked for if anything was.
LEMMA ExitHere == StartupInv /\ DeliveryInv => ExitIsAboutTheManager
<1> SUFFICES ASSUME StartupInv, DeliveryInv, game = "exited"
             PROVE  ExitIsAboutTheManager
    BY DEF ExitIsAboutTheManager
<1>1. /\ Launched /\ AsGiven /\ i = Len(argv)
      /\ cfg.value["manager"] = Taken("manager", PathSize)
      /\ "manager" \in Settings
  BY GameIsAsked DEF Settings
<1>2. cfg.value["manager"] # <<>>
  BY DEF DeliveryInv, CheckHeld, Checked
<1>3. env["manager"] = IF cfg.value["manager"] # Unset THEN cfg.value["manager"]
                       ELSE parent["manager"]
  BY DEF StartupInv, AsResolved
<1>4. \/ env["manager"] = <<>>
      \/ env["manager"] # Unset /\ ~Readable(env["manager"], PathSize)
  BY DEF DeliveryInv, Baked, ManagerIsFatal, ReadEnv, Readable
<1>5. CASE cfg.value["manager"] = Unset
  <2>1. Asked("manager") = <<>>
    <3>1. parent["manager"] \in {Unset, <<>>}
      BY <1>5 DEF StartupInv, NoneToRead
    <3> QED
      BY <1>1, <1>5, <3>1, TakenIsAsked
  <2>2. <<>> # Unset
    BY DEF Unset
  <2> QED
    BY <1>4, <2>1, <2>2 DEF ExitIsAboutTheManager
<1>6. CASE cfg.value["manager"] # Unset
  BY <1>1, <1>2, <1>3, <1>4, <1>6, TakenIsAsked DEF ExitIsAboutTheManager
<1> QED
  BY <1>5, <1>6

\* Both invariants hold, always.
LEMMA BothInvariants == Spec => [](StartupInv /\ DeliveryInv)
BY StartupInvInit, StartupInvNext, DeliveryInit, DeliveryNext, PTL DEF Spec

\* A staged chunk reads as what the operator asked for, for all arguments,
\* environments and sizes of the buffers: the parser, the environment, the
\* buffers of both programs and the escaping lose no setting and mix none up.
THEOREM SettingsIntact == Spec => []SettingsArriveIntact
BY BothInvariants, IntactHere, PTL

\* The game is created with exactly the switches of the flags and of the exact 1
\* in the environment of the launcher, whatever else stood there.
THEOREM SwitchesDecided == Spec => []SwitchesAreDecidedHere
BY BothInvariants, DecidedHere, PTL

\* The game's runtime splits the command line into the binary and the tokens
\* behind the separator, however many they are and whatever is in them.
THEOREM ArgumentsArrive == Spec => []ArgvArrives
BY BothInvariants, ArgvHere, PTL

\* The hint is about the directory two separators above the binary, which are two
\* segments in every path that doubles none.
THEOREM HintHolds == Spec => []HintIsAboutTheGameDir
BY BothInvariants, HintHere, PTL

\* The shell ends the game only over a manager variable that is there, and over a
\* manager that was asked for only if it cannot be read.
THEOREM ExitHasItsCause == Spec => []ExitIsAboutTheManager
BY BothInvariants, ExitHere, PTL
===============================================================================
