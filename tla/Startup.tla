-------------------------------- MODULE Startup --------------------------------
(***************************************************************************)
(* How a setting travels: the launcher's main() parses the arguments,      *)
(* resolves each setting as flag > environment > default, publishes the    *)
(* result in its own environment, which the game inherits, and puts the    *)
(* game's arguments on the command line; the shell's worker reads the      *)
(* environment again, into buffers of its own, and bakes it into the chunk *)
(* of the trampoline.  What happens to the process in between is in        *)
(* Injection; here it is created, and then resumed or terminated.          *)
(***************************************************************************)
EXTENDS Text, FiniteSets

CONSTANTS
  Launches,        \* bound: the arguments, without argv[0], and the environment
  SelfPaths,       \* bound: what GetModuleFileNameA may yield, Unset if it fails
  PathSize,        \* RELAY_PATH_MAX, and the shell's path buffers: 1024
  LevelSize,       \* the launcher's g_log_level_buf: 32
  ShellLevelSize,  \* the shell's level_buf: 16
  ShellLogSize,    \* the shell's MAX_PATH: 260
  EscapeSize,      \* the buffers of escaped paths: 2048
  ChunkSize,       \* g_trampoline_chunk: 4096
  TemplateSize,    \* the chunk without what is filled in
  LineSize         \* RELAY_CMDLINE_MAX, 32767

\* What one side reads the other side's buffers hold, the default level the
\* smallest of them; an escaped path at most doubles.
ASSUME SizeAssumption ==
  /\ {PathSize, LevelSize, ShellLevelSize, ShellLogSize, EscapeSize,
      ChunkSize, TemplateSize, LineSize} \subseteq Nat \ {0}
  /\ 1 < ShellLevelSize /\ ShellLevelSize <= LevelSize
  /\ ShellLogSize <= PathSize
  /\ 2 * PathSize <= EscapeSize

VARIABLES
  argv,      \* the arguments of the launcher
  parent,    \* the environment it was started with
  env,       \* its environment now, which the game inherits
  i,         \* the arguments that were consumed
  parsed,    \* relay_parsed_args
  cfg,       \* relay_config
  pc,        \* main: parse, check, publish, build, wait, exited
  status,    \* the exit code of the launcher
  line,      \* the command line of the game
  game,      \* none, suspended, running, terminated, exited
  worker,    \* the shell: none, log, stage, ready
  logFile,   \* where the shell logs
  chunk      \* the staged chunk; without literals while there is none

vars == <<argv, parent, env, i, parsed, cfg, pc, status, line, game, worker,
          logFile, chunk>>

Unset == <<"unset">>
One == <<"1">>

Settings == {"game", "mod", "manager", "log", "level", "app"}
Switches == {"lua", "append", "splash"}
Names == Settings \cup Switches \cup {"tree", "SteamAppId", "SteamGameId"}

\* A launch starts from strings; no argument is the mark of one that is not there.
ASSUME LaunchAssumption ==
  \A l \in Launches :
    /\ l.argv \in Seq(Seq(STRING) \ {Unset})
    /\ l.env \in [Names -> Seq(STRING)]

Flag(s) ==
  CASE s = "game" -> <<"--game-binary">>
    [] s = "mod" -> <<"--mod-path">>
    [] s = "manager" -> <<"--mod-manager">>
    [] s = "log" -> <<"--log-file">>
    [] s = "level" -> <<"--log-level">>
    [] s = "app" -> <<"--steam-app-id">>
    [] s = "lua" -> <<"--log-lua">>
    [] s = "append" -> <<"--log-append">>
    [] s = "splash" -> <<"--skip-splash">>

Separator == <<"--">>
Help == {<<"-h">>, <<"--help">>}
Version == <<"--version">>

\* The buffer of the launcher a setting is read into.
BufferSize(s) == IF s \in {"level", "app"} THEN LevelSize ELSE PathSize

\* read_env_len: "set" if it was read, "unset" if there is nothing, "long".
ReadEnv(name, size) ==
  IF env[name] \in {Unset, <<>>} THEN "unset"
  ELSE IF FitsBuffer(env[name], size) THEN "set" ELSE "long"

\* env_is_exact_one, the same in both programs.
IsExactOne(name) == env[name] = One

\* get_launcher_dir and build_default_path, for what the system says.
LauncherDir(self) ==
  IF self = Unset \/ ~FitsBuffer(self, PathSize) \/ LastOf(self, {"backslash"}) = 0
  THEN <<"dot">>
  ELSE SubSeq(self, 1, LastOf(self, {"backslash"}) - 1)

DefaultPath(self, leaf) ==
  LET path == LauncherDir(self) \o <<"backslash", leaf>>
  IN IF FitsBuffer(path, PathSize) THEN path ELSE SubSeq(path, 1, PathSize - 1)

NothingParsed ==
  [value |-> [s \in Settings |-> Unset], on |-> {}, version |-> FALSE,
   tail |-> <<>>]

NoChunk == [staged |-> FALSE]

Init ==
  /\ \E l \in Launches : argv = l.argv /\ parent = l.env
  /\ env = parent
  /\ i = 0
  /\ parsed = NothingParsed
  /\ cfg = NothingParsed
  /\ pc = "parse"
  /\ status = 0
  /\ line = <<>>
  /\ game = "none"
  /\ worker = "none"
  /\ logFile = <<>>
  /\ chunk = NoChunk

shellVars == <<worker, logFile, chunk>>

Exit(code) == pc' = "exited" /\ status' = code

-----------------------------------------------------------------------------
(***************************************************************************)
(* relay_parse_args.                                                       *)
(***************************************************************************)

Parsing(token) ==
  /\ pc = "parse"
  /\ i < Len(argv)
  /\ token = argv[i + 1]
  /\ UNCHANGED <<argv, parent, env, cfg, line, game, shellVars>>

\* Everything after -- is the game's.
ParseTail ==
  /\ Parsing(Separator)
  /\ parsed' = [parsed EXCEPT !.tail = SubSeq(argv, i + 2, Len(argv))]
  /\ i' = Len(argv)
  /\ UNCHANGED <<pc, status>>

ParseHelp ==
  /\ \E h \in Help : Parsing(h)
  /\ Exit(0)
  /\ UNCHANGED <<i, parsed>>

ParseVersion ==
  /\ Parsing(Version)
  /\ parsed' = [parsed EXCEPT !.version = TRUE]
  /\ i' = i + 1
  /\ UNCHANGED <<pc, status>>

ParseSwitch(s) ==
  /\ Parsing(Flag(s))
  /\ parsed' = [parsed EXCEPT !.on = @ \cup {s}]
  /\ i' = i + 1
  /\ UNCHANGED <<pc, status>>

\* The next token is the value, whatever it looks like.
ParseValue(s) ==
  /\ Parsing(Flag(s))
  /\ i + 2 <= Len(argv)
  /\ parsed' = [parsed EXCEPT !.value[s] = argv[i + 2]]
  /\ i' = i + 2
  /\ UNCHANGED <<pc, status>>

\* A flag without its value, or an unknown one.
ParseError ==
  /\ pc = "parse"
  /\ i < Len(argv)
  /\ argv[i + 1] \notin {Separator, Version} \cup Help
  /\ \A s \in Settings \cup Switches :
       argv[i + 1] = Flag(s) => s \in Settings /\ i + 2 > Len(argv)
  /\ Exit(2)
  /\ UNCHANGED <<argv, parent, env, i, parsed, cfg, line, game, shellVars>>

-----------------------------------------------------------------------------
(***************************************************************************)
(* main: --version, relay_resolve_config, the checks, the environment.     *)
(***************************************************************************)

\* An alternate manager in the environment that does not fit refuses the launch.
Refused(s) == parsed.value[s] = Unset /\ ReadEnv(s, BufferSize(s)) = "long"

\* Flag, else environment, else default.
Resolved(s, self) ==
  IF parsed.value[s] # Unset THEN parsed.value[s]
  ELSE IF ReadEnv(s, BufferSize(s)) = "set" THEN env[s]
  ELSE CASE s = "log" -> DefaultPath(self, "relay.log")
         [] s = "level" -> <<"info">>
         [] s = "app" -> <<"1361210">>
         [] OTHER -> Unset

Resolve ==
  /\ pc = "parse"
  /\ i = Len(argv)
  /\ IF parsed.version THEN Exit(0) /\ UNCHANGED cfg
     ELSE IF Refused("manager") THEN Exit(2) /\ UNCHANGED cfg
     ELSE /\ \E self \in SelfPaths :
               cfg' = [value |-> [s \in Settings |-> Resolved(s, self)],
                       on |-> {s \in Switches : s \in parsed.on \/ IsExactOne(s)},
                       version |-> FALSE,
                       tail |-> parsed.tail]
          /\ pc' = "check"
          /\ UNCHANGED status
  /\ UNCHANGED <<argv, parent, env, i, parsed, line, game, shellVars>>

\* The game binary is required; an alternate manager must be a regular file,
\* which the empty name is not.
Check(isFile) ==
  /\ pc = "check"
  /\ IF \/ cfg.value["game"] = Unset
        \/ cfg.value["manager"] # Unset /\ ~isFile
        \/ cfg.value["manager"] = <<>>
     THEN Exit(2)
     ELSE pc' = "publish" /\ UNCHANGED status
  /\ UNCHANGED <<argv, parent, env, i, parsed, cfg, line, game, shellVars>>

\* relay_mods_in_game_tree, given whether the two directories are the same one.
InGameTree(sameDir) ==
  /\ sameDir
  /\ cfg.value["mod"] # Unset
  /\ DeriveGameDir(cfg.value["game"], PathSize) # <<>>
  /\ FitsBuffer(cfg.value["mod"], PathSize)
  /\ StripTrailingSeps(cfg.value["mod"]) # <<>>

\* Fault variant: a switch that is off is left alone.
PublishedOr(on, name) == IF on THEN One ELSE env[name]

\* Set to 1, or removed.
Published(on, name) == IF on THEN One ELSE Unset

Publish(sameDir) ==
  /\ pc = "publish"
  /\ env' = [n \in Names |->
       CASE n \in {"SteamAppId", "SteamGameId"} -> cfg.value["app"]
         [] n \in {"log", "level"} -> cfg.value[n]
         [] n \in {"mod", "manager"} ->
              IF cfg.value[n] # Unset THEN cfg.value[n] ELSE env[n]
         [] n \in Switches -> Published(n \in cfg.on, n)
         [] n = "tree" -> Published(InGameTree(sameDir), n)
         [] OTHER -> env[n]]
  /\ pc' = "build"
  /\ UNCHANGED <<argv, parent, i, parsed, cfg, status, line, game, shellVars>>

\* relay_build_command_line and inject_and_resume up to the created process.
Create ==
  /\ pc = "build"
  /\ LET text == CommandLine(cfg.value["game"], cfg.tail) IN
     IF ~FitsBuffer(text, LineSize)
     THEN Exit(2) /\ UNCHANGED <<line, game, worker>>
     ELSE IF cfg.value["game"] = <<>>
     THEN Exit(1) /\ UNCHANGED <<line, game, worker>>
     ELSE /\ line' = text
          /\ game' = "suspended"
          /\ worker' = "log"
          /\ pc' = "wait"
          /\ UNCHANGED status
  /\ UNCHANGED <<argv, parent, env, i, parsed, cfg, logFile, chunk>>

\* The rest of inject_and_resume: the game is resumed when the shell is ready,
\* or terminated.
Resume ==
  /\ pc = "wait"
  /\ worker = "ready"
  /\ game = "suspended"
  /\ game' = "running"
  /\ Exit(0)
  /\ UNCHANGED <<argv, parent, env, i, parsed, cfg, line, shellVars>>

GiveUp ==
  /\ pc = "wait"
  /\ game' = IF game = "suspended" THEN "terminated" ELSE game
  /\ Exit(1)
  /\ UNCHANGED <<argv, parent, env, i, parsed, cfg, line, shellVars>>

-----------------------------------------------------------------------------
(***************************************************************************)
(* The shell's worker: open_log and trampoline_stage_chunk.                *)
(***************************************************************************)

Working(at) ==
  /\ worker = at
  /\ game = "suspended"
  /\ UNCHANGED <<argv, parent, env, i, parsed, cfg, pc, status, line>>

\* RELAY_LOG_FILE if it fits, else beside the game.
OpenLog ==
  /\ Working("log")
  /\ logFile' = IF ReadEnv("log", ShellLogSize) = "set" THEN env["log"]
                ELSE <<"beside the game">>
  /\ worker' = "stage"
  /\ UNCHANGED <<game, chunk>>

\* A setting the shell may degrade: read whole and without a control character.
Degradable(name, size) ==
  IF ReadEnv(name, size) = "set" /\ ~HasControl(env[name]) THEN env[name] ELSE <<>>

\* Fault variant: a manager that cannot be read intact counts as unset.
ManagerDegrades(lastError) == env["manager"] = <<>> /\ lastError # "not found"

\* Fault variant: a variable that is not there is not told from an unreadable one.
AbsentIsFatal(lastError) ==
  \/ env["manager"] \in {Unset, <<>>}
  \/ ReadEnv("manager", PathSize) = "long"
  \/ ReadEnv("manager", PathSize) = "set" /\ HasControl(env["manager"])

\* RELAY_MOD_MANAGER is read as nothing, and GetLastError, which an empty value
\* does not set, is not ERROR_ENVVAR_NOT_FOUND; or too long; or has a control
\* character.
ManagerIsFatal(lastError) ==
  \/ env["manager"] = <<>> /\ lastError # "not found"
  \/ ReadEnv("manager", PathSize) = "long"
  \/ ReadEnv("manager", PathSize) = "set" /\ HasControl(env["manager"])

\* The whole of the chunk, NUL included, fits its buffer.
ChunkFits(literals) ==
  /\ \A n \in DOMAIN literals : FitsBuffer(literals[n], EscapeSize)
  /\ TemplateSize + Len(literals["loader"]) + Len(literals["entry"])
       + Len(literals["mod"]) + Len(literals["manager"]) + Len(literals["level"])
       < ChunkSize

\* trampoline_build_chunk.
BuildChunk(loader, entry) ==
  LET literals ==
        [loader |-> EscapePath(loader), entry |-> EscapePath(entry),
         mod |-> EscapePath(Degradable("mod", PathSize)),
         manager |-> EscapePath(Degradable("manager", PathSize)),
         level |-> EscapePath(Degradable("level", ShellLevelSize))]
  IN IF ChunkFits(literals)
     THEN [staged |-> TRUE, literals |-> literals,
           splash |-> IsExactOne("splash"), tree |-> IsExactOne("tree")]
     ELSE NoChunk

\* The path of the DLL, the loader beside it, the entry in it.
Stage(self, lastError) ==
  /\ Working("stage")
  /\ LET dir == IF self = Unset \/ ~FitsBuffer(self, PathSize) THEN <<>>
                ELSE SubSeq(self, 1, LastOf(self, {"backslash"}) - 1)
         loader == JoinPath(dir, <<"mod_loader">>, PathSize)
         entry == JoinPath(loader, <<"init.lua">>, PathSize)
     IN IF loader = <<>>
        THEN /\ chunk' = NoChunk
             /\ worker' = "ready"
             /\ UNCHANGED game
        ELSE IF ManagerIsFatal(lastError)
        THEN game' = "exited" /\ UNCHANGED <<chunk, worker>>
        ELSE /\ chunk' = IF entry = <<>> THEN NoChunk
                         ELSE BuildChunk(loader, entry)
             /\ worker' = "ready"
             /\ UNCHANGED game
  /\ UNCHANGED logFile

Parse ==
  \/ ParseTail
  \/ ParseHelp
  \/ ParseVersion
  \/ \E s \in Switches : ParseSwitch(s)
  \/ \E s \in Settings : ParseValue(s)
  \/ ParseError

Launcher ==
  \/ Parse
  \/ Resolve
  \/ \E b \in BOOLEAN : Check(b) \/ Publish(b)
  \/ Create
  \/ Resume
  \/ GiveUp

Shell ==
  \/ OpenLog
  \/ \E self \in SelfPaths, e \in {"not found", "other"} : Stage(self, e)

Next == Launcher \/ Shell

Spec == Init /\ [][Next]_vars

-----------------------------------------------------------------------------
(***************************************************************************)
(* What the operator asked for, read off the arguments without parsing.    *)
(***************************************************************************)

ValueFlags == {Flag(s) : s \in Settings}

\* The positions that are read as options: the first, and what follows an
\* option that is no separator, or the value of one.
OptionAt[k \in Nat] ==
  \/ k = 1
  \/ k > 1 /\ OptionAt[k - 1] /\ argv[k - 1] \notin ValueFlags \cup {Separator}
  \/ k > 2 /\ OptionAt[k - 2] /\ argv[k - 2] \in ValueFlags

Given(flag) == {k \in DOMAIN argv : OptionAt[k] /\ argv[k] = flag}

\* The last value given, else what the environment says, else nothing.
Asked(s) ==
  IF Given(Flag(s)) # {}
  THEN argv[1 + CHOOSE k \in Given(Flag(s)) : \A m \in Given(Flag(s)) : m <= k]
  ELSE IF parent[s] = Unset THEN <<>> ELSE parent[s]

\* What follows the separator: one sequence, or none.
AskedTail == {SubSeq(argv, k + 1, Len(argv)) : k \in Given(Separator)}

\* What a string may be to reach the chunk through a buffer.
Readable(v, size) == FitsBuffer(v, size) /\ ~HasControl(v)

-----------------------------------------------------------------------------
(***************************************************************************)
(* Properties.                                                             *)
(***************************************************************************)

TypeOK ==
  /\ DOMAIN env = Names
  /\ i \in 0 .. Len(argv)
  /\ \A p \in {parsed, cfg} : DOMAIN p.value = Settings /\ p.on \subseteq Switches
  /\ pc \in {"parse", "check", "publish", "build", "wait", "exited"}
  /\ status \in 0 .. 2
  /\ game \in {"none", "suspended", "running", "terminated", "exited"}
  /\ worker \in {"none", "log", "stage", "ready"}
  /\ chunk.staged \in BOOLEAN

\* A chunk that was staged sets its globals to what the operator asked for,
\* through two programs, four buffers and one escaping: the manager to exactly
\* that, the mod path and the level to that or, where a buffer or a control
\* character does not let it through, to nothing.
SettingsArriveIntact ==
  chunk.staged =>
    LET level == Asked("level")
        asEnv == Given(Flag("level")) = {}
                   /\ (level = <<>> \/ ~FitsBuffer(level, LevelSize))
    IN /\ LuaReads(chunk.literals.manager, Asked("manager"))
       /\ LuaReads(chunk.literals.mod,
            IF Readable(Asked("mod"), PathSize) THEN Asked("mod") ELSE <<>>)
       /\ LuaReads(chunk.literals.level,
            IF asEnv THEN <<"info">>
            ELSE IF Readable(level, ShellLevelSize) THEN level ELSE <<>>)

\* The manager in a staged chunk is the one the launcher resolved and checked,
\* and none where it resolved none: the shell reads the variable for itself, and
\* the launcher leaves one it took nothing from as it was.
ManagerNeverSubstituted ==
  chunk.staged =>
    chunk.literals.manager =
      EscapePath(IF cfg.value["manager"] = Unset THEN <<>> ELSE cfg.value["manager"])

\* The game is created with the switches this launch decided: 1 or removed, on
\* for a flag or for exactly 1 in the environment, and what a parent left in
\* them, or in the derived hint, never reaches the shell.
SwitchesAreDecidedHere ==
  game # "none" =>
    /\ \A s \in Switches :
         env[s] = IF Given(Flag(s)) # {} \/ parent[s] = One THEN One ELSE Unset
    /\ env["tree"] \in {One, Unset}
    /\ env["tree"] = One => Asked("mod") # <<>>

\* The C runtime of the game splits the command line into the game binary and
\* the tokens behind the first -- that is an option, whatever is in them, for a
\* binary without a quote or a backslash at its end.
ArgvArrives ==
  LET exe == Asked("game")
      spelt == /\ exe # <<>> /\ exe[Len(exe)] # "backslash"
               /\ \A k \in DOMAIN exe : exe[k] # "quote"
  IN game # "none" /\ spelt =>
       \E tail \in IF AskedTail = {} THEN {<<>>} ELSE AskedTail :
         CrtArgv(line) = <<exe>> \o tail

\* The hint that the mods are in the game tree is about the directory two
\* segments above the binary, for a path without doubled separators.
HintIsAboutTheGameDir ==
  LET path == StripTrailingSeps(cfg.value["game"])
      seps == {k \in DOMAIN path : path[k] \in Separators}
      dir == DeriveGameDir(cfg.value["game"], PathSize)
  IN env["tree"] = One /\ pc \in {"build", "wait"}
       /\ (\A k \in seps : k + 1 \notin seps) =>
       /\ dir # <<>> /\ dir = SubSeq(path, 1, Len(dir))
       /\ Len(dir) + 1 \in seps
       /\ Cardinality({k \in seps : k > Len(dir)}) = 2

\* The shell ends the game only over a manager variable that is there, and over a
\* manager that was asked for only if it cannot be read whole and without a
\* control character.  (trampoline_stage_chunk; that an empty variable is there
\* for the shell and not for the launcher is what EmptyManagerIsNone is about.)
ExitIsAboutTheManager ==
  game = "exited" =>
    /\ env["manager"] # Unset
    /\ Asked("manager") # <<>> => ~Readable(Asked("manager"), PathSize)

\* An empty RELAY_MOD_MANAGER is the same as none, as the launcher reads it: a
\* game is ended only over a manager that was asked for.
EmptyManagerIsNone == game = "exited" => Asked("manager") # <<>>
===============================================================================
