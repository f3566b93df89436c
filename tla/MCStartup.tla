------------------------------- MODULE MCStartup -------------------------------
(***************************************************************************)
(* Instances of Startup for TLC.  A launch changes one thing or two of an  *)
(* ordinary one, on the command line, in the environment or on both.       *)
(***************************************************************************)
EXTENDS Startup

Ordinary == [n \in Names |-> IF n = "game" THEN <<"g">> ELSE Unset]

Long == Repeat("x", 6)

\* Empty, plain, with what is escaped, with a control character, all of it
\* escaped, too long for every buffer.
Paths ==
  {<<>>, <<"x">>, <<"x", "backslash", "quote">>, <<"x", "control">>,
   Repeat("backslash", 5), Long}

Values(n) ==
  CASE n \in {"mod", "manager"} -> Paths
    [] n = "game" -> {<<>>, Unset}
    [] n = "log" -> {<<>>, <<"x">>, Repeat("x", 4), Long}
    [] n = "level" -> {<<>>, <<"x">>, <<"x", "control">>, Repeat("x", 4), Long}
    [] n = "app" -> {<<"x">>, Long}
    [] n \in Switches -> {<<>>, One, <<"0">>}
    [] n = "tree" -> {One, <<"0">>}
    [] OTHER -> {Unset}

Changed(envs) ==
  UNION {{[e EXCEPT ![n] = v] : v \in Values(n)} : e \in envs, n \in Names}

OneChange == Changed({Ordinary})

\* Everything a parent launch may have left behind.
Inherited ==
  [n \in Names |-> CASE n = "game" -> <<"g">>
                     [] n \in Switches \cup {"tree"} -> One
                     [] OTHER -> <<"y">>]

Options ==
  UNION {{<<Flag(s), v>> : v \in Values(s) \ {Unset}} : s \in Settings}
    \cup {<<Flag(s)>> : s \in Switches}
    \cup {<<Flag("mod"), Flag("lua")>>, <<Flag("mod"), Separator>>,
          <<Flag("mod")>>, <<Separator>>, <<Version>>, <<<<"--help">>>>,
          <<<<"--other">>>>}

\* Tokens of up to three characters, and two tokens of up to two.
Characters == {"x", "backslash", "quote", "space"}
Words(n) == UNION {[1 .. m -> Characters] : m \in 0 .. n}
Tails ==
  {<<t>> : t \in Words(3) \cup {Flag("mod"), Separator, Version, Long}}
    \cup {<<t, u>> : t, u \in Words(2)}
    \cup {<<Flag("mod"), t>> : t \in Words(1)}

\* Binaries of up to five characters, from the root and from a directory.
Binaries ==
  UNION {[1 .. m -> {"g", "backslash", "slash"}] : m \in 1 .. 5}

Launch(args, envs) == {[argv |-> a, env |-> e] : a \in args, e \in envs}

MCLaunches ==
  Launch({<<>>}, Changed(OneChange))
    \cup Launch(Options, OneChange)
    \cup Launch({o \o p : o, p \in Options}, {Ordinary, Inherited})
    \cup Launch({<<Separator>> \o t : t \in Tails}, {Ordinary})
    \cup Launch({<<Flag("mod"), <<"x">>>>},
                {[Ordinary EXCEPT !["game"] = b] : b \in Binaries})

\* The system fails, a file without a directory, and two directories.
MCSelfPaths ==
  {Unset, <<"f">>, <<"d", "backslash", "f">>,
   <<"d", "d", "d", "backslash", "f">>}
===============================================================================
