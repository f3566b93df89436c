------------------------------ MODULE TextProofs ------------------------------
(***************************************************************************)
(* What the string helpers do to every string: induction and recursion     *)
(* over the natural numbers, folds as runs of a transition function, and   *)
(* from them the two round trips, through the C runtime and through Lua.   *)
(*                                                                         *)
(* The provers cannot instantiate an induction rule with a predicate, so   *)
(* the rule here is about a set: P holds everywhere if {n \in Nat : P(n)}  *)
(* contains 0 and is closed under successor.  In the same way a step       *)
(* operator appears as the function of its graph.                          *)
(***************************************************************************)
EXTENDS Text, FiniteSets, FiniteSetTheorems, WellFoundedInduction, TLAPS

-------------------------------------------------------------------------------
(* Induction and recursion.                                                *)

\* Induction over the natural numbers, for a set.
LEMMA NatSetInduction ==
  ASSUME NEW S, 0 \in S, \A n \in Nat : n \in S => n + 1 \in S
  PROVE  \A n \in Nat : n \in S
<1> DEFINE T == Nat \ S
<1> SUFFICES ASSUME T # {} PROVE FALSE
  OBVIOUS
<1>1. PICK x \in T : \A y \in T : ~(<<y, x>> \in OpToRel(<, Nat))
  <2>1. T \subseteq Nat
    OBVIOUS
  <2> HIDE DEF T
  <2> QED
    BY <2>1, NatLessThanWellFounded, WFMin
<1>2. \A y \in T : ~(y < x)
  BY <1>1, Zenon DEF OpToRel
<1>3. x \in Nat /\ x # 0 /\ x - 1 \in Nat /\ x - 1 < x
  OBVIOUS
<1>4. x - 1 \in S
  BY <1>2, <1>3
<1> QED
  BY <1>3, <1>4

\* A function on an initial segment that starts with b and goes on by G.
Begins(f, n, b, G, V) ==
  /\ f \in [0 .. n -> V]
  /\ f[0] = b
  /\ \A m \in 0 .. n - 1 : f[m + 1] = G[<<m, f[m]>>]

\* There is one on each segment.
LEMMA BeginningExists ==
  ASSUME NEW V, NEW b \in V, NEW G \in [Nat \X V -> V]
  PROVE  \A n \in Nat : \E f : Begins(f, n, b, G, V)
<1> DEFINE S == {n \in Nat : \E f : Begins(f, n, b, G, V)}
<1>1. 0 \in S
  <2>1. Begins([m \in 0 .. 0 |-> b], 0, b, G, V)
    BY DEF Begins
  <2> QED
    BY <2>1
<1>2. ASSUME NEW n \in Nat, n \in S PROVE n + 1 \in S
  <2>1. PICK f : Begins(f, n, b, G, V)
    BY <1>2
  <2> DEFINE g == [m \in 0 .. n + 1 |-> IF m <= n THEN f[m] ELSE G[<<n, f[n]>>]]
  <2>2. f[n] \in V /\ G[<<n, f[n]>>] \in V
    BY <2>1 DEF Begins
  <2>3. g \in [0 .. n + 1 -> V]
    BY <2>1, <2>2 DEF Begins
  <2>4. g[0] = b
    BY <2>1 DEF Begins
  <2>5. \A m \in 0 .. n : g[m + 1] = G[<<m, g[m]>>]
    BY <2>1 DEF Begins
  <2>6. 0 .. (n + 1) - 1 = 0 .. n
    OBVIOUS
  <2>7. Begins(g, n + 1, b, G, V)
    <3> HIDE DEF g
    <3> QED
      BY <2>3, <2>4, <2>5, <2>6 DEF Begins
  <2> QED
    BY <2>7
<1> HIDE DEF S
<1>3. \A n \in Nat : n \in S
  BY <1>1, <1>2, NatSetInduction
<1> QED
  BY <1>3 DEF S

\* Two of them agree where both are defined.
LEMMA BeginningsAgree ==
  ASSUME NEW V, NEW b, NEW G, NEW p \in Nat, NEW q \in Nat, NEW f, NEW g,
         Begins(f, p, b, G, V), Begins(g, q, b, G, V)
  PROVE  \A n \in Nat : n <= p /\ n <= q => f[n] = g[n]
<1> DEFINE S == {n \in Nat : n <= p /\ n <= q => f[n] = g[n]}
<1>1. 0 \in S
  BY DEF Begins
<1>2. ASSUME NEW n \in Nat, n \in S PROVE n + 1 \in S
  <2> SUFFICES ASSUME n + 1 <= p, n + 1 <= q PROVE f[n + 1] = g[n + 1]
    OBVIOUS
  <2>1. n \in 0 .. p - 1 /\ n \in 0 .. q - 1
    OBVIOUS
  <2>2. f[n] = g[n]
    BY <1>2
  <2> QED
    BY <2>1, <2>2 DEF Begins
<1> HIDE DEF S
<1>3. \A n \in Nat : n \in S
  BY <1>1, <1>2, NatSetInduction
<1> QED
  BY <1>3 DEF S

\* The values of a sequence, each from its place and the one before.
Moves(G, V) == G \in [Nat \X V -> V]

Follows(f, b, G, V) ==
  /\ f \in [Nat -> V]
  /\ f[0] = b
  /\ \A n \in Nat : f[n + 1] = G[<<n, f[n]>>]

\* Recursion: there is one on all of Nat.
LEMMA Recursion ==
  ASSUME NEW V, NEW b \in V, NEW G, Moves(G, V)
  PROVE  \E f : Follows(f, b, G, V)
<1> DEFINE part(n) == CHOOSE f : Begins(f, n, b, G, V)
           f == [n \in Nat |-> part(n)[n]]
<1>1. \A n \in Nat : Begins(part(n), n, b, G, V)
  BY BeginningExists DEF Moves
<1> HIDE DEF part
<1>2. f \in [Nat -> V]
  BY <1>1 DEF Begins
<1>3. f[0] = b
  BY <1>1 DEF Begins
<1>4. ASSUME NEW n \in Nat PROVE f[n + 1] = G[<<n, f[n]>>]
  <2>1. Begins(part(n), n, b, G, V) /\ Begins(part(n + 1), n + 1, b, G, V)
    BY <1>1
  <2>2. part(n + 1)[n] = part(n)[n]
    BY <2>1, BeginningsAgree
  <2>3. part(n + 1)[n + 1] = G[<<n, part(n + 1)[n]>>]
    BY <2>1 DEF Begins
  <2> QED
    BY <2>2, <2>3
<1> HIDE DEF f
<1>5. Follows(f, b, G, V)
  BY <1>2, <1>3, <1>4 DEF Follows
<1> QED
  BY <1>5

-------------------------------------------------------------------------------
(* Runs of a transition function, and folds as runs.                       *)

\* From state a over the characters of s to state b.
Runs(G, a, s, b) ==
  \E F : /\ F[0] = a
         /\ F[Len(s)] = b
         /\ \A k \in 1 .. Len(s) : F[k] = G[<<F[k - 1], s[k]>>]

\* No character, no change.
LEMMA RunsEmpty == ASSUME NEW G, NEW a PROVE Runs(G, a, <<>>, a)
<1>1. /\ [k \in {0} |-> a][0] = a
      /\ [k \in {0} |-> a][Len(<<>>)] = a
      /\ \A k \in 1 .. Len(<<>>) :
           [j \in {0} |-> a][k] = G[<<[j \in {0} |-> a][k - 1], <<>>[k]>>]
  OBVIOUS
<1> QED
  BY <1>1 DEF Runs

\* One character is one step.
LEMMA RunsOne == ASSUME NEW G, NEW a, NEW c PROVE Runs(G, a, <<c>>, G[<<a, c>>])
<1> DEFINE F == [k \in 0 .. 1 |-> IF k = 0 THEN a ELSE G[<<a, c>>]]
<1>1. /\ F[0] = a /\ F[Len(<<c>>)] = G[<<a, c>>]
      /\ \A k \in 1 .. Len(<<c>>) : F[k] = G[<<F[k - 1], <<c>>[k]>>]
  OBVIOUS
<1> HIDE DEF F
<1> QED
  BY <1>1 DEF Runs

\* A run over s and one over t from where it ended are one over both.
LEMMA RunsConcat ==
  ASSUME NEW C, NEW s \in Seq(C), NEW t \in Seq(C), NEW G, NEW a, NEW b, NEW c,
         Runs(G, a, s, b), Runs(G, b, t, c)
  PROVE  Runs(G, a, s \o t, c)
<1>1. PICK F : /\ F[0] = a /\ F[Len(s)] = b
               /\ \A k \in 1 .. Len(s) : F[k] = G[<<F[k - 1], s[k]>>]
  BY DEF Runs
<1>2. PICK H : /\ H[0] = b /\ H[Len(t)] = c
               /\ \A k \in 1 .. Len(t) : H[k] = G[<<H[k - 1], t[k]>>]
  BY DEF Runs
<1> DEFINE m == Len(s)
           n == Len(t)
           J == [k \in 0 .. m + n |-> IF k <= m THEN F[k] ELSE H[k - m]]
<1>3. m \in Nat /\ n \in Nat /\ Len(s \o t) = m + n
  OBVIOUS
<1>4. J[0] = a
  BY <1>1, <1>3
<1>5. J[m + n] = c
  BY <1>1, <1>2, <1>3
<1>6. ASSUME NEW k \in 1 .. m + n PROVE J[k] = G[<<J[k - 1], (s \o t)[k]>>]
  <2>1. CASE k <= m
    <3>1. (s \o t)[k] = s[k] /\ k \in 1 .. m /\ J[k] = F[k] /\ J[k - 1] = F[k - 1]
      BY <1>3, <2>1
    <3> QED
      BY <1>1, <3>1
  <2>2. CASE k > m
    <3>1. (s \o t)[k] = t[k - m] /\ k - m \in 1 .. n /\ J[k] = H[k - m]
      BY <1>3, <2>2
    <3>2. J[k - 1] = H[(k - m) - 1]
      <4>1. CASE k - 1 = m
        <5>1. J[k - 1] = F[m] /\ (k - m) - 1 = 0
          BY <1>3, <4>1
        <5> QED
          BY <1>1, <1>2, <5>1
      <4>2. CASE k - 1 # m
        <5>1. /\ k - 1 \in 0 .. m + n /\ ~(k - 1 <= m)
              /\ (k - 1) - m = (k - m) - 1
          BY <1>3, <2>2, <4>2
        <5>2. J[k - 1] = H[(k - 1) - m]
          BY <5>1
        <5> QED
          BY <5>1, <5>2
      <4> QED
        BY <4>1, <4>2
    <3> QED
      BY <1>2, <3>1, <3>2
  <2> HIDE DEF J
  <2>3. k <= m \/ k > m
    BY <1>3
  <2> QED
    BY <2>1, <2>2, <2>3
<1> HIDE DEF J, m, n
<1> QED
  BY <1>3, <1>4, <1>5, <1>6 DEF Runs

\* A run has one end.
LEMMA RunsUnique ==
  ASSUME NEW C, NEW s \in Seq(C), NEW G, NEW a, NEW b, NEW c,
         Runs(G, a, s, b), Runs(G, a, s, c)
  PROVE  b = c
<1>1. PICK F : /\ F[0] = a /\ F[Len(s)] = b
               /\ \A k \in 1 .. Len(s) : F[k] = G[<<F[k - 1], s[k]>>]
  BY DEF Runs
<1>2. PICK H : /\ H[0] = a /\ H[Len(s)] = c
               /\ \A k \in 1 .. Len(s) : H[k] = G[<<H[k - 1], s[k]>>]
  BY DEF Runs
<1> DEFINE S == {n \in Nat : n <= Len(s) => F[n] = H[n]}
<1>3. 0 \in S
  BY <1>1, <1>2
<1>4. ASSUME NEW n \in Nat, n \in S PROVE n + 1 \in S
  <2> SUFFICES ASSUME n + 1 <= Len(s) PROVE F[n + 1] = H[n + 1]
    OBVIOUS
  <2>1. n + 1 \in 1 .. Len(s) /\ (n + 1) - 1 = n /\ F[n] = H[n]
    BY <1>4
  <2> QED
    BY <1>1, <1>2, <2>1
<1> HIDE DEF S
<1>5. Len(s) \in S
  BY <1>3, <1>4, NatSetInduction
<1> QED
  BY <1>1, <1>2, <1>5 DEF S

\* A nonempty set of numbers up to n has a largest member.
LEMMA LargestExists ==
  \A n \in Nat : \A t \in SUBSET (1 .. n) :
    t # {} => \E x \in t : \A y \in t : x >= y
<1> DEFINE S == {n \in Nat : \A t \in SUBSET (1 .. n) :
                   t # {} => \E x \in t : \A y \in t : x >= y}
<1>1. 0 \in S
  <2>1. 1 .. 0 = {}
    OBVIOUS
  <2> QED
    BY <2>1
<1>2. ASSUME NEW n \in Nat, n \in S PROVE n + 1 \in S
  <2> SUFFICES ASSUME NEW t \in SUBSET (1 .. n + 1), t # {}
               PROVE  \E x \in t : \A y \in t : x >= y
    OBVIOUS
  <2>1. CASE n + 1 \in t
    BY <2>1
  <2>2. CASE n + 1 \notin t
    <3>1. t \in SUBSET (1 .. n)
      BY <2>2
    <3> QED
      BY <1>2, <3>1
  <2> QED
    BY <2>1, <2>2
<1> HIDE DEF S
<1>3. \A n \in Nat : n \in S
  BY <1>1, <1>2, NatSetInduction
<1> QED
  BY <1>3 DEF S

\* Max is that member.
LEMMA MaxIsLargest ==
  ASSUME NEW n \in Nat, NEW t \in SUBSET (1 .. n), t # {}
  PROVE  Max(t) \in t /\ \A y \in t : Max(t) >= y
<1>1. \E x \in t : \A y \in t : x >= y
  BY LargestExists
<1> QED
  BY <1>1, Zenon DEF Max

\* The largest position of a set of positions.
LEMMA MaxInDomain ==
  ASSUME NEW C, NEW s \in Seq(C), NEW t \in SUBSET (DOMAIN s), t # {}
  PROVE  Max(t) \in DOMAIN s /\ s[Max(t)] \in C
<1>1. Len(s) \in Nat /\ t \in SUBSET (1 .. Len(s))
  OBVIOUS
<1>2. Max(t) \in t
  BY <1>1, MaxIsLargest
<1> QED
  BY <1>2

\* A transition function on the states V for the characters C.
Steps(G, V, C) == G \in [V \X C -> V]

\* FoldLeft by G, before its fixed point is known to exist.
Sweeps(it, G, b, s) ==
  it = [t \in SUBSET (DOMAIN s) |->
          IF t = {} THEN b ELSE G[<<it[t \ {Max(t)}], s[Max(t)]>>]]

\* The recursion of FoldLeft over the subsets of the domain has a solution in
\* states: after Len(s) rounds from anything every subset has its value.
LEMMA SweepExists ==
  ASSUME NEW V, NEW C, NEW s \in Seq(C), NEW b \in V, NEW G, Steps(G, V, C)
  PROVE  \E it : Sweeps(it, G, b, s) /\ \A t \in SUBSET (DOMAIN s) : it[t] \in V
<1> DEFINE n == Len(s)
           D == SUBSET (1 .. n)
           W == [D -> V]
           round(w) == [t \in D |-> IF t = {} THEN b
                                    ELSE G[<<w[t \ {Max(t)}], s[Max(t)]>>]]
           R == [p \in Nat \X W |-> round(p[2])]
           start == [t \in D |-> b]
<1>0. n \in Nat /\ DOMAIN s = 1 .. n /\ \A k \in 1 .. n : s[k] \in C
  OBVIOUS
<1> HIDE DEF n
<1>1. ASSUME NEW t \in D, t # {}
      PROVE  Max(t) \in 1 .. n /\ t \ {Max(t)} \in D
  BY <1>0, <1>1, MaxIsLargest
<1>2. ASSUME NEW w \in W PROVE round(w) \in W
  <2>1. ASSUME NEW t \in D PROVE round(w)[t] \in V
    <3>1. CASE t = {}
      BY <3>1
    <3>2. CASE t # {}
      <4>1. s[Max(t)] \in C /\ w[t \ {Max(t)}] \in V
        BY <1>0, <1>1, <3>2
      <4> QED
        BY <3>2, <4>1 DEF Steps
    <3> QED
      BY <3>1, <3>2
  <2> QED
    BY <2>1
<1>3. Moves(R, W)
  <2> HIDE DEF round, W
  <2> QED
    BY <1>2 DEF Moves
<1>4. start \in W
  OBVIOUS
<1>5. PICK h : Follows(h, start, R, W)
  <2> HIDE DEF R, W, start
  <2> QED
    BY <1>3, <1>4, Recursion
<1>6. ASSUME NEW m \in Nat PROVE h[m + 1] = round(h[m])
  BY <1>5 DEF Follows
<1> DEFINE S == {m \in Nat : \A t \in D : t \subseteq 1 .. m => h[m + 1][t] = h[m][t]}
<1>7. 0 \in S
  <2> SUFFICES ASSUME NEW t \in D, t \subseteq 1 .. 0 PROVE h[0 + 1][t] = h[0][t]
    OBVIOUS
  <2>1. t = {}
    OBVIOUS
  <2>2. h[0 + 1][t] = b /\ h[0][t] = b
    BY <1>5, <1>6, <2>1 DEF Follows
  <2> QED
    BY <2>2
<1>8. ASSUME NEW m \in Nat, m \in S PROVE m + 1 \in S
  <2> SUFFICES ASSUME NEW t \in D, t \subseteq 1 .. m + 1
               PROVE  h[m + 1 + 1][t] = h[m + 1][t]
    OBVIOUS
  <2>1. /\ h[m + 1 + 1][t] = IF t = {} THEN b
                             ELSE G[<<h[m + 1][t \ {Max(t)}], s[Max(t)]>>]
        /\ h[m + 1][t] = IF t = {} THEN b
                         ELSE G[<<h[m][t \ {Max(t)}], s[Max(t)]>>]
    <3>1. h[m + 1 + 1] = round(h[m + 1]) /\ h[m + 1] = round(h[m])
      <4> HIDE DEF round
      <4>1. m + 1 \in Nat
        OBVIOUS
      <4> QED
        BY <1>6, <4>1
    <3> QED
      BY <3>1
  <2>2. CASE t = {}
    BY <2>1, <2>2
  <2>3. CASE t # {}
    <3> DEFINE u == t \ {Max(t)}
    <3>1. Max(t) \in t /\ \A y \in t : Max(t) >= y
      BY <1>0, <2>3, MaxIsLargest
    <3>2. u \in D /\ u \subseteq 1 .. m
      <4>1. ASSUME NEW y \in u PROVE y \in 1 .. m
        <5>1. /\ y \in t /\ y \in 1 .. m + 1 /\ Max(t) \in 1 .. m + 1
              /\ Max(t) >= y /\ y # Max(t)
          BY <3>1
        <5> DEFINE x == Max(t)
        <5> HIDE DEF x, u, D, S
        <5>2. y \in 1 .. m + 1 /\ x \in 1 .. m + 1 /\ x >= y /\ y # x
          BY <5>1 DEF x
        <5> QED
          BY <5>2
      <4> QED
        BY <4>1
    <3>3. h[m + 1][u] = h[m][u]
      <4> HIDE DEF u, D
      <4> QED
        BY <1>8, <3>2
    <3> QED
      BY <2>1, <2>3, <3>3
  <2> QED
    BY <2>2, <2>3
<1>9. n \in S
  <2> HIDE DEF S
  <2> QED
    BY <1>0, <1>7, <1>8, NatSetInduction
<1>10. h[n] \in W /\ \A t \in D : round(h[n])[t] = h[n][t]
  BY <1>5, <1>6, <1>9 DEF Follows
<1>11. h[n] = round(h[n])
  BY <1>10
<1>12. Sweeps(h[n], G, b, s)
  BY <1>0, <1>11 DEF Sweeps
<1>13. \A t \in SUBSET (DOMAIN s) : h[n][t] \in V
  BY <1>0, <1>10
<1> QED
  BY <1>12, <1>13

\* A solution that goes by G on states is a run of G.
LEMMA SweepRuns ==
  ASSUME NEW V, NEW C, NEW s \in Seq(C), NEW b \in V, NEW G, Steps(G, V, C),
         NEW it, it[{}] = b,
         \A t \in SUBSET (DOMAIN s) : t # {} /\ it[t \ {Max(t)}] \in V =>
           it[t] = G[<<it[t \ {Max(t)}], s[Max(t)]>>]
  PROVE  Runs(G, b, s, it[DOMAIN s]) /\ it[DOMAIN s] \in V
<1> DEFINE n == Len(s)
           F == [k \in 0 .. n |-> it[1 .. k]]
           S == {k \in Nat : k <= n => it[1 .. k] \in V}
<1>1. n \in Nat /\ DOMAIN s = 1 .. n /\ \A k \in 1 .. n : s[k] \in C
  OBVIOUS
<1> HIDE DEF n
<1>2. ASSUME NEW k \in 1 .. n, it[1 .. k - 1] \in V
      PROVE  it[1 .. k] = G[<<it[1 .. k - 1], s[k]>>] /\ it[1 .. k] \in V
  <2>1. 1 .. k \in SUBSET (1 .. n) /\ k \in 1 .. k /\ k \in Nat
    BY <1>1
  <2>2. Max(1 .. k) \in 1 .. k /\ Max(1 .. k) >= k
    BY <2>1, MaxIsLargest
  <2>3. Max(1 .. k) = k
    BY <2>2
  <2>4. (1 .. k) \ {k} = 1 .. k - 1
    OBVIOUS
  <2>5. it[1 .. k] = G[<<it[1 .. k - 1], s[k]>>]
    BY <1>1, <1>2, <2>1, <2>3, <2>4
  <2> QED
    BY <1>1, <1>2, <2>5 DEF Steps
<1>3. 0 \in S
  <2>1. 1 .. 0 = {}
    OBVIOUS
  <2> QED
    BY <2>1
<1>4. ASSUME NEW k \in Nat, k \in S PROVE k + 1 \in S
  <2> SUFFICES ASSUME k + 1 <= n PROVE it[1 .. k + 1] \in V
    OBVIOUS
  <2>1. k + 1 \in 1 .. n /\ (k + 1) - 1 = k /\ it[1 .. k] \in V
    BY <1>1, <1>4
  <2> QED
    BY <1>2, <2>1
<1>5. \A k \in Nat : k \in S
  <2> HIDE DEF S
  <2> QED
    BY <1>3, <1>4, NatSetInduction
<1>6. \A k \in 0 .. n : it[1 .. k] \in V
  BY <1>1, <1>5
<1>7. F[0] = b
  <2>1. 1 .. 0 = {} /\ 0 \in 0 .. n
    BY <1>1
  <2> QED
    BY <2>1
<1>8. \A k \in 1 .. n : F[k] = G[<<F[k - 1], s[k]>>]
  <2> SUFFICES ASSUME NEW k \in 1 .. n PROVE F[k] = G[<<F[k - 1], s[k]>>]
    OBVIOUS
  <2>1. k \in 0 .. n /\ k - 1 \in 0 .. n
    BY <1>1
  <2> QED
    BY <1>2, <1>6, <2>1
<1>9. F[n] = it[DOMAIN s] /\ it[DOMAIN s] \in V
  BY <1>1, <1>6
<1> HIDE DEF F
<1> QED
  BY <1>7, <1>8, <1>9 DEF Runs, n
-------------------------------------------------------------------------------
(* The literals of the chunk.                                              *)

\* The prefixes of a flattened sequence.
Joins(f, seqs, C) ==
  /\ f \in [Nat -> Seq(C)]
  /\ f[0] = <<>>
  /\ \A k \in 0 .. Len(seqs) - 1 : f[k + 1] = f[k] \o seqs[k + 1]

\* FlattenSeq puts one sequence behind the other.
LEMMA FlattenJoins ==
  ASSUME NEW C, NEW seqs \in Seq(Seq(C))
  PROVE  \E f : Joins(f, seqs, C) /\ FlattenSeq(seqs) = f[Len(seqs)]
<1> DEFINE n == Len(seqs)
           V == Seq(C)
           G == [p \in Nat \X V |-> IF p[1] < n THEN p[2] \o seqs[p[1] + 1] ELSE p[2]]
           it == CHOOSE it : it = [i \in 1 .. n |->
                                     IF i = 1 THEN seqs[i] ELSE it[i - 1] \o seqs[i]]
<1>1. n \in Nat /\ DOMAIN seqs = 1 .. n /\ \A k \in 1 .. n : seqs[k] \in V
  OBVIOUS
<1>2. Moves(G, V)
  <2> HIDE DEF n
  <2>1. ASSUME NEW k \in Nat, NEW v \in V
        PROVE  (IF k < n THEN v \o seqs[k + 1] ELSE v) \in V
    <3>1. CASE k < n
      <4>1. k + 1 \in 1 .. n
        BY <1>1, <3>1
      <4> QED
        BY <1>1, <3>1, <4>1
    <3> QED
      BY <3>1
  <2> HIDE DEF V
  <2> QED
    BY <2>1 DEF Moves
<1>3. PICK f : Follows(f, <<>>, G, V)
  <2>1. <<>> \in V
    OBVIOUS
  <2> HIDE DEF G, V
  <2> QED
    BY <1>2, <2>1, Recursion
<1>4. Joins(f, seqs, C)
  <2>1. ASSUME NEW k \in 0 .. n - 1 PROVE f[k + 1] = f[k] \o seqs[k + 1]
    <3>1. k \in Nat /\ k < n /\ f[k] \in V
      <4> HIDE DEF n, V, G
      <4> QED
        BY <1>1, <1>3 DEF Follows
    <3>2. f[k + 1] = G[<<k, f[k]>>]
      BY <1>3, <3>1 DEF Follows
    <3> QED
      BY <3>1, <3>2
  <2> QED
    BY <1>3, <2>1 DEF Follows, Joins
<1>5. n = 0 => FlattenSeq(seqs) = f[n]
  <2> SUFFICES ASSUME n = 0 PROVE FlattenSeq(seqs) = f[n]
    OBVIOUS
  <2>1. FlattenSeq(seqs) = seqs
    BY Zenon DEF FlattenSeq
  <2> QED
    BY <1>3, <2>1 DEF Follows
<1>6. n # 0 => FlattenSeq(seqs) = it[n]
  BY Zenon DEF FlattenSeq
<1>7. it = [i \in 1 .. n |-> IF i = 1 THEN seqs[i] ELSE it[i - 1] \o seqs[i]]
  <2> DEFINE g == [i \in 1 .. n |-> f[i]]
  <2>1. ASSUME NEW i \in 1 .. n
        PROVE  g[i] = IF i = 1 THEN seqs[i] ELSE g[i - 1] \o seqs[i]
    <3>1. i - 1 \in 0 .. n - 1 /\ (i - 1) + 1 = i
      BY <1>1
    <3>2. g[i] = f[i - 1] \o seqs[i]
      BY <1>4, <3>1 DEF Joins
    <3>3. CASE i = 1
      <4>1. f[i - 1] = <<>> /\ seqs[i] \in Seq(C)
        BY <1>1, <1>4, <3>3 DEF Joins
      <4>2. <<>> \o seqs[i] = seqs[i]
        BY <4>1
      <4> HIDE DEF g
      <4> QED
        BY <3>2, <3>3, <4>1, <4>2
    <3>4. CASE i # 1
      <4>1. i - 1 \in 1 .. n
        BY <1>1, <3>4
      <4> QED
        BY <3>2, <3>4, <4>1
    <3> QED
      BY <3>3, <3>4
  <2>2. g = [i \in 1 .. n |-> IF i = 1 THEN seqs[i] ELSE g[i - 1] \o seqs[i]]
    BY <2>1
  <2> HIDE DEF g, n
  <2> QED
    BY <2>2, Zenon
<1> DEFINE S == {k \in Nat : 1 <= k /\ k <= n => it[k] = f[k]}
<1> HIDE DEF it, n
<1>8. 0 \in S
  OBVIOUS
<1>9. ASSUME NEW k \in Nat, k \in S PROVE k + 1 \in S
  <2> SUFFICES ASSUME k + 1 <= n PROVE it[k + 1] = f[k + 1]
    OBVIOUS
  <2>1. k + 1 \in 1 .. n /\ k \in 0 .. n - 1
    BY <1>1
  <2>2. f[k + 1] = f[k] \o seqs[k + 1]
    BY <1>4, <2>1 DEF Joins, n
  <2>3. CASE k = 0
    <3>1. f[0] = <<>> /\ seqs[1] \in Seq(C)
      BY <1>1, <1>4, <2>1, <2>3 DEF Joins
    <3>2. <<>> \o seqs[1] = seqs[1]
      BY <3>1
    <3>3. it[1] = seqs[1]
      BY <1>7, <2>1, <2>3
    <3> QED
      BY <2>2, <2>3, <3>1, <3>2, <3>3
  <2>4. CASE k # 0
    <3>1. it[k] = f[k] /\ k + 1 # 1 /\ (k + 1) - 1 = k
      BY <1>1, <1>9, <2>4
    <3>2. it[k + 1] = it[k] \o seqs[k + 1]
      BY <1>7, <2>1, <3>1
    <3> QED
      BY <2>2, <3>1, <3>2
  <2> QED
    BY <2>3, <2>4
<1>10. n \in S
  <2> HIDE DEF S
  <2> QED
    BY <1>1, <1>8, <1>9, NatSetInduction
<1>11. FlattenSeq(seqs) = f[n]
  BY <1>1, <1>5, <1>6, <1>10
<1> QED
  BY <1>4, <1>11 DEF n

\* The reader of LuaReads, and where it starts.
LuaStates(C) == [value : Seq(C), escaped : BOOLEAN, sound : BOOLEAN]

LuaState(value, escaped) == [value |-> value, escaped |-> escaped, sound |-> TRUE]

LuaStep(state, c) ==
  IF state.escaped
  THEN [state EXCEPT !.value = Append(@, c), !.escaped = FALSE]
  ELSE IF c = "backslash" THEN [state EXCEPT !.escaped = TRUE]
  ELSE [state EXCEPT !.value = Append(@, c),
                     !.sound = @ /\ c \notin {"quote", "control"}]

LuaGraph(C) == [p \in LuaStates(C) \X C |-> LuaStep(p[1], p[2])]

\* It goes from state to state.
LEMMA LuaStepTypes ==
  ASSUME NEW C PROVE Steps(LuaGraph(C), LuaStates(C), C)
<1>1. ASSUME NEW q \in LuaStates(C), NEW c \in C PROVE LuaStep(q, c) \in LuaStates(C)
  <2>1. /\ q.value \in Seq(C) /\ Append(q.value, c) \in Seq(C)
        /\ q.sound \in BOOLEAN
        /\ q = [value |-> q.value, escaped |-> q.escaped, sound |-> q.sound]
    BY DEF LuaStates
  <2>2. CASE q.escaped
    <3>1. LuaStep(q, c) = [value |-> Append(q.value, c), escaped |-> FALSE,
                           sound |-> q.sound]
      BY <2>2 DEF LuaStep, LuaStates
    <3> QED
      BY <2>1, <3>1 DEF LuaStates
  <2>3. CASE ~q.escaped /\ c = "backslash"
    <3>1. LuaStep(q, c) = [value |-> q.value, escaped |-> TRUE, sound |-> q.sound]
      BY <2>3 DEF LuaStep, LuaStates
    <3> QED
      BY <2>1, <3>1 DEF LuaStates
  <2>4. CASE ~q.escaped /\ c # "backslash"
    <3> DEFINE sound == q.sound /\ c \notin {"quote", "control"}
    <3>1. LuaStep(q, c) = [value |-> Append(q.value, c), escaped |-> q.escaped,
                           sound |-> sound]
      BY <2>4 DEF LuaStep, LuaStates
    <3>2. sound \in BOOLEAN /\ q.escaped \in BOOLEAN
      BY DEF LuaStates
    <3> HIDE DEF sound
    <3> QED
      BY <2>1, <3>1, <3>2 DEF LuaStates
  <2> QED
    BY <2>2, <2>3, <2>4
<1> QED
  BY <1>1 DEF Steps, LuaGraph

\* LuaReads says where the run of the reader over the literal ends.
LEMMA LuaReadsRuns ==
  ASSUME NEW C, NEW s \in Seq(C), NEW v, NEW r,
         Runs(LuaGraph(C), LuaState(<<>>, FALSE), s, r)
  PROVE  LuaReads(s, v) <=> r.sound /\ ~r.escaped /\ r.value = v
<1> DEFINE b == LuaState(<<>>, FALSE)
           it == CHOOSE it : it = [t \in SUBSET (DOMAIN s) |->
                   IF t = {} THEN b ELSE LuaStep(it[t \ {Max(t)}], s[Max(t)])]
           q == it[DOMAIN s]
<1>1. LuaReads(s, v) <=> q.sound /\ ~q.escaped /\ q.value = v
  BY Zenon DEF LuaReads, FoldLeft, MapThenFoldSet, LuaStep, LuaState
<1>2. b \in LuaStates(C)
  BY DEF LuaStates, LuaState
<1> HIDE DEF b
<1>3. it = [t \in SUBSET (DOMAIN s) |->
              IF t = {} THEN b ELSE LuaStep(it[t \ {Max(t)}], s[Max(t)])]
  <2>1. \E h : h = [t \in SUBSET (DOMAIN s) |->
              IF t = {} THEN b ELSE LuaStep(h[t \ {Max(t)}], s[Max(t)])]
    <3>1. PICK h : /\ Sweeps(h, LuaGraph(C), b, s)
                   /\ \A t \in SUBSET (DOMAIN s) : h[t] \in LuaStates(C)
      BY <1>2, LuaStepTypes, SweepExists
    <3>2. ASSUME NEW t \in SUBSET (DOMAIN s), t # {}
          PROVE  LuaGraph(C)[<<h[t \ {Max(t)}], s[Max(t)]>>]
                   = LuaStep(h[t \ {Max(t)}], s[Max(t)])
      <4>1. Max(t) \in DOMAIN s /\ s[Max(t)] \in C
        BY <3>2, MaxInDomain
      <4> QED
        BY <3>1, <4>1 DEF LuaGraph
    <3>3. h = [t \in SUBSET (DOMAIN s) |->
                 IF t = {} THEN b ELSE LuaStep(h[t \ {Max(t)}], s[Max(t)])]
      BY <3>1, <3>2 DEF Sweeps
    <3> QED
      BY <3>3
  <2> QED
    BY <2>1, Zenon
<1> HIDE DEF it
<1>4. it[{}] = b
  BY <1>3
<1>5. ASSUME NEW t \in SUBSET (DOMAIN s), t # {}, it[t \ {Max(t)}] \in LuaStates(C)
      PROVE  it[t] = LuaGraph(C)[<<it[t \ {Max(t)}], s[Max(t)]>>]
  <2>1. Max(t) \in DOMAIN s /\ s[Max(t)] \in C
    BY <1>5, MaxInDomain
  <2> QED
    BY <1>3, <1>5, <2>1 DEF LuaGraph
<1>6. Runs(LuaGraph(C), b, s, q)
  BY <1>2, <1>4, <1>5, LuaStepTypes, SweepRuns
<1>7. q = r
  BY <1>6, RunsUnique DEF b
<1> QED
  BY <1>1, <1>7

\* One character behind a string.
LEMMA ConcatOne ==
  ASSUME NEW C, NEW s \in Seq(C), NEW c \in C
  PROVE  s \o <<c>> = Append(s, c)
<1>1. <<c>> \in Seq(C) /\ Len(<<c>>) = 1 /\ <<c>>[1] = c
  OBVIOUS
<1>2. s \o <<c>> \in Seq(C) /\ Append(s, c) \in Seq(C)
  BY <1>1
<1>3. Len(s \o <<c>>) = Len(s) + 1 /\ Len(Append(s, c)) = Len(s) + 1
  BY <1>1
<1>4. ASSUME NEW k \in 1 .. Len(s) + 1 PROVE (s \o <<c>>)[k] = Append(s, c)[k]
  <2>1. CASE k <= Len(s)
    BY <1>1, <2>1
  <2>2. CASE k = Len(s) + 1
    BY <1>1, <2>2
  <2> QED
    BY <2>1, <2>2
<1> QED
  BY <1>2, <1>3, <1>4

\* Two characters.
LEMMA AppendPair ==
  ASSUME NEW C, NEW a \in C, NEW b \in C PROVE Append(<<a>>, b) = <<a, b>>
<1>1. /\ Len(Append(<<a>>, b)) = 2 /\ Append(<<a>>, b)[1] = a
      /\ Append(<<a>>, b)[2] = b
  OBVIOUS
<1> DEFINE p == Append(<<a>>, b)
           q == <<a, b>>
<1>2. /\ q \in Seq(C) /\ p \in Seq(C)
      /\ Len(q) = 2 /\ q[1] = a /\ q[2] = b
  OBVIOUS
<1>3. Len(p) = 2 /\ p[1] = a /\ p[2] = b
  BY <1>1
<1> HIDE DEF p, q
<1>4. \A k \in 1 .. 2 : k = 1 \/ k = 2
  OBVIOUS
<1>5. p = q
  BY <1>2, <1>3, <1>4
<1> QED
  BY <1>5 DEF p, q

\* What escapes a character is read as that character.
LEMMA LuaCharRuns ==
  ASSUME NEW C, "backslash" \in C, NEW w \in Seq(C), NEW c \in C, c # "control"
  PROVE  Runs(LuaGraph(C), LuaState(w, FALSE),
              IF c \in {"backslash", "quote"} THEN <<"backslash", c>> ELSE <<c>>,
              LuaState(Append(w, c), FALSE))
<1>1. LuaState(w, FALSE) \in LuaStates(C) /\ LuaState(w, TRUE) \in LuaStates(C)
  <2>1. LuaState(w, FALSE) \in LuaStates(C)
    BY DEF LuaStates, LuaState
  <2>2. LuaState(w, TRUE) \in LuaStates(C)
    BY DEF LuaStates, LuaState
  <2> QED
    BY <2>1, <2>2
<1>2. LuaStep(LuaState(w, TRUE), c) = LuaState(Append(w, c), FALSE)
  BY DEF LuaStep, LuaState
<1>3. LuaStep(LuaState(w, FALSE), "backslash") = LuaState(w, TRUE)
  BY DEF LuaStep, LuaState
<1>4. c \notin {"backslash", "quote"} =>
        LuaStep(LuaState(w, FALSE), c) = LuaState(Append(w, c), FALSE)
  BY DEF LuaStep, LuaState
<1>5. ASSUME NEW q \in LuaStates(C), NEW d \in C
      PROVE  Runs(LuaGraph(C), q, <<d>>, LuaStep(q, d))
  <2>1. LuaGraph(C)[<<q, d>>] = LuaStep(q, d)
    BY DEF LuaGraph
  <2> QED
    BY <2>1, RunsOne
<1>6. CASE c \in {"backslash", "quote"}
  <2>1. /\ Runs(LuaGraph(C), LuaState(w, FALSE), <<"backslash">>, LuaState(w, TRUE))
        /\ Runs(LuaGraph(C), LuaState(w, TRUE), <<c>>, LuaState(Append(w, c), FALSE))
    BY <1>1, <1>2, <1>3, <1>5
  <2>2. <<"backslash">> \in Seq(C) /\ <<c>> \in Seq(C)
    BY <1>1
  <2>3. <<"backslash">> \o <<c>> = <<"backslash", c>>
    <3>1. <<"backslash">> \o <<c>> = Append(<<"backslash">>, c)
      BY <2>2, ConcatOne
    <3> QED
      BY <3>1, AppendPair
  <2>4. Runs(LuaGraph(C), LuaState(w, FALSE), <<"backslash">> \o <<c>>,
             LuaState(Append(w, c), FALSE))
    BY <2>1, <2>2, RunsConcat
  <2> QED
    BY <1>6, <2>3, <2>4
<1>7. CASE c \notin {"backslash", "quote"}
  BY <1>1, <1>4, <1>5, <1>7
<1> QED
  BY <1>6, <1>7

\* trampoline_escape_path writes what the Lua reader reads back, for every
\* string without a control character.
LEMMA LuaReadsEscaped ==
  ASSUME NEW C, "backslash" \in C, NEW v \in Seq(C), ~HasControl(v)
  PROVE  LuaReads(EscapePath(v), v)
<1> DEFINE esc(c) == IF c \in {"backslash", "quote"} THEN <<"backslash", c>> ELSE <<c>>
           seqs == [k \in DOMAIN v |-> IF v[k] \in {"backslash", "quote"}
                                       THEN <<"backslash", v[k]>> ELSE <<v[k]>>]
           n == Len(v)
           b == LuaState(<<>>, FALSE)
<1>1. n \in Nat /\ DOMAIN v = 1 .. n
  OBVIOUS
<1>2. \A k \in 1 .. n : v[k] \in C /\ v[k] # "control"
  BY DEF HasControl
<1>3. \A k \in 1 .. n : seqs[k] = esc(v[k])
  OBVIOUS
<1>4. ASSUME NEW k \in 1 .. n PROVE seqs[k] \in Seq(C)
  <2>1. <<"backslash", v[k]>> \in Seq(C) /\ <<v[k]>> \in Seq(C)
    BY <1>2
  <2> QED
    BY <1>3, <2>1
<1>5. seqs \in Seq(Seq(C)) /\ Len(seqs) = n
  <2>1. seqs \in [1 .. n -> Seq(C)]
    BY <1>4
  <2> HIDE DEF seqs, n
  <2> QED
    BY <1>1, <2>1
<1>6. EscapePath(v) = FlattenSeq(seqs)
  BY DEF EscapePath
<1> HIDE DEF seqs
<1>7. PICK f : Joins(f, seqs, C) /\ EscapePath(v) = f[n]
  BY <1>5, <1>6, FlattenJoins
<1> DEFINE Reads(k) == Runs(LuaGraph(C), b, f[k], LuaState(SubSeq(v, 1, k), FALSE))
           S == {k \in Nat : k <= n => Reads(k)}
<1>8. 0 \in S
  <2>1. SubSeq(v, 1, 0) = <<>>
    OBVIOUS
  <2>2. f[0] = <<>>
    BY <1>7 DEF Joins
  <2> QED
    BY <2>1, <2>2, RunsEmpty
<1>9. ASSUME NEW k \in Nat, k \in S PROVE k + 1 \in S
  <2> HIDE DEF Reads, n
  <2> SUFFICES ASSUME k + 1 <= n PROVE Reads(k + 1)
    BY <1>1
  <2>0. Reads(k)
    BY <1>1, <1>9
  <2> DEFINE w == SubSeq(v, 1, k)
             c == v[k + 1]
  <2>1. k + 1 \in 1 .. n /\ k \in 0 .. n - 1
    BY <1>1
  <2>2. w \in Seq(C) /\ SubSeq(v, 1, k + 1) = Append(w, c)
    BY <1>1, <2>1
  <2>3. f[k + 1] = f[k] \o esc(c) /\ f[k] \in Seq(C) /\ esc(c) \in Seq(C)
    BY <1>3, <1>4, <1>5, <1>7, <2>1 DEF Joins
  <2>4. c \in C /\ c # "control"
    BY <1>2, <2>1
  <2>5. Runs(LuaGraph(C), b, f[k], LuaState(w, FALSE))
    BY <2>0 DEF Reads
  <2> HIDE DEF w, c, b, S
  <2>6. Runs(LuaGraph(C), LuaState(w, FALSE), esc(c), LuaState(Append(w, c), FALSE))
    BY <2>2, <2>4, LuaCharRuns
  <2> HIDE DEF esc
  <2>7. Runs(LuaGraph(C), b, f[k] \o esc(c), LuaState(Append(w, c), FALSE))
    BY <2>3, <2>5, <2>6, RunsConcat
  <2> QED
    BY <2>2, <2>3, <2>7 DEF Reads
<1> HIDE DEF S
<1>10. n \in S
  BY <1>1, <1>8, <1>9, NatSetInduction
<1>11. Runs(LuaGraph(C), b, f[n], LuaState(v, FALSE)) /\ f[n] \in Seq(C)
  <2>1. SubSeq(v, 1, n) = v
    OBVIOUS
  <2>2. Reads(n)
    <3> HIDE DEF Reads, n
    <3> QED
      BY <1>1, <1>10 DEF S
  <2>3. f[n] \in Seq(C)
    <3> HIDE DEF n
    <3> QED
      BY <1>1, <1>7 DEF Joins
  <2> QED
    BY <2>1, <2>2, <2>3
<1> DEFINE r == LuaState(v, FALSE)
<1>12. r.sound /\ ~r.escaped /\ r.value = v
  BY DEF LuaState
<1> HIDE DEF r
<1>13. Runs(LuaGraph(C), LuaState(<<>>, FALSE), f[n], r)
  BY <1>11 DEF b, r
<1>14. LuaReads(f[n], v)
  BY <1>11, <1>12, <1>13, LuaReadsRuns
<1> QED
  BY <1>7, <1>14

-------------------------------------------------------------------------------
(* The command line of the game.                                           *)

\* n times a character.
LEMMA RepeatTypes ==
  ASSUME NEW C, NEW c \in C, NEW n \in Nat
  PROVE  Repeat(c, n) \in Seq(C) /\ Len(Repeat(c, n)) = n
<1>1. Repeat(c, n) \in [1 .. n -> C]
  BY DEF Repeat
<1> QED
  BY <1>1

\* None, and one more.
LEMMA RepeatGrows ==
  ASSUME NEW c
  PROVE  /\ Repeat(c, 0) = <<>>
         /\ \A n \in Nat : Repeat(c, n + 1) = Repeat(c, n) \o <<c>>
<1> DEFINE C == {c}
<1>0. c \in C
  OBVIOUS
<1> HIDE DEF C
<1>1. Repeat(c, 0) = <<>>
  <2>1. Repeat(c, 0) \in Seq(C) /\ Len(Repeat(c, 0)) = 0
    BY <1>0, RepeatTypes
  <2> QED
    BY <2>1
<1>2. ASSUME NEW n \in Nat PROVE Repeat(c, n + 1) = Repeat(c, n) \o <<c>>
  <2> DEFINE p == Repeat(c, n + 1)
             q == Append(Repeat(c, n), c)
  <2>1. /\ Repeat(c, n) \in Seq(C) /\ Len(Repeat(c, n)) = n
        /\ p \in Seq(C) /\ Len(p) = n + 1
    <3>1. n + 1 \in Nat
      OBVIOUS
    <3> QED
      BY <1>0, <3>1, RepeatTypes
  <2>2. q \in Seq(C) /\ Len(q) = n + 1
    BY <1>0, <2>1
  <2>3. ASSUME NEW k \in 1 .. n + 1 PROVE p[k] = c /\ q[k] = c
    <3>1. p[k] = c
      BY DEF Repeat
    <3>2. k # n + 1 => Repeat(c, n)[k] = c
      BY DEF Repeat
    <3> QED
      BY <2>1, <3>1, <3>2
  <2>4. p = q
    <3> HIDE DEF p, q
    <3> QED
      BY <2>1, <2>2, <2>3
  <2> QED
    BY <1>0, <2>1, <2>4, ConcatOne
<1> QED
  BY <1>1, <1>2

\* Concatenation is associative, and the empty string changes nothing.
LEMMA ConcatLaws ==
  ASSUME NEW C, NEW p \in Seq(C), NEW q \in Seq(C), NEW r \in Seq(C)
  PROVE  /\ p \o q \in Seq(C)
         /\ p \o (q \o r) = (p \o q) \o r
         /\ p \o <<>> = p /\ <<>> \o p = p
OBVIOUS

\* The states of the C runtime's scanner: between arguments, within one, and
\* behind the quote that closed one.
CrtStates(C) ==
  [args : Seq(Seq(C)), word : Seq(C), run : Nat, quoted : BOOLEAN,
   open : BOOLEAN, closed : BOOLEAN]

Crt(args, word, run, quoted, open, closed) ==
  [args |-> args, word |-> word, run |-> run, quoted |-> quoted, open |-> open,
   closed |-> closed]

Between(args) == Crt(args, <<>>, 0, FALSE, FALSE, FALSE)

Within(args, word, run, quoted) == Crt(args, word, run, quoted, TRUE, FALSE)

Behind(args, word) == Crt(args, word, 0, FALSE, TRUE, TRUE)

CrtGraph(C) == [p \in CrtStates(C) \X C |-> CrtChar(p[1], p[2])]

\* A backslash is counted.
LEMMA CrtBackslash ==
  ASSUME NEW args, NEW word, NEW run \in Nat, NEW quoted \in BOOLEAN,
         NEW open \in BOOLEAN, NEW closed \in BOOLEAN
  PROVE  CrtChar(Crt(args, word, run, quoted, open, closed), "backslash")
           = Within(args, word, run + 1, quoted)
BY DEF CrtChar, Crt, Within, Blanks

\* A quote behind an odd run stands for itself.
LEMMA CrtEscaped ==
  ASSUME NEW args, NEW word, NEW run \in Nat, NEW quoted \in BOOLEAN,
         NEW open \in BOOLEAN, NEW closed \in BOOLEAN, run % 2 = 1
  PROVE  CrtChar(Crt(args, word, run, quoted, open, closed), "quote")
           = Within(args, Append(word \o Repeat("backslash", run \div 2), "quote"),
                    0, quoted)
<1>1. run # 0 /\ ~(run % 2 = 0)
  OBVIOUS
<1>2. PICK c : c = "quote"
  OBVIOUS
<1>3. CrtChar(Crt(args, word, run, quoted, open, closed), c)
        = Within(args, Append(word \o Repeat("backslash", run \div 2), c), 0, quoted)
  BY <1>1, <1>2, Zenon DEF CrtChar, Crt, Within, Blanks
<1> QED
  BY <1>2, <1>3

\* So does a quote right behind the one that closed.
LEMMA CrtDoubled ==
  ASSUME NEW args, NEW word, NEW quoted \in BOOLEAN, NEW open \in BOOLEAN
  PROVE  CrtChar(Crt(args, word, 0, quoted, open, TRUE), "quote")
           = Within(args, Append(word, "quote"), 0, TRUE)
<1>1. ~(0 % 2 = 1)
  OBVIOUS
<1>2. PICK c : c = "quote"
  OBVIOUS
<1>3. CrtChar(Crt(args, word, 0, quoted, open, TRUE), c)
        = Within(args, Append(word, c), 0, TRUE)
  BY <1>1, <1>2, Zenon DEF CrtChar, Crt, Within, Blanks
<1> QED
  BY <1>2, <1>3

\* Any other opens,
LEMMA CrtOpens ==
  ASSUME NEW args, NEW word, NEW run \in Nat, NEW open \in BOOLEAN,
         NEW closed \in BOOLEAN, run % 2 = 0, ~(run = 0 /\ closed)
  PROVE  CrtChar(Crt(args, word, run, FALSE, open, closed), "quote")
           = Within(args, word \o Repeat("backslash", run \div 2), 0, TRUE)
<1>1. 0 % 2 = 0 /\ ~(run % 2 = 1)
  OBVIOUS
<1> QED
  BY <1>1 DEF CrtChar, Crt, Blanks, Within

\* or closes.
LEMMA CrtCloses ==
  ASSUME NEW args, NEW word, NEW run \in Nat, NEW open \in BOOLEAN,
         NEW closed \in BOOLEAN, run % 2 = 0, ~(run = 0 /\ closed)
  PROVE  CrtChar(Crt(args, word, run, TRUE, open, closed), "quote")
           = Behind(args, word \o Repeat("backslash", run \div 2))
<1>1. 0 % 2 = 0 /\ ~(run % 2 = 1)
  OBVIOUS
<1> QED
  BY <1>1 DEF CrtChar, Crt, Blanks, Behind

\* A blank outside quotes ends the argument.
LEMMA CrtBlank ==
  ASSUME NEW args, NEW word, NEW run \in Nat, NEW closed \in BOOLEAN, NEW c \in Blanks
  PROVE  CrtChar(Crt(args, word, run, FALSE, TRUE, closed), c)
           = Between(Append(args, word \o Repeat("backslash", run)))
BY DEF CrtChar, Crt, Between, Blanks

\* Between arguments it is skipped.
LEMMA CrtIdle ==
  ASSUME NEW args, NEW word, NEW run \in Nat, NEW closed \in BOOLEAN, NEW c \in Blanks
  PROVE  CrtChar(Crt(args, word, run, FALSE, FALSE, closed), c)
           = Crt(args, word, run, FALSE, FALSE, closed)
BY DEF CrtChar, Crt, Blanks

\* Every other character is kept.
LEMMA CrtKept ==
  ASSUME NEW args, NEW word, NEW run \in Nat, NEW quoted \in BOOLEAN,
         NEW open \in BOOLEAN, NEW closed \in BOOLEAN, NEW c,
         c \notin {"backslash", "quote"}, ~(c \in Blanks /\ ~quoted)
  PROVE  CrtChar(Crt(args, word, run, quoted, open, closed), c)
           = Within(args, Append(word \o Repeat("backslash", run), c), 0, quoted)
BY DEF CrtChar, Crt, Within, Blanks

\* It goes from state to state.
LEMMA CrtStepTypes ==
  ASSUME NEW C, "backslash" \in C PROVE Steps(CrtGraph(C), CrtStates(C), C)
<1>1. ASSUME NEW q \in CrtStates(C), NEW c \in C PROVE CrtChar(q, c) \in CrtStates(C)
  <2> DEFINE args == q.args
             word == q.word
             run == q.run
             quoted == q.quoted
             open == q.open
             closed == q.closed
             kept == word \o Repeat("backslash", run)
             half == word \o Repeat("backslash", run \div 2)
  <2>1. /\ args \in Seq(Seq(C)) /\ word \in Seq(C) /\ run \in Nat
        /\ quoted \in BOOLEAN /\ open \in BOOLEAN /\ closed \in BOOLEAN
    BY DEF CrtStates
  <2>2. q = Crt(args, word, run, quoted, open, closed)
    BY DEF CrtStates, Crt
  <2>3. run \div 2 \in Nat /\ (run % 2 = 0 \/ run % 2 = 1)
    <3> HIDE DEF run
    <3> QED
      BY <2>1
  <2>4. kept \in Seq(C) /\ half \in Seq(C)
    <3> HIDE DEF run, word
    <3>1. Repeat("backslash", run) \in Seq(C) /\ Repeat("backslash", run \div 2) \in Seq(C)
      BY <2>1, <2>3, RepeatTypes
    <3> QED
      BY <2>1, <3>1
  <2>5. Append(kept, c) \in Seq(C) /\ Append(half, c) \in Seq(C)
        /\ Append(word, c) \in Seq(C) /\ Append(args, kept) \in Seq(Seq(C))
        /\ <<>> \in Seq(C)
    <3> HIDE DEF kept, half, word, args
    <3> QED
      BY <2>1, <2>4
  <2> HIDE DEF args, word, run, quoted, open, closed, kept, half
  <2>6. \A a \in Seq(Seq(C)), w \in Seq(C), n \in Nat, b, d, e \in BOOLEAN :
          Crt(a, w, n, b, d, e) \in CrtStates(C)
    BY DEF Crt, CrtStates
  <2>0. \A w \in Seq(C), n \in Nat, b \in BOOLEAN : Within(args, w, n, b) \in CrtStates(C)
    BY <2>1, <2>6 DEF Within
  <2>7. CASE c = "backslash"
    <3>1. CrtChar(q, c) = Within(args, word, run + 1, quoted)
      BY <2>1, <2>2, <2>7, CrtBackslash
    <3>2. Within(args, word, run + 1, quoted) \in CrtStates(C)
      BY <2>1, <2>0
    <3> QED
      BY <3>1, <3>2
  <2>8. CASE c = "quote" /\ run % 2 = 1
    <3>1. CrtChar(q, c) = Within(args, Append(half, c), 0, quoted)
      BY <2>1, <2>2, <2>8, CrtEscaped DEF half
    <3>2. Within(args, Append(half, c), 0, quoted) \in CrtStates(C)
      BY <2>1, <2>5, <2>6 DEF Within
    <3> QED
      BY <3>1, <3>2
  <2>9. CASE c = "quote" /\ run = 0 /\ closed
    <3>1. CrtChar(q, c) = Within(args, Append(word, c), 0, TRUE)
      BY <2>1, <2>2, <2>9, CrtDoubled
    <3> QED
      BY <2>1, <2>5, <2>6, <3>1 DEF Within
  <2>10. CASE c = "quote" /\ run % 2 = 0 /\ ~(run = 0 /\ closed)
    <3>1. CASE quoted = TRUE
      <4>1. CrtChar(q, c) = Behind(args, half)
        BY <2>1, <2>2, <2>10, <3>1, CrtCloses DEF half
      <4> QED
        BY <2>1, <2>4, <2>6, <4>1 DEF Behind
    <3>2. CASE quoted = FALSE
      <4>1. CrtChar(q, c) = Within(args, half, 0, TRUE)
        BY <2>1, <2>2, <2>10, <3>2, CrtOpens DEF half
      <4> QED
        BY <2>1, <2>4, <2>6, <4>1 DEF Within
    <3> QED
      BY <2>1, <3>1, <3>2
  <2>11. CASE c \in Blanks /\ ~quoted
    <3>1. CASE open
      <4>0. open = TRUE /\ quoted = FALSE
        BY <2>1, <2>11, <3>1
      <4>1. CrtChar(q, c) = Between(Append(args, kept))
        BY <2>1, <2>2, <2>11, <4>0, CrtBlank DEF kept
      <4> QED
        BY <2>5, <2>6, <4>1 DEF Between
    <3>2. CASE ~open
      <4>1. CrtChar(q, c) = q
        BY <2>1, <2>2, <2>11, <3>2, CrtIdle
      <4> QED
        BY <4>1
    <3> QED
      BY <3>1, <3>2
  <2>12. CASE c \notin {"backslash", "quote"} /\ ~(c \in Blanks /\ ~quoted)
    <3>1. CrtChar(q, c) = Within(args, Append(kept, c), 0, quoted)
      BY <2>1, <2>2, <2>12, CrtKept DEF kept
    <3> QED
      BY <2>1, <2>5, <2>6, <3>1 DEF Within
  <2> QED
    BY <2>3, <2>7, <2>8, <2>9, <2>10, <2>11, <2>12
<1> QED
  BY <1>1 DEF Steps, CrtGraph

\* One character is one step of the scanner.
LEMMA CrtOne ==
  ASSUME NEW C, "backslash" \in C, NEW q \in CrtStates(C), NEW c \in C
  PROVE  /\ CrtChar(q, c) \in CrtStates(C)
         /\ Runs(CrtGraph(C), q, <<c>>, CrtChar(q, c))
<1>1. CrtGraph(C)[<<q, c>>] = CrtChar(q, c)
  BY DEF CrtGraph
<1>2. CrtGraph(C)[<<q, c>>] \in CrtStates(C)
  BY CrtStepTypes DEF Steps
<1> QED
  BY <1>1, <1>2, RunsOne

\* A run of backslashes is counted.
LEMMA CrtCounts ==
  ASSUME NEW C, "backslash" \in C, NEW args \in Seq(Seq(C)), NEW word \in Seq(C),
         NEW quoted \in BOOLEAN, NEW run \in Nat
  PROVE  \A n \in Nat : Runs(CrtGraph(C), Within(args, word, run, quoted),
                             Repeat("backslash", n),
                             Within(args, word, run + n, quoted))
<1> DEFINE In(n) == Within(args, word, run + n, quoted)
           Counted(n) == Runs(CrtGraph(C), Within(args, word, run, quoted),
                              Repeat("backslash", n), In(n))
           S == {n \in Nat : Counted(n)}
<1>1. \A n \in Nat : In(n) \in CrtStates(C)
  BY DEF Within, Crt, CrtStates
<1>2. 0 \in S
  <2>1. run + 0 = run
    OBVIOUS
  <2>2. Repeat("backslash", 0) = <<>>
    BY RepeatGrows, Zenon
  <2> QED
    BY <2>1, <2>2, RunsEmpty
<1>3. ASSUME NEW n \in Nat, n \in S PROVE n + 1 \in S
  <2>1. CrtChar(In(n), "backslash") = In(n + 1)
    <3>1. run + n \in Nat /\ (run + n) + 1 = run + (n + 1)
      OBVIOUS
    <3>2. CrtChar(In(n), "backslash") = Within(args, word, (run + n) + 1, quoted)
      BY <3>1, CrtBackslash DEF Within
    <3> QED
      BY <3>1, <3>2
  <2>2. Runs(CrtGraph(C), In(n), <<"backslash">>, In(n + 1))
    BY <1>1, <2>1, CrtOne
  <2> HIDE DEF In
  <2>3. Counted(n)
    BY <1>3
  <2>4. Repeat("backslash", n) \in Seq(C) /\ <<"backslash">> \in Seq(C)
    BY RepeatTypes
  <2>5. Repeat("backslash", n + 1) = Repeat("backslash", n) \o <<"backslash">>
    BY RepeatGrows, Zenon
  <2>6. Counted(n + 1)
    BY <2>2, <2>3, <2>4, <2>5, RunsConcat
  <2> HIDE DEF Counted
  <2> QED
    BY <2>6
<1> HIDE DEF Counted
<1>4. \A n \in Nat : n \in S
  <2> HIDE DEF S
  <2> QED
    BY <1>2, <1>3, NatSetInduction
<1> QED
  BY <1>4 DEF Counted

\* The loop of render_token.
RenderStates(C) == [put : Seq(C), run : Nat]

RenderGraph(C) == [p \in RenderStates(C) \X C |-> RenderChar(p[1], p[2])]

\* What it does with a character.
LEMMA RenderArms ==
  ASSUME NEW C, "backslash" \in C, "quote" \in C, NEW q \in RenderStates(C), NEW c \in C
  PROVE  /\ c = "backslash" => RenderChar(q, c) = [put |-> q.put, run |-> q.run + 1]
         /\ c = "quote" =>
              RenderChar(q, c) = [put |-> q.put \o EscapedQuote(q.run), run |-> 0]
         /\ c \notin {"backslash", "quote"} =>
              RenderChar(q, c)
                = [put |-> Append(q.put \o Repeat("backslash", q.run), c), run |-> 0]
<1>1. c = "backslash" => RenderChar(q, c) = [put |-> q.put, run |-> q.run + 1]
  BY DEF RenderChar, RenderStates
<1>2. c = "quote" =>
        RenderChar(q, c) = [put |-> q.put \o EscapedQuote(q.run), run |-> 0]
  BY DEF RenderChar
<1>3. c \notin {"backslash", "quote"} =>
        RenderChar(q, c)
          = [put |-> Append(q.put \o Repeat("backslash", q.run), c), run |-> 0]
  BY DEF RenderChar
<1> QED
  BY <1>1, <1>2, <1>3

\* An escaped quote is an odd run and a quote.
LEMMA EscapedQuoteTypes ==
  ASSUME NEW C, "backslash" \in C, "quote" \in C, NEW n \in Nat
  PROVE  /\ Repeat("backslash", 2 * n + 1) \in Seq(C)
         /\ EscapedQuote(n) = Repeat("backslash", 2 * n + 1) \o <<"quote">>
         /\ EscapedQuote(n) \in Seq(C)
<1>1. 2 * n + 1 \in Nat
  OBVIOUS
<1> DEFINE bs == Repeat("backslash", 2 * n + 1)
<1>2. bs \in Seq(C)
  BY <1>1, RepeatTypes
<1> HIDE DEF bs
<1>3. Append(bs, "quote") \in Seq(C) /\ Append(bs, "quote") = bs \o <<"quote">>
  BY <1>2, ConcatOne
<1> QED
  BY <1>2, <1>3 DEF EscapedQuote, bs

\* It goes from state to state.
LEMMA RenderStepTypes ==
  ASSUME NEW C, "backslash" \in C, "quote" \in C
  PROVE  Steps(RenderGraph(C), RenderStates(C), C)
<1>1. ASSUME NEW q \in RenderStates(C), NEW c \in C
      PROVE  RenderChar(q, c) \in RenderStates(C)
  <2>1. q.put \in Seq(C) /\ q.run \in Nat
    BY DEF RenderStates
  <2>2. /\ Repeat("backslash", q.run) \in Seq(C) /\ EscapedQuote(q.run) \in Seq(C)
    BY <2>1, RepeatTypes, EscapedQuoteTypes
  <2>3. /\ q.put \o EscapedQuote(q.run) \in Seq(C)
        /\ Append(q.put \o Repeat("backslash", q.run), c) \in Seq(C)
    BY <2>1, <2>2
  <2>4. \A p \in Seq(C), n \in Nat : [put |-> p, run |-> n] \in RenderStates(C)
    BY DEF RenderStates
  <2>5. q.run + 1 \in Nat /\ 0 \in Nat
    BY <2>1
  <2> QED
    BY <2>1, <2>3, <2>4, <2>5, RenderArms
<1> QED
  BY <1>1 DEF Steps, RenderGraph

\* The fold of RenderToken is the run of that loop over the token.
LEMMA RenderFoldRuns ==
  ASSUME NEW C, "backslash" \in C, "quote" \in C, NEW s \in Seq(C),
         NEW b \in RenderStates(C)
  PROVE  Runs(RenderGraph(C), b, s, FoldLeft(RenderChar, b, s))
<1> DEFINE it == CHOOSE it : it = [t \in SUBSET (DOMAIN s) |->
                   IF t = {} THEN b ELSE RenderChar(it[t \ {Max(t)}], s[Max(t)])]
<1>1. FoldLeft(RenderChar, b, s) = it[DOMAIN s]
  BY Zenon DEF FoldLeft, MapThenFoldSet
<1>2. it = [t \in SUBSET (DOMAIN s) |->
              IF t = {} THEN b ELSE RenderChar(it[t \ {Max(t)}], s[Max(t)])]
  <2>1. \E h : h = [t \in SUBSET (DOMAIN s) |->
              IF t = {} THEN b ELSE RenderChar(h[t \ {Max(t)}], s[Max(t)])]
    <3>1. PICK h : /\ Sweeps(h, RenderGraph(C), b, s)
                   /\ \A t \in SUBSET (DOMAIN s) : h[t] \in RenderStates(C)
      BY RenderStepTypes, SweepExists
    <3>2. ASSUME NEW t \in SUBSET (DOMAIN s), t # {}
          PROVE  RenderGraph(C)[<<h[t \ {Max(t)}], s[Max(t)]>>]
                   = RenderChar(h[t \ {Max(t)}], s[Max(t)])
      <4>1. Max(t) \in DOMAIN s /\ s[Max(t)] \in C
        BY <3>2, MaxInDomain
      <4> QED
        BY <3>1, <4>1 DEF RenderGraph
    <3>3. h = [t \in SUBSET (DOMAIN s) |->
                 IF t = {} THEN b ELSE RenderChar(h[t \ {Max(t)}], s[Max(t)])]
      BY <3>1, <3>2 DEF Sweeps
    <3> QED
      BY <3>3
  <2> QED
    BY <2>1, Zenon
<1> HIDE DEF it
<1>3. it[{}] = b
  BY <1>2
<1>4. ASSUME NEW t \in SUBSET (DOMAIN s), t # {}, it[t \ {Max(t)}] \in RenderStates(C)
      PROVE  it[t] = RenderGraph(C)[<<it[t \ {Max(t)}], s[Max(t)]>>]
  <2>1. Max(t) \in DOMAIN s /\ s[Max(t)] \in C
    BY <1>4, MaxInDomain
  <2> QED
    BY <1>2, <1>4, <2>1 DEF RenderGraph
<1>5. Runs(RenderGraph(C), b, s, it[DOMAIN s])
  BY <1>3, <1>4, RenderStepTypes, SweepRuns
<1> QED
  BY <1>1, <1>5

\* The fold of CrtArgv is the run of the scanner over the line.
LEMMA CrtFoldRuns ==
  ASSUME NEW C, "backslash" \in C, NEW s \in Seq(C), NEW b \in CrtStates(C)
  PROVE  Runs(CrtGraph(C), b, s, FoldLeft(CrtChar, b, s))
<1> DEFINE it == CHOOSE it : it = [t \in SUBSET (DOMAIN s) |->
                   IF t = {} THEN b ELSE CrtChar(it[t \ {Max(t)}], s[Max(t)])]
<1>1. FoldLeft(CrtChar, b, s) = it[DOMAIN s]
  BY Zenon DEF FoldLeft, MapThenFoldSet
<1>2. it = [t \in SUBSET (DOMAIN s) |->
              IF t = {} THEN b ELSE CrtChar(it[t \ {Max(t)}], s[Max(t)])]
  <2>1. \E h : h = [t \in SUBSET (DOMAIN s) |->
              IF t = {} THEN b ELSE CrtChar(h[t \ {Max(t)}], s[Max(t)])]
    <3>1. PICK h : /\ Sweeps(h, CrtGraph(C), b, s)
                   /\ \A t \in SUBSET (DOMAIN s) : h[t] \in CrtStates(C)
      BY CrtStepTypes, SweepExists
    <3>2. ASSUME NEW t \in SUBSET (DOMAIN s), t # {}
          PROVE  CrtGraph(C)[<<h[t \ {Max(t)}], s[Max(t)]>>]
                   = CrtChar(h[t \ {Max(t)}], s[Max(t)])
      <4>1. Max(t) \in DOMAIN s /\ s[Max(t)] \in C
        BY <3>2, MaxInDomain
      <4> QED
        BY <3>1, <4>1 DEF CrtGraph
    <3>3. h = [t \in SUBSET (DOMAIN s) |->
                 IF t = {} THEN b ELSE CrtChar(h[t \ {Max(t)}], s[Max(t)])]
      BY <3>1, <3>2 DEF Sweeps
    <3> QED
      BY <3>3
  <2> QED
    BY <2>1, Zenon
<1> HIDE DEF it
<1>3. it[{}] = b
  BY <1>2
<1>4. ASSUME NEW t \in SUBSET (DOMAIN s), t # {}, it[t \ {Max(t)}] \in CrtStates(C)
      PROVE  it[t] = CrtGraph(C)[<<it[t \ {Max(t)}], s[Max(t)]>>]
  <2>1. Max(t) \in DOMAIN s /\ s[Max(t)] \in C
    BY <1>4, MaxInDomain
  <2> QED
    BY <1>2, <1>4, <2>1 DEF CrtGraph
<1>5. Runs(CrtGraph(C), b, s, it[DOMAIN s])
  BY <1>3, <1>4, CrtStepTypes, SweepRuns
<1> QED
  BY <1>1, <1>5

\* Inside quotes, and in an argument outside them.
Inside(args, word, run) == Within(args, word, run, TRUE)
Outside(args, word, run) == Within(args, word, run, FALSE)

\* What was put so far reads as w inside quotes, and w and the run held back
\* are t.
Reads(C, args, q, t) ==
  \E w \in Seq(C) :
    /\ w \o Repeat("backslash", q.run) = t
    /\ Runs(CrtGraph(C), Inside(args, <<>>, 0), q.put, Inside(args, w, 0))

\* The states of the scanner the lemmas below name are states.
LEMMA CrtStateTypes ==
  ASSUME NEW C, NEW args \in Seq(Seq(C)), NEW word \in Seq(C), NEW n \in Nat
  PROVE  /\ Inside(args, word, n) \in CrtStates(C)
         /\ Outside(args, word, n) \in CrtStates(C)
         /\ Between(args) \in CrtStates(C)
         /\ Behind(args, word) \in CrtStates(C)
<1>1. Inside(args, word, n) \in CrtStates(C)
  BY DEF Inside, Within, Crt, CrtStates
<1>4. Outside(args, word, n) \in CrtStates(C)
  BY DEF Outside, Within, Crt, CrtStates
<1>2. Between(args) \in CrtStates(C)
  BY DEF Between, Crt, CrtStates
<1>3. Behind(args, word) \in CrtStates(C)
  BY DEF Behind, Crt, CrtStates
<1> QED
  BY <1>1, <1>2, <1>3, <1>4

\* A run inside quotes is counted.
LEMMA InsideCounts ==
  ASSUME NEW C, "backslash" \in C, NEW args \in Seq(Seq(C)), NEW word \in Seq(C),
         NEW n \in Nat
  PROVE  Runs(CrtGraph(C), Inside(args, word, 0), Repeat("backslash", n),
              Inside(args, word, n))
<1>1. PICK quoted \in BOOLEAN : quoted = TRUE
  OBVIOUS
<1>2. Runs(CrtGraph(C), Within(args, word, 0, quoted), Repeat("backslash", n),
           Within(args, word, 0 + n, quoted))
  BY CrtCounts
<1>3. 0 + n = n
  OBVIOUS
<1> QED
  BY <1>1, <1>2, <1>3 DEF Inside

\* A quote behind an odd run inside quotes.
LEMMA InsideEscaped ==
  ASSUME NEW args, NEW word, NEW run \in Nat, run % 2 = 1
  PROVE  CrtChar(Inside(args, word, run), "quote")
           = Inside(args, Append(word \o Repeat("backslash", run \div 2), "quote"), 0)
<1>1. run # 0 /\ ~(run % 2 = 0)
  OBVIOUS
<1>2. PICK c : c = "quote"
  OBVIOUS
<1>3. CrtChar(Inside(args, word, run), c)
        = Inside(args, Append(word \o Repeat("backslash", run \div 2), c), 0)
  BY <1>1, <1>2, Zenon DEF CrtChar, Crt, Within, Inside, Blanks
<1> QED
  BY <1>2, <1>3

\* An escaped quote inside quotes reads as its run and a quote.
LEMMA EscapedQuoteReads ==
  ASSUME NEW C, "backslash" \in C, "quote" \in C, NEW args \in Seq(Seq(C)),
         NEW w \in Seq(C), NEW n \in Nat
  PROVE  Runs(CrtGraph(C), Inside(args, w, 0), EscapedQuote(n),
              Inside(args, Append(w \o Repeat("backslash", n), "quote"), 0))
<1> DEFINE m == 2 * n + 1
           to == Inside(args, Append(w \o Repeat("backslash", n), "quote"), 0)
<1>1. m \in Nat /\ m % 2 = 1 /\ m \div 2 = n /\ 0 + m = m
  OBVIOUS
<1>2. /\ Repeat("backslash", m) \in Seq(C) /\ <<"quote">> \in Seq(C)
      /\ EscapedQuote(n) = Repeat("backslash", m) \o <<"quote">>
  <2>1. <<"quote">> \in Seq(C)
    OBVIOUS
  <2>2. Repeat("backslash", m) \in Seq(C)
    BY <1>1, RepeatTypes
  <2>3. EscapedQuote(n) = Repeat("backslash", m) \o <<"quote">>
    BY EscapedQuoteTypes, Zenon
  <2> QED
    BY <2>1, <2>2, <2>3
<1> HIDE DEF m
<1>3. Runs(CrtGraph(C), Inside(args, w, 0), Repeat("backslash", m),
           Inside(args, w, m))
  BY <1>1, <1>2, InsideCounts
<1>4. Inside(args, w, m) \in CrtStates(C)
  BY <1>1, CrtStateTypes
<1>5. CrtChar(Inside(args, w, m), "quote") = to
  BY <1>1, InsideEscaped
<1>6. Runs(CrtGraph(C), Inside(args, w, m), <<"quote">>, to)
  BY <1>4, <1>5, CrtOne
<1> HIDE DEF to
<1>7. Runs(CrtGraph(C), Inside(args, w, 0), Repeat("backslash", m) \o <<"quote">>, to)
  BY <1>2, <1>3, <1>6, RunsConcat
<1> QED
  BY <1>2, <1>7 DEF to

\* An ordinary character inside quotes,
LEMMA KeptInside ==
  ASSUME NEW args, NEW w, NEW n \in Nat, NEW c, c # "backslash", c # "quote"
  PROVE  CrtChar(Inside(args, w, n), c)
           = Inside(args, Append(w \o Repeat("backslash", n), c), 0)
BY DEF CrtChar, Crt, Within, Inside, Blanks

\* The loop keeps that.
LEMMA RenderStepReads ==
  ASSUME NEW C, "backslash" \in C, "quote" \in C, NEW args \in Seq(Seq(C)),
         NEW q \in RenderStates(C), NEW t \in Seq(C), NEW c \in C,
         Reads(C, args, q, t)
  PROVE  Reads(C, args, RenderChar(q, c), Append(t, c))
<1> DEFINE from == Inside(args, <<>>, 0)
           n == q.run
           bs == Repeat("backslash", n)
<1>1. q.put \in Seq(C) /\ n \in Nat
  BY DEF RenderStates
<1>2. PICK w \in Seq(C) : /\ w \o bs = t
                          /\ Runs(CrtGraph(C), from, q.put, Inside(args, w, 0))
  BY DEF Reads
<1>3. bs \in Seq(C)
  BY <1>1, RepeatTypes
<1>4. Append(t, c) \in Seq(C)
  OBVIOUS
<1>5. Append(t, c) \o Repeat("backslash", 0) = Append(t, c)
  <2>1. Repeat("backslash", 0) = <<>>
    BY RepeatGrows, Zenon
  <2> QED
    BY <1>4, <2>1, ConcatLaws
<1>6. CASE c = "backslash"
  <2>1. RenderChar(q, c) = [put |-> q.put, run |-> n + 1]
    BY <1>6, RenderArms
  <2>2. w \o Repeat("backslash", n + 1) = Append(t, c)
    <3>1. Repeat("backslash", n + 1) = bs \o <<"backslash">>
      BY <1>1, RepeatGrows, Zenon
    <3>2. <<c>> \in Seq(C)
      OBVIOUS
    <3>3. w \o (bs \o <<c>>) = (w \o bs) \o <<c>>
      <4> HIDE DEF bs
      <4>1. PICK u \in Seq(C) : u = <<c>>
        BY <3>2
      <4>2. w \o (bs \o u) = (w \o bs) \o u
        BY <1>3
      <4> QED
        BY <4>1, <4>2
    <3>4. t \o <<c>> = Append(t, c)
      BY ConcatOne
    <3> QED
      BY <1>2, <1>6, <3>1, <3>3, <3>4
  <2>3. RenderChar(q, c).put = q.put /\ RenderChar(q, c).run = n + 1
    BY <2>1
  <2> HIDE DEF n, bs, from
  <2> QED
    BY <1>2, <2>2, <2>3 DEF Reads, from
<1>7. CASE c = "quote"
  <2>1. RenderChar(q, c) = [put |-> q.put \o EscapedQuote(n), run |-> 0]
    BY <1>7, RenderArms
  <2>2. Runs(CrtGraph(C), Inside(args, w, 0), EscapedQuote(n),
             Inside(args, Append(t, c), 0))
    BY <1>1, <1>2, <1>7, EscapedQuoteReads
  <2>3. EscapedQuote(n) \in Seq(C)
    BY <1>1, EscapedQuoteTypes
  <2> HIDE DEF n, bs, from
  <2>4. Runs(CrtGraph(C), from, q.put \o EscapedQuote(n), Inside(args, Append(t, c), 0))
    BY <1>1, <1>2, <2>2, <2>3, RunsConcat
  <2>5. RenderChar(q, c).put = q.put \o EscapedQuote(n) /\ RenderChar(q, c).run = 0
    BY <2>1
  <2> QED
    BY <1>4, <1>5, <2>4, <2>5 DEF Reads, from
<1>8. CASE c \notin {"backslash", "quote"}
  <2>1. RenderChar(q, c) = [put |-> Append(q.put \o bs, c), run |-> 0]
    BY <1>8, RenderArms
  <2>2. Runs(CrtGraph(C), Inside(args, w, 0), bs, Inside(args, w, n))
    BY <1>1, InsideCounts
  <2>3. Inside(args, w, n) \in CrtStates(C)
    BY <1>1, CrtStateTypes
  <2>4. CrtChar(Inside(args, w, n), c) = Inside(args, Append(t, c), 0)
    <3>1. c # "backslash" /\ c # "quote"
      BY <1>8
    <3>2. CrtChar(Inside(args, w, n), c)
            = Inside(args, Append(w \o bs, c), 0)
      <4> HIDE DEF n, bs
      <4>1. CrtChar(Inside(args, w, n), c)
              = Inside(args, Append(w \o Repeat("backslash", n), c), 0)
        BY <1>1, <3>1, KeptInside
      <4> QED
        BY <4>1 DEF bs
    <3> QED
      BY <1>2, <3>2
  <2>5. Runs(CrtGraph(C), Inside(args, w, n), <<c>>, Inside(args, Append(t, c), 0))
    BY <2>3, <2>4, CrtOne
  <2> HIDE DEF n, bs, from
  <2>6. q.put \o bs \in Seq(C) /\ <<c>> \in Seq(C)
    BY <1>1, <1>3, ConcatLaws
  <2>7. Runs(CrtGraph(C), from, q.put \o bs, Inside(args, w, n))
    BY <1>1, <1>2, <1>3, <2>2, RunsConcat
  <2>8. Runs(CrtGraph(C), from, (q.put \o bs) \o <<c>>, Inside(args, Append(t, c), 0))
    BY <2>5, <2>6, <2>7, RunsConcat
  <2>9. (q.put \o bs) \o <<c>> = Append(q.put \o bs, c)
    BY <2>6, ConcatOne
  <2>10. RenderChar(q, c).put = Append(q.put \o bs, c) /\ RenderChar(q, c).run = 0
    BY <2>1
  <2> QED
    BY <1>4, <1>5, <2>8, <2>9, <2>10 DEF Reads, from
<1> QED
  BY <1>6, <1>7, <1>8

\* What the loop put for a token reads as the token but for the run held back.
LEMMA RenderedReads ==
  ASSUME NEW C, "backslash" \in C, "quote" \in C, NEW args \in Seq(Seq(C)),
         NEW token \in Seq(C), NEW r, r = FoldLeft(RenderChar, [put |-> <<>>, run |-> 0], token)
  PROVE  r \in RenderStates(C) /\ Reads(C, args, r, token)
<1> DEFINE b == [put |-> <<>>, run |-> 0]
           n == Len(token)
<1>1. n \in Nat /\ \A k \in 1 .. n : token[k] \in C
  OBVIOUS
<1>2. b \in RenderStates(C)
  BY DEF RenderStates
<1>3. Reads(C, args, b, <<>>)
  <2>1. Repeat("backslash", 0) = <<>>
    BY RepeatGrows, Zenon
  <2>2. <<>> \in Seq(C) /\ <<>> \o <<>> = <<>> /\ b.put = <<>> /\ b.run = 0
    OBVIOUS
  <2>3. Runs(CrtGraph(C), Inside(args, <<>>, 0), <<>>, Inside(args, <<>>, 0))
    BY RunsEmpty
  <2> HIDE DEF b
  <2>4. <<>> \o Repeat("backslash", b.run) = <<>>
    BY <2>1, <2>2
  <2> QED
    BY <2>2, <2>3, <2>4 DEF Reads
<1>4. Runs(RenderGraph(C), b, token, r)
  BY <1>2, RenderFoldRuns
<1> HIDE DEF b
<1>5. PICK F : /\ F[0] = b /\ F[n] = r
               /\ \A k \in 1 .. n : F[k] = RenderGraph(C)[<<F[k - 1], token[k]>>]
  BY <1>4 DEF Runs
<1> DEFINE Good(k) == /\ F[k] \in RenderStates(C)
                      /\ Reads(C, args, F[k], SubSeq(token, 1, k))
           S == {k \in Nat : k <= n => Good(k)}
<1> HIDE DEF n, Good
<1>6. 0 \in S
  <2>1. SubSeq(token, 1, 0) = <<>>
    OBVIOUS
  <2>2. Good(0)
    BY <1>2, <1>3, <1>5, <2>1 DEF Good
  <2> QED
    BY <2>2
<1>7. ASSUME NEW k \in Nat, k \in S PROVE k + 1 \in S
  <2> SUFFICES ASSUME k + 1 <= n PROVE Good(k + 1)
    OBVIOUS
  <2> DEFINE t == SubSeq(token, 1, k)
             c == token[k + 1]
             q == F[k]
  <2>1. k + 1 \in 1 .. n /\ (k + 1) - 1 = k /\ k <= n
    BY <1>1
  <2>2. q \in RenderStates(C) /\ Reads(C, args, q, t)
    BY <1>7, <2>1 DEF Good
  <2>3. t \in Seq(C) /\ c \in C /\ SubSeq(token, 1, k + 1) = Append(t, c)
    BY <2>1 DEF n
  <2>4. F[k + 1] = RenderGraph(C)[<<q, c>>]
    BY <1>5, <2>1
  <2> HIDE DEF t, c, q
  <2>5. F[k + 1] = RenderChar(q, c) /\ F[k + 1] \in RenderStates(C)
    <3>1. RenderGraph(C)[<<q, c>>] \in RenderStates(C)
      BY <2>2, <2>3, RenderStepTypes DEF Steps
    <3> QED
      BY <2>2, <2>3, <2>4, <3>1 DEF RenderGraph
  <2>6. Reads(C, args, RenderChar(q, c), Append(t, c))
    BY <2>2, <2>3, RenderStepReads
  <2> QED
    BY <2>3, <2>5, <2>6 DEF Good
<1> HIDE DEF S
<1>8. n \in S
  BY <1>1, <1>6, <1>7, NatSetInduction
<1>9. Good(n)
  BY <1>1, <1>8 DEF S
<1>10. SubSeq(token, 1, n) = token
  BY DEF n
<1> QED
  BY <1>5, <1>9, <1>10 DEF Good

\* From between arguments, a quote opens one.
LEMMA OpeningQuote ==
  ASSUME NEW args
  PROVE  CrtChar(Between(args), "quote") = Inside(args, <<>>, 0)
<1>1. ~(0 % 2 = 1) /\ 0 % 2 = 0 /\ 0 \div 2 = 0
  OBVIOUS
<1>2. Repeat("backslash", 0) = <<>>
  BY RepeatGrows, Zenon
<1>3. <<>> \o <<>> = <<>>
  OBVIOUS
<1>4. CrtChar(Crt(args, <<>>, 0, FALSE, FALSE, FALSE), "quote")
        = Within(args, <<>> \o Repeat("backslash", 0 \div 2), 0, TRUE)
  BY <1>1, CrtOpens
<1> QED
  BY <1>1, <1>2, <1>3, <1>4 DEF Between, Inside

\* A quote behind an even run inside quotes closes it.
LEMMA ClosingQuote ==
  ASSUME NEW args, NEW word, NEW n \in Nat
  PROVE  CrtChar(Inside(args, word, 2 * n), "quote")
           = Behind(args, word \o Repeat("backslash", n))
<1> DEFINE m == 2 * n
<1>1. m \in Nat /\ m % 2 = 0 /\ m \div 2 = n
  OBVIOUS
<1> HIDE DEF m
<1>2. CrtChar(Crt(args, word, m, TRUE, TRUE, FALSE), "quote")
        = Behind(args, word \o Repeat("backslash", m \div 2))
  BY <1>1, CrtCloses
<1>3. Inside(args, word, m) = Crt(args, word, m, TRUE, TRUE, FALSE)
  BY DEF Inside, Within
<1> QED
  BY <1>1, <1>2, <1>3 DEF m

\* A token in quotes reads as the token, and its blank ends it.
LEMMA QuotedTokenRuns ==
  ASSUME NEW C, "backslash" \in C, "quote" \in C, NEW args \in Seq(Seq(C)),
         NEW token \in Seq(C), NEW r, r = FoldLeft(RenderChar, [put |-> <<>>, run |-> 0], token)
  PROVE  LET text == <<"quote">> \o r.put \o Repeat("backslash", 2 * r.run) \o <<"quote">>
         IN  text \in Seq(C) /\ Runs(CrtGraph(C), Between(args), text, Behind(args, token))
<1>1. r \in RenderStates(C) /\ Reads(C, args, r, token)
  BY RenderedReads
<1>2. PICK w \in Seq(C) :
        /\ w \o Repeat("backslash", r.run) = token
        /\ Runs(CrtGraph(C), Inside(args, <<>>, 0), r.put, Inside(args, w, 0))
  BY <1>1 DEF Reads
<1> DEFINE n == r.run
           put == r.put
           bs == Repeat("backslash", 2 * n)
<1>3. n \in Nat /\ 2 * n \in Nat /\ put \in Seq(C)
  <2>1. n \in Nat /\ put \in Seq(C)
    BY <1>1 DEF RenderStates
  <2> HIDE DEF n
  <2> QED
    BY <2>1
<1>4. PICK qu \in Seq(C) : qu = <<"quote">>
  <2>1. <<"quote">> \in Seq(C)
    OBVIOUS
  <2> QED
    BY <2>1
<1>5. bs \in Seq(C)
  BY <1>3, RepeatTypes
<1>6. Runs(CrtGraph(C), Between(args), qu, Inside(args, <<>>, 0))
  <2>1. Between(args) \in CrtStates(C)
    <3>1. <<>> \in Seq(C) /\ 0 \in Nat
      OBVIOUS
    <3> QED
      BY <3>1, CrtStateTypes
  <2> QED
    BY <1>4, <2>1, OpeningQuote, CrtOne
<1>7. Runs(CrtGraph(C), Inside(args, w, 0), bs, Inside(args, w, 2 * n))
  BY <1>3, InsideCounts
<1>8. Runs(CrtGraph(C), Inside(args, w, 2 * n), qu, Behind(args, token))
  <2>1. Inside(args, w, 2 * n) \in CrtStates(C)
    BY <1>3, CrtStateTypes
  <2>2. CrtChar(Inside(args, w, 2 * n), "quote") = Behind(args, token)
    <3>1. CrtChar(Inside(args, w, 2 * n), "quote") = Behind(args, w \o Repeat("backslash", n))
      BY <1>3, ClosingQuote
    <3> QED
      BY <1>2, <3>1
  <2> QED
    BY <1>4, <2>1, <2>2, CrtOne
<1> HIDE DEF n, put, bs
<1> DEFINE left == qu \o put
           most == left \o bs
<1>9. left \in Seq(C) /\ most \in Seq(C) /\ most \o qu \in Seq(C)
  BY <1>3, <1>5
<1>10. Runs(CrtGraph(C), Between(args), left, Inside(args, w, 0))
  BY <1>2, <1>3, <1>6, RunsConcat DEF put
<1> HIDE DEF left
<1>11. Runs(CrtGraph(C), Between(args), most, Inside(args, w, 2 * n))
  BY <1>5, <1>7, <1>9, <1>10, RunsConcat
<1> HIDE DEF most
<1>12. Runs(CrtGraph(C), Between(args), most \o qu, Behind(args, token))
  BY <1>8, <1>9, <1>11, RunsConcat
<1> QED
  BY <1>4, <1>9, <1>12 DEF put, bs, n, left, most

\* A prefix t of a token that needs no quotes has been read: kept or counted.
RawRead(C, args, q, t) ==
  \E w \in Seq(C), n \in Nat :
    /\ w \o Repeat("backslash", n) = t
    /\ q = IF t = <<>> THEN Between(args) ELSE Outside(args, w, n)

\* One more character of it.
LEMMA RawStepReads ==
  ASSUME NEW C, "backslash" \in C, NEW args \in Seq(Seq(C)), NEW q, NEW t \in Seq(C),
         NEW c \in C, c # "quote", c \notin Blanks, RawRead(C, args, q, t)
  PROVE  q \in CrtStates(C) /\ RawRead(C, args, CrtChar(q, c), Append(t, c))
<1>1. PICK w \in Seq(C), n \in Nat :
        /\ w \o Repeat("backslash", n) = t
        /\ q = IF t = <<>> THEN Between(args) ELSE Outside(args, w, n)
  BY DEF RawRead
<1> DEFINE bs == Repeat("backslash", n)
<1>2. bs \in Seq(C) /\ Len(bs) = n
  BY RepeatTypes
<1>3. Append(t, c) \in Seq(C) /\ Append(t, c) # <<>>
  <2> DEFINE p == Append(t, c)
  <2>1. Len(p) = Len(t) + 1 /\ Len(t) \in Nat
    OBVIOUS
  <2>2. Len(<<>>) = 0
    OBVIOUS
  <2> HIDE DEF p
  <2>3. p # <<>>
    BY <2>1, <2>2
  <2>4. Append(t, c) \in Seq(C)
    OBVIOUS
  <2> QED
    BY <2>3, <2>4 DEF p
<1>4. q \in CrtStates(C)
  <2>1. <<>> \in Seq(C)
    OBVIOUS
  <2> QED
    BY <1>1, <2>1, CrtStateTypes
<1> SUFFICES RawRead(C, args, CrtChar(q, c), Append(t, c))
  BY <1>4
<1>5. t = <<>> => w = <<>> /\ n = 0
  <2> SUFFICES ASSUME t = <<>> PROVE w = <<>> /\ n = 0
    OBVIOUS
  <2> HIDE DEF bs
  <2>1. Len(w \o bs) = 0 /\ Len(w \o bs) = Len(w) + n /\ Len(w) \in Nat
    BY <1>1, <1>2 DEF bs
  <2> QED
    BY <2>1
<1>6. PICK open \in BOOLEAN : q = Crt(args, w, n, FALSE, open, FALSE)
  <2>1. CASE t = <<>>
    BY <1>1, <1>5, <2>1 DEF Between
  <2>2. CASE t # <<>>
    BY <1>1, <2>2 DEF Outside, Within
  <2> QED
    BY <2>1, <2>2
<1>7. CASE c = "backslash"
  <2>1. CrtChar(q, c) = Outside(args, w, n + 1)
    <3>1. CrtChar(q, "backslash") = Within(args, w, n + 1, FALSE)
      BY <1>6, CrtBackslash
    <3> QED
      BY <1>7, <3>1 DEF Outside
  <2>2. w \o Repeat("backslash", n + 1) = Append(t, c)
    <3>1. Repeat("backslash", n + 1) = bs \o <<"backslash">>
      BY RepeatGrows, Zenon
    <3>2. PICK u \in Seq(C) : u = <<c>>
      <4>1. <<c>> \in Seq(C)
        OBVIOUS
      <4> QED
        BY <4>1
    <3>3. w \o (bs \o u) = (w \o bs) \o u
      <4> HIDE DEF bs
      <4> QED
        BY <1>2
    <3>4. t \o u = Append(t, c)
      BY <3>2, ConcatOne
    <3> QED
      BY <1>1, <1>7, <3>1, <3>2, <3>3, <3>4
  <2>3. n + 1 \in Nat
    OBVIOUS
  <2> QED
    BY <1>3, <2>1, <2>2, <2>3 DEF RawRead
<1>8. CASE c # "backslash"
  <2>1. CrtChar(q, c) = Outside(args, Append(t, c), 0)
    <3>1. CrtChar(Crt(args, w, n, FALSE, open, FALSE), c)
            = Outside(args, Append(w \o Repeat("backslash", n), c), 0)
      BY <1>8 DEF CrtChar, Crt, Within, Outside, Blanks
    <3> QED
      BY <1>1, <1>6, <3>1
  <2>2. Append(t, c) \o Repeat("backslash", 0) = Append(t, c)
    <3>1. Repeat("backslash", 0) = <<>>
      BY RepeatGrows, Zenon
    <3> QED
      BY <1>3, <3>1, ConcatLaws
  <2> QED
    BY <1>3, <2>1, <2>2 DEF RawRead
<1> QED
  BY <1>7, <1>8

\* A token without a blank or a quote reads as itself, and its blank ends it.
LEMMA RawTokenRuns ==
  ASSUME NEW C, "backslash" \in C, "space" \in C, NEW args \in Seq(Seq(C)),
         NEW token \in Seq(C), token # <<>>,
         \A k \in DOMAIN token : token[k] \notin Blanks \cup {"quote"}
  PROVE  \E q \in CrtStates(C) :
           /\ Runs(CrtGraph(C), Between(args), token, q)
           /\ CrtChar(q, "space") = Between(Append(args, token))
<1> DEFINE n == Len(token)
           Good(k) == \E q : /\ RawRead(C, args, q, SubSeq(token, 1, k))
                             /\ Runs(CrtGraph(C), Between(args), SubSeq(token, 1, k), q)
           S == {k \in Nat : k <= n => Good(k)}
<1>1. /\ n \in Nat
      /\ \A k \in 1 .. n : token[k] \in C /\ token[k] # "quote" /\ token[k] \notin Blanks
  OBVIOUS
<1> HIDE DEF n, Good
<1>2. 0 \in S
  <2>1. SubSeq(token, 1, 0) = <<>> /\ <<>> \in Seq(C) /\ <<>> \o <<>> = <<>>
    OBVIOUS
  <2>2. Repeat("backslash", 0) = <<>>
    BY RepeatGrows, Zenon
  <2>3. RawRead(C, args, Between(args), <<>>)
    BY <2>1, <2>2 DEF RawRead
  <2>4. Runs(CrtGraph(C), Between(args), <<>>, Between(args))
    BY RunsEmpty
  <2>5. Good(0)
    BY <2>1, <2>3, <2>4 DEF Good
  <2> QED
    BY <2>5
<1>3. ASSUME NEW k \in Nat, k \in S PROVE k + 1 \in S
  <2> SUFFICES ASSUME k + 1 <= n PROVE Good(k + 1)
    OBVIOUS
  <2> DEFINE t == SubSeq(token, 1, k)
             c == token[k + 1]
  <2>1. k + 1 \in 1 .. n /\ k <= n
    BY <1>1
  <2>2. PICK q : RawRead(C, args, q, t) /\ Runs(CrtGraph(C), Between(args), t, q)
    BY <1>3, <2>1 DEF Good
  <2>3. t \in Seq(C) /\ SubSeq(token, 1, k + 1) = Append(t, c)
    BY <2>1 DEF n
  <2>4. c \in C /\ c # "quote" /\ c \notin Blanks
    BY <1>1, <2>1
  <2> HIDE DEF t, c
  <2>5. q \in CrtStates(C) /\ RawRead(C, args, CrtChar(q, c), Append(t, c))
    BY <2>2, <2>3, <2>4, RawStepReads
  <2>6. Runs(CrtGraph(C), q, <<c>>, CrtChar(q, c))
    BY <2>4, <2>5, CrtOne
  <2>7. <<c>> \in Seq(C) /\ t \o <<c>> = Append(t, c)
    BY <2>3, <2>4, ConcatOne
  <2>8. Runs(CrtGraph(C), Between(args), t \o <<c>>, CrtChar(q, c))
    BY <2>2, <2>3, <2>6, <2>7, RunsConcat
  <2> QED
    BY <2>3, <2>5, <2>7, <2>8 DEF Good
<1> HIDE DEF S
<1>4. n \in S
  BY <1>1, <1>2, <1>3, NatSetInduction
<1>5. SubSeq(token, 1, n) = token
  BY DEF n
<1>6. PICK q : RawRead(C, args, q, token) /\ Runs(CrtGraph(C), Between(args), token, q)
  <2>1. n <= n /\ Good(n)
    BY <1>1, <1>4 DEF S
  <2> QED
    BY <1>5, <2>1 DEF Good
<1>7. PICK w \in Seq(C), m \in Nat :
        w \o Repeat("backslash", m) = token /\ q = Outside(args, w, m)
  BY <1>6 DEF RawRead
<1>8. q \in CrtStates(C)
  BY <1>7, CrtStateTypes
<1>9. CrtChar(Crt(args, w, m, FALSE, TRUE, FALSE), "space")
        = Between(Append(args, w \o Repeat("backslash", m)))
  BY DEF CrtChar, Crt, Between, Blanks
<1>10. CrtChar(q, "space") = Between(Append(args, token))
  BY <1>7, <1>9 DEF Outside, Within
<1> QED
  BY <1>6, <1>8, <1>10

\* Every token, rendered, reads as itself, and its blank ends it.
LEMMA TokenRuns ==
  ASSUME NEW C, "backslash" \in C, "quote" \in C, "space" \in C,
         NEW args \in Seq(Seq(C)), NEW token \in Seq(C)
  PROVE  /\ RenderToken(token) \in Seq(C)
         /\ \E q \in CrtStates(C) :
              /\ Runs(CrtGraph(C), Between(args), RenderToken(token), q)
              /\ CrtChar(q, "space") = Between(Append(args, token))
<1> DEFINE raw == /\ token # <<>>
                  /\ \A k \in DOMAIN token : token[k] \notin Blanks \cup {"quote"}
<1>1. CASE raw
  <2>1. RenderToken(token) = token
    BY <1>1 DEF RenderToken
  <2> QED
    BY <1>1, <2>1, RawTokenRuns
<1>2. CASE ~raw
  <2>1. PICK r : r = FoldLeft(RenderChar, [put |-> <<>>, run |-> 0], token)
    OBVIOUS
  <2> DEFINE text == <<"quote">> \o r.put \o Repeat("backslash", 2 * r.run) \o <<"quote">>
  <2>2. RenderToken(token) = text
    BY <1>2, <2>1, Zenon DEF RenderToken
  <2>3. text \in Seq(C) /\ Runs(CrtGraph(C), Between(args), text, Behind(args, token))
    BY <2>1, QuotedTokenRuns
  <2>4. CrtChar(Crt(args, token, 0, FALSE, TRUE, TRUE), "space")
          = Between(Append(args, token \o Repeat("backslash", 0)))
    BY DEF CrtChar, Crt, Between, Blanks
  <2>5. token \o Repeat("backslash", 0) = token
    <3>1. Repeat("backslash", 0) = <<>>
      BY RepeatGrows, Zenon
    <3> QED
      BY <3>1, ConcatLaws
  <2>6. CrtChar(Behind(args, token), "space") = Between(Append(args, token))
    BY <2>4, <2>5 DEF Behind
  <2>7. Behind(args, token) \in CrtStates(C)
    <3>1. 0 \in Nat
      OBVIOUS
    <3> QED
      BY <3>1, CrtStateTypes
  <2> HIDE DEF text
  <2> QED
    BY <2>2, <2>3, <2>6, <2>7
<1> QED
  BY <1>1, <1>2

\* What follows the program name reads as the arguments.
LEMMA TailRuns ==
  ASSUME NEW C, "backslash" \in C, "quote" \in C, "space" \in C,
         NEW args \in Seq(Seq(C)), NEW tail,
         tail = FlattenSeq([k \in DOMAIN args |-> <<"space">> \o RenderToken(args[k])])
  PROVE  /\ tail \in Seq(C)
         /\ \E q \in CrtStates(C) :
              /\ Runs(CrtGraph(C), Between(<<>>), tail, q)
              /\ CrtChar(q, "space") = Between(args)
<1> DEFINE n == Len(args)
           seqs == [k \in DOMAIN args |-> <<"space">> \o RenderToken(args[k])]
<1>1. n \in Nat /\ DOMAIN args = 1 .. n /\ \A k \in 1 .. n : args[k] \in Seq(C)
  OBVIOUS
<1>2. PICK blank \in Seq(C) : blank = <<"space">>
  <2>1. <<"space">> \in Seq(C)
    OBVIOUS
  <2> QED
    BY <2>1
<1>3. ASSUME NEW k \in 1 .. n
      PROVE  seqs[k] = blank \o RenderToken(args[k]) /\ seqs[k] \in Seq(C)
  <2>1. RenderToken(args[k]) \in Seq(C)
    <3>1. args[k] \in Seq(C) /\ <<>> \in Seq(Seq(C))
      BY <1>1
    <3> QED
      BY <3>1, TokenRuns
  <2>2. seqs[k] = blank \o RenderToken(args[k])
    BY <1>1, <1>2
  <2> HIDE DEF seqs
  <2> QED
    BY <2>1, <2>2
<1>4. seqs \in Seq(Seq(C)) /\ Len(seqs) = n
  <2>1. seqs \in [1 .. n -> Seq(C)]
    BY <1>1, <1>3
  <2> HIDE DEF seqs, n
  <2> QED
    BY <1>1, <2>1
<1> HIDE DEF seqs
<1>5. PICK f : Joins(f, seqs, C) /\ tail = f[n]
  BY <1>4, FlattenJoins DEF seqs
<1> DEFINE Good(k) == \E q \in CrtStates(C) :
                        /\ Runs(CrtGraph(C), Between(<<>>), f[k], q)
                        /\ CrtChar(q, "space") = Between(SubSeq(args, 1, k))
           S == {k \in Nat : k <= n => Good(k)}
<1> HIDE DEF n, Good
<1>6. 0 \in S
  <2>1. SubSeq(args, 1, 0) = <<>> /\ <<>> \in Seq(Seq(C)) /\ <<>> \in Seq(C) /\ 0 \in Nat
    OBVIOUS
  <2>2. f[0] = <<>>
    BY <1>5 DEF Joins
  <2>3. Between(<<>>) \in CrtStates(C)
    BY <2>1, CrtStateTypes
  <2>4. CrtChar(Crt(<<>>, <<>>, 0, FALSE, FALSE, FALSE), "space")
          = Crt(<<>>, <<>>, 0, FALSE, FALSE, FALSE)
    BY DEF CrtChar, Crt, Blanks
  <2>5. Good(0)
    BY <2>1, <2>2, <2>3, <2>4, RunsEmpty DEF Good, Between
  <2> QED
    BY <2>5
<1>7. ASSUME NEW k \in Nat, k \in S PROVE k + 1 \in S
  <2> SUFFICES ASSUME k + 1 <= n PROVE Good(k + 1)
    OBVIOUS
  <2> DEFINE before == SubSeq(args, 1, k)
             token == args[k + 1]
  <2>1. k + 1 \in 1 .. n /\ k \in 0 .. n - 1 /\ k <= n
    BY <1>1
  <2>2. PICK q \in CrtStates(C) : /\ Runs(CrtGraph(C), Between(<<>>), f[k], q)
                                  /\ CrtChar(q, "space") = Between(before)
    BY <1>7, <2>1 DEF Good
  <2>3. before \in Seq(Seq(C)) /\ SubSeq(args, 1, k + 1) = Append(before, token)
    BY <2>1 DEF n
  <2>4. token \in Seq(C)
    BY <1>1, <2>1
  <2>5. f[k + 1] = f[k] \o (blank \o RenderToken(token)) /\ f[k] \in Seq(C)
    BY <1>3, <1>4, <1>5, <2>1 DEF Joins
  <2> HIDE DEF before, token
  <2>6. RenderToken(token) \in Seq(C) /\ blank \o RenderToken(token) \in Seq(C)
    <3>1. RenderToken(token) \in Seq(C)
      BY <2>3, <2>4, TokenRuns
    <3> QED
      BY <3>1
  <2>7. PICK r \in CrtStates(C) :
          /\ Runs(CrtGraph(C), Between(before), RenderToken(token), r)
          /\ CrtChar(r, "space") = Between(Append(before, token))
    BY <2>3, <2>4, TokenRuns
  <2>8. Runs(CrtGraph(C), q, blank, Between(before))
    BY <1>2, <2>2, CrtOne
  <2>9. Runs(CrtGraph(C), q, blank \o RenderToken(token), r)
    BY <2>6, <2>7, <2>8, RunsConcat
  <2>10. Runs(CrtGraph(C), Between(<<>>), f[k] \o (blank \o RenderToken(token)), r)
    BY <2>2, <2>5, <2>6, <2>9, RunsConcat
  <2> QED
    BY <2>3, <2>5, <2>7, <2>10 DEF Good
<1> HIDE DEF S
<1>8. n \in S
  BY <1>1, <1>6, <1>7, NatSetInduction
<1>9. SubSeq(args, 1, n) = args
  BY DEF n
<1>10. f[n] \in Seq(C)
  BY <1>1, <1>5 DEF Joins
<1>11. Good(n)
  <2>1. n <= n
    BY <1>1
  <2> QED
    BY <1>8, <2>1 DEF S
<1> QED
  BY <1>5, <1>9, <1>10, <1>11 DEF Good

\* relay_build_command_line writes what the C runtime splits into the program
\* name and the arguments, whatever is in the arguments, for every program name
\* without a quote.
LEMMA ArgvOfCommandLine ==
  ASSUME NEW C, "backslash" \in C, "quote" \in C, "space" \in C,
         NEW exe \in Seq(C), \A k \in DOMAIN exe : exe[k] # "quote",
         NEW args \in Seq(Seq(C))
  PROVE  CrtArgv(CommandLine(exe, args)) = <<exe>> \o args
<1>1. PICK tail : tail = FlattenSeq([k \in DOMAIN args |->
                                       <<"space">> \o RenderToken(args[k])])
  OBVIOUS
<1>2. /\ tail \in Seq(C)
      /\ \E q \in CrtStates(C) : /\ Runs(CrtGraph(C), Between(<<>>), tail, q)
                                 /\ CrtChar(q, "space") = Between(args)
  BY <1>1, TailRuns
<1>3. PICK q \in CrtStates(C) : /\ Runs(CrtGraph(C), Between(<<>>), tail, q)
                                /\ CrtChar(q, "space") = Between(args)
  BY <1>2
<1> DEFINE text == <<"quote">> \o exe \o <<"quote">> \o tail
           m == Len(exe)
           name == CHOOSE n \in 2 .. Len(text) :
                     text[n] = "quote" /\ \A j \in 2 .. n - 1 : text[j] # "quote"
           b == [args |-> <<>>, word |-> <<>>, run |-> 0, quoted |-> FALSE,
                 open |-> FALSE, closed |-> FALSE]
           rest == FoldLeft(CrtChar, b, Append(SubSeq(text, name + 1, Len(text)), "space"))
<1>4. CommandLine(exe, args) = text
  BY <1>1, Zenon DEF CommandLine
<1>5. CrtArgv(text) = <<SubSeq(text, 2, name - 1)>> \o rest.args
  BY Zenon DEF CrtArgv
<1> HIDE DEF rest
<1>6. /\ m \in Nat /\ Len(tail) \in Nat /\ text \in Seq(C)
      /\ Len(text) = m + 2 + Len(tail)
  BY <1>2
<1>7. /\ text[m + 2] = "quote"
      /\ \A j \in 2 .. m + 1 : text[j] = exe[j - 1]
      /\ \A j \in 1 .. Len(tail) : text[m + 2 + j] = tail[j]
  OBVIOUS
<1> HIDE DEF text, m
<1>8. name = m + 2
  <2> DEFINE N(n) == text[n] = "quote" /\ \A j \in 2 .. n - 1 : text[j] # "quote"
  <2>1. m + 2 \in 2 .. Len(text) /\ (m + 2) - 1 = m + 1
    BY <1>6
  <2>2. \A j \in 2 .. m + 1 : text[j] # "quote"
    <3> SUFFICES ASSUME NEW j \in 2 .. m + 1 PROVE text[j] # "quote"
      OBVIOUS
    <3>1. j - 1 \in DOMAIN exe
      BY <1>6 DEF m
    <3> QED
      BY <1>7, <3>1
  <2>3. N(m + 2)
    BY <1>7, <2>1, <2>2
  <2>4. ASSUME NEW n \in 2 .. Len(text), N(n) PROVE n = m + 2
    <3>1. ~(n < m + 2)
      <4> SUFFICES ASSUME n < m + 2 PROVE FALSE
        OBVIOUS
      <4>1. n \in 2 .. m + 1
        BY <1>6
      <4> QED
        BY <2>2, <2>4, <4>1
    <3>2. ~(m + 2 < n)
      <4> SUFFICES ASSUME m + 2 < n PROVE FALSE
        OBVIOUS
      <4>1. m + 2 \in 2 .. n - 1
        BY <1>6
      <4> QED
        BY <1>7, <2>4, <4>1
    <3> QED
      BY <1>6, <3>1, <3>2
  <2> QED
    BY <2>1, <2>3, <2>4, Zenon
<1> HIDE DEF name
<1>9. SubSeq(text, 2, name - 1) = exe
  <2> DEFINE p == SubSeq(text, 2, m + 1)
  <2>1. p \in Seq(C) /\ Len(p) = m /\ \A k \in 1 .. m : p[k] = text[k + 1]
    BY <1>6
  <2>2. \A k \in 1 .. m : p[k] = exe[k]
    <3> SUFFICES ASSUME NEW k \in 1 .. m PROVE p[k] = exe[k]
      OBVIOUS
    <3>1. k + 1 \in 2 .. m + 1 /\ (k + 1) - 1 = k
      BY <1>6
    <3> HIDE DEF p
    <3> QED
      BY <1>7, <2>1, <3>1
  <2> HIDE DEF p
  <2>3. p = exe
    BY <2>1, <2>2 DEF m
  <2>4. name - 1 = m + 1
    BY <1>6, <1>8
  <2> QED
    BY <2>3, <2>4 DEF p
<1>10. SubSeq(text, name + 1, Len(text)) = tail
  <2> DEFINE p == SubSeq(text, m + 3, Len(text))
  <2>1. p \in Seq(C) /\ Len(p) = Len(tail)
        /\ \A k \in 1 .. Len(tail) : p[k] = text[k + m + 2]
    BY <1>6
  <2>2. \A k \in 1 .. Len(tail) : p[k] = tail[k]
    <3> SUFFICES ASSUME NEW k \in 1 .. Len(tail) PROVE p[k] = tail[k]
      OBVIOUS
    <3>1. k + m + 2 = m + 2 + k
      BY <1>6
    <3> HIDE DEF p
    <3> QED
      BY <1>7, <2>1, <3>1
  <2> HIDE DEF p
  <2>3. p = tail
    BY <1>2, <2>1, <2>2
  <2>4. name + 1 = m + 3
    BY <1>6, <1>8
  <2> QED
    BY <2>3, <2>4 DEF p
<1>11. Runs(CrtGraph(C), b, Append(tail, "space"), Between(args))
  <2>1. Runs(CrtGraph(C), q, <<"space">>, Between(args))
    BY <1>3, CrtOne
  <2>2. <<"space">> \in Seq(C)
    OBVIOUS
  <2>3. Runs(CrtGraph(C), Between(<<>>), tail \o <<"space">>, Between(args))
    BY <1>2, <1>3, <2>1, <2>2, RunsConcat
  <2>4. tail \o <<"space">> = Append(tail, "space")
    BY <1>2, ConcatOne
  <2> QED
    BY <2>3, <2>4 DEF Between, Crt
<1>12. b \in CrtStates(C)
  BY DEF CrtStates
<1>13. Append(tail, "space") \in Seq(C)
  BY <1>2
<1>14. Runs(CrtGraph(C), b, Append(tail, "space"), rest)
  <2> HIDE DEF b
  <2> QED
    BY <1>10, <1>12, <1>13, CrtFoldRuns DEF rest
<1>15. rest.args = args
  <2>1. rest = Between(args)
    <3> HIDE DEF b
    <3> QED
      BY <1>11, <1>13, <1>14, RunsUnique
  <2> QED
    BY <2>1 DEF Between, Crt
<1> QED
  BY <1>4, <1>5, <1>9, <1>15

-------------------------------------------------------------------------------
(* Paths.                                                                  *)

\* LastOf is the largest position of those characters, or 0.
LEMMA LastOfLargest ==
  ASSUME NEW C, NEW s \in Seq(C), NEW chars
  PROVE  LET at == {k \in DOMAIN s : s[k] \in chars}
         IN  IF at = {} THEN LastOf(s, chars) = 0
             ELSE LastOf(s, chars) \in at /\ \A m \in at : m <= LastOf(s, chars)
<1> DEFINE at == {k \in DOMAIN s : s[k] \in chars}
<1>1. Len(s) \in Nat /\ at \in SUBSET (1 .. Len(s))
  OBVIOUS
<1>2. LastOf(s, chars) = IF at = {} THEN 0 ELSE CHOOSE k \in at : \A m \in at : m <= k
  BY Zenon DEF LastOf
<1> HIDE DEF at
<1>3. CASE at = {}
  BY <1>2, <1>3 DEF at
<1>4. CASE at # {}
  <2>1. PICK k \in at : \A m \in at : k >= m
    BY <1>1, <1>4, LargestExists
  <2>2. \A m \in at : m <= k
    BY <1>1, <2>1
  <2>3. LastOf(s, chars) \in at /\ \A m \in at : m <= LastOf(s, chars)
    BY <1>2, <1>4, <2>2, Zenon
  <2> QED
    BY <1>4, <2>3 DEF at
<1> QED
  BY <1>3, <1>4

\* What is left of a path is a part of it.
LEMMA StripTypes ==
  ASSUME NEW C, NEW path \in Seq(C)
  PROVE  /\ StripTrailingSeps(path) \in Seq(C)
         /\ path = <<>> => StripTrailingSeps(path) = <<>>
<1> DEFINE n == LastOf(path, ToSet(path) \ Separators)
<1>1. n \in 0 .. Len(path)
  <2> DEFINE at == {k \in DOMAIN path : path[k] \in ToSet(path) \ Separators}
  <2>1. IF at = {} THEN n = 0 ELSE n \in at
    <3> HIDE DEF n
    <3> QED
      BY LastOfLargest DEF n
  <2>2. at \in SUBSET (1 .. Len(path)) /\ Len(path) \in Nat
    OBVIOUS
  <2> HIDE DEF at, n
  <2>3. at = {} => n \in 0 .. Len(path)
    BY <2>1, <2>2
  <2>4. at # {} => n \in 0 .. Len(path)
    <3> SUFFICES ASSUME at # {} PROVE n \in 0 .. Len(path)
      OBVIOUS
    <3>1. n \in at
      BY <2>1
    <3>2. n \in 1 .. Len(path)
      BY <2>2, <3>1
    <3> QED
      BY <2>2, <3>2
  <2> QED
    BY <2>3, <2>4
<1> HIDE DEF n
<1>2. SubSeq(path, 1, n) \in Seq(C)
  BY <1>1
<1>3. path = <<>> => SubSeq(path, 1, n) = <<>>
  <2> SUFFICES ASSUME path = <<>> PROVE SubSeq(path, 1, n) = <<>>
    OBVIOUS
  <2>1. Len(path) = 0
    OBVIOUS
  <2>2. n = 0
    BY <1>1, <2>1
  <2> QED
    BY <2>2
<1> QED
  BY <1>2, <1>3 DEF StripTrailingSeps, n

\* The derived game directory is what is left of the last two separators of the
\* path.
LEMMA GameDirIsTwoUp ==
  ASSUME NEW C, NEW game \in Seq(C), NEW size, DeriveGameDir(game, size) # <<>>
  PROVE  LET path == StripTrailingSeps(game)
             seps == {k \in DOMAIN path : path[k] \in Separators}
             dir == DeriveGameDir(game, size)
         IN  /\ dir = SubSeq(path, 1, Len(dir))
             /\ Len(dir) + 1 \in seps
             /\ Cardinality({k \in seps : k > Len(dir)}) = 2
<1> DEFINE p == StripTrailingSeps(game)
           seps == {k \in DOMAIN p : p[k] \in Separators}
           last == LastOf(p, Separators)
           front == SubSeq(p, 1, last - 1)
           prev == LastOf(front, Separators)
           dir == SubSeq(p, 1, prev - 1)
           fseps == {k \in DOMAIN front : front[k] \in Separators}
<1>1. p \in Seq(C)
  BY StripTypes
<1>2. /\ DeriveGameDir(game, size) = dir
      /\ last # 0 /\ prev > 1
  BY Zenon DEF DeriveGameDir
<1> HIDE DEF p
<1>3. last \in seps /\ \A m \in seps : m <= last
  BY <1>1, <1>2, LastOfLargest
<1>4. last \in 1 .. Len(p) /\ Len(p) \in Nat
  BY <1>1, <1>3
<1> HIDE DEF last
<1>5. front \in Seq(C) /\ Len(front) = last - 1 /\ \A k \in 1 .. last - 1 : front[k] = p[k]
  BY <1>1, <1>4
<1> HIDE DEF front
<1>6. prev \in fseps /\ \A m \in fseps : m <= prev
  <2>1. prev # 0
    BY <1>2
  <2> QED
    BY <1>5, <2>1, LastOfLargest
<1>7. prev \in 1 .. last - 1
  BY <1>5, <1>6
<1> HIDE DEF prev
<1>8. prev \in seps
  BY <1>1, <1>4, <1>5, <1>6, <1>7
<1>9. Len(dir) = prev - 1 /\ prev - 1 \in Nat
  BY <1>1, <1>4, <1>7
<1>10. {k \in seps : k > prev - 1} = {prev, last}
  <2>1. ASSUME NEW k \in seps, k > prev - 1 PROVE k = prev \/ k = last
    <3>1. k \in 1 .. Len(p) /\ k <= last
      BY <1>1, <1>3
    <3>2. CASE k < last
      <4>1. k \in 1 .. last - 1
        BY <1>4, <3>1, <3>2
      <4>2. k \in fseps
        BY <1>5, <4>1
      <4> QED
        BY <1>6, <1>7, <2>1, <3>1, <4>2
    <3> QED
      BY <1>4, <3>1, <3>2
  <2>2. last > prev - 1 /\ prev > prev - 1
    BY <1>4, <1>7
  <2> HIDE DEF seps
  <2> QED
    BY <1>3, <1>8, <2>1, <2>2
<1>11. Cardinality({prev, last}) = 2
  <2>1. prev # last
    BY <1>4, <1>7
  <2>2. Cardinality({prev}) = 1 /\ IsFiniteSet({prev}) /\ last \notin {prev}
    BY <2>1, FS_Singleton
  <2>3. Cardinality({prev} \cup {last}) = 2
    <3> DEFINE T == {prev}
    <3> HIDE DEF T
    <3>1. Cardinality(T \cup {last}) = Cardinality(T) + 1
      BY <2>2, FS_AddElement, Zenon DEF T
    <3> QED
      BY <2>2, <3>1 DEF T
  <2>4. {prev} \cup {last} = {prev, last}
    OBVIOUS
  <2> QED
    BY <2>3, <2>4
<1>12. Len(dir) + 1 = prev /\ dir = SubSeq(p, 1, Len(dir))
  BY <1>4, <1>7, <1>9
<1> HIDE DEF dir, seps
<1> QED
  BY <1>2, <1>8, <1>9, <1>10, <1>11, <1>12 DEF p, seps

===============================================================================
