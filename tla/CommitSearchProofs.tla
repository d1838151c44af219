------------------------- MODULE CommitSearchProofs -------------------------
(***************************************************************************)
(* Proofs about the search for a commit: that the loop over the iterator   *)
(* answers as SearchRule says, and what it finds and leaves out, for every *)
(* commit graph.                                                           *)
(***************************************************************************)
EXTENDS CommitSearch, FiniteSetTheorems, SequenceTheorems, WellFoundedInduction, TLAPS

-----------------------------------------------------------------------------
(* Induction, on sets of numbers, and recursion by iteration of a function *)

\* A set that holds 0 and with every number its successor holds every number.
LEMMA Induction ==
    ASSUME NEW S, 0 \in S, \A n \in Nat : n \in S => n + 1 \in S
    PROVE  Nat \subseteq S
<1> DEFINE R == OpToRel(<, Nat)
           U == Nat \ S
<1>1. IsWellFoundedOn(R, Nat)
  BY NatLessThanWellFounded
<1>2. \A x, y \in Nat : x < y => <<x, y>> \in R
  BY DEF OpToRel
<1>3. U \subseteq Nat
  OBVIOUS
<1> SUFFICES ASSUME U # {} PROVE FALSE
  OBVIOUS
<1> HIDE DEF R
<1>4. PICK x \in U : \A y \in U : ~(<<y, x>> \in R)
  <2> HIDE DEF U
  <2> QED
    BY <1>1, <1>3, WFMin
<1>5. x \in Nat /\ x # 0 /\ x - 1 \in Nat /\ x - 1 < x
  OBVIOUS
<1>6. <<x - 1, x>> \in R
  BY <1>2, <1>5
<1>7. x - 1 \in S
  BY <1>4, <1>5, <1>6
<1>8. (x - 1) + 1 \in S
  BY <1>5, <1>7
<1> QED
  BY <1>5, <1>8

\* Every nonempty set of numbers has a least one.
LEMMA LeastNumber ==
    ASSUME NEW T, T \subseteq Nat, T # {}
    PROVE  \E x \in T : \A y \in T : x <= y
<1> DEFINE R == OpToRel(<, Nat)
<1>1. IsWellFoundedOn(R, Nat)
  BY NatLessThanWellFounded
<1>2. \A x, y \in Nat : x < y => <<x, y>> \in R
  BY DEF OpToRel
<1> HIDE DEF R
<1>3. PICK x \in T : \A y \in T : ~(<<y, x>> \in R)
  BY <1>1, WFMin
<1>4. ASSUME NEW y \in T PROVE x <= y
  <2>1. x \in Nat /\ y \in Nat /\ ~(y < x)
    BY <1>2, <1>3
  <2> QED
    BY <2>1
<1> QED
  BY <1>4

\* The iterates of a function from a.
Iterates(f, a, T, w) ==
    /\ w[0] = a
    /\ \A n \in 1..T : w[n] = f[w[n - 1]]

LEMMA IteratesExist ==
    ASSUME NEW S, NEW f \in [S -> S], NEW a \in S, NEW T \in Nat
    PROVE  \E w \in [0..T -> S] : Iterates(f, a, T, w)
<1> DEFINE Good == {m \in Nat : \E w \in [0..m -> S] : Iterates(f, a, m, w)}
<1>1. 0 \in Good
  <2> DEFINE w == [n \in 0..0 |-> a]
  <2>1. w \in [0..0 -> S] /\ Iterates(f, a, 0, w)
    BY DEF Iterates
  <2> QED
    BY <2>1
<1>2. ASSUME NEW n \in Nat, n \in Good PROVE n + 1 \in Good
  <2>1. PICK w \in [0..n -> S] : Iterates(f, a, n, w)
    BY <1>2
  <2> DEFINE v == [m \in 0..(n + 1) |-> IF m = n + 1 THEN f[w[n]] ELSE w[m]]
  <2>2. v \in [0..(n + 1) -> S]
    OBVIOUS
  <2>3. v[0] = a
    BY <2>1 DEF Iterates
  <2>4. ASSUME NEW m \in 1..(n + 1) PROVE v[m] = f[v[m - 1]]
    BY <2>1 DEF Iterates
  <2>5. Iterates(f, a, n + 1, v)
    BY <2>3, <2>4 DEF Iterates
  <2> HIDE DEF v
  <2> QED
    BY <2>2, <2>5
<1> HIDE DEF Good
<1>3. Nat \subseteq Good
  BY <1>1, <1>2, Induction
<1> QED
  BY <1>3 DEF Good
-----------------------------------------------------------------------------
(* Graphs, and the states of the iterator *)

\* Commit graphs: every commit lists at most MaxParents parents, older than it.
Graph ==
    {g \in [Commit -> Seq(Commit)] : \A c \in Commit :
        /\ Len(g[c]) <= MaxParents
        /\ \A i \in DOMAIN g[c] : g[c][i] < c}

WalkState == [stack : Seq(Commit), log : Seq(Commit)]

Start == [stack |-> <<head>>, log |-> <<>>]

\* What LogFrom does with the iterator: one turn, if something is left to visit.
Onward(x) == IF x.stack = <<>> THEN x ELSE Log!Turn(x)

IsWalk(w, T) ==
    /\ w \in [0..T -> WalkState]
    /\ w[0] = Start
    /\ \A n \in 1..T : w[n] = Onward(w[n - 1])

LEMMA TurnType ==
    ASSUME parents \in Graph, NEW x \in WalkState, x.stack # <<>>
    PROVE  Log!Turn(x) \in WalkState
<1>1. Head(x.stack) \in Commit /\ Tail(x.stack) \in Seq(Commit)
  BY DEF WalkState
<1>2. parents[Head(x.stack)] \in Seq(Commit)
  BY <1>1 DEF Graph
<1>3. parents[Head(x.stack)] \o Tail(x.stack) \in Seq(Commit)
  BY <1>1, <1>2
<1>4. Append(x.log, Head(x.stack)) \in Seq(Commit)
  BY <1>1 DEF WalkState
<1> QED
  BY <1>1, <1>3, <1>4 DEF Log!Turn, WalkState

\* The recursion of Walks has a solution, so that Walks is one.
LEMMA WalksWalk ==
    ASSUME parents \in Graph, head \in Commit, NEW T \in Nat
    PROVE  IsWalk(Log!Walks(head, T), T)
<1> DEFINE f == [x \in WalkState |-> Onward(x)]
           Sol(w) == w = [n \in 0..T |->
                             IF n = 0 THEN [stack |-> <<head>>, log |-> <<>>]
                             ELSE IF w[n - 1].stack = <<>> THEN w[n - 1]
                             ELSE Log!Turn(w[n - 1])]
<1>1. f \in [WalkState -> WalkState]
  BY TurnType DEF Onward
<1>2. Start \in WalkState
  BY DEF Start, WalkState
<1>3. PICK w \in [0..T -> WalkState] : Iterates(f, Start, T, w)
  <2> HIDE DEF f
  <2> QED
    BY <1>1, <1>2, IteratesExist
<1>4. ASSUME NEW n \in 1..T PROVE w[n] = Onward(w[n - 1])
  <2>1. n - 1 \in 0..T
    OBVIOUS
  <2>2. w[n - 1] \in WalkState
    BY <2>1
  <2>3. w[n] = f[w[n - 1]]
    BY <1>3 DEF Iterates
  <2> QED
    BY <2>2, <2>3
<1>5. Sol(w)
  <2> DEFINE v == [n \in 0..T |->
                             IF n = 0 THEN [stack |-> <<head>>, log |-> <<>>]
                             ELSE IF w[n - 1].stack = <<>> THEN w[n - 1]
                             ELSE Log!Turn(w[n - 1])]
  <2>1. ASSUME NEW n \in 0..T PROVE w[n] = v[n]
    BY <1>3, <1>4 DEF Onward, Start, Iterates
  <2> QED
    BY <2>1
<1>6. Sol(Log!Walks(head, T))
  <2> HIDE DEF Sol
  <2>1. Log!Walks(head, T) = CHOOSE x : Sol(x)
    BY Zenon DEF Log!Walks, Sol
  <2> QED
    BY <1>5, <2>1
<1> DEFINE W == Log!Walks(head, T)
<1> HIDE DEF W
<1>7. /\ W = [n \in 0..T |-> W[n]]
      /\ W[0] = Start
      /\ \A n \in 1..T : W[n] = Onward(W[n - 1])
  <2>1. Sol(W)
    BY <1>6 DEF W
  <2>2. W = [n \in 0..T |-> W[n]] /\ W[0] = Start
    BY <2>1 DEF Start
  <2>3. ASSUME NEW n \in 1..T PROVE W[n] = Onward(W[n - 1])
    <3>1. n \in 0..T /\ n # 0
      OBVIOUS
    <3> QED
      BY <2>1, <3>1, Zenon DEF Onward
  <2> QED
    BY <2>2, <2>3
<1>8. W \in [0..T -> WalkState]
  <2> DEFINE Good == {n \in Nat : n <= T => W[n] \in WalkState}
  <2>1. 0 \in Good
    BY <1>2, <1>7
  <2>2. ASSUME NEW n \in Nat, n \in Good PROVE n + 1 \in Good
    <3> SUFFICES ASSUME n + 1 <= T PROVE W[n + 1] \in WalkState
      OBVIOUS
    <3>1. W[n] \in WalkState
      BY <2>2
    <3>2. W[n + 1] = Onward(W[n])
      <4>1. n + 1 \in 1..T /\ (n + 1) - 1 = n
        OBVIOUS
      <4> QED
        BY <1>7, <4>1
    <3> QED
      BY <3>1, <3>2, TurnType DEF Onward
  <2> HIDE DEF Good
  <2>3. Nat \subseteq Good
    BY <2>1, <2>2, Induction
  <2>4. ASSUME NEW n \in 0..T PROVE W[n] \in WalkState
    BY <2>3 DEF Good
  <2> QED
    BY <1>7, <2>4
<1> QED
  BY <1>7, <1>8 DEF IsWalk, W

\* No two walks differ.
LEMMA WalkUnique ==
    ASSUME NEW T \in Nat, NEW v, NEW w, IsWalk(v, T), IsWalk(w, T)
    PROVE  v = w
<1> DEFINE Good == {n \in Nat : n <= T => v[n] = w[n]}
<1>1. 0 \in Good
  BY DEF IsWalk
<1>2. ASSUME NEW n \in Nat, n \in Good PROVE n + 1 \in Good
  <2> SUFFICES ASSUME n + 1 <= T PROVE v[n + 1] = w[n + 1]
    OBVIOUS
  <2>1. n + 1 \in 1..T /\ (n + 1) - 1 = n /\ v[n] = w[n]
    BY <1>2
  <2> QED
    BY <2>1 DEF IsWalk
<1> HIDE DEF Good
<1>3. Nat \subseteq Good
  BY <1>1, <1>2, Induction
<1>4. ASSUME NEW n \in 0..T PROVE v[n] = w[n]
  BY <1>3 DEF Good
<1> QED
  BY <1>4 DEF IsWalk

\* What has been yielded stays, in its place.
Extends(l, m) == \A i \in DOMAIN l : i \in DOMAIN m /\ m[i] = l[i]

LEMMA AppendExtends ==
    ASSUME NEW S, NEW l \in Seq(S), NEW c \in S
    PROVE  Extends(l, Append(l, c))
<1>1. Len(l) \in Nat /\ DOMAIN l = 1..Len(l) /\ DOMAIN Append(l, c) = 1..(Len(l) + 1)
  OBVIOUS
<1>2. \A i \in 1..Len(l) : Append(l, c)[i] = l[i]
  OBVIOUS
<1>3. \A i \in 1..Len(l) : i \in 1..(Len(l) + 1)
  BY <1>1
<1> QED
  BY <1>1, <1>2, <1>3 DEF Extends

LEMMA WalkGrows ==
    ASSUME parents \in Graph, NEW T \in Nat, NEW w, IsWalk(w, T), NEW k \in 0..T
    PROVE  Extends(w[k].log, w[T].log)
<1> DEFINE Good == {n \in Nat : n >= k /\ n <= T => Extends(w[k].log, w[n].log)}
<1>1. 0 \in Good
  <2>1. 0 >= k => k = 0
    OBVIOUS
  <2> QED
    BY <2>1 DEF Extends
<1>2. ASSUME NEW n \in Nat, n \in Good PROVE n + 1 \in Good
  <2> SUFFICES ASSUME n + 1 >= k, n + 1 <= T PROVE Extends(w[k].log, w[n + 1].log)
    OBVIOUS
  <2>1. CASE k = n + 1
    BY <2>1 DEF Extends
  <2>2. CASE k <= n
    <3>1. Extends(w[k].log, w[n].log)
      BY <1>2, <2>2
    <3>2. w[n + 1] = Onward(w[n])
      <4>1. n + 1 \in 1..T /\ (n + 1) - 1 = n
        OBVIOUS
      <4> QED
        BY <4>1 DEF IsWalk
    <3>3. w[n] \in WalkState
      BY DEF IsWalk
    <3>4. Extends(w[n].log, w[n + 1].log)
      <4>1. CASE w[n].stack = <<>> \/ Log!Turn(w[n]).log = w[n].log
        BY <3>2, <4>1 DEF Onward, Extends
      <4>2. CASE w[n].stack # <<>> /\ Log!Turn(w[n]).log = Append(w[n].log, Head(w[n].stack))
        <5>1. w[n].log \in Seq(Commit) /\ Head(w[n].stack) \in Commit
          BY <3>3, <4>2 DEF WalkState
        <5>2. w[n + 1].log = Append(w[n].log, Head(w[n].stack))
          BY <3>2, <4>2 DEF Onward
        <5> QED
          BY <5>1, <5>2, AppendExtends
      <4> QED
        BY <3>3, <4>1, <4>2 DEF Log!Turn, WalkState
    <3> QED
      BY <3>1, <3>4 DEF Extends
  <2> QED
    BY <2>1, <2>2
<1> HIDE DEF Good
<1>3. Nat \subseteq Good
  BY <1>1, <1>2, Induction
<1>4. T \in Good /\ T >= k
  BY <1>3
<1> QED
  BY <1>4 DEF Good

\* An iterator with nothing left to visit has yielded all that it will.
LEMMA WalkEnds ==
    ASSUME NEW T \in Nat, NEW w, IsWalk(w, T), NEW k \in 0..T, w[k].stack = <<>>
    PROVE  w[T] = w[k]
<1> DEFINE Good == {n \in Nat : n >= k /\ n <= T => w[n] = w[k]}
<1>1. 0 \in Good
  <2>1. 0 >= k => k = 0
    OBVIOUS
  <2> QED
    BY <2>1
<1>2. ASSUME NEW n \in Nat, n \in Good PROVE n + 1 \in Good
  <2> SUFFICES ASSUME n + 1 >= k, n + 1 <= T PROVE w[n + 1] = w[k]
    OBVIOUS
  <2>1. CASE k = n + 1
    BY <2>1
  <2>2. CASE k <= n
    <3>1. n + 1 \in 1..T /\ (n + 1) - 1 = n /\ w[n] = w[k]
      BY <1>2, <2>2
    <3> QED
      BY <3>1 DEF IsWalk, Onward
  <2> QED
    BY <2>1, <2>2
<1> HIDE DEF Good
<1>3. Nat \subseteq Good
  BY <1>1, <1>2, Induction
<1>4. T \in Good /\ T >= k
  BY <1>3
<1> QED
  BY <1>4 DEF Good

-----------------------------------------------------------------------------
(* Reachability *)

Closed(g, X) == \A d \in X : \A i \in DOMAIN g[d] : g[d][i] \in X

LEMMA ParentsType ==
    ASSUME NEW g \in Graph, NEW C \in SUBSET Commit
    PROVE  ParentsIn(g, C) \in SUBSET Commit
BY DEF ParentsIn, Graph

\* The recursion of Rounds has a solution, so that Rounds is one.
LEMMA RoundsRound ==
    ASSUME NEW g \in Graph, NEW c \in Commit
    PROVE  /\ Rounds(g, c)[0] = {c}
           /\ \A n \in 1..N : Rounds(g, c)[n] = Rounds(g, c)[n - 1] \cup ParentsIn(g, Rounds(g, c)[n - 1])
<1> DEFINE f == [C \in SUBSET Commit |-> C \cup ParentsIn(g, C)]
           Sol(r) == r = [n \in 0..N |->
                             IF n = 0 THEN {c} ELSE r[n - 1] \cup ParentsIn(g, r[n - 1])]
<1>1. N \in Nat
  BY SearchAssumption
<1>2. PICK r \in [0..N -> SUBSET Commit] : Iterates(f, {c}, N, r)
  <2>1. f \in [SUBSET Commit -> SUBSET Commit]
    BY ParentsType
  <2>2. {c} \in SUBSET Commit
    OBVIOUS
  <2> HIDE DEF f
  <2> QED
    BY <1>1, <2>1, <2>2, IteratesExist
<1>3. ASSUME NEW n \in 1..N PROVE r[n] = r[n - 1] \cup ParentsIn(g, r[n - 1])
  <2>1. n - 1 \in 0..N
    BY <1>1
  <2>2. r[n - 1] \in SUBSET Commit
    BY <2>1
  <2>3. r[n] = f[r[n - 1]]
    BY <1>2 DEF Iterates
  <2> QED
    BY <2>2, <2>3
<1>4. Sol(r)
  <2> DEFINE v == [n \in 0..N |->
                             IF n = 0 THEN {c} ELSE r[n - 1] \cup ParentsIn(g, r[n - 1])]
  <2>1. ASSUME NEW n \in 0..N PROVE r[n] = v[n]
    BY <1>1, <1>2, <1>3 DEF Iterates
  <2> QED
    BY <2>1
<1>5. Sol(Rounds(g, c))
  <2> HIDE DEF Sol
  <2>1. Rounds(g, c) = CHOOSE x : Sol(x)
    BY Zenon DEF Rounds, Sol
  <2> QED
    BY <1>4, <2>1
<1> DEFINE R == Rounds(g, c)
<1> HIDE DEF R
<1>6. Sol(R)
  BY <1>5 DEF R
<1>7. R[0] = {c}
  BY <1>1, <1>6
<1>8. ASSUME NEW n \in 1..N PROVE R[n] = R[n - 1] \cup ParentsIn(g, R[n - 1])
  <2>1. n \in 0..N /\ n # 0
    BY <1>1
  <2> QED
    BY <1>6, <2>1, Zenon
<1> QED
  BY <1>7, <1>8 DEF R

\* Every round holds c and commits not newer than c, holds the parents of all but
\* the oldest, and lies in every closed set that holds c.
LEMMA RoundsReach ==
    ASSUME NEW g \in Graph, NEW c \in Commit
    PROVE  \A n \in 0..N :
              /\ c \in Rounds(g, c)[n]
              /\ Rounds(g, c)[n] \in SUBSET (1..c)
              /\ \A d \in Rounds(g, c)[n] : d > c - n =>
                    \A i \in DOMAIN g[d] : g[d][i] \in Rounds(g, c)[n]
              /\ \A X \in SUBSET Commit : c \in X /\ Closed(g, X) => Rounds(g, c)[n] \subseteq X
<1> DEFINE R == Rounds(g, c)
           Below(n) == R[n] \in SUBSET (1..c)
           Full(n) == \A d \in R[n] : d > c - n => \A i \in DOMAIN g[d] : g[d][i] \in R[n]
           Least(n) == \A X \in SUBSET Commit : c \in X /\ Closed(g, X) => R[n] \subseteq X
           Good == {n \in Nat : n <= N => c \in R[n] /\ Below(n) /\ Full(n) /\ Least(n)}
<1>1. R[0] = {c} /\ \A n \in 1..N : R[n] = R[n - 1] \cup ParentsIn(g, R[n - 1])
  BY RoundsRound
<1>2. N \in Nat /\ c \in 1..N
  BY SearchAssumption DEF Commit
<1> HIDE DEF R
<1>3. 0 \in Good
  <2>1. c \in R[0] /\ Below(0)
    BY <1>1, <1>2
  <2>2. Full(0)
    BY <1>1, <1>2
  <2>3. Least(0)
    BY <1>1
  <2> QED
    BY <2>1, <2>2, <2>3
<1>4. ASSUME NEW n \in Nat, n \in Good PROVE n + 1 \in Good
  <2> SUFFICES ASSUME n + 1 <= N
               PROVE  c \in R[n + 1] /\ Below(n + 1) /\ Full(n + 1) /\ Least(n + 1)
    OBVIOUS
  <2>1. c \in R[n] /\ Below(n) /\ Full(n) /\ Least(n)
    BY <1>2, <1>4
  <2>2. R[n + 1] = R[n] \cup ParentsIn(g, R[n])
    <3>1. n + 1 \in 1..N /\ (n + 1) - 1 = n
      BY <1>2
    <3> QED
      BY <1>1, <3>1
  <2>3. ASSUME NEW d \in ParentsIn(g, R[n])
        PROVE  \E e \in R[n] : \E i \in DOMAIN g[e] : d = g[e][i]
    BY DEF ParentsIn
  <2>4. ASSUME NEW e \in R[n], NEW i \in DOMAIN g[e]
        PROVE  g[e][i] \in R[n + 1] /\ g[e][i] \in Commit /\ g[e][i] < e /\ e \in 1..c
    <3>1. e \in 1..c /\ e \in Commit
      BY <1>2, <2>1 DEF Commit
    <3>2. g[e][i] \in Commit /\ g[e][i] < e
      BY <3>1 DEF Graph
    <3>3. g[e][i] \in ParentsIn(g, R[n])
      BY DEF ParentsIn
    <3> QED
      BY <2>2, <3>1, <3>2, <3>3
  <2>5. Below(n + 1)
    <3>1. ASSUME NEW d \in ParentsIn(g, R[n]) PROVE d \in 1..c
      BY <1>2, <2>3, <2>4 DEF Commit
    <3> QED
      BY <2>1, <2>2, <3>1
  <2>6. Full(n + 1)
    <3> SUFFICES ASSUME NEW d \in R[n + 1], d > c - (n + 1), NEW i \in DOMAIN g[d]
                 PROVE  g[d][i] \in R[n + 1]
      OBVIOUS
    <3>1. CASE d \in R[n]
      BY <2>4, <3>1
    <3>2. CASE d \notin R[n]
      <4>1. PICK e \in R[n] : \E j \in DOMAIN g[e] : d = g[e][j]
        BY <2>2, <2>3, <3>2
      <4>2. ~(e > c - n)
        BY <2>1, <3>2, <4>1
      <4>3. d < e /\ e \in 1..c /\ d \in Commit
        BY <2>4, <4>1
      <4> QED
        BY <1>2, <4>2, <4>3 DEF Commit
    <3> QED
      BY <3>1, <3>2
  <2>7. Least(n + 1)
    <3> SUFFICES ASSUME NEW X \in SUBSET Commit, c \in X, Closed(g, X), NEW d \in R[n + 1]
                 PROVE  d \in X
      OBVIOUS
    <3>1. R[n] \subseteq X
      BY <2>1
    <3> QED
      BY <2>2, <2>3, <3>1 DEF Closed
  <2> QED
    BY <2>1, <2>2, <2>5, <2>6, <2>7
<1>5. Nat \subseteq Good
  <2> HIDE DEF Good
  <2> QED
    BY <1>3, <1>4, Induction
<1>6. ASSUME NEW n \in 0..N PROVE c \in R[n] /\ Below(n) /\ Full(n) /\ Least(n)
  <2>1. n \in Good
    BY <1>5
  <2> QED
    BY <1>2, <2>1
<1> QED
  BY <1>6 DEF R

LEMMA ReachableFacts ==
    ASSUME NEW g \in Graph, NEW c \in Commit
    PROVE  /\ c \in ReachableIn(g, c)
           /\ ReachableIn(g, c) \in SUBSET (1..c)
           /\ ReachableIn(g, c) \in SUBSET Commit
           /\ Closed(g, ReachableIn(g, c))
           /\ \A X \in SUBSET Commit : c \in X /\ Closed(g, X) => ReachableIn(g, c) \subseteq X
<1> DEFINE R == Rounds(g, c)[N]
<1>1. N \in Nat /\ c \in 1..N /\ N \in 0..N
  BY SearchAssumption DEF Commit
<1>2. /\ c \in R
      /\ R \in SUBSET (1..c)
      /\ \A d \in R : d > c - N => \A i \in DOMAIN g[d] : g[d][i] \in R
      /\ \A X \in SUBSET Commit : c \in X /\ Closed(g, X) => R \subseteq X
  BY <1>1, RoundsReach
<1>3. ReachableIn(g, c) = R
  BY DEF ReachableIn
<1> HIDE DEF R
<1>4. R \in SUBSET Commit
  BY <1>1, <1>2 DEF Commit
<1>5. Closed(g, R)
  <2>1. ASSUME NEW d \in R PROVE d > c - N
    BY <1>1, <1>2
  <2> QED
    BY <1>2, <2>1 DEF Closed
<1> QED
  BY <1>2, <1>3, <1>4, <1>5

\* Reachability is transitive.
LEMMA ReachableFurther ==
    ASSUME NEW g \in Graph, NEW c \in Commit, NEW d \in ReachableIn(g, c)
    PROVE  ReachableIn(g, d) \subseteq ReachableIn(g, c)
<1>1. d \in Commit
  BY ReachableFacts
<1> QED
  BY <1>1, ReachableFacts

\* Two commits that are reachable from each other are the same.
LEMMA ReachableBothWays ==
    ASSUME NEW g \in Graph, NEW c \in Commit, NEW d \in ReachableIn(g, c),
           c \in ReachableIn(g, d)
    PROVE  c = d
<1>1. d \in Commit /\ d \in 1..c
  BY ReachableFacts
<1>2. c \in 1..d
  BY <1>1, ReachableFacts
<1> QED
  BY <1>1, <1>2 DEF Commit

-----------------------------------------------------------------------------
(* What the iterator yields: every reachable commit, once *)

Turns == N * MaxParents + 1

LEMMA TurnsType == Turns \in Nat /\ Turns >= 1 /\ N \in Nat /\ MaxParents \in Nat /\ N >= 1
<1>1. N \in Nat /\ MaxParents \in Nat /\ N >= 1
  BY SearchAssumption
<1>2. N * MaxParents \in Nat
  BY <1>1
<1> QED
  BY <1>1, <1>2 DEF Turns

LEMMA RangeTail ==
    ASSUME NEW s \in Seq(Commit), s # <<>>
    PROVE  Range(s) = {Head(s)} \cup Range(Tail(s))
<1>1. Head(s) = s[1] /\ 1 \in DOMAIN s
  OBVIOUS
<1>2. ASSUME NEW i \in DOMAIN Tail(s) PROVE i + 1 \in DOMAIN s /\ Tail(s)[i] = s[i + 1]
  OBVIOUS
<1>3. ASSUME NEW i \in DOMAIN s, i # 1 PROVE i - 1 \in DOMAIN Tail(s) /\ Tail(s)[i - 1] = s[i]
  BY <1>3
<1>4. Range(s) \subseteq {Head(s)} \cup Range(Tail(s))
  BY <1>1, <1>3 DEF Range
<1>5. {Head(s)} \cup Range(Tail(s)) \subseteq Range(s)
  BY <1>1, <1>2 DEF Range
<1> QED
  BY <1>4, <1>5

LEMMA RangeConcat ==
    ASSUME NEW s \in Seq(Commit), NEW t \in Seq(Commit)
    PROVE  Range(s \o t) = Range(s) \cup Range(t)
<1>1. ASSUME NEW i \in DOMAIN s PROVE i \in DOMAIN (s \o t) /\ (s \o t)[i] = s[i]
  OBVIOUS
<1>2. ASSUME NEW i \in DOMAIN t
      PROVE  i + Len(s) \in DOMAIN (s \o t) /\ (s \o t)[i + Len(s)] = t[i]
  OBVIOUS
<1>3. ASSUME NEW i \in DOMAIN (s \o t), i \notin DOMAIN s
      PROVE  i - Len(s) \in DOMAIN t /\ (s \o t)[i] = t[i - Len(s)]
  BY <1>3
<1>4. Range(s) \cup Range(t) \subseteq Range(s \o t)
  BY <1>1, <1>2 DEF Range
<1>5. ASSUME NEW x \in Range(s \o t) PROVE x \in Range(s) \cup Range(t)
  <2>1. PICK i \in DOMAIN (s \o t) : x = (s \o t)[i]
    BY DEF Range
  <2>2. CASE i \in DOMAIN s
    BY <1>1, <2>1, <2>2 DEF Range
  <2>3. CASE i \notin DOMAIN s
    BY <1>3, <2>1, <2>3 DEF Range
  <2> QED
    BY <2>2, <2>3
<1> QED
  BY <1>4, <1>5

LEMMA RangeAppend ==
    ASSUME NEW s \in Seq(Commit), NEW c \in Commit
    PROVE  Range(Append(s, c)) = Range(s) \cup {c}
<1>1. /\ DOMAIN Append(s, c) = DOMAIN s \cup {Len(s) + 1}
      /\ Append(s, c)[Len(s) + 1] = c
      /\ \A i \in DOMAIN s : Append(s, c)[i] = s[i]
  OBVIOUS
<1> QED
  BY <1>1 DEF Range

NoRepeats(x) == \A i, j \in DOMAIN x.log : x.log[i] = x.log[j] => i = j

\* What is yielded or waits is reachable, and its parents are yielded or wait too.
Seen(x) == Range(x.log) \cup Range(x.stack)

Frontier(x) ==
    /\ head \in Seen(x)
    /\ Seen(x) \subseteq Reachable(head)
    /\ \A d \in Range(x.log) : \A i \in DOMAIN parents[d] : parents[d][i] \in Seen(x)

\* Without merges at most a parent of the last commit yielded waits.
LinearStack(x) ==
    Linear =>
        /\ Len(x.stack) <= 1
        /\ x.log # <<>> => Range(x.stack) \subseteq Reachable(x.log[Len(x.log)])

\* An iterator that goes on has not taken more turns than there were entries.
FewTurns(n, x) ==
    x.stack # <<>> => n + Len(x.stack) <= 1 + MaxParents * Len(x.log)

AfterTurns(n, x) == NoRepeats(x) /\ Frontier(x) /\ LinearStack(x) /\ FewTurns(n, x)

LEMMA UpTo == ASSUME NEW n \in Nat PROVE IsFiniteSet(1..n) /\ Cardinality(1..n) = n
<1>1. 1 \in Int /\ n \in Int
  OBVIOUS
<1>2. IsFiniteSet(1..n) /\ Cardinality(1..n) = IF 1 > n THEN 0 ELSE n - 1 + 1
  BY <1>1, FS_Interval
<1>3. (IF 1 > n THEN 0 ELSE n - 1 + 1) = n
  OBVIOUS
<1> QED
  BY <1>2, <1>3

\* At most every commit is yielded.
LEMMA LogBound ==
    ASSUME NEW x \in WalkState, NoRepeats(x)
    PROVE  Len(x.log) \in Nat /\ Len(x.log) <= N
<1> DEFINE n == Len(x.log)
<1>1. x.log \in Seq(Commit) /\ n \in Nat /\ N \in Nat
  BY TurnsType DEF WalkState
<1>2. x.log \in [1..n -> Commit]
  BY <1>1
<1>3. IsFiniteSet(Commit) /\ Cardinality(Commit) = N
  BY <1>1, UpTo DEF Commit
<1>4. IsFiniteSet(1..n) /\ Cardinality(1..n) = n
  BY <1>1, UpTo
<1>5. CASE n > N
  <2>1. \E i, j \in 1..n : i # j /\ x.log[i] = x.log[j]
    BY <1>1, <1>2, <1>3, <1>4, <1>5, FS_PigeonHole
  <2> QED
    BY <1>1, <2>1 DEF NoRepeats
<1> QED
  BY <1>1, <1>5

LEMMA StartFacts ==
    ASSUME parents \in Graph, head \in Commit
    PROVE  Start \in WalkState /\ AfterTurns(0, Start)
<1>1. Start.stack = <<head>> /\ Start.log = <<>> /\ Start \in WalkState
  BY DEF Start, WalkState
<1>2. Range(Start.log) = {} /\ Range(Start.stack) = {head} /\ Len(Start.stack) = 1
  BY <1>1 DEF Range
<1>3. Frontier(Start)
  <2>1. head \in Reachable(head)
    BY ReachableFacts DEF Reachable
  <2> QED
    BY <1>2, <2>1 DEF Frontier, Seen
<1>4. FewTurns(0, Start)
  <2>1. Len(Start.log) = 0
    BY <1>1
  <2> QED
    BY <1>2, <2>1, TurnsType DEF FewTurns
<1> QED
  BY <1>1, <1>2, <1>3, <1>4 DEF AfterTurns, NoRepeats, LinearStack

\* The iterator passes over a commit that it has yielded.
LEMMA TurnSkips ==
    ASSUME parents \in Graph, NEW n \in Nat, NEW x \in WalkState, x.stack # <<>>,
           AfterTurns(n, x), \E i \in DOMAIN x.log : x.log[i] = Head(x.stack)
    PROVE  AfterTurns(n + 1, Log!Turn(x))
<1> DEFINE y == Log!Turn(x)
<1>1. y.stack = Tail(x.stack) /\ y.log = x.log
  BY DEF Log!Turn, WalkState
<1>2. x.stack \in Seq(Commit) /\ x.log \in Seq(Commit)
  BY DEF WalkState
<1> HIDE DEF y
<1>3. Range(x.stack) = {Head(x.stack)} \cup Range(y.stack)
  BY <1>1, <1>2, RangeTail
<1>4. Seen(y) = Seen(x)
  BY <1>1, <1>3 DEF Seen, Range
<1>5. NoRepeats(y) /\ Frontier(y)
  BY <1>1, <1>4 DEF AfterTurns, NoRepeats, Frontier
<1>6. Len(x.stack) \in Nat /\ Len(y.stack) = Len(x.stack) - 1
  BY <1>1, <1>2
<1>7. LinearStack(y)
  BY <1>1, <1>3, <1>6 DEF AfterTurns, LinearStack
<1>8. FewTurns(n + 1, y)
  <2> DEFINE b == MaxParents * Len(x.log)
             l == Len(x.stack)
  <2>1. b \in Nat /\ l \in Nat /\ n + l <= 1 + b
    BY <1>2, <1>6, TurnsType DEF AfterTurns, FewTurns
  <2> HIDE DEF b, l
  <2>2. (n + 1) + (l - 1) <= 1 + b
    BY <2>1
  <2> QED
    BY <1>1, <1>6, <2>2 DEF FewTurns, b, l
<1> QED
  BY <1>5, <1>7, <1>8 DEF AfterTurns, y

\* The iterator yields a commit and puts its parents on the stack.
LEMMA TurnYields ==
    ASSUME parents \in Graph, head \in Commit, NEW n \in Nat, NEW x \in WalkState, x.stack # <<>>,
           AfterTurns(n, x), ~\E i \in DOMAIN x.log : x.log[i] = Head(x.stack)
    PROVE  AfterTurns(n + 1, Log!Turn(x))
<1> DEFINE y == Log!Turn(x)
           c == Head(x.stack)
<1>1. y.stack = parents[c] \o Tail(x.stack) /\ y.log = Append(x.log, c)
  BY DEF Log!Turn
<1>2. /\ x.stack \in Seq(Commit) /\ x.log \in Seq(Commit)
      /\ c \in Commit /\ Tail(x.stack) \in Seq(Commit)
  BY DEF WalkState
<1>3. parents[c] \in Seq(Commit) /\ Len(parents[c]) <= MaxParents
  BY <1>2 DEF Graph
<1>4. c \notin Range(x.log)
  BY DEF Range
<1> HIDE DEF y
<1>5. /\ Range(x.stack) = {c} \cup Range(Tail(x.stack))
      /\ Range(y.stack) = Range(parents[c]) \cup Range(Tail(x.stack))
      /\ Range(y.log) = Range(x.log) \cup {c}
  <2>1. Range(x.stack) = {c} \cup Range(Tail(x.stack))
    BY <1>2, RangeTail
  <2>2. Range(y.stack) = Range(parents[c]) \cup Range(Tail(x.stack))
    BY <1>1, <1>2, <1>3, RangeConcat
  <2>3. Range(y.log) = Range(x.log) \cup {c}
    BY <1>1, <1>2, RangeAppend
  <2> QED
    BY <2>1, <2>2, <2>3
<1>6. Len(x.log) \in Nat /\ Len(y.log) = Len(x.log) + 1 /\ y.log[Len(y.log)] = c
  BY <1>1, <1>2
<1>7. NoRepeats(y)
  <2>1. /\ DOMAIN y.log = DOMAIN x.log \cup {Len(x.log) + 1}
        /\ y.log[Len(x.log) + 1] = c
        /\ \A i \in DOMAIN x.log : y.log[i] = x.log[i]
    BY <1>1, <1>2
  <2> QED
    BY <2>1 DEF AfterTurns, NoRepeats
<1>8. Frontier(y)
  <2>1. c \in Reachable(head)
    BY <1>5 DEF AfterTurns, Frontier, Seen
  <2>2. Range(parents[c]) \subseteq Reachable(head)
    BY <2>1, ReachableFacts DEF Reachable, Closed, Range
  <2>3. Seen(y) = Seen(x) \cup Range(parents[c])
    BY <1>5 DEF Seen
  <2>4. \A i \in DOMAIN parents[c] : parents[c][i] \in Seen(y)
    BY <2>3 DEF Range
  <2> QED
    BY <1>5, <2>2, <2>3, <2>4 DEF AfterTurns, Frontier
<1>9. LinearStack(y)
  <2> SUFFICES ASSUME Linear
               PROVE  Len(y.stack) <= 1 /\ Range(y.stack) \subseteq Reachable(c)
    BY <1>6 DEF LinearStack
  <2>1. Tail(x.stack) = <<>>
    BY <1>2 DEF AfterTurns, LinearStack
  <2>2. Len(parents[c]) <= 1
    BY <1>5 DEF Linear, AfterTurns, Frontier, Seen
  <2>3. y.stack = parents[c]
    BY <1>1, <1>3, <2>1, ConcatEmptySeq
  <2>4. Range(parents[c]) \subseteq Reachable(c)
    BY <1>2, ReachableFacts DEF Reachable, Closed, Range
  <2> QED
    BY <2>2, <2>3, <2>4
<1>10. FewTurns(n + 1, y)
  <2> DEFINE b == MaxParents * Len(x.log)
             l == Len(x.stack)
             p == Len(parents[c])
  <2>1. Len(y.stack) = p + l - 1 /\ p \in Nat /\ l \in Nat
    <3>1. Len(Tail(x.stack)) = l - 1 /\ p \in Nat /\ l \in Nat
      BY <1>2, <1>3
    <3>2. Len(y.stack) = p + Len(Tail(x.stack))
      BY <1>1, <1>2, <1>3
    <3> QED
      BY <3>1, <3>2
  <2>2. MaxParents * Len(y.log) = b + MaxParents
    BY <1>6, TurnsType
  <2>3. /\ b \in Nat /\ n + l <= 1 + b
        /\ MaxParents \in Nat /\ p <= MaxParents
    BY <1>3, <1>6, TurnsType DEF AfterTurns, FewTurns
  <2> HIDE DEF b, l, p
  <2>4. (n + 1) + (p + l - 1) <= 1 + (b + MaxParents)
    BY <2>1, <2>3
  <2> QED
    BY <2>1, <2>2, <2>4 DEF FewTurns
<1> QED
  BY <1>7, <1>8, <1>9, <1>10 DEF AfterTurns, y

LEMMA WalkFacts ==
    ASSUME parents \in Graph, head \in Commit, NEW T \in Nat, NEW w, IsWalk(w, T), NEW k \in 0..T
    PROVE  w[k] \in WalkState /\ AfterTurns(k, w[k])
<1> DEFINE Good == {n \in Nat : n <= T => AfterTurns(n, w[n])}
<1>1. 0 \in Good
  BY StartFacts DEF IsWalk
<1>2. ASSUME NEW n \in Nat, n \in Good PROVE n + 1 \in Good
  <2> SUFFICES ASSUME n + 1 <= T PROVE AfterTurns(n + 1, w[n + 1])
    OBVIOUS
  <2>1. n + 1 \in 1..T /\ (n + 1) - 1 = n /\ n \in 0..T /\ AfterTurns(n, w[n])
    BY <1>2
  <2>2. w[n] \in WalkState /\ w[n + 1] = Onward(w[n])
    BY <2>1 DEF IsWalk
  <2>3. CASE w[n].stack = <<>>
    BY <2>1, <2>2, <2>3 DEF Onward, AfterTurns, FewTurns
  <2>4. CASE w[n].stack # <<>>
    BY <2>1, <2>2, <2>4, TurnSkips, TurnYields DEF Onward
  <2> QED
    BY <2>3, <2>4
<1> HIDE DEF Good
<1>3. Nat \subseteq Good
  BY <1>1, <1>2, Induction
<1>4. AfterTurns(k, w[k])
  BY <1>3 DEF Good
<1> QED
  BY <1>4 DEF IsWalk

\* Something is left to visit only before the last of the turns.
LEMMA TurnsLeft ==
    ASSUME NEW k \in Nat, NEW x \in WalkState, AfterTurns(k, x), x.stack # <<>>
    PROVE  k < Turns
<1> DEFINE b == MaxParents * Len(x.log)
           l == Len(x.stack)
           m == N * MaxParents
<1>1. x.stack \in Seq(Commit)
  BY DEF WalkState
<1>2. l \in Nat /\ l >= 1
  BY <1>1
<1>3. Len(x.log) \in Nat /\ Len(x.log) <= N
  BY LogBound DEF AfterTurns
<1>4. b \in Nat /\ m \in Nat /\ b <= m
  BY <1>3, TurnsType
<1>5. k + l <= 1 + b
  BY DEF AfterTurns, FewTurns
<1> HIDE DEF b, l, m
<1>6. k < m + 1
  BY <1>2, <1>4, <1>5
<1> QED
  BY <1>6 DEF Turns, m

\* What is reachable has been yielded or is reachable from what waits.
LEMMA StillToCome ==
    ASSUME parents \in Graph, head \in Commit, NEW x, Frontier(x)
    PROVE  Reachable(head) \subseteq
               Range(x.log) \cup UNION {Reachable(d) : d \in Range(x.stack)}
<1> DEFINE X == Range(x.log) \cup UNION {Reachable(d) : d \in Range(x.stack)}
<1>1. Seen(x) \subseteq Commit
  BY ReachableFacts DEF Frontier, Reachable
<1>2. \A d \in Range(x.stack) : d \in Reachable(d) /\ Reachable(d) \subseteq Commit
  BY <1>1, ReachableFacts DEF Reachable, Seen
<1>3. X \in SUBSET Commit /\ head \in X /\ Range(x.stack) \subseteq X
  BY <1>1, <1>2 DEF Frontier, Seen
<1>4. ASSUME NEW d \in X, NEW i \in DOMAIN parents[d] PROVE parents[d][i] \in X
  <2>1. CASE d \in Range(x.log)
    BY <1>3, <2>1 DEF Frontier, Seen
  <2>2. CASE d \notin Range(x.log)
    <3>1. PICK e \in Range(x.stack) : d \in Reachable(e)
      BY <2>2
    <3>2. parents[d][i] \in Reachable(e)
      BY <1>1, <3>1, ReachableFacts DEF Reachable, Closed, Seen
    <3> QED
      BY <3>2
  <2> QED
    BY <2>1, <2>2
<1>5. Closed(parents, X)
  BY <1>4 DEF Closed
<1> HIDE DEF X
<1>6. Reachable(head) \subseteq X
  BY <1>3, <1>5, ReachableFacts DEF Reachable
<1> QED
  BY <1>6 DEF X

\* The log holds every commit reachable from the head, each once: Turns turns of the
\* iterator end its walk on every graph (git.go:80, the commits that gitRepo.Log yields).
THEOREM LogComplete ==
    ASSUME parents \in Graph, head \in Commit
    PROVE  LET log == Log!LogFrom(head, Turns)
           IN  /\ log \in Seq(Commit) /\ Range(log) = Reachable(head)
               /\ \A i, j \in DOMAIN log : log[i] = log[j] => i = j
<1> DEFINE x == Log!Walks(head, Turns)[Turns]
<1>1. Turns \in Nat /\ Turns \in 0..Turns
  BY TurnsType
<1>2. x \in WalkState /\ AfterTurns(Turns, x)
  BY <1>1, WalksWalk, WalkFacts
<1>3. Log!LogFrom(head, Turns) = x.log
  BY DEF Log!LogFrom
<1> HIDE DEF x
<1>4. x.stack = <<>>
  BY <1>1, <1>2, TurnsLeft
<1>5. Range(x.stack) = {}
  BY <1>4 DEF Range
<1>6. Range(x.log) = Reachable(head)
  BY <1>2, <1>5, StillToCome DEF AfterTurns, Frontier, Seen
<1> QED
  BY <1>2, <1>3, <1>6 DEF AfterTurns, NoRepeats, WalkState

-----------------------------------------------------------------------------
(* The inductive invariant of the loop *)

SType ==
    /\ parents \in Graph
    /\ date \in [Commit -> Nat]
    /\ verified \in SUBSET Commit
    /\ head \in Commit
    /\ boundary \in MaybeCommit
    /\ now \in Nat
    /\ walk \in WalkState
    /\ phase \in {"check", "loop", "done"}
    /\ result \in MaybeCommit

\* The loop's iterator takes the turns of LogFrom.
OnWalk ==
    \E w : IsWalk(w, Turns) /\ \E k \in 0..Turns : walk = w[k]

\* None of the first n commits of a log ended the loop or could.
Passed(log, n) == \A i \in 1..n : log[i] # boundary /\ ~Acceptable(log[i])

\* How a search stands in each phase, and the ways in which it has ended.
Stands(w, ph, r) ==
    LET last == Len(w.log)
    IN /\ ph = "check" => w = Start /\ r = NoCommit
       /\ ph = "loop" => r = NoCommit /\ Passed(w.log, last)
       /\ ph = "done" =>
            \/ head = boundary /\ r = NoCommit
            \/ r = NoCommit /\ w.stack = <<>> /\ Passed(w.log, last)
            \/ /\ last > 0 /\ Passed(w.log, last - 1)
               /\ \/ w.log[last] = boundary /\ r = NoCommit
                  \/ w.log[last] # boundary /\ Acceptable(w.log[last]) /\ r = w.log[last]

Outcome == Stands(walk, phase, result)

SearchInv == SType /\ OnWalk /\ Outcome

LEMMA WalkAt ==
    ASSUME SType, OnWalk
    PROVE  /\ NoRepeats(walk) /\ Frontier(walk) /\ LinearStack(walk)
           /\ walk.stack # <<>> =>
                \E w : IsWalk(w, Turns) /\ \E k \in 0..(Turns - 1) : walk = w[k]
<1>1. PICK w : IsWalk(w, Turns) /\ \E k \in 0..Turns : walk = w[k]
  BY DEF OnWalk
<1>2. PICK k \in 0..Turns : walk = w[k]
  BY <1>1
<1>3. AfterTurns(k, walk) /\ k \in Nat /\ Turns \in Nat
  BY <1>1, <1>2, WalkFacts, TurnsType DEF SType
<1>4. walk.stack # <<>> => k \in 0..(Turns - 1)
  BY <1>3, TurnsLeft DEF SType
<1> QED
  BY <1>1, <1>2, <1>3, <1>4 DEF AfterTurns

-----------------------------------------------------------------------------
(* The steps *)

LEMMA ListsType ==
    ASSUME NEW c \in Commit, NEW s \in ParentLists(c)
    PROVE  s \in Seq(Commit) /\ Len(s) <= MaxParents /\ \A i \in DOMAIN s : s[i] < c
<1>1. PICK n \in 0..MaxParents : s \in [1..n -> 1..(c - 1)]
  BY DEF ParentLists
<1>2. N \in Nat /\ c \in 1..N /\ n \in Nat /\ n <= MaxParents
  BY TurnsType DEF Commit
<1>3. \A i \in 1..n : s[i] \in 1..(c - 1)
  BY <1>1
<1>4. \A i \in 1..n : s[i] \in Commit /\ s[i] < c
  BY <1>2, <1>3 DEF Commit
<1>5. s \in [1..n -> Commit]
  BY <1>1, <1>4
<1>6. s \in Seq(Commit) /\ Len(s) = n
  BY <1>2, <1>5
<1> QED
  BY <1>1, <1>2, <1>4, <1>6

LEMMA InitInv == Init => SearchInv
<1> SUFFICES ASSUME Init PROVE SearchInv
  OBVIOUS
<1>1. N \in Commit
  BY TurnsType DEF Commit
<1>2. parents \in Graph
  <2>1. \A c \in Commit : parents[c] \in ParentLists(c)
    BY DEF Init
  <2>2. parents \in [Commit -> UNION {ParentLists(c) : c \in Commit}]
    BY DEF Init
  <2>3. parents \in [Commit -> Seq(Commit)]
    BY <2>1, <2>2, ListsType
  <2> QED
    BY <2>1, <2>3, ListsType DEF Graph
<1>3. walk = Start /\ head \in Commit
  BY <1>1 DEF Init, Start
<1>4. Start \in WalkState
  BY <1>3 DEF Start, WalkState
<1>5. SType
  <2>1. date \in [Commit -> Nat] /\ now \in Nat
    BY SearchAssumption DEF Init
  <2> QED
    BY <1>2, <1>3, <1>4, <2>1 DEF Init, SType, MaybeCommit
<1>6. OnWalk
  <2>1. IsWalk(Log!Walks(head, Turns), Turns)
    BY <1>2, <1>3, WalksWalk, TurnsType
  <2>2. Log!Walks(head, Turns)[0] = walk
    BY <1>3, <2>1 DEF IsWalk
  <2>3. 0 \in 0..Turns
    BY TurnsType
  <2> QED
    BY <2>1, <2>2, <2>3 DEF OnWalk
<1>7. Outcome
  BY <1>3 DEF Outcome, Stands, Init
<1> QED
  BY <1>5, <1>6, <1>7 DEF SearchInv

LEMMA TypeStep ==
    ASSUME SType, [Next]_vars
    PROVE  SType'
<1>1. CASE UNCHANGED vars
  BY <1>1 DEF vars, input, SType
<1>2. CASE CheckHead \/ Exhausted
  BY <1>2 DEF CheckHead, Exhausted, input, SType
<1>3. CASE Skip
  BY <1>3, TurnType DEF Skip, input, SType
<1>4. CASE Examine
  <2>1. walk' \in WalkState /\ Head(walk.stack) \in Commit
    BY <1>4, TurnType DEF Examine, SType, WalkState
  <2> QED
    BY <1>4, <2>1 DEF Examine, input, SType, MaybeCommit
<1> QED
  BY <1>1, <1>2, <1>3, <1>4 DEF Next

LEMMA WalkStep ==
    ASSUME SType, OnWalk, [Next]_vars
    PROVE  OnWalk'
<1>1. parents' = parents /\ head' = head
  BY DEF Next, CheckHead, Skip, Examine, Exhausted, vars, input
<1>2. ASSUME NEW w, IsWalk(w, Turns) PROVE IsWalk(w, Turns)'
  BY <1>1, <1>2 DEF IsWalk, Start, Onward, Log!Turn
<1>3. CASE UNCHANGED walk
  BY <1>2, <1>3 DEF OnWalk
<1>4. CASE Skip \/ Examine
  <2>1. walk.stack # <<>> /\ walk' = Onward(walk)
    BY <1>4 DEF Skip, Examine, Onward
  <2>2. PICK w : IsWalk(w, Turns) /\ \E k \in 0..(Turns - 1) : walk = w[k]
    BY <2>1, WalkAt
  <2>3. PICK k \in 0..(Turns - 1) : walk = w[k]
    BY <2>2
  <2>4. k + 1 \in 1..Turns /\ (k + 1) - 1 = k /\ k + 1 \in 0..Turns
    BY TurnsType
  <2>5. walk' = w[k + 1]
    BY <2>1, <2>2, <2>3, <2>4 DEF IsWalk
  <2> QED
    BY <1>2, <2>2, <2>4, <2>5 DEF OnWalk
<1>5. CASE CheckHead \/ Exhausted \/ UNCHANGED vars
  BY <1>3, <1>5 DEF CheckHead, Exhausted, vars
<1> QED
  BY <1>4, <1>5 DEF Next

\* A turn that changes the log appends the next commit to it and its parents wait.
LEMMA ExamineLog ==
    ASSUME SType, Examine
    PROVE  /\ walk'.log = Append(walk.log, Head(walk.stack)) /\ Head(walk.stack) \in Commit
           /\ walk'.stack = parents[Head(walk.stack)] \o Tail(walk.stack)
<1>1. walk.stack \in Seq(Commit) /\ walk.stack # <<>>
  BY DEF Examine, SType, WalkState
<1>2. ~\E i \in DOMAIN walk.log : walk.log[i] = Head(walk.stack)
  <2> SUFFICES ASSUME \E i \in DOMAIN walk.log : walk.log[i] = Head(walk.stack) PROVE FALSE
    OBVIOUS
  <2>1. walk' = [walk EXCEPT !.stack = Tail(walk.stack)]
    BY DEF Examine, Log!Turn
  <2> QED
    BY <2>1 DEF Examine, SType, WalkState
<1>3. walk' = [stack |-> parents[Head(walk.stack)] \o Tail(walk.stack),
               log |-> Append(walk.log, Head(walk.stack))]
  BY <1>2 DEF Examine, Log!Turn
<1>4. Head(walk.stack) \in Commit
  BY <1>1
<1>5. /\ walk'.log = Append(walk.log, Head(walk.stack))
      /\ walk'.stack = parents[Head(walk.stack)] \o Tail(walk.stack)
  BY <1>3
<1> QED
  BY <1>4, <1>5

LEMMA OutcomeStep ==
    ASSUME SType, Outcome, [Next]_vars
    PROVE  Outcome'
<1>1. UNCHANGED <<parents, date, verified, head, boundary, now>>
  BY DEF Next, CheckHead, Skip, Examine, Exhausted, vars, input
<1>2. Outcome' <=> Stands(walk', phase', result')
  BY <1>1 DEF Outcome, Stands, Passed, Acceptable, Start
<1>3. Stands(walk, phase, result)
  BY DEF Outcome
<1>4. walk.log \in Seq(Commit) /\ Len(walk.log) \in Nat
  BY DEF SType, WalkState
<1>5. CASE CheckHead
  <2>1. Len(walk.log) = 0
    BY <1>3, <1>5 DEF CheckHead, Stands, Start
  <2>2. Passed(walk.log, Len(walk.log))
    BY <2>1 DEF Passed
  <2> QED
    BY <1>2, <1>3, <1>5, <2>2 DEF CheckHead, Stands
<1>6. CASE Skip
  <2>1. /\ walk'.log = walk.log /\ phase = "loop" /\ phase' = "loop" /\ result' = result
    BY <1>6 DEF Skip
  <2> QED
    BY <1>2, <1>3, <2>1 DEF Stands
<1>7. CASE Exhausted
  BY <1>2, <1>3, <1>7 DEF Exhausted, Stands
<1>8. CASE Examine
  <2> DEFINE c == Head(walk.stack)
             n == Len(walk.log)
             l == walk'.log
  <2>1. l = Append(walk.log, c) /\ c \in Commit
    BY <1>8, ExamineLog
  <2>2. Len(l) = n + 1 /\ l[n + 1] = c /\ \A i \in 1..n : l[i] = walk.log[i]
    BY <1>4, <2>1
  <2>3. /\ phase = "loop" /\ result = NoCommit
        /\ phase' = IF c = boundary \/ Acceptable(c) THEN "done" ELSE "loop"
        /\ result' = IF c # boundary /\ Acceptable(c) THEN c ELSE NoCommit
    BY <1>3, <1>8 DEF Examine, Stands
  <2>4. Passed(l, n)
    BY <1>3, <2>2, <2>3 DEF Passed, Stands
  <2>5. n + 1 > 0 /\ (n + 1) - 1 = n
    BY <1>4
  <2>6. CASE c # boundary /\ ~Acceptable(c)
    <3>1. \A i \in 1..(n + 1) : i \in 1..n \/ i = n + 1
      BY <1>4
    <3>2. Passed(l, n + 1)
      BY <2>2, <2>4, <2>6, <3>1 DEF Passed
    <3> QED
      BY <1>2, <2>2, <2>3, <2>6, <3>2 DEF Stands
  <2>7. CASE c = boundary \/ Acceptable(c)
    BY <1>2, <2>2, <2>3, <2>4, <2>5, <2>7 DEF Stands
  <2> QED
    BY <2>6, <2>7
<1>9. CASE UNCHANGED vars
  BY <1>2, <1>3, <1>9 DEF vars
<1> QED
  BY <1>5, <1>6, <1>7, <1>8, <1>9 DEF Next

LEMMA InductiveSearch == Spec => []SearchInv
<1>1. SearchInv /\ [Next]_vars => SearchInv'
  BY TypeStep, WalkStep, OutcomeStep DEF SearchInv
<1> QED
  BY <1>1, InitInv, PTL DEF Spec

-----------------------------------------------------------------------------
(* What has been found *)

LEMMA EndedWalk ==
    ASSUME SType, OnWalk, Outcome, phase = "done"
    PROVE  LET all  == Log!LogFrom(head, Turns)
               last == Len(walk.log)
           IN  /\ Extends(walk.log, all)
               /\ walk.stack = <<>> => all = walk.log
               /\ DOMAIN all = 1..Len(all) /\ Len(all) \in Nat
               /\ DOMAIN walk.log = 1..last /\ last \in Nat
               /\ all # <<>> => all[1] = head
<1> DEFINE all == Log!LogFrom(head, Turns)
<1>1. PICK w : IsWalk(w, Turns) /\ \E k \in 0..Turns : walk = w[k]
  BY DEF OnWalk
<1>2. PICK k \in 0..Turns : walk = w[k]
  BY <1>1
<1>3. Turns \in Nat /\ 1 \in 0..Turns /\ Turns \in 0..Turns /\ 1 \in 1..Turns
  BY TurnsType
<1>4. IsWalk(Log!Walks(head, Turns), Turns)
  BY <1>3, WalksWalk DEF SType
<1>5. Log!Walks(head, Turns) = w
  BY <1>1, <1>3, <1>4, WalkUnique DEF SType
<1>6. all = w[Turns].log
  BY <1>5 DEF Log!LogFrom
<1>7. Extends(walk.log, all)
  BY <1>1, <1>2, <1>3, <1>6, WalkGrows DEF SType
<1>8. walk.stack = <<>> => all = walk.log
  BY <1>1, <1>2, <1>3, <1>6, WalkEnds
<1>9. walk.log \in Seq(Commit) /\ all \in Seq(Commit)
  BY <1>1, <1>3, <1>6 DEF SType, IsWalk, WalkState
<1>10. all # <<>> => all[1] = head
  <2>1. w[1] = Onward(Start) /\ Start.stack = <<head>> /\ Start.log = <<>>
    BY <1>1, <1>3 DEF IsWalk, Start
  <2>2. w[1].log = Append(<<>>, head)
    BY <2>1 DEF Onward, Log!Turn
  <2>3. 1 \in DOMAIN w[1].log /\ w[1].log[1] = head
    BY <2>2
  <2> QED
    BY <1>1, <1>3, <1>6, <2>3, WalkGrows DEF Extends, SType
<1> QED
  BY <1>7, <1>8, <1>9, <1>10

\* A commit can be accepted when SearchRule accepts it.
LEMMA AcceptableRule ==
    ASSUME SType, NEW c \in Commit
    PROVE  Acceptable(c) <=> c \in verified \cap Rule!InWindow(boundary, now)
BY DEF Acceptable, Rule!InWindow

LEMMA EndFollowsRule ==
    ASSUME SearchInv
    PROVE  FollowsRule
<1> SUFFICES ASSUME phase = "done"
             PROVE  Rule!Answers(result, Log!LogFrom(head, Turns), verified, boundary, now)
  BY DEF FollowsRule, Turns
<1> DEFINE all  == Log!LogFrom(head, Turns)
           last == Len(walk.log)
           hits == Rule!Hits(all, verified, boundary, now)
<1>1. /\ Extends(walk.log, all)
      /\ walk.stack = <<>> => all = walk.log
      /\ DOMAIN all = 1..Len(all) /\ Len(all) \in Nat
      /\ DOMAIN walk.log = 1..last /\ last \in Nat
      /\ all # <<>> => all[1] = head
  BY EndedWalk DEF SearchInv
<1>2. Stands(walk, "done", result) /\ SType
  BY DEF SearchInv, Outcome
<1>3. walk.log \in Seq(Commit)
  BY <1>2 DEF SType, WalkState
<1> HIDE DEF all
<1>4. ASSUME NEW i \in hits
      PROVE  /\ i \in 1..Len(all) /\ \A j \in 1..i : all[j] # boundary
             /\ all[i] \in verified \cap Rule!InWindow(boundary, now)
  BY <1>1 DEF Rule!Hits, Rule!Walked
<1>5. ASSUME NEW n \in Nat, n <= last, Passed(walk.log, n), NEW i \in hits
      PROVE  i > n
  <2> SUFFICES ASSUME i <= n PROVE FALSE
    BY <1>1, <1>4
  <2>1. i \in 1..n /\ i \in 1..last
    BY <1>1, <1>4, <1>5
  <2>2. all[i] = walk.log[i] /\ walk.log[i] \in Commit
    BY <1>1, <1>3, <2>1 DEF Extends
  <2>3. Acceptable(walk.log[i])
    BY <1>2, <1>4, <2>2, AcceptableRule
  <2> QED
    BY <1>5, <2>1, <2>3 DEF Passed
<1>6. CASE head = boundary /\ result = NoCommit
  <2>1. ASSUME NEW i \in hits PROVE FALSE
    <3>1. 1 \in 1..i /\ all # <<>>
      BY <1>1, <1>4
    <3> QED
      BY <1>1, <1>4, <1>6, <3>1
  <2> QED
    BY <1>6, <2>1 DEF Rule!Answers, all
<1>7. CASE result = NoCommit /\ walk.stack = <<>> /\ Passed(walk.log, last)
  <2>1. ASSUME NEW i \in hits PROVE FALSE
    <3>1. i > last
      BY <1>1, <1>5, <1>7
    <3>2. i \in 1..last
      BY <1>1, <1>4, <1>7
    <3> QED
      BY <1>1, <3>1, <3>2
  <2> QED
    BY <1>7, <2>1 DEF Rule!Answers, all
<1>8. ASSUME last > 0, Passed(walk.log, last - 1)
      PROVE  /\ last - 1 \in Nat /\ last \in 1..last /\ last \in 1..Len(all)
             /\ all[last] = walk.log[last] /\ walk.log[last] \in Commit
             /\ \A i \in hits : i \in Nat /\ i >= last /\ last \in 1..i
  <2>1. last - 1 \in Nat /\ last - 1 <= last /\ last \in 1..last
    BY <1>1, <1>8
  <2>2. \A i \in hits : i > last - 1
    BY <1>5, <1>8, <2>1
  <2>3. \A i \in hits : i \in Nat /\ i >= last /\ last \in 1..i
    BY <1>1, <1>4, <2>1, <2>2
  <2> QED
    BY <1>1, <1>3, <2>1, <2>3 DEF Extends
<1>9. CASE /\ last > 0 /\ Passed(walk.log, last - 1)
           /\ walk.log[last] = boundary /\ result = NoCommit
  <2>1. ASSUME NEW i \in hits PROVE FALSE
    BY <1>4, <1>8, <1>9
  <2> QED
    BY <1>9, <2>1 DEF Rule!Answers, all
<1>10. CASE /\ last > 0 /\ Passed(walk.log, last - 1) /\ walk.log[last] # boundary
            /\ Acceptable(walk.log[last]) /\ result = walk.log[last]
  <2>1. ASSUME NEW j \in 1..last PROVE all[j] # boundary
    <3>1. all[j] = walk.log[j]
      BY <1>1 DEF Extends
    <3>2. j = last \/ j \in 1..(last - 1)
      BY <1>1
    <3> QED
      BY <1>10, <3>1, <3>2 DEF Passed
  <2>2. all[last] \in verified \cap Rule!InWindow(boundary, now)
    BY <1>2, <1>8, <1>10, AcceptableRule
  <2>3. last \in hits
    BY <1>1, <1>8, <1>10, <2>1, <2>2 DEF Rule!Hits, Rule!Walked
  <2>4. \A j \in hits : last <= j
    BY <1>1, <1>8, <1>10
  <2> QED
    BY <1>8, <1>10, <2>3, <2>4 DEF Rule!Answers, all
<1> QED
  BY <1>2, <1>6, <1>7, <1>9, <1>10 DEF Stands

\* The loop answers as SearchRule says for the commits that the iterator yields, for
\* every graph, every date and every set of signed commits (git.go:80-136).
THEOREM SearchFollowsRule == Spec => []FollowsRule
BY InductiveSearch, EndFollowsRule, PTL

\* Without merges it has been seen or the last commit seen builds on it.
LEMMA LinearRest ==
    ASSUME SearchInv, Linear, walk.log # <<>>
    PROVE  Reachable(head) \subseteq Range(walk.log) \cup Reachable(walk.log[Len(walk.log)])
<1> DEFINE last == walk.log[Len(walk.log)]
<1>1. parents \in Graph /\ last \in Commit
  BY DEF SearchInv, SType, WalkState
<1>2. Range(walk.stack) \subseteq Reachable(last)
  BY WalkAt DEF SearchInv, LinearStack
<1>3. \A d \in Range(walk.stack) : Reachable(d) \subseteq Reachable(last)
  BY <1>1, <1>2, ReachableFurther DEF Reachable
<1> QED
  BY <1>3, WalkAt, StillToCome DEF SearchInv, SType

\* The search has found a commit: the last one seen.
LEMMA FoundLast ==
    ASSUME SearchInv, result # NoCommit
    PROVE  /\ walk.log # <<>> /\ result = walk.log[Len(walk.log)] /\ result \in Commit
           /\ result \in Range(walk.log) /\ result # boundary /\ Acceptable(result)
           /\ boundary \notin Range(walk.log)
           /\ \A c \in Range(walk.log) : Acceptable(c) => c = result
<1> DEFINE last == Len(walk.log)
<1>1. /\ last > 0 /\ Passed(walk.log, last - 1) /\ walk.log[last] # boundary
      /\ Acceptable(walk.log[last]) /\ result = walk.log[last]
  BY DEF SearchInv, SType, Outcome, Stands
<1>2. walk.log \in Seq(Commit) /\ last \in Nat /\ DOMAIN walk.log = 1..last
  BY DEF SearchInv, SType, WalkState
<1>3. walk.log # <<>> /\ last \in DOMAIN walk.log
  BY <1>1, <1>2
<1>4. ASSUME NEW i \in DOMAIN walk.log
      PROVE  walk.log[i] # boundary /\ (Acceptable(walk.log[i]) => walk.log[i] = result)
  <2>1. i = last \/ i \in 1..(last - 1)
    BY <1>2
  <2> QED
    BY <1>1, <2>1 DEF Passed
<1> QED
  BY <1>1, <1>2, <1>3, <1>4 DEF Range

\* On a branch that is not rewritten nothing that the last finished commit builds on
\* is found, without merges or when that commit is newer (git.go:40, periodic.go:7).
THEOREM SearchKeepsBehind == Spec => []NothingBehindBoundary
<1>1. ASSUME SearchInv PROVE NothingBehindBoundary
  <2> SUFFICES ASSUME result # NoCommit, boundary \in Reachable(head), Linear \/ BoundaryNewest
               PROVE  result \in Since(boundary)
    BY DEF NothingBehindBoundary
  <2>1. /\ walk.log # <<>> /\ result = walk.log[Len(walk.log)] /\ result \in Commit
        /\ result \in Range(walk.log) /\ result # boundary /\ Acceptable(result)
        /\ boundary \notin Range(walk.log)
    BY <1>1, FoundLast
  <2>2. parents \in Graph /\ head \in Commit
    BY <1>1 DEF SearchInv, SType
  <2>3. boundary \in Commit /\ boundary # NoCommit
    BY <2>2, ReachableFacts, SearchAssumption DEF Reachable, Commit
  <2>4. result \in Reachable(head)
    BY <1>1, <2>1, WalkAt DEF SearchInv, Frontier, Seen
  <2>5. result \notin Reachable(boundary)
    <3> SUFFICES ASSUME result \in Reachable(boundary) PROVE FALSE
      OBVIOUS
    <3>1. CASE Linear
      <4>1. boundary \in Reachable(result)
        BY <1>1, <2>1, <3>1, LinearRest
      <4> QED
        BY <2>1, <2>2, <2>3, <4>1, ReachableBothWays DEF Reachable
    <3>2. CASE BoundaryNewest
      <4>1. date[result] < date[boundary] /\ date[boundary] <= date[result]
        BY <2>1, <2>3, <3>2 DEF BoundaryNewest, Acceptable
      <4>2. date[result] \in Nat /\ date[boundary] \in Nat
        BY <1>1, <2>1, <2>3 DEF SearchInv, SType
      <4> QED
        BY <4>1, <4>2
    <3> QED
      BY <3>1, <3>2
  <2> QED
    BY <2>3, <2>4, <2>5 DEF Since
<1> QED
  BY <1>1, InductiveSearch, PTL

\* Without merges a search that finds nothing has left out no commit since the last
\* finished one that it could have accepted (git.go:40-42, :92-136).
THEOREM SearchMissesNothing == Spec => []LinearNothingMissed
<1>1. ASSUME SearchInv PROVE LinearNothingMissed
  <2> SUFFICES ASSUME Linear, phase = "done", result = NoCommit,
                      NEW c \in Since(boundary), Acceptable(c)
               PROVE  FALSE
    BY DEF LinearNothingMissed, NothingMissed
  <2> DEFINE last == Len(walk.log)
  <2>1. /\ walk.log \in Seq(Commit) /\ last \in Nat /\ DOMAIN walk.log = 1..last
        /\ parents \in Graph /\ head \in Commit
    BY <1>1 DEF SearchInv, SType, WalkState
  <2>2. c \in Reachable(head)
    BY DEF Since
  <2>3. CASE head = boundary
    <3>1. boundary # NoCommit
      BY <2>1, <2>3, SearchAssumption DEF Commit
    <3> QED
      BY <2>3, <3>1 DEF Since
  <2>4. CASE walk.stack = <<>> /\ Passed(walk.log, last)
    <3>1. Range(walk.stack) = {}
      BY <2>4 DEF Range
    <3>2. c \in Range(walk.log)
      BY <1>1, <2>1, <2>2, <3>1, WalkAt, StillToCome DEF SearchInv
    <3> QED
      BY <2>1, <2>4, <3>2 DEF Range, Passed
  <2>5. CASE last > 0 /\ Passed(walk.log, last - 1) /\ walk.log[last] = boundary
    <3>1. walk.log # <<>> /\ boundary \in Commit /\ boundary # NoCommit
      BY <2>1, <2>5, SearchAssumption DEF Commit
    <3>2. c \notin Reachable(boundary)
      BY <3>1 DEF Since
    <3>3. c \in Range(walk.log) /\ c # boundary
      BY <1>1, <2>1, <2>2, <2>5, <3>1, <3>2, LinearRest, ReachableFacts DEF Reachable
    <3>4. PICK i \in 1..last : walk.log[i] = c
      BY <2>1, <3>3 DEF Range
    <3>5. i \in 1..(last - 1)
      BY <2>1, <2>5, <3>3, <3>4
    <3> QED
      BY <2>5, <3>4, <3>5 DEF Passed
  <2> QED
    BY <1>1, <2>3, <2>4, <2>5, SearchAssumption DEF SearchInv, Outcome, Stands, Commit, SType, WalkState
<1> QED
  BY <1>1, InductiveSearch, PTL

\* Without merges no acceptable commit that builds on the result has been passed over
\* (git.go:40-42, :92-136).
THEOREM SearchFindsNewest == Spec => []LinearNewestFound
<1>1. ASSUME SearchInv PROVE LinearNewestFound
  <2> SUFFICES ASSUME Linear, result # NoCommit, NEW c \in Reachable(head), Acceptable(c),
                      result \in Reachable(c)
               PROVE  c = result
    BY DEF LinearNewestFound
  <2>1. /\ walk.log # <<>> /\ result = walk.log[Len(walk.log)] /\ result \in Commit
        /\ \A d \in Range(walk.log) : Acceptable(d) => d = result
    BY <1>1, FoundLast
  <2>2. CASE c \in Range(walk.log)
    BY <2>1, <2>2
  <2>3. CASE c \in Reachable(result)
    BY <1>1, <2>1, <2>3, ReachableBothWays DEF Reachable, SearchInv, SType
  <2> QED
    BY <1>1, <2>1, <2>2, <2>3, LinearRest
<1> QED
  BY <1>1, InductiveSearch, PTL

\* With merges too, a search for which no finished commit is on the branch leaves out
\* nothing that it could have accepted (git.go:51-54, :92-136).
THEOREM SearchMissesNothingOffBranch == Spec => []NothingMissedOffBranch
<1>1. ASSUME SearchInv PROVE NothingMissedOffBranch
  <2> SUFFICES ASSUME phase = "done", result = NoCommit, boundary \notin Reachable(head),
                      NEW c \in Reachable(head), Acceptable(c)
               PROVE  FALSE
    BY DEF NothingMissedOffBranch
  <2> DEFINE last == Len(walk.log)
  <2>1. /\ walk.log \in Seq(Commit) /\ last \in Nat /\ DOMAIN walk.log = 1..last
        /\ parents \in Graph /\ head \in Commit
    BY <1>1 DEF SearchInv, SType, WalkState
  <2>2. head # boundary
    BY <2>1, ReachableFacts DEF Reachable
  <2>3. ~(last > 0 /\ walk.log[last] = boundary)
    <3>1. Range(walk.log) \subseteq Reachable(head)
      BY <1>1, WalkAt DEF SearchInv, Frontier, Seen
    <3>2. last > 0 => walk.log[last] \in Range(walk.log)
      BY <2>1 DEF Range
    <3> QED
      BY <3>1, <3>2
  <2>4. CASE walk.stack = <<>> /\ Passed(walk.log, last)
    <3>1. Range(walk.stack) = {}
      BY <2>4 DEF Range
    <3>2. c \in Range(walk.log)
      BY <1>1, <2>1, <3>1, WalkAt, StillToCome DEF SearchInv
    <3> QED
      BY <2>1, <2>4, <3>2 DEF Range, Passed
  <2> QED
    BY <1>1, <2>2, <2>3, <2>4, SearchAssumption DEF SearchInv, Outcome, Stands, Commit, SType, WalkState
<1> QED
  BY <1>1, InductiveSearch, PTL

-----------------------------------------------------------------------------
(* How long a search takes, and that it has one answer *)

\* What a search has left to do: the phases to come, the entries that wait, and those
\* that commits not yet yielded may add.
Rank == IF phase = "check" THEN 2 ELSE IF phase = "loop" THEN 1 ELSE 0
Left == Rank + Len(walk.stack) + MaxParents * (N - Len(walk.log))

LEMMA LeftType ==
    ASSUME SearchInv
    PROVE  /\ Rank \in Nat /\ Len(walk.stack) \in Nat /\ Len(walk.log) \in Nat
           /\ MaxParents * (N - Len(walk.log)) \in Nat /\ Left \in Nat
<1>1. /\ Len(walk.stack) \in Nat /\ Rank \in Nat
      /\ Len(walk.log) \in Nat /\ Len(walk.log) <= N
  BY WalkAt, LogBound DEF SearchInv, SType, WalkState, Rank
<1>2. N - Len(walk.log) \in Nat
  BY <1>1, TurnsType
<1>3. MaxParents * (N - Len(walk.log)) \in Nat
  BY <1>2, TurnsType
<1> QED
  BY <1>1, <1>3 DEF Left

\* Every step leaves less to do, whatever the graph: no search runs for ever.
THEOREM SearchShrinks == Spec => [][Left' < Left /\ Left' \in Nat /\ Left \in Nat]_vars
<1>1. ASSUME SearchInv, SearchInv', Next
      PROVE  Left \in Nat /\ Left' \in Nat /\ Left' < Left
  <2> DEFINE m == MaxParents * (N - Len(walk.log))
             l == Len(walk.stack)
  <2>1. Rank \in Nat /\ l \in Nat /\ Len(walk.log) \in Nat /\ m \in Nat /\ Left \in Nat
    BY <1>1, LeftType
  <2>2. (SearchInv => Left \in Nat)'
    BY LeftType, PTL
  <2>3. Left' \in Nat
    BY <1>1, <2>2
  <2>4. walk.stack \in Seq(Commit) /\ walk.log \in Seq(Commit) /\ parents \in Graph
    BY <1>1 DEF SearchInv, SType, WalkState
  <2>5. Left = Rank + l + m
    BY DEF Left
  <2>6. CASE CheckHead \/ Exhausted
    <3>1. walk' = walk /\ Rank' \in Nat /\ Rank' < Rank
      BY <2>6 DEF CheckHead, Exhausted, Rank
    <3>2. Left' = Rank' + l + m
      BY <3>1 DEF Left
    <3> DEFINE r == Rank'
    <3>3. r \in Nat /\ r < Rank /\ Left' = r + l + m
      BY <3>1, <3>2
    <3> HIDE DEF l, m, r
    <3>4. Left' < Left
      BY <2>1, <2>5, <3>3
    <3> QED
      BY <2>1, <2>3, <3>4
  <2>7. CASE Skip
    <3>1. walk'.log = walk.log /\ Rank' = Rank /\ walk.stack # <<>> /\ walk' = Log!Turn(walk)
      BY <2>7 DEF Skip, Rank
    <3>2. \E i \in DOMAIN walk.log : walk.log[i] = Head(walk.stack)
      <4> SUFFICES ASSUME ~\E i \in DOMAIN walk.log : walk.log[i] = Head(walk.stack) PROVE FALSE
        OBVIOUS
      <4>1. walk'.log = Append(walk.log, Head(walk.stack))
        BY <3>1 DEF Log!Turn
      <4> QED
        BY <2>4, <3>1, <4>1
    <3>3. walk'.stack = Tail(walk.stack)
      BY <1>1, <3>1, <3>2 DEF Log!Turn, SearchInv, SType, WalkState
    <3>4. Len(walk'.stack) = l - 1
      BY <2>4, <3>1, <3>3
    <3>5. Left' = Rank + (l - 1) + m
      BY <3>1, <3>4 DEF Left
    <3> HIDE DEF l, m
    <3> QED
      BY <2>1, <2>3, <2>5, <3>5
  <2>8. CASE Examine
    <3> DEFINE c == Head(walk.stack)
               p == Len(parents[c])
    <3>1. walk'.log = Append(walk.log, c) /\ c \in Commit /\ walk.stack # <<>>
      BY <1>1, <2>8, ExamineLog DEF SearchInv, Examine
    <3>2. Rank' \in Nat /\ Rank' <= Rank
      BY <2>8 DEF Examine, Rank
    <3>3. walk'.stack = parents[c] \o Tail(walk.stack)
      BY <1>1, <2>8, ExamineLog DEF SearchInv
    <3>4. parents[c] \in Seq(Commit) /\ p \in Nat /\ p <= MaxParents
      BY <2>4, <3>1 DEF Graph
    <3>5. Len(walk'.stack) = p + l - 1
      <4>1. Tail(walk.stack) \in Seq(Commit) /\ Len(Tail(walk.stack)) = l - 1
        BY <2>4, <3>1
      <4>2. Len(walk'.stack) = p + Len(Tail(walk.stack))
        BY <3>3, <3>4, <4>1
      <4> QED
        BY <2>1, <3>4, <4>1, <4>2
    <3>6. MaxParents * (N - Len(walk'.log)) = m - MaxParents
      <4>1. Len(walk'.log) = Len(walk.log) + 1
        BY <2>4, <3>1
      <4>2. N - Len(walk'.log) = (N - Len(walk.log)) - 1
        BY <2>1, <4>1, TurnsType
      <4> DEFINE k == N - Len(walk.log)
      <4>3. k \in Int /\ MaxParents \in Nat
        BY <2>1, TurnsType
      <4> HIDE DEF k
      <4>4. MaxParents * (k - 1) = MaxParents * k - MaxParents
        BY <4>3
      <4> QED
        BY <4>2, <4>4 DEF k
    <3>7. Left' = Rank' + (p + l - 1) + (m - MaxParents)
      BY <3>5, <3>6 DEF Left
    <3> DEFINE r == Rank'
    <3>8. /\ r \in Nat /\ r <= Rank /\ p \in Nat /\ p <= MaxParents /\ MaxParents \in Nat
          /\ Left' = r + (p + l - 1) + (m - MaxParents)
      BY <3>2, <3>4, <3>7, TurnsType
    <3> HIDE DEF l, m, p, r
    <3>9. Left' < Left
      BY <2>1, <2>5, <3>8
    <3> QED
      BY <2>1, <2>3, <3>9
  <2> QED
    BY <1>1, <2>1, <2>3, <2>6, <2>7, <2>8 DEF Next
<1> QED
  BY <1>1, InductiveSearch, PTL DEF Spec

\* SearchRule has exactly one answer for every log, verified commits, boundary and time:
\* the workflow's search is neither blocked nor ambiguous (git.go:92-138).
THEOREM RuleAnswersOnce ==
    ASSUME NEW log \in Seq(Commit), NEW signed, NEW bound, NEW time
    PROVE  \E c \in MaybeCommit : \A d :
              Rule!Answers(d, log, signed, bound, time) <=> d = c
<1> DEFINE hits == Rule!Hits(log, signed, bound, time)
<1>1. hits \subseteq DOMAIN log /\ DOMAIN log = 1..Len(log) /\ Len(log) \in Nat
  BY DEF Rule!Hits, Rule!Walked
<1>2. hits \subseteq Nat
  BY <1>1
<1> HIDE DEF hits
<1>3. CASE hits = {}
  BY <1>3 DEF Rule!Answers, MaybeCommit, hits
<1>4. CASE hits # {}
  <2>1. PICK i \in hits : \A j \in hits : i <= j
    BY <1>2, <1>4, LeastNumber
  <2>2. \A k \in hits : (\A j \in hits : k <= j) => k = i
    BY <1>2, <2>1
  <2>3. log[i] \in Commit
    BY <1>1, <2>1
  <2>4. \A d : Rule!Answers(d, log, signed, bound, time) <=> d = log[i]
    BY <1>4, <2>1, <2>2 DEF Rule!Answers, hits
  <2> QED
    BY <2>3, <2>4 DEF MaybeCommit
<1> QED
  BY <1>3, <1>4
=============================================================================
