---------------------------- MODULE CommitSearch ----------------------------
(***************************************************************************)
(* The loop of FindFirstSignedCommitFromHead (pkg/git_repository/git.go)   *)
(* over a commit graph of any shape, one turn of the commit iterator per   *)
(* step.  Whether a commit carries the required signatures is settled in   *)
(* the initial state: that is module SignatureCheck.                       *)
(***************************************************************************)
EXTENDS Integers, Sequences, FiniteSets

CONSTANTS
    N,          \* commits are 1..N, and a commit comes after its parents
    NoCommit,
    MaxParents, \* 1 for linear histories, 2 with merges
    MaxDate     \* bound on dates and on the clock

ASSUME SearchAssumption == /\ N \in Nat \ {0}
                           /\ MaxParents \in Nat
                           /\ MaxDate \in Nat
                           /\ NoCommit \notin 1..N

Commit == 1..N
MaybeCommit == Commit \cup {NoCommit}

VARIABLES
    parents,    \* the commit graph of the clone
    date,       \* committer dates
    verified,   \* the commits that carry the required signatures
    head,       \* the head of the clone
    boundary,   \* lastFinishedCommit
    now,        \* currentTime
    walk,       \* the commit iterator
    phase,      \* "check" the head, "loop", or "done"
    result      \* the commit found

input == <<parents, date, verified, head, boundary, now>>
vars  == <<input, walk, phase, result>>

Log  == INSTANCE CommitLog WITH Parents <- parents
Rule == INSTANCE SearchRule WITH Date <- date

\* Sequences of different commits older than c.
ParentLists(c) ==
    {s \in UNION {[1..n -> 1..(c - 1)] : n \in 0..MaxParents} :
        \A i, j \in DOMAIN s : s[i] = s[j] => i = j}

Init ==
    /\ parents \in {f \in [Commit -> UNION {ParentLists(c) : c \in Commit}] :
                        \A c \in Commit : f[c] \in ParentLists(c)}
    /\ date \in [Commit -> 0..MaxDate]
    /\ verified \in SUBSET Commit
    /\ head = N
    /\ boundary \in MaybeCommit
    /\ now \in 0..MaxDate
    /\ walk = [stack |-> <<head>>, log |-> <<>>]
    /\ phase = "check"
    /\ result = NoCommit

\* A head that is the boundary ends the search before the keys are read.
CheckHead ==
    /\ phase = "check"
    /\ phase' = IF head = boundary THEN "done" ELSE "loop"
    /\ UNCHANGED <<input, walk, result>>

\* The iterator passes over a commit that it has yielded before.
Skip ==
    /\ phase = "loop" /\ walk.stack # <<>>
    /\ walk' = Log!Turn(walk)
    /\ walk'.log = walk.log
    /\ UNCHANGED <<input, phase, result>>

\* A variant of Acceptable that takes newer commits only.
AcceptableIfNewer(c) ==
    /\ c \in verified
    /\ date[c] <= now
    /\ boundary # NoCommit => date[boundary] < date[c]

Acceptable(c) ==
    /\ c \in verified
    /\ date[c] <= now
    /\ boundary # NoCommit => date[boundary] <= date[c]

\* Variants of Examine: one walks on at the boundary, one gives up at the first
\* commit it cannot accept, one walks on after an acceptable commit.
ExamineUnbounded ==
    /\ phase = "loop" /\ walk.stack # <<>>
    /\ walk' = Log!Turn(walk)
    /\ walk'.log # walk.log
    /\ LET c == Head(walk.stack)
       IN /\ phase' = IF Acceptable(c) /\ c # boundary THEN "done" ELSE "loop"
          /\ result' = IF Acceptable(c) /\ c # boundary THEN c ELSE result
    /\ UNCHANGED input
ExamineFirst ==
    /\ phase = "loop" /\ walk.stack # <<>>
    /\ walk' = Log!Turn(walk)
    /\ walk'.log # walk.log
    /\ LET c == Head(walk.stack)
       IN /\ phase' = "done"
          /\ result' = IF c # boundary /\ Acceptable(c) THEN c ELSE result
    /\ UNCHANGED input
ExamineLast ==
    /\ phase = "loop" /\ walk.stack # <<>>
    /\ walk' = Log!Turn(walk)
    /\ walk'.log # walk.log
    /\ LET c == Head(walk.stack)
       IN /\ phase' = IF c = boundary THEN "done" ELSE "loop"
          /\ result' = IF c # boundary /\ Acceptable(c) THEN c ELSE result
    /\ UNCHANGED input

\* The iterator yields a commit: the boundary ends the loop, an acceptable
\* commit is the result, any other commit is passed over.
Examine ==
    /\ phase = "loop" /\ walk.stack # <<>>
    /\ walk' = Log!Turn(walk)
    /\ walk'.log # walk.log
    /\ LET c == Head(walk.stack)
       IN /\ phase' = IF c = boundary \/ Acceptable(c) THEN "done" ELSE "loop"
          /\ result' = IF c # boundary /\ Acceptable(c) THEN c ELSE result
    /\ UNCHANGED input

\* A variant of Exhausted that goes on at the end of the history.
ExhaustedAgain ==
    /\ phase = "loop" /\ walk.stack = <<>>
    /\ UNCHANGED vars

\* io.EOF: the history has been walked to its end.
Exhausted ==
    /\ phase = "loop" /\ walk.stack = <<>>
    /\ phase' = "done"
    /\ UNCHANGED <<input, walk, result>>

Next == CheckHead \/ Skip \/ Examine \/ Exhausted

Spec == Init /\ [][Next]_vars /\ WF_vars(Next)

-----------------------------------------------------------------------------
(* Properties *)

\* What a graph adds to a set of commits: their parents.
ParentsIn(graph, C) == UNION {{graph[d][i] : i \in DOMAIN graph[d]} : d \in C}

\* The rounds of adding parents to c.
Rounds(graph, c) ==
    LET round[n \in 0..N] ==
            IF n = 0 THEN {c} ELSE round[n - 1] \cup ParentsIn(graph, round[n - 1])
    IN round

\* Commits reachable from c, c included: N rounds reach them all.
ReachableIn(graph, c) == Rounds(graph, c)[N]
Reachable(c) == ReachableIn(parents, c)

\* The commits that came with the history of the head since the boundary.
Since(c) == Reachable(head) \ (IF c = NoCommit THEN {} ELSE Reachable(c))

\* The loop answers as SearchRule says, for every commit graph: the iterator's
\* early stop and the order of the loop's tests amount to the first hit of a list.
FollowsRule ==
    phase = "done" =>
        Rule!Answers(result, Log!LogFrom(head, N * MaxParents + 1), verified, boundary, now)

Linear == \A c \in Reachable(head) : Len(parents[c]) <= 1

\* The boundary is newer than everything that it builds on.
BoundaryNewest == \A c \in Reachable(boundary) \ {boundary} : date[c] < date[boundary]

\* On a branch that is not rewritten, nothing that the boundary builds on is found
\* again, when the history is linear or dates tell old commits from the boundary:
\* the search goes from HEAD to the last finished commit (periodic.go:3, :7).
NothingBehindBoundary ==
    result # NoCommit /\ boundary \in Reachable(head) /\ (Linear \/ BoundaryNewest) =>
        result \in Since(boundary)

\* A search that finds nothing has left out no acceptable commit that is newer
\* than the boundary (git.go:40-42).
NothingMissed ==
    phase = "done" /\ result = NoCommit => \A c \in Since(boundary) : ~Acceptable(c)

\* The same for histories without merges, on which it holds.
LinearNothingMissed == Linear => NothingMissed

\* A last finished commit that the head does not build on, as when there is none, the
\* branch was rewritten or the repository is another one (git.go:51-54), hides nothing
\* but commits older than itself, on histories of any shape.
NothingMissedOffBranch ==
    phase = "done" /\ result = NoCommit /\ boundary \notin Reachable(head) =>
        \A c \in Reachable(head) : ~Acceptable(c)

\* On a linear history no acceptable commit that builds on the result was there to
\* be found first (git.go:40-42).
LinearNewestFound ==
    Linear /\ result # NoCommit =>
        \A c \in Reachable(head) : Acceptable(c) /\ result \in Reachable(c) => c = result

\* Every search ends.
SearchEnds == <>(phase = "done")
=============================================================================
