----------------------------- MODULE SearchRule -----------------------------
(***************************************************************************)
(* What FindFirstSignedCommitFromHead (pkg/git_repository/git.go) answers, *)
(* as a relation between its inputs and its result.  The loop itself is    *)
(* module CommitSearch, which implements this relation.                    *)
(***************************************************************************)
EXTENDS Integers, Sequences

CONSTANTS
    Commit,     \* commit hashes
    NoCommit,   \* the nil *CommitInfo
    Date        \* committer date of every commit

ASSUME CommitAssumption == /\ NoCommit \notin Commit
                           /\ Date \in [Commit -> Nat]

MaybeCommit == Commit \cup {NoCommit}

\* Variants of InWindow that leave out one of its tests.
AnyAge(boundary, now) == {c \in Commit : Date[c] <= now}
AnyFuture(boundary, now) ==
    {c \in Commit : boundary # NoCommit => Date[boundary] <= Date[c]}

\* The commits whose date lies between the boundary's date and the current time.
InWindow(boundary, now) ==
    {c \in Commit : /\ Date[c] <= now
                    /\ boundary # NoCommit => Date[boundary] <= Date[c]}

\* Positions of the log that the walk reaches before it stops at the boundary.
Walked(log, boundary) ==
    {i \in DOMAIN log : \A j \in 1..i : log[j] # boundary}

\* Positions at which the walk would stop with a result.
Hits(log, verified, boundary, now) ==
    {i \in Walked(log, boundary) : log[i] \in verified \cap InWindow(boundary, now)}

\* The search may answer c: the first hit, or NoCommit when there is none.
Answers(c, log, verified, boundary, now) ==
    LET hits == Hits(log, verified, boundary, now)
    IN \/ c = NoCommit /\ hits = {}
       \/ \E i \in hits : log[i] = c /\ \A j \in hits : i <= j
=============================================================================
