------------------------------ MODULE CommitLog ------------------------------
(***************************************************************************)
(* The commit iterator that gitRepo.Log returns (go-git): it walks the     *)
(* commit graph from a head in preorder, first parents first, and yields   *)
(* every commit once.                                                      *)
(***************************************************************************)
EXTENDS Naturals, Sequences

CONSTANT Parents    \* for every commit the sequence of its parents

\* One turn of the iterator: the stack of commits to visit and what it has
\* yielded so far.
Turn(walk) ==
    LET c    == Head(walk.stack)
        rest == Tail(walk.stack)
    IN IF \E i \in DOMAIN walk.log : walk.log[i] = c
       THEN [walk EXCEPT !.stack = rest]
       ELSE [stack |-> Parents[c] \o rest, log |-> Append(walk.log, c)]

\* The first turns from a head; an iterator with nothing left to visit stays so.
Walks(head, Turns) ==
    LET walk[n \in 0..Turns] ==
            IF n = 0 THEN [stack |-> <<head>>, log |-> <<>>]
            ELSE LET before == walk[n - 1]
                 IN IF before.stack = <<>> THEN before ELSE Turn(before)
    IN walk

\* The commits yielded from a head, in order.  Every turn takes one entry off
\* the stack and every commit puts its parents on it once, so Turns turns end it.
LogFrom(head, Turns) == Walks(head, Turns)[Turns].log
=============================================================================
