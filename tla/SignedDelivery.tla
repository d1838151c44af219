--------------------------- MODULE SignedDelivery ---------------------------
(***************************************************************************)
(* What the plugin promises of a target Vault: terraform puts in place     *)
(* only commits that have been allowed, and only a commit that is          *)
(* completely in place, or has nothing to apply, is recorded as finished.  *)
(***************************************************************************)
CONSTANTS Commit, NoCommit, Bare

VARIABLES
    allowed,    \* the commits that may be put in place
    target,     \* what is in place, and whether all of it
    recorded    \* the commit recorded as finished

Init ==
    /\ allowed \subseteq Commit
    /\ target = [commit |-> NoCommit, complete |-> TRUE]
    /\ recorded = NoCommit

\* A decision of the operators and committers: it is never taken back here, what
\* was allowed when a search began may be applied after the decision changed.
Allow ==
    /\ allowed' \subseteq Commit
    /\ allowed \subseteq allowed'
    /\ UNCHANGED <<target, recorded>>

\* A part or all of an allowed commit is put in place.
Deploy ==
    /\ \E c \in allowed \ Bare, complete \in BOOLEAN :
          target' = [commit |-> c, complete |-> complete]
    /\ UNCHANGED <<allowed, recorded>>

Record ==
    /\ recorded' \in allowed
    /\ recorded' \in Bare \/ target = [commit |-> recorded', complete |-> TRUE]
    /\ UNCHANGED <<allowed, target>>

Next == Allow \/ Deploy \/ Record

Spec == Init /\ [][Next]_<<allowed, target, recorded>>
=============================================================================
