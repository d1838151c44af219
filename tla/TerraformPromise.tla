-------------------------- MODULE TerraformPromise --------------------------
(***************************************************************************)
(* What ApplyTerraformFromRepo promises to the workflow: while it works on *)
(* a commit the target only comes closer to that commit, and success means *)
(* that everything the commit asks for is there.                           *)
(***************************************************************************)
CONSTANTS Commit, NoCommit, Object, Wanted, Bare

VARIABLES
    objects,    \* what exists in the target Vault
    working,    \* the commit being applied, if any
    delivered   \* the last commit applied without an error

Init ==
    /\ objects = {}
    /\ working = NoCommit
    /\ delivered = NoCommit

Begin ==
    /\ working = NoCommit
    /\ working' \in Commit
    /\ UNCHANGED <<objects, delivered>>

\* Nothing is created that the commit does not want, nothing it wants is destroyed.
Change ==
    /\ working \in Commit \ Bare
    /\ objects' \subseteq objects \cup Wanted[working]
    /\ objects \cap Wanted[working] \subseteq objects'
    /\ UNCHANGED <<working, delivered>>

Succeed ==
    /\ working \in Commit
    /\ working \in Bare \/ Wanted[working] \subseteq objects
    /\ delivered' = working
    /\ working' = NoCommit
    /\ UNCHANGED objects

Fail ==
    /\ working' = NoCommit
    /\ UNCHANGED <<objects, delivered>>

Next == Begin \/ Change \/ Succeed \/ Fail

Spec == Init /\ [][Next]_<<objects, working, delivered>>
=============================================================================
