----------------------------- MODULE MCHistory -----------------------------
(***************************************************************************)
(* Instance of GitopsHistory for TLC: one commit, two keys, two names.     *)
(***************************************************************************)
EXTENDS GitopsHistory, TLC

CONSTANTS c1, k1, k2, n1, n2, t1

Linear1 == c1 :> <<c1>>
Dates1  == c1 :> 0
Keys    == Permutations(Key) \cup Permutations(Name)
Sign1x2 == c1 :> {k1, k2}
Own1x0  == c1 :> {}
=============================================================================
