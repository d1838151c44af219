------------------------------ MODULE MCToken ------------------------------
(* Instances of VaultToken for TLC: tokens, requests and checks are interchangeable. *)
EXTENDS VaultToken, TLC

Symmetry == Permutations(Token) \cup Permutations(Handler) \cup Permutations(Checker)
=============================================================================
