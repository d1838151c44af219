---------------------------- MODULE MCConfigure ----------------------------
(* Instances of ConfigureRequests for TLC: requests are interchangeable. *)
EXTENDS ConfigureRequests, TLC

Requests == Permutations(Handler)
=============================================================================
