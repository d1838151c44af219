----------------------------- MODULE MCPeriodic -----------------------------
(***************************************************************************)
(* Instance of GitopsPeriodic for TLC: a linear history c1 <- c2.  c1       *)
(* carries the key's signature itself; c2 may be signed in a note.         *)
(***************************************************************************)
EXTENDS GitopsPeriodic, TLC

CONSTANTS c1, c2, k1, n1, t1, t2

Linear2 == (c1 :> <<c1>>) @@ (c2 :> <<c2, c1>>)
Dates2  == (c1 :> 0) @@ (c2 :> 1)
Own2x1  == (c1 :> {k1}) @@ (c2 :> {})
Sign2x1 == (c1 :> {}) @@ (c2 :> {k1})
Ticks   == Permutations(Tick)
=============================================================================
