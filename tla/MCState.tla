------------------------------ MODULE MCState ------------------------------
(***************************************************************************)
(* Instances of TerraformRun for TLC: c1 and c2 share an object, c3 wants  *)
(* nothing and c4 has no files; c2 carries a state file.                   *)
(***************************************************************************)
EXTENDS TerraformRun, TLC

CONSTANTS c1, c2, c3, c4, o1, o2, o3

Wanted4  == (c1 :> {o1, o2}) @@ (c2 :> {o2, o3}) @@ (c3 :> {}) @@ (c4 :> {})
Claimed4 == (c1 :> {}) @@ (c2 :> {o3}) @@ (c3 :> {}) @@ (c4 :> {})
=============================================================================
