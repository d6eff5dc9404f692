------------------------------ MODULE MCRegistry -------------------------------
(***************************************************************************)
(* Instances of Registry: two releases; an imported version of the first,  *)
(* an exported one of the second that derives from it, and an export that  *)
(* no release is bound to and that derives from both.                      *)
(***************************************************************************)
EXTENDS Registry, TLC

CONSTANTS v1, v2, v3, r1, r2

Bound == (v1 :> r1) @@ (v2 :> r2) @@ (v3 :> None)
Derived == (v1 :> {}) @@ (v2 :> {v1}) @@ (v3 :> {v1, v2})
Import == {v1}
Symmetric == Permutations(Proc)
================================================================================
