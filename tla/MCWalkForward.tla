----------------------------- MODULE MCWalkForward -----------------------------
(***************************************************************************)
(* An instance of WalkForward: a calendar with two rolling folds and a     *)
(* holdout, and two recipes, the holdout of the second of which fails.     *)
(***************************************************************************)
EXTENDS WalkForward, TLC

CONSTANTS r1, r2

Rolling == (r1 :> 1) @@ (r2 :> 1)
Final == (r1 :> 1) @@ (r2 :> 0)
Symmetric == Permutations(Proc)
================================================================================
