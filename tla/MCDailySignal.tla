----------------------------- MODULE MCDailySignal -----------------------------
(* Small instances of DailySignal for TLC. *)
EXTENDS DailySignal, TLC

(* Session 1 is asked for.  Two datasets have the same content of it, so   *)
(* that the same scores come under two ids; the second ends after it.      *)
TwoEnds == <<1, 2>>
TwoContents == << <<0, 0>>, <<0, 1>> >>

Symmetry == {f @@ g : f \in Permutations(Proc), g \in Permutations(Model)}
================================================================================
