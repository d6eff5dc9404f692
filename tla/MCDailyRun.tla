------------------------------ MODULE MCDailyRun -------------------------------
(* Instances of DailyRun for TLC. *)
EXTENDS DailyRun, TLC

LastClosed == {LastSession}
Second == {2}
Open == {}

ProcSymmetry == Permutations(Proc) \cup Permutations(Plan)
================================================================================
