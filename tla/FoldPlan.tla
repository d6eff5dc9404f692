-------------------------------- MODULE FoldPlan --------------------------------
(***************************************************************************)
(* The windows of a walk-forward run: build_walk_forward_plan of           *)
(* research/workflow/walk_forward.py, with the gaps that                   *)
(* research/workflow/timing.py makes effective, the check of               *)
(* research/evaluation/walk_forward.py, and production_refit_plan of       *)
(* models/production_refit.py.  A date is its position in the trading      *)
(* calendar, 0 .. Sessions - 1; the rolling folds are numbered from 0 and  *)
(* the final holdout comes after the last of them.                         *)
(***************************************************************************)
EXTENDS Integers, FiniteSets

CONSTANTS
    Sessions,                   \* trading days between start_date and end_date
    TrainDays, ValidDays, TestDays,
    Purge, Embargo, Buffer,     \* the configured gaps and label buffer
    Lookahead,                  \* LabelSpec.lookahead_days
    MinRolling, MinHoldout      \* observations the gates ask for

(* The day counts are positive and the gaps are not negative: anything     *)
(* else raises before a window is computed.                                *)
ASSUME PlanAssumption ==
    /\ {Sessions, Purge, Embargo, Buffer, Lookahead} \subseteq Nat
    /\ {TrainDays, ValidDays, TestDays, MinRolling, MinHoldout} \subseteq Nat \ {0}

(* effective_label_gap: never less than the lookahead of the label.        *)
Effective(gap) == IF gap < Lookahead THEN Lookahead ELSE gap

HoldoutSpan == MinHoldout + Effective(Buffer)
FirstTest == TrainDays + Effective(Purge) + ValidDays + Effective(Embargo)
HoldoutStart == Sessions - HoldoutSpan - 1

(* The conditions under which no ValueError is raised up front.            *)
Plannable ==
    /\ MinRolling % TestDays = 0
    /\ Sessions >= FirstTest + MinRolling + HoldoutSpan + 1

(* Both kinds of fold lay their windows out backwards from the first day   *)
(* of the test window.                                                     *)
ValidEnd(test) == test - Effective(Embargo) - 1
ValidStart(test) == ValidEnd(test) - ValidDays + 1
TrainEnd(test) == ValidStart(test) - Effective(Purge) - 1
TrainStart(test) == TrainEnd(test) - TrainDays + 1

Fold(test, testEnd) ==
    [trainStart |-> TrainStart(test), trainEnd |-> TrainEnd(test),
     validStart |-> ValidStart(test), validEnd |-> ValidEnd(test),
     testStart |-> test, testEnd |-> testEnd]

(* The loop moves the test window on by its own length while it ends       *)
(* before the holdout.                                                     *)
TestStart(k) == FirstTest + k * TestDays
RollingFolds == {k \in 0 .. Sessions : TestStart(k) + TestDays <= HoldoutStart}
RollingFold(k) == Fold(TestStart(k), TestStart(k) + TestDays - 1)
HoldoutFold == Fold(HoldoutStart, Sessions - 2)
RollingCount == Cardinality(RollingFolds)

(* production_refit_plan: the same windows before the day a model is       *)
(* refitted as of; the final training takes the validation window in.      *)
RefitFold(asOf) ==
    LET validEnd == asOf - Effective(Embargo) IN
    [selectionStart |-> validEnd - ValidDays - Effective(Purge) - TrainDays + 1,
     selectionEnd |-> validEnd - ValidDays - Effective(Purge),
     validStart |-> validEnd - ValidDays + 1, validEnd |-> validEnd]
Refittable(asOf) == RefitFold(asOf).selectionStart >= 0

--------------------------------------------------------------------------------
(* validate_fold_integrity, for one fold: windows that are not empty, in   *)
(* order and within the calendar, gaps that cover the lookahead, and       *)
(* training labels that are known before the first validation decision.    *)
SoundFold(f) ==
    /\ 0 <= f.trainStart /\ f.trainStart <= f.trainEnd
    /\ f.trainEnd < f.validStart /\ f.validStart <= f.validEnd
    /\ f.validEnd < f.testStart /\ f.testStart <= f.testEnd /\ f.testEnd < Sessions
    /\ f.validStart - f.trainEnd - 1 >= Lookahead
    /\ f.testStart - f.validEnd - 1 >= Lookahead
    /\ f.trainEnd + Lookahead < f.validStart

(* and for the folds in their order: no test session has two owners.       *)
Integrity ==
    /\ \A k \in RollingFolds :
          /\ SoundFold(RollingFold(k))
          /\ RollingFold(k).testEnd < HoldoutFold.testStart
    /\ SoundFold(HoldoutFold)
    /\ \A j, k \in RollingFolds :
          j < k => RollingFold(j).testEnd < RollingFold(k).testStart

(* A refit keeps the gap between its windows, and no label of what it is   *)
(* trained on looks past the day it is made as of.                         *)
SoundRefit(asOf) ==
    LET f == RefitFold(asOf) IN
    /\ 0 <= f.selectionStart /\ f.selectionStart <= f.selectionEnd /\ f.validStart <= f.validEnd
    /\ f.validStart - f.selectionEnd - 1 >= Lookahead
    /\ f.validEnd + Lookahead <= asOf
================================================================================
