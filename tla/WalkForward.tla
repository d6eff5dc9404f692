------------------------------ MODULE WalkForward ------------------------------
(***************************************************************************)
(* A walk-forward run: run_walk_forward of research/workflow/walk_forward.py *)
(* and the training of a fold, train_backtest_select of                    *)
(* research/workflow/train_select.py.                                      *)
(*                                                                         *)
(* Each fold is trained into a directory of its own and then named by a    *)
(* checkpoint file, whose name holds a fingerprint of the fold, the        *)
(* dataset, the model and the portfolio; a later run of the same namespace *)
(* takes over the folds whose checkpoint is valid.  After the rolling      *)
(* folds the combined predictions are gated and a selection lock is        *)
(* written; only then comes the final holdout, and the evidence.  Runs may *)
(* share a namespace, die anywhere, and find an artifact altered.          *)
(*                                                                         *)
(* A training is deterministic: two of the same fold and recipe give the   *)
(* same predictions.  Lineage is complete: the code revision is clean.     *)
(***************************************************************************)
EXTENDS FoldPlan, Sequences

CONSTANTS
    Proc,               \* processes that run a walk-forward
    Namespace,          \* checkpoint namespaces
    Recipe,             \* what the fingerprints hold besides the fold
    Bars,               \* promotion thresholds: numbers to be reached
    RollingQuality,     \* RollingQuality[r]: what the combined rolling folds reach
    HoldoutQuality,     \* HoldoutQuality[r]: what the final holdout reaches
    MaxStarts,          \* bound: runs that are started
    MaxKills,           \* bound: runs that die
    MaxAlterations      \* bound: artifacts that are altered

ASSUME WalkForwardAssumption ==
    /\ Namespace # {} /\ Recipe # {} /\ Bars # {} /\ Bars \subseteq Nat
    /\ RollingQuality \in [Recipe -> Nat] /\ HoldoutQuality \in [Recipe -> Nat]
    /\ {MaxStarts, MaxKills, MaxAlterations} \subseteq Nat

VARIABLES
    research,       \* sequence of the directories research/<run id> of the folds
    checkpoint,     \* [Key -> what the checkpoint file says]
    partial,        \* [Key -> what the file <checkpoint>.tmp says]
    lock,           \* the files research_selection_lock.json of the aggregate directories
    evidence,       \* the manifests in the evidence directories
    proc,           \* [Proc -> the run it is in]
    starts, kills, alterations,
    excused,        \* history: trainings that had to be, or could be, repeated
    raced           \* history: trainings that checked their uniqueness at the same time

counters == <<starts, kills, alterations>>
vars == <<research, checkpoint, partial, lock, evidence, proc, counters, excused, raced>>

Holdout == RollingCount     \* the number of the final holdout
FoldNo == 0 .. RollingCount
Key == [namespace : Namespace, fold : FoldNo, recipe : Recipe]

(* A fold's run: unique and gate are the verdicts in its manifest.         *)
Training == [key : Key, bars : Bars, unique : BOOLEAN, gate : BOOLEAN,
             recorded : BOOLEAN, altered : BOOLEAN]
(* A checkpoint: the run it names and the content whose hashes it holds.   *)
Checkpoint == [run : Nat, altered : BOOLEAN]
Missing == [run |-> 0, altered |-> FALSE]

Lock == [namespace : Namespace, folds : Seq(Nat), bars : Bars]
Evidence == [folds : Seq(Nat), recipe : Recipe, bars : Bars, promoted : BOOLEAN]

At == {"idle", "fold", "train", "record", "commit", "replace", "stream", "lock", "finish"}
Run == [at : At, namespace : Namespace, recipe : Recipe, bars : Bars,
        folds : Seq(Nat), training : Nat]
Idle == [at |-> "idle", namespace |-> CHOOSE n \in Namespace : TRUE,
         recipe |-> CHOOSE r \in Recipe : TRUE, bars |-> CHOOSE b \in Bars : TRUE,
         folds |-> <<>>, training |-> 0]

Init ==
    /\ research = <<>>
    /\ checkpoint = [k \in Key |-> Missing] /\ partial = [k \in Key |-> Missing]
    /\ lock = {} /\ evidence = {}
    /\ proc = [p \in Proc |-> Idle]
    /\ starts = 0 /\ kills = 0 /\ alterations = 0
    /\ excused = {} /\ raced = {}

--------------------------------------------------------------------------------
Goto(p, at) == proc' = [proc EXCEPT ![p].at = at]
Stop(p) == proc' = [proc EXCEPT ![p] = Idle]

(* The fold a run is at, and the rolling folds it has.                     *)
KeyOf(p) == [namespace |-> proc[p].namespace, fold |-> Len(proc[p].folds), recipe |-> proc[p].recipe]
RollingOf(folds) == SubSeq(folds, 1, RollingCount)
Mine(p) == [namespace |-> proc[p].namespace, folds |-> RollingOf(proc[p].folds)]

AfterFoldUnlocked(n) == \* mutant: the lock is written when the holdout is known
    CASE n < Holdout + 1 -> "fold"
      [] n > Holdout -> "stream"

(* What follows the n-th fold: the next one; after the rolling folds their *)
(* stream, gate and lock; after the holdout the evidence.                  *)
AfterFold(n) ==
    CASE n < Holdout -> "fold"
      [] n = Holdout -> "stream"
      [] n > Holdout -> "finish"

Adopt(p, run) ==
    LET folds == Append(proc[p].folds, run) IN
    proc' = [proc EXCEPT ![p].folds = folds, ![p].at = AfterFold(Len(folds)), ![p].training = 0]

(* Others that are on the same fold, between their look at the checkpoint  *)
(* and its replacement.                                                    *)
Alongside(p) == {q \in Proc \ {p} : /\ proc[q].at \in {"train", "record", "commit", "replace"}
                                    /\ KeyOf(q) = KeyOf(p)}
Shared(p, run) ==
    IF Alongside(p) = {} THEN {} ELSE ({run} \cup {proc[q].training : q \in Alongside(p)}) \ {0}

Start(p) ==
    /\ proc[p].at = "idle" /\ Plannable
    /\ starts < MaxStarts /\ starts' = starts + 1
    /\ \E n \in Namespace, r \in Recipe, b \in Bars :
          proc' = [proc EXCEPT ![p] = [Idle EXCEPT !.at = "fold", !.namespace = n, !.recipe = r, !.bars = b]]
    /\ UNCHANGED <<research, checkpoint, partial, lock, evidence, kills, alterations, excused, raced>>

--------------------------------------------------------------------------------
(* _inspect_checkpoint: VALID when every artifact has the hash it was      *)
(* recorded with.                                                          *)
ValidGated(c) == \* mutant: a fold that was rejected is not taken over
    c.run # 0 /\ research[c.run].altered = c.altered /\ research[c.run].gate
Valid(c) == c.run # 0 /\ research[c.run].altered = c.altered

Inspect(p) ==
    /\ proc[p].at = "fold"
    /\ IF Valid(checkpoint[KeyOf(p)]) THEN Adopt(p, checkpoint[KeyOf(p)].run) ELSE Goto(p, "train")
    /\ UNCHANGED <<research, checkpoint, partial, lock, evidence, counters, excused, raced>>

(* _prediction_is_unique: no other manifest, of whatever namespace, has    *)
(* predictions with these bytes.                                           *)
SamePredictions(k, l) == k.fold = l.fold /\ k.recipe = l.recipe

UniqueInNamespace(k) == \* mutant: only the run's own namespace is searched
    \A i \in 1 .. Len(research) : research[i].recorded => research[i].key # k

Unique(k) ==
    \A i \in 1 .. Len(research) : research[i].recorded => ~SamePredictions(research[i].key, k)

(* A rolling fold is only validated, the holdout is held to the thresholds *)
(* of this run.                                                            *)
Passed(k, b) == Unique(k) /\ (k.fold = Holdout => HoldoutQuality[k.recipe] >= b)

Racing(k) == {i \in 1 .. Len(research) : ~research[i].recorded /\ SamePredictions(research[i].key, k)}

(* The fold is trained, its artifacts are written and its gate is decided. *)
Train(p) ==
    LET k == KeyOf(p) IN
    /\ proc[p].at = "train"
    /\ research' = Append(research,
           [key |-> k, bars |-> proc[p].bars, unique |-> Unique(k),
            gate |-> Passed(k, proc[p].bars), recorded |-> FALSE, altered |-> FALSE])
    /\ proc' = [proc EXCEPT ![p].at = "record", ![p].training = Len(research) + 1]
    /\ raced' = IF Racing(k) = {} THEN raced ELSE raced \cup Racing(k) \cup {Len(research) + 1}
    /\ excused' = excused \cup Shared(p, Len(research) + 1)
    /\ UNCHANGED <<checkpoint, partial, lock, evidence, counters>>

(* The manifest of the fold is written and registered.                     *)
Record(p) ==
    /\ proc[p].at = "record"
    /\ research' = [research EXCEPT ![proc[p].training].recorded = TRUE]
    /\ Goto(p, "commit")
    /\ UNCHANGED <<checkpoint, partial, lock, evidence, counters, excused, raced>>

(* _checkpoint_payload: the artifacts are hashed as they are now, and the  *)
(* checkpoint is written beside its place, under a name that every run of  *)
(* the namespace uses for it.                                              *)
Commit(p) ==
    /\ proc[p].at = "commit"
    /\ partial' = [partial EXCEPT ![KeyOf(p)] =
           [run |-> proc[p].training, altered |-> research[proc[p].training].altered]]
    /\ Goto(p, "replace")
    /\ UNCHANGED <<research, checkpoint, lock, evidence, counters, excused, raced>>

(* os.replace: whatever the file says by now; it raises when another run   *)
(* has moved it.                                                           *)
Replace(p) ==
    /\ proc[p].at = "replace"
    /\ IF partial[KeyOf(p)] # Missing
       THEN /\ checkpoint' = [checkpoint EXCEPT ![KeyOf(p)] = partial[KeyOf(p)]]
            /\ partial' = [partial EXCEPT ![KeyOf(p)] = Missing]
            /\ Adopt(p, proc[p].training)
       ELSE Stop(p) /\ UNCHANGED <<checkpoint, partial>>
    /\ excused' = excused \cup Shared(p, proc[p].training)
    /\ UNCHANGED <<research, lock, evidence, counters, raced>>

--------------------------------------------------------------------------------
(* _write_continuous_oos_stream verifies the prediction snapshots and      *)
(* raises for one that does not match; the backtest, the continuity check  *)
(* and the aggregate gate follow.                                          *)
Intact(folds) == \A i \in 1 .. Len(folds) : ~research[folds[i]].altered

Stream(p) ==
    /\ proc[p].at = "stream"
    /\ IF Intact(RollingOf(proc[p].folds)) THEN Goto(p, "lock") ELSE Stop(p)
    /\ UNCHANGED <<research, checkpoint, partial, lock, evidence, counters, excused, raced>>

(* _write_research_selection_lock: one file per namespace and rolling      *)
(* folds, replaced by every run that has them.                             *)
WriteLock(p) ==
    /\ proc[p].at = "lock"
    /\ lock' = {l \in lock : <<l.namespace, l.folds>> # <<Mine(p).namespace, Mine(p).folds>>}
               \cup {[namespace |-> Mine(p).namespace, folds |-> Mine(p).folds, bars |-> proc[p].bars]}
    /\ Goto(p, IF Len(proc[p].folds) > Holdout THEN "finish" ELSE "fold")
    /\ UNCHANGED <<research, checkpoint, partial, evidence, counters, excused, raced>>

(* The evidence directory is named after the fold runs alone.  The run is  *)
(* promoted when the aggregate gate, the gate report of the holdout and    *)
(* every component validation have passed.                                 *)
Promotable(folds, recipe, b) ==
    /\ RollingQuality[recipe] >= b
    /\ \A i \in 1 .. Len(folds) : research[folds[i]].gate

Finish(p) ==
    /\ proc[p].at = "finish"
    /\ evidence' = {e \in evidence : e.folds # proc[p].folds}
           \cup {[folds |-> proc[p].folds, recipe |-> proc[p].recipe, bars |-> proc[p].bars,
                  promoted |-> Promotable(proc[p].folds, proc[p].recipe, proc[p].bars)]}
    /\ Stop(p)
    /\ UNCHANGED <<research, checkpoint, partial, lock, counters, excused, raced>>

--------------------------------------------------------------------------------
(* A run dies, or is interrupted after a fold by the acceptance option.    *)
Kill(p) ==
    /\ proc[p].at # "idle"
    /\ kills < MaxKills /\ kills' = kills + 1
    /\ Stop(p)
    /\ excused' = excused \cup ({proc[p].training} \ {0})
    /\ UNCHANGED <<research, checkpoint, partial, lock, evidence, starts, alterations, raced>>

(* A payload of a fold is altered on the disk.                             *)
Alter ==
    /\ alterations < MaxAlterations /\ alterations' = alterations + 1
    /\ \E i \in 1 .. Len(research) :
          /\ ~research[i].altered
          /\ research' = [research EXCEPT ![i].altered = TRUE]
          /\ excused' = excused \cup {i}
    /\ UNCHANGED <<checkpoint, partial, lock, evidence, proc, starts, kills, raced>>

Step(p) ==
    \/ Inspect(p) \/ Train(p) \/ Record(p) \/ Commit(p) \/ Replace(p)
    \/ Stream(p) \/ WriteLock(p) \/ Finish(p)

Next ==
    \/ \E p \in Proc : Start(p) \/ Step(p) \/ Kill(p)
    \/ Alter

Spec == Init /\ [][Next]_vars

--------------------------------------------------------------------------------
(* The variables keep their types.                                         *)
TypeOK ==
    /\ research \in Seq(Training)
    /\ checkpoint \in [Key -> Checkpoint] /\ partial \in [Key -> Checkpoint]
    /\ lock \subseteq Lock /\ evidence \subseteq Evidence
    /\ proc \in [Proc -> Run]
    /\ starts \in 0 .. MaxStarts /\ kills \in 0 .. MaxKills
    /\ alterations \in 0 .. MaxAlterations
    /\ excused \subseteq Nat /\ raced \subseteq Nat

(* The final holdout is accessed only after the selection lock: whenever a *)
(* holdout was trained, a lock of its namespace exists whose rolling folds *)
(* are runs of the same recipe and all older than the holdout's.           *)
HoldoutAfterLock ==
    \A i \in 1 .. Len(research) :
        research[i].key.fold = Holdout =>
            \E l \in lock :
                /\ l.namespace = research[i].key.namespace
                /\ Len(l.folds) = RollingCount
                /\ \A n \in 1 .. RollingCount :
                      /\ l.folds[n] < i
                      /\ research[l.folds[n]].key = [research[i].key EXCEPT !.fold = n - 1]

(* Predictions are promoted once: the fold runs of promoted evidence are   *)
(* the folds of its recipe in their order, each with its manifest, and no  *)
(* other promoted evidence of the recipe, of any namespace, rests on other *)
(* runs, unless trainings checked their uniqueness at the same time.       *)
PromotedOnce ==
    \A e \in evidence :
        e.promoted =>
            /\ Len(e.folds) = RollingCount + 1
            /\ \A n \in 1 .. RollingCount + 1 :
                  /\ research[e.folds[n]].recorded
                  /\ research[e.folds[n]].key.fold = n - 1
                  /\ research[e.folds[n]].key.recipe = e.recipe
            /\ \A d \in evidence :
                  d.promoted /\ d.recipe = e.recipe =>
                      \A n \in 1 .. RollingCount + 1 :
                          e.folds[n] = d.folds[n] \/ {e.folds[n], d.folds[n]} \subseteq raced

(* A fold is not trained twice for a namespace: a run that starts again    *)
(* takes over every fold that is complete, unless an artifact of it was    *)
(* altered, its run died before the checkpoint was in place, or another    *)
(* run was on the same fold.                                               *)
TrainedOnce ==
    \A i, j \in 1 .. Len(research) :
        i < j /\ research[i].key = research[j].key => i \in excused
================================================================================
