--------------------------- MODULE WalkForward_proofs --------------------------
(***************************************************************************)
(* Proofs about WalkForward, for any calendar the plan accepts and any     *)
(* processes, namespaces, recipes, thresholds and bounds: the types, and   *)
(* that the final holdout is trained after a selection lock.               *)
(***************************************************************************)
EXTENDS WalkForward, SequenceTheorems, FiniteSetTheorems, TLAPS

(* What build_walk_forward_plan builds passes validate_fold_integrity, for *)
(* every calendar and every configuration it accepts.                      *)
LEMMA Numbers ==
    /\ Sessions \in Nat /\ Lookahead \in Nat /\ TestDays \in Nat \ {0}
    /\ TrainDays \in Nat \ {0} /\ ValidDays \in Nat \ {0}
    /\ MinRolling \in Nat \ {0} /\ MinHoldout \in Nat \ {0}
    /\ Effective(Purge) \in Nat /\ Effective(Purge) >= Lookahead
    /\ Effective(Embargo) \in Nat /\ Effective(Embargo) >= Lookahead
    /\ Effective(Buffer) \in Nat /\ Effective(Buffer) >= Lookahead
  BY PlanAssumption DEF Effective

LEMMA Positions ==
    /\ HoldoutSpan \in Nat \ {0} /\ FirstTest \in Nat \ {0} /\ HoldoutStart \in Int
  BY Numbers DEF HoldoutSpan, FirstTest, HoldoutStart

(* A fold is sound wherever its test window begins, as long as it begins   *)
(* at FirstTest or later and ends within the calendar.                     *)
LEMMA LaidOut ==
    ASSUME NEW test \in Int, NEW testEnd \in Int,
           FirstTest <= test, test <= testEnd, testEnd < Sessions
    PROVE  SoundFold(Fold(test, testEnd))
  <1>1. test >= TrainDays + Effective(Purge) + ValidDays + Effective(Embargo)
    BY DEF FirstTest
  <1>2. /\ ValidEnd(test) = test - Effective(Embargo) - 1
        /\ ValidStart(test) = test - Effective(Embargo) - ValidDays
        /\ TrainEnd(test) = test - Effective(Embargo) - ValidDays - Effective(Purge) - 1
        /\ TrainStart(test) = test - Effective(Embargo) - ValidDays - Effective(Purge) - TrainDays
    BY Numbers DEF ValidEnd, ValidStart, TrainEnd, TrainStart
  <1> QED BY <1>1, <1>2, Numbers DEF SoundFold, Fold

(* The test windows of two rolling folds do not meet.                      *)
LEMMA Apart ==
    ASSUME NEW j \in Nat, NEW k \in Nat, j < k
    PROVE  TestStart(j) + TestDays <= TestStart(k)
  <1> DEFINE d == k - j - 1
  <1>1. d \in Nat /\ k = j + d + 1
    OBVIOUS
  <1>2. (j + d + 1) * TestDays = j * TestDays + d * TestDays + TestDays
    BY <1>1, Numbers
  <1>3. d * TestDays \in Nat /\ j * TestDays \in Nat
    BY <1>1, Numbers
  <1> HIDE DEF d
  <1>4. k * TestDays = j * TestDays + d * TestDays + TestDays
    BY <1>1, <1>2
  <1>5. k * TestDays \in Nat
    BY Numbers
  <1> QED BY <1>3, <1>4, <1>5, Numbers, Positions DEF TestStart

LEMMA StartsLate ==
    ASSUME NEW k \in Nat
    PROVE  TestStart(k) \in Int /\ TestStart(k) >= FirstTest
  <1>1. k * TestDays \in Nat
    BY Numbers
  <1> QED BY <1>1, Positions DEF TestStart

(* The plan the code builds never fails its own integrity check.           *)
THEOREM PlanPasses == Plannable => Integrity
  <1> SUFFICES ASSUME Plannable PROVE Integrity
    OBVIOUS
  <1>1. FirstTest <= HoldoutStart /\ HoldoutStart <= Sessions - 2
    BY Numbers, Positions DEF Plannable, HoldoutStart
  <1>2. ASSUME NEW k \in RollingFolds
        PROVE  /\ SoundFold(RollingFold(k))
               /\ RollingFold(k).testEnd < HoldoutFold.testStart
    <2>1. k \in Nat /\ TestStart(k) + TestDays <= HoldoutStart
      BY Numbers DEF RollingFolds
    <2>2. TestStart(k) \in Int /\ TestStart(k) >= FirstTest
      BY <2>1, StartsLate
    <2> DEFINE last == TestStart(k) + TestDays - 1
    <2>3. last \in Int /\ TestStart(k) <= last /\ last < HoldoutStart /\ last < Sessions
      BY <1>1, <2>1, <2>2, Numbers, Positions
    <2>4. SoundFold(Fold(TestStart(k), last))
      BY <2>2, <2>3, LaidOut
    <2> QED BY <2>3, <2>4 DEF RollingFold, HoldoutFold, Fold
  <1>3. SoundFold(HoldoutFold)
    <2>1. HoldoutStart \in Int /\ Sessions - 2 \in Int /\ Sessions - 2 < Sessions
      BY Numbers, Positions
    <2> QED BY <1>1, <2>1, LaidOut DEF HoldoutFold
  <1>4. ASSUME NEW j \in RollingFolds, NEW k \in RollingFolds, j < k
        PROVE  RollingFold(j).testEnd < RollingFold(k).testStart
    <2>1. j \in Nat /\ k \in Nat
      BY Numbers DEF RollingFolds
    <2>2. TestStart(j) + TestDays <= TestStart(k)
      BY <1>4, <2>1, Apart
    <2>3. TestStart(j) \in Int /\ TestStart(k) \in Int
      BY <2>1, StartsLate
    <2> QED BY <2>2, <2>3, Numbers DEF RollingFold, Fold
  <1> QED BY <1>2, <1>3, <1>4 DEF Integrity

(* The plan holds every fold that the rolling observations need, so that   *)
(* the check after the loop never raises.                                  *)
THEOREM EnoughRolling ==
    ASSUME Plannable, NEW k \in Nat, (k + 1) * TestDays <= MinRolling
    PROVE  k \in RollingFolds
  <1>1. k * TestDays \in Nat /\ (k + 1) * TestDays = k * TestDays + TestDays
    BY Numbers
  <1>2. TestStart(k) + TestDays <= HoldoutStart
    BY <1>1, Numbers, Positions DEF Plannable, TestStart, HoldoutStart
  <1>3. k <= k * TestDays
    BY Numbers
  <1>4. k <= Sessions
    BY <1>1, <1>2, <1>3, Numbers, Positions DEF TestStart, HoldoutStart
  <1> QED BY <1>2, <1>4, Numbers DEF RollingFolds

(* A production refit never trains on a label that its day cannot know.    *)
THEOREM RefitIsSound ==
    ASSUME NEW asOf \in Nat, Refittable(asOf)
    PROVE  SoundRefit(asOf)
  BY Numbers DEF Refittable, SoundRefit, RefitFold

--------------------------------------------------------------------------------
(* The plan has a rolling fold, by EnoughRolling, so that a run comes to   *)
(* the lock before it comes to the holdout.                                *)
LEMMA Counts == RollingCount \in Nat /\ Holdout = RollingCount /\ (Plannable => RollingCount > 0)
<1>0. IsFiniteSet(0 .. Sessions)
    BY Numbers, FS_Interval
<1>1. RollingFolds \subseteq 0 .. Sessions
    BY DEF RollingFolds
<1>2. IsFiniteSet(RollingFolds)
    BY <1>0, <1>1, FS_Subset
<1>3. RollingCount \in Nat
    BY <1>2, FS_CardinalityType DEF RollingCount
<1>4. ASSUME Plannable PROVE RollingCount > 0
    <2>1. MinRolling >= TestDays
        <3>1. MinRolling % TestDays = 0 /\ MinRolling > 0 /\ TestDays > 0
            BY <1>4, Numbers DEF Plannable
        <3>2. MinRolling < TestDays => MinRolling % TestDays = MinRolling
            BY <3>1, Numbers
        <3> QED BY <3>1, <3>2, Numbers
    <2>2. (0 + 1) * TestDays <= MinRolling
        BY <2>1, Numbers
    <2>3. 0 \in RollingFolds
        BY <1>4, <2>2, EnoughRolling
    <2> QED BY <1>2, <1>3, <2>3, FS_EmptySet DEF RollingCount
<1> QED BY <1>3, <1>4 DEF Holdout

--------------------------------------------------------------------------------
(* The run is the training of this fold.                                   *)
Known(run, namespace, recipe, fold) ==
    /\ run \in 1 .. Len(research)
    /\ research[run].key = [namespace |-> namespace, fold |-> fold, recipe |-> recipe]
InOrder(folds, namespace, recipe) ==
    \A n \in 1 .. Len(folds) : Known(folds[n], namespace, recipe, n - 1)
Locked(namespace, folds) ==
    \E l \in lock : l.namespace = namespace /\ l.folds = RollingOf(folds)

(* What a run rests on.                                                    *)
Sound(p) ==
    /\ InOrder(proc[p].folds, proc[p].namespace, proc[p].recipe)
    /\ proc[p].at \in {"fold", "train", "record", "commit", "replace"} =>
          /\ Len(proc[p].folds) <= Holdout
          /\ Len(proc[p].folds) = Holdout => Locked(proc[p].namespace, proc[p].folds)
    /\ proc[p].at \in {"stream", "lock"} => Len(proc[p].folds) = Holdout
    /\ proc[p].at \in {"record", "commit", "replace"} =>
          Known(proc[p].training, proc[p].namespace, proc[p].recipe, Len(proc[p].folds))

NamedRight ==
    \A k \in Key :
        /\ checkpoint[k].run # 0 => checkpoint[k].run \in 1 .. Len(research) /\ research[checkpoint[k].run].key = k
        /\ partial[k].run # 0 => partial[k].run \in 1 .. Len(research) /\ research[partial[k].run].key = k

LocksKnown ==
    \A l \in lock : /\ l.namespace \in Namespace /\ Len(l.folds) = RollingCount
                    /\ \E recipe \in Recipe : InOrder(l.folds, l.namespace, recipe)

LocksHold ==
    /\ \A p \in Proc : proc[p].at # "idle" => Sound(p)
    /\ NamedRight
    /\ LocksKnown
    /\ HoldoutAfterLock

(* Runs keep their fold, and what is locked stays locked.                  *)
Lasts ==
    /\ Len(research') \in Nat /\ Len(research) <= Len(research')
    /\ \A i \in 1 .. Len(research) : research'[i].key = research[i].key
    /\ \A l \in lock : \E m \in lock' : m.namespace = l.namespace /\ m.folds = l.folds

LEMMA Typed ==
    ASSUME TypeOK
    PROVE  /\ research \in Seq(Training) /\ Len(research) \in Nat
           /\ \A i \in 1 .. Len(research) : research[i] \in Training /\ research[i].key \in Key
           /\ proc \in [Proc -> Run]
           /\ \A p \in Proc : /\ proc[p] \in Run /\ proc[p].at \in At /\ proc[p].folds \in Seq(Nat)
                              /\ Len(proc[p].folds) \in Nat /\ proc[p].training \in Nat
                              /\ proc[p].namespace \in Namespace /\ proc[p].recipe \in Recipe
                              /\ proc[p].bars \in Bars
<1>1. research \in Seq(Training) /\ proc \in [Proc -> Run]
    BY DEF TypeOK
<1>2. \A i \in 1 .. Len(research) : research[i] \in Training
    BY <1>1
<1>3. \A i \in 1 .. Len(research) : research[i].key \in Key
    BY <1>2 DEF Training
<1>4. \A p \in Proc : proc[p] \in Run
    BY <1>1
<1>5. \A p \in Proc : /\ proc[p].at \in At /\ proc[p].folds \in Seq(Nat)
                      /\ proc[p].training \in Nat
                      /\ proc[p].namespace \in Namespace /\ proc[p].recipe \in Recipe
                      /\ proc[p].bars \in Bars
    BY <1>4 DEF Run
<1> QED BY <1>1, <1>2, <1>3, <1>4, <1>5

LEMMA IdleRun == Idle \in Run /\ Idle.at = "idle" /\ Idle.folds = <<>>
<1>1. /\ (CHOOSE n \in Namespace : TRUE) \in Namespace
      /\ (CHOOSE r \in Recipe : TRUE) \in Recipe
      /\ (CHOOSE b \in Bars : TRUE) \in Bars
    BY WalkForwardAssumption
<1> QED BY <1>1 DEF Idle, Run, At

(* A run that does not move stays sound.                                   *)
LEMMA StaysSound ==
    ASSUME TypeOK, NEW p \in Proc, Sound(p), Lasts, proc'[p] = proc[p]
    PROVE  Sound(p)'
<1>1. \A run, n, r, f : Known(run, n, r, f) => Known(run, n, r, f)'
    BY Typed DEF Known, Lasts
<1>2. \A n, folds : Locked(n, folds) => Locked(n, folds)'
    BY DEF Locked, Lasts, RollingOf
<1> QED BY <1>1, <1>2 DEF Sound, InOrder

(* The holdouts that were trained keep their lock.                         *)
LEMMA StaysLocked ==
    ASSUME TypeOK, LocksKnown, HoldoutAfterLock, Lasts,
           NEW i \in 1 .. Len(research), research'[i].key.fold = Holdout
    PROVE  \E l \in lock' :
                /\ l.namespace = research'[i].key.namespace
                /\ Len(l.folds) = RollingCount
                /\ \A n \in 1 .. RollingCount :
                      /\ l.folds[n] < i
                      /\ research'[l.folds[n]].key = [research'[i].key EXCEPT !.fold = n - 1]
<1>1. research'[i].key = research[i].key
    BY DEF Lasts
<1>2. PICK l \in lock :
          /\ l.namespace = research[i].key.namespace
          /\ Len(l.folds) = RollingCount
          /\ \A n \in 1 .. RollingCount :
                /\ l.folds[n] < i
                /\ research[l.folds[n]].key = [research[i].key EXCEPT !.fold = n - 1]
    BY <1>1 DEF HoldoutAfterLock
<1>3. PICK m \in lock' : m.namespace = l.namespace /\ m.folds = l.folds
    BY DEF Lasts
<1>4. ASSUME NEW n \in 1 .. RollingCount
      PROVE  research'[l.folds[n]].key = research[l.folds[n]].key
    <2>1. l.folds[n] \in 1 .. Len(research)
        BY <1>2, <1>4 DEF LocksKnown, InOrder, Known
    <2> QED BY <2>1 DEF Lasts
<1> QED BY <1>1, <1>2, <1>3, <1>4
LEMMA LocksStayKnown == ASSUME TypeOK, LocksHold, Lasts, lock' = lock PROVE LocksKnown'
<1> SUFFICES ASSUME NEW l \in lock
             PROVE  /\ l.namespace \in Namespace /\ Len(l.folds) = RollingCount
                    /\ \E recipe \in Recipe : InOrder(l.folds, l.namespace, recipe)'
    BY DEF LocksKnown
<1>1. PICK recipe \in Recipe : InOrder(l.folds, l.namespace, recipe)
    BY DEF LocksHold, LocksKnown
<1>2. \A n \in 1 .. Len(l.folds) : Known(l.folds[n], l.namespace, recipe, n - 1)'
    <2> SUFFICES ASSUME NEW n \in 1 .. Len(l.folds)
                 PROVE  Known(l.folds[n], l.namespace, recipe, n - 1)'
        OBVIOUS
    <2>1. Known(l.folds[n], l.namespace, recipe, n - 1)
        BY <1>1 DEF InOrder
    <2>2. Len(research) \in Nat /\ Len(research') >= Len(research) /\ Len(research') \in Int
        BY Typed DEF Lasts
    <2> QED BY <2>1, <2>2 DEF Known, Lasts
<1> QED BY <1>2 DEF LocksHold, LocksKnown, InOrder

(* A step that trains nothing and writes no lock.                          *)
LEMMA NothingTrained ==
    ASSUME TypeOK, LocksHold, Lasts, Len(research') = Len(research), lock' = lock
    PROVE  /\ LocksKnown' /\ HoldoutAfterLock'
           /\ checkpoint' = checkpoint /\ partial' = partial => NamedRight'
<1>1. HoldoutAfterLock'
    <2> SUFFICES ASSUME NEW i \in 1 .. Len(research'), research'[i].key.fold = Holdout
                 PROVE  \E l \in lock' :
                            /\ l.namespace = research'[i].key.namespace
                            /\ Len(l.folds) = RollingCount
                            /\ \A n \in 1 .. RollingCount :
                                  /\ l.folds[n] < i
                                  /\ research'[l.folds[n]].key = [research'[i].key EXCEPT !.fold = n - 1]
        BY DEF HoldoutAfterLock
    <2>1. i \in 1 .. Len(research)
        OBVIOUS
    <2> QED BY <2>1, StaysLocked DEF LocksHold
<1>2. LocksKnown'
    BY LocksStayKnown
<1>3. ASSUME checkpoint' = checkpoint, partial' = partial PROVE NamedRight'
    BY <1>3 DEF LocksHold, NamedRight, Lasts
<1> QED BY <1>1, <1>2, <1>3

(* One process moves.                                                      *)
LEMMA OneMoves ==
    ASSUME TypeOK, LocksHold, NEW p \in Proc, proc' = [proc EXCEPT ![p] = proc'[p]], Lasts,
           proc'[p].at # "idle" => Sound(p)', NamedRight', LocksKnown', HoldoutAfterLock'
    PROVE  LocksHold'
<1>1. ASSUME NEW q \in Proc, proc'[q].at # "idle" PROVE Sound(q)'
    <2>1. CASE q = p
        BY <1>1, <2>1
    <2>2. CASE q # p
        <3>1. proc'[q] = proc[q]
            BY <2>2, Typed
        <3>2. Sound(q)
            BY <1>1, <3>1 DEF LocksHold
        <3> QED BY <3>1, <3>2, StaysSound
    <2> QED BY <2>1, <2>2
<1> QED BY <1>1 DEF LocksHold

LEMMA GotoRun ==
    ASSUME TypeOK, NEW p \in Proc, NEW at \in At, Goto(p, at)
    PROVE  /\ proc' = [proc EXCEPT ![p] = proc'[p]] /\ proc'[p] \in Run /\ proc'[p].at = at
           /\ proc'[p].namespace = proc[p].namespace /\ proc'[p].recipe = proc[p].recipe
           /\ proc'[p].folds = proc[p].folds /\ proc'[p].training = proc[p].training
           /\ proc'[p].bars = proc[p].bars
<1>1. proc' = [proc EXCEPT ![p] = proc'[p]] /\ proc'[p] = [proc[p] EXCEPT !.at = at]
    BY Typed DEF Goto
<1>2. proc[p] \in Run
    BY Typed
<1> QED BY <1>1, <1>2 DEF Run

LEMMA StopRun ==
    ASSUME TypeOK, NEW p \in Proc, Stop(p)
    PROVE  proc' = [proc EXCEPT ![p] = proc'[p]] /\ proc'[p] \in Run /\ proc'[p].at = "idle"
  BY Typed, IdleRun DEF Stop

LEMMA RunsTyped ==
    ASSUME TypeOK, NEW p \in Proc, proc' = [proc EXCEPT ![p] = proc'[p]], proc'[p] \in Run
    PROVE  proc' \in [Proc -> Run]
  BY Typed

(* The next fold is there: Adopt.                                          *)
LEMMA AdoptRun ==
    ASSUME TypeOK, LocksHold, NEW p \in Proc, proc[p].at \in {"fold", "train", "record", "commit", "replace"},
           NEW run \in Nat, Known(run, proc[p].namespace, proc[p].recipe, Len(proc[p].folds)),
           Adopt(p, run), research' = research, lock' = lock
    PROVE  proc' = [proc EXCEPT ![p] = proc'[p]] /\ proc'[p] \in Run /\ Sound(p)'
<1> DEFINE folds == Append(proc[p].folds, run)
<1>1. Sound(p) /\ Len(proc[p].folds) <= Holdout /\ proc[p] \in Run
    BY Typed DEF LocksHold, Sound
<1>2. /\ folds \in Seq(Nat) /\ Len(folds) = Len(proc[p].folds) + 1
      /\ \A n \in 1 .. Len(proc[p].folds) : folds[n] = proc[p].folds[n]
      /\ folds[Len(proc[p].folds) + 1] = run
    BY Typed, AppendProperties
<1> HIDE DEF folds
<1>3. InOrder(folds, proc[p].namespace, proc[p].recipe)
    <2> SUFFICES ASSUME NEW n \in 1 .. Len(folds)
                 PROVE  Known(folds[n], proc[p].namespace, proc[p].recipe, n - 1)
        BY DEF InOrder
    <2>1. CASE n \in 1 .. Len(proc[p].folds)
        BY <1>1, <1>2, <2>1 DEF Sound, InOrder
    <2>2. CASE n = Len(proc[p].folds) + 1
        BY <1>2, <2>2, Typed
    <2> QED BY <1>2, <2>1, <2>2, Typed
<1>4. PICK at \in {"fold", "stream", "finish"} :
          /\ at = AfterFold(Len(folds))
          /\ at = "fold" => Len(folds) < Holdout
          /\ at = "stream" => Len(folds) = Holdout
    BY <1>2, Typed, Counts DEF AfterFold
<1>5. at \in At
    BY DEF At
<1>6. /\ proc' = [proc EXCEPT ![p] = proc'[p]]
      /\ proc'[p] = [proc[p] EXCEPT !.folds = folds, !.at = at, !.training = 0]
    BY <1>4, Typed DEF Adopt, folds
<1>7. /\ proc'[p] \in Run /\ proc'[p].folds = folds /\ proc'[p].at = at
      /\ proc'[p].namespace = proc[p].namespace /\ proc'[p].recipe = proc[p].recipe
    <2>1. proc[p] \in Run /\ folds \in Seq(Nat) /\ 0 \in Nat
        BY <1>1, <1>2
    <2> QED BY <1>5, <1>6, <2>1 DEF Run
<1>8. Sound(p)'
    BY <1>2, <1>3, <1>4, <1>7, Typed, Counts DEF Sound, InOrder, Known
<1> QED BY <1>6, <1>7, <1>8
--------------------------------------------------------------------------------
LEMMA InitLocks == Init => TypeOK /\ LocksHold
<1> SUFFICES ASSUME Init PROVE TypeOK /\ LocksHold
    OBVIOUS
<1>1. Missing \in Checkpoint /\ Missing.run = 0
    BY DEF Missing, Checkpoint
<1>2. /\ research = <<>> /\ research \in Seq(Training) /\ Len(research) = 0
      /\ checkpoint \in [Key -> Checkpoint] /\ partial \in [Key -> Checkpoint]
      /\ \A k \in Key : checkpoint[k].run = 0 /\ partial[k].run = 0
    BY <1>1 DEF Init
<1>3. /\ proc \in [Proc -> Run] /\ \A p \in Proc : proc[p].at = "idle"
      /\ lock = {} /\ evidence = {} /\ excused = {} /\ raced = {}
    BY IdleRun DEF Init
<1>4. starts \in 0 .. MaxStarts /\ kills \in 0 .. MaxKills /\ alterations \in 0 .. MaxAlterations
    BY WalkForwardAssumption DEF Init
<1> QED BY <1>2, <1>3, <1>4 DEF TypeOK, LocksHold, NamedRight, LocksKnown, HoldoutAfterLock

(* A run that moves on without a trace.                                    *)
LEMMA OnlyMoves ==
    ASSUME TypeOK, LocksHold, NEW p \in Proc,
           UNCHANGED <<research, checkpoint, partial, lock, raced, alterations>>,
           evidence' \subseteq Evidence, excused' \subseteq Nat,
           starts' \in 0 .. MaxStarts, kills' \in 0 .. MaxKills,
           proc' = [proc EXCEPT ![p] = proc'[p]], proc'[p] \in Run,
           proc'[p].at # "idle" => Sound(p)'
    PROVE  TypeOK' /\ LocksHold'
<1>1. TypeOK'
    BY RunsTyped DEF TypeOK
<1>2. Lasts
    BY Typed DEF Lasts
<1> QED BY <1>1, <1>2, NothingTrained, OneMoves

LEMMA KeyTyped ==
    ASSUME TypeOK, LocksHold, NEW p \in Proc,
           proc[p].at \in {"fold", "train", "record", "commit", "replace"}
    PROVE  /\ KeyOf(p) \in Key /\ Sound(p) /\ Len(proc[p].folds) <= Holdout
           /\ \A run : Known(run, proc[p].namespace, proc[p].recipe, Len(proc[p].folds)) <=>
                          run \in 1 .. Len(research) /\ research[run].key = KeyOf(p)
<1>1. Sound(p) /\ Len(proc[p].folds) <= Holdout
    BY DEF LocksHold, Sound
<1> QED BY <1>1, Typed, Counts DEF KeyOf, Key, FoldNo, Known

LEMMA StartStep == ASSUME TypeOK, LocksHold, NEW p \in Proc, Start(p) PROVE TypeOK' /\ LocksHold'
<1>1. PICK n \in Namespace, r \in Recipe, b \in Bars :
          proc' = [proc EXCEPT ![p] = [Idle EXCEPT !.at = "fold", !.namespace = n, !.recipe = r, !.bars = b]]
    BY DEF Start
<1>2. /\ proc' = [proc EXCEPT ![p] = proc'[p]]
      /\ proc'[p] = [Idle EXCEPT !.at = "fold", !.namespace = n, !.recipe = r, !.bars = b]
    BY <1>1, Typed
<1>3. "fold" \in At
    BY DEF At
<1>4. proc'[p] \in Run /\ proc'[p].at = "fold" /\ proc'[p].folds = <<>>
    BY <1>2, <1>3, IdleRun DEF Run
<1>5. Plannable /\ starts' \in 0 .. MaxStarts
    <2>1. starts \in Nat /\ starts < MaxStarts /\ MaxStarts \in Nat /\ starts' = starts + 1
        BY WalkForwardAssumption DEF Start, TypeOK
    <2> QED BY <2>1 DEF Start
<1>6. Sound(p)'
    BY <1>4, <1>5, Counts DEF Sound, InOrder
<1>7. /\ UNCHANGED <<research, checkpoint, partial, lock, raced, alterations, kills, evidence, excused>>
    BY DEF Start
<1> QED BY <1>2, <1>4, <1>5, <1>6, <1>7, OnlyMoves DEF TypeOK

LEMMA InspectStep == ASSUME TypeOK, LocksHold, NEW p \in Proc, Inspect(p) PROVE TypeOK' /\ LocksHold'
<1>1. /\ UNCHANGED <<research, checkpoint, partial, lock, raced, alterations>>
      /\ UNCHANGED <<starts, kills, evidence, excused>> /\ proc[p].at = "fold"
    BY DEF Inspect, counters
<1>2. CASE Valid(checkpoint[KeyOf(p)]) /\ Adopt(p, checkpoint[KeyOf(p)].run)
    <2>1. /\ checkpoint[KeyOf(p)].run \in 1 .. Len(research)
          /\ research[checkpoint[KeyOf(p)].run].key = KeyOf(p)
        BY <1>1, <1>2, KeyTyped DEF Valid, LocksHold, NamedRight
    <2>2. /\ checkpoint[KeyOf(p)].run \in Nat
          /\ Known(checkpoint[KeyOf(p)].run, proc[p].namespace, proc[p].recipe, Len(proc[p].folds))
        BY <1>1, <2>1, KeyTyped, Typed
    <2>3. proc' = [proc EXCEPT ![p] = proc'[p]] /\ proc'[p] \in Run /\ Sound(p)'
        BY <1>1, <1>2, <2>2, AdoptRun
    <2> QED BY <1>1, <2>3, OnlyMoves DEF TypeOK
<1>3. CASE Goto(p, "train")
    <2>1. "train" \in At
        BY DEF At
    <2>2. /\ proc' = [proc EXCEPT ![p] = proc'[p]] /\ proc'[p] \in Run /\ proc'[p].at = "train"
          /\ proc'[p].namespace = proc[p].namespace /\ proc'[p].recipe = proc[p].recipe
          /\ proc'[p].folds = proc[p].folds
        BY <1>3, <2>1, GotoRun
    <2>3. Sound(p)'
        <3>1. Sound(p)
            BY <1>1, KeyTyped
        <3> QED BY <1>1, <2>2, <3>1 DEF Sound, InOrder, Known, Locked, RollingOf
    <2> QED BY <1>1, <2>2, <2>3, OnlyMoves DEF TypeOK
<1> QED BY <1>2, <1>3 DEF Inspect

LEMMA StreamStep == ASSUME TypeOK, LocksHold, NEW p \in Proc, Stream(p) PROVE TypeOK' /\ LocksHold'
<1>1. /\ UNCHANGED <<research, checkpoint, partial, lock, raced, alterations>>
      /\ UNCHANGED <<starts, kills, evidence, excused>> /\ proc[p].at = "stream"
    BY DEF Stream, counters
<1>2. Sound(p)
    BY <1>1 DEF LocksHold
<1>3. CASE Goto(p, "lock")
    <2>1. "lock" \in At
        BY DEF At
    <2>2. /\ proc' = [proc EXCEPT ![p] = proc'[p]] /\ proc'[p] \in Run /\ proc'[p].at = "lock"
          /\ proc'[p].namespace = proc[p].namespace /\ proc'[p].recipe = proc[p].recipe
          /\ proc'[p].folds = proc[p].folds
        BY <1>3, <2>1, GotoRun
    <2>3. Sound(p)'
        BY <1>1, <1>2, <2>2 DEF Sound, InOrder, Known
    <2> QED BY <1>1, <2>2, <2>3, OnlyMoves DEF TypeOK
<1>4. CASE Stop(p)
    BY <1>1, <1>4, StopRun, OnlyMoves DEF TypeOK
<1> QED BY <1>3, <1>4 DEF Stream

LEMMA FinishStep == ASSUME TypeOK, LocksHold, NEW p \in Proc, Finish(p) PROVE TypeOK' /\ LocksHold'
<1>1. /\ UNCHANGED <<research, checkpoint, partial, lock, raced, alterations>>
      /\ UNCHANGED <<starts, kills, excused>> /\ Stop(p)
    BY DEF Finish, counters
<1>2. Promotable(proc[p].folds, proc[p].recipe, proc[p].bars) \in BOOLEAN
    BY DEF Promotable
<1>3. [folds |-> proc[p].folds, recipe |-> proc[p].recipe, bars |-> proc[p].bars,
       promoted |-> Promotable(proc[p].folds, proc[p].recipe, proc[p].bars)] \in Evidence
    BY <1>2, Typed DEF Evidence
<1>4. evidence' \subseteq Evidence
    BY <1>3 DEF Finish, TypeOK
<1> QED BY <1>1, <1>4, StopRun, OnlyMoves DEF TypeOK

LEMMA KillStep == ASSUME TypeOK, LocksHold, NEW p \in Proc, Kill(p) PROVE TypeOK' /\ LocksHold'
<1>1. /\ UNCHANGED <<research, checkpoint, partial, lock, raced, alterations>>
      /\ UNCHANGED <<starts, evidence>> /\ Stop(p)
      /\ kills' \in 0 .. MaxKills /\ excused' \subseteq Nat
    <2>1. kills \in Nat /\ kills < MaxKills /\ MaxKills \in Nat /\ kills' = kills + 1
        BY WalkForwardAssumption DEF Kill, TypeOK
    <2>2. kills' \in 0 .. MaxKills
        BY <2>1
    <2> QED BY <2>2, Typed DEF Kill, TypeOK
<1> QED BY <1>1, StopRun, OnlyMoves DEF TypeOK
(* A new training is the last one: those before it keep their number.      *)
LEMMA TrainStep == ASSUME TypeOK, LocksHold, NEW p \in Proc, Train(p) PROVE TypeOK' /\ LocksHold'
<1>l. PICK last \in Nat : last = Len(research) + 1
    BY Typed
<1>1. proc[p].at = "train" /\ UNCHANGED <<checkpoint, partial, lock, evidence, starts, kills, alterations>>
    BY DEF Train, counters
<1>2. /\ KeyOf(p) \in Key /\ Sound(p) /\ Len(proc[p].folds) <= Holdout
      /\ KeyOf(p) = [namespace |-> proc[p].namespace, fold |-> Len(proc[p].folds), recipe |-> proc[p].recipe]
    BY <1>1, KeyTyped DEF KeyOf
<1>3. PICK t \in Training : t.key = KeyOf(p) /\ research' = Append(research, t)
    <2>1. Unique(KeyOf(p)) \in BOOLEAN /\ Passed(KeyOf(p), proc[p].bars) \in BOOLEAN
        BY DEF Unique, Passed
    <2>2. [key |-> KeyOf(p), bars |-> proc[p].bars, unique |-> Unique(KeyOf(p)),
           gate |-> Passed(KeyOf(p), proc[p].bars), recorded |-> FALSE, altered |-> FALSE] \in Training
        BY <1>2, <2>1, Typed DEF Training
    <2> QED BY <2>2 DEF Train
<1>4. /\ research' \in Seq(Training) /\ Len(research') = last
      /\ \A i \in 1 .. Len(research) : research'[i] = research[i]
      /\ research'[last] = t
    BY <1>l, <1>3, Typed, AppendProperties
<1>5. /\ proc' = [proc EXCEPT ![p] = proc'[p]]
      /\ proc'[p] = [proc[p] EXCEPT !.at = "record", !.training = last]
    BY <1>l, Typed DEF Train
<1>6. "record" \in At /\ proc[p] \in Run
    BY Typed DEF At
<1>7. /\ proc'[p] \in Run /\ proc'[p].at = "record" /\ proc'[p].training = last
      /\ proc'[p].namespace = proc[p].namespace /\ proc'[p].recipe = proc[p].recipe
      /\ proc'[p].folds = proc[p].folds
    BY <1>4, <1>5, <1>6 DEF Run
<1>8. excused' \subseteq Nat /\ raced' \subseteq Nat
    <2>1. Shared(p, last) \subseteq Nat
        BY <1>l, Typed DEF Shared, Alongside
    <2>2. Racing(KeyOf(p)) \subseteq Nat
        BY Typed DEF Racing
    <2> QED BY <1>l, <2>1, <2>2 DEF Train, TypeOK
<1>9. TypeOK'
    BY <1>1, <1>4, <1>5, <1>7, <1>8, RunsTyped DEF TypeOK
<1>10. Lasts
    BY <1>1, <1>l, <1>4, Typed DEF Lasts
<1>11. Sound(p)'
    <2>1. Known(last, proc[p].namespace, proc[p].recipe, Len(proc[p].folds))'
        <3>1. research'[last].key = KeyOf(p) /\ last \in 1 .. Len(research')
            BY <1>l, <1>3, <1>4, Typed
        <3> QED BY <1>2, <1>7, <3>1 DEF Known
    <2>2. InOrder(proc[p].folds, proc[p].namespace, proc[p].recipe)'
        <3> SUFFICES ASSUME NEW n \in 1 .. Len(proc[p].folds)
                     PROVE  /\ proc[p].folds[n] \in 1 .. Len(research')
                            /\ research'[proc[p].folds[n]].key =
                                  [namespace |-> proc[p].namespace, fold |-> n - 1, recipe |-> proc[p].recipe]
            BY <1>7 DEF InOrder, Known
        <3>1. /\ proc[p].folds[n] \in 1 .. Len(research)
              /\ research[proc[p].folds[n]].key =
                    [namespace |-> proc[p].namespace, fold |-> n - 1, recipe |-> proc[p].recipe]
            BY <1>2 DEF Sound, InOrder, Known
        <3> QED BY <1>l, <1>4, <3>1, Typed
    <2>3. Len(proc[p].folds) = Holdout => Locked(proc[p].namespace, proc[p].folds)'
        BY <1>1, <1>2, <1>7 DEF Sound, Locked, RollingOf
    <2> QED BY <1>2, <1>7, <2>1, <2>2, <2>3 DEF Sound
<1>12. NamedRight'
    BY <1>1, <1>l, <1>4, Typed DEF LocksHold, NamedRight
<1>13. HoldoutAfterLock'
    <2> SUFFICES ASSUME NEW i \in 1 .. Len(research'), research'[i].key.fold = Holdout
                 PROVE  \E l \in lock' :
                            /\ l.namespace = research'[i].key.namespace
                            /\ Len(l.folds) = RollingCount
                            /\ \A n \in 1 .. RollingCount :
                                  /\ l.folds[n] < i
                                  /\ research'[l.folds[n]].key = [research'[i].key EXCEPT !.fold = n - 1]
        BY DEF HoldoutAfterLock
    <2>1. CASE i \in 1 .. Len(research)
        BY <1>10, <2>1, StaysLocked DEF LocksHold
    <2>2. CASE i = last
        <3>1. research'[i].key = KeyOf(p) /\ Len(proc[p].folds) = RollingCount
            BY <1>2, <1>3, <1>4, <2>2, Counts
        <3>2. PICK l \in lock : l.namespace = proc[p].namespace /\ l.folds = RollingOf(proc[p].folds)
            BY <1>1, <1>2, <3>1, Counts DEF Sound, Locked
        <3>3. Len(l.folds) = RollingCount
            BY DEF LocksHold, LocksKnown
        <3>4. ASSUME NEW n \in 1 .. RollingCount
              PROVE  /\ l.folds[n] < i
                     /\ research'[l.folds[n]].key = [research'[i].key EXCEPT !.fold = n - 1]
            <4>1. l.folds[n] = proc[p].folds[n]
                <5>1. \A m \in 1 .. RollingCount : proc[p].folds[m] \in Nat
                    BY <3>1, Typed
                <5>2. \A m \in 1 .. RollingCount - 1 + 1 :
                          SubSeq(proc[p].folds, 1, RollingCount)[m] = proc[p].folds[1 + m - 1]
                    BY <5>1, Counts, SubSeqProperties
                <5> QED BY <3>2, <5>2, Counts DEF RollingOf
            <4>2. Known(proc[p].folds[n], proc[p].namespace, proc[p].recipe, n - 1)
                BY <1>2, <3>1 DEF Sound, InOrder
            <4>3. l.folds[n] \in 1 .. Len(research)
                BY <4>1, <4>2 DEF Known
            <4>4. research'[l.folds[n]].key = [namespace |-> proc[p].namespace, fold |-> n - 1,
                                               recipe |-> proc[p].recipe]
                BY <1>4, <4>1, <4>2, <4>3 DEF Known
            <4>5. research'[i].key = [namespace |-> proc[p].namespace, fold |-> Len(proc[p].folds),
                                      recipe |-> proc[p].recipe]
                BY <1>2, <3>1
            <4>6. [research'[i].key EXCEPT !.fold = n - 1] =
                      [namespace |-> proc[p].namespace, fold |-> n - 1, recipe |-> proc[p].recipe]
                BY <4>5
            <4>7. l.folds[n] < i
                BY <1>l, <2>2, <4>3, Typed
            <4> QED BY <4>4, <4>6, <4>7
        <3> QED BY <1>1, <1>2, <3>1, <3>2, <3>3, <3>4
    <2> QED BY <1>l, <1>4, <2>1, <2>2, Typed
<1> QED BY <1>1, <1>5, <1>9, <1>10, <1>11, <1>12, <1>13, LocksStayKnown, OneMoves

(* The runs keep their keys when one of them is changed.                   *)
LEMMA SameKeys ==
    ASSUME TypeOK, NEW i \in 1 .. Len(research), NEW t \in Training, t.key = research[i].key,
           research' = [research EXCEPT ![i] = t], lock' = lock
    PROVE  research' \in Seq(Training) /\ Len(research') = Len(research) /\ Lasts
<1>1. /\ research' \in Seq(Training) /\ Len(research') = Len(research)
      /\ \A j \in 1 .. Len(research) : research'[j] = IF j = i THEN t ELSE research[j]
    BY Typed, ExceptSeq
<1> QED BY <1>1, Typed DEF Lasts

LEMMA RecordStep == ASSUME TypeOK, LocksHold, NEW p \in Proc, Record(p) PROVE TypeOK' /\ LocksHold'
<1>1. /\ proc[p].at = "record" /\ Goto(p, "commit") /\ "commit" \in At
      /\ UNCHANGED <<checkpoint, partial, lock, evidence, starts, kills, alterations, excused, raced>>
    BY DEF Record, counters, At
<1>2. /\ Sound(p) /\ proc[p].training \in 1 .. Len(research)
    BY <1>1 DEF LocksHold, Sound, Known
<1>3. /\ research' = [research EXCEPT ![proc[p].training] = [research[proc[p].training] EXCEPT !.recorded = TRUE]]
      /\ [research[proc[p].training] EXCEPT !.recorded = TRUE] \in Training
      /\ [research[proc[p].training] EXCEPT !.recorded = TRUE].key = research[proc[p].training].key
    <2>1. research[proc[p].training] \in Training
        BY <1>2, Typed
    <2> QED BY <2>1 DEF Record, Training
<1>4. research' \in Seq(Training) /\ Len(research') = Len(research) /\ Lasts
    BY <1>1, <1>2, <1>3, SameKeys
<1>5. /\ proc' = [proc EXCEPT ![p] = proc'[p]] /\ proc'[p] \in Run /\ proc'[p].at = "commit"
      /\ proc'[p].namespace = proc[p].namespace /\ proc'[p].recipe = proc[p].recipe
      /\ proc'[p].folds = proc[p].folds /\ proc'[p].training = proc[p].training
    BY <1>1, GotoRun
<1>6. TypeOK'
    BY <1>1, <1>4, <1>5, RunsTyped DEF TypeOK
<1>7. Sound(p)'
    <2>1. \A run, n, r, f : Known(run, n, r, f) => Known(run, n, r, f)'
        BY <1>4, Typed DEF Known, Lasts
    <2>2. \A n, folds : Locked(n, folds) => Locked(n, folds)'
        BY <1>1 DEF Locked, RollingOf
    <2> QED BY <1>1, <1>2, <1>5, <2>1, <2>2 DEF Sound, InOrder
<1> QED BY <1>1, <1>4, <1>5, <1>6, <1>7, NothingTrained, OneMoves

LEMMA AlterStep == ASSUME TypeOK, LocksHold, Alter PROVE TypeOK' /\ LocksHold'
<1>1. PICK i \in 1 .. Len(research) :
          /\ research' = [research EXCEPT ![i].altered = TRUE]
          /\ excused' = excused \cup {i}
    BY DEF Alter
<1>2. UNCHANGED <<checkpoint, partial, lock, evidence, proc, starts, kills, raced>>
    BY DEF Alter
<1>3. alterations' \in 0 .. MaxAlterations
    <2>1. /\ alterations \in Nat /\ alterations < MaxAlterations /\ MaxAlterations \in Nat
          /\ alterations' = alterations + 1
        BY WalkForwardAssumption DEF Alter, TypeOK
    <2> QED BY <2>1
<1>4. /\ research' = [research EXCEPT ![i] = [research[i] EXCEPT !.altered = TRUE]]
      /\ [research[i] EXCEPT !.altered = TRUE] \in Training
      /\ [research[i] EXCEPT !.altered = TRUE].key = research[i].key
    <2>1. research[i] \in Training
        BY Typed
    <2> QED BY <1>1, <2>1 DEF Training
<1>5. research' \in Seq(Training) /\ Len(research') = Len(research) /\ Lasts
    BY <1>2, <1>4, SameKeys
<1>6. excused' \subseteq Nat
    BY <1>1, Typed DEF TypeOK
<1>7. TypeOK'
    BY <1>2, <1>3, <1>5, <1>6 DEF TypeOK
<1>8. ASSUME NEW q \in Proc, proc'[q].at # "idle" PROVE Sound(q)'
    BY <1>2, <1>5, <1>8, StaysSound DEF LocksHold
<1> QED BY <1>2, <1>5, <1>7, <1>8, NothingTrained DEF LocksHold

LEMMA CommitStep == ASSUME TypeOK, LocksHold, NEW p \in Proc, Commit(p) PROVE TypeOK' /\ LocksHold'
<1>1. /\ proc[p].at = "commit" /\ Goto(p, "replace") /\ "replace" \in At
      /\ UNCHANGED <<research, checkpoint, lock, evidence, starts, kills, alterations, excused, raced>>
    BY DEF Commit, counters, At
<1>2. /\ KeyOf(p) \in Key /\ Sound(p) /\ proc[p].training \in 1 .. Len(research)
      /\ research[proc[p].training].key = KeyOf(p)
    <2>1. Known(proc[p].training, proc[p].namespace, proc[p].recipe, Len(proc[p].folds))
        BY <1>1, KeyTyped DEF Sound
    <2> QED BY <1>1, <2>1, KeyTyped
<1>3. PICK c \in Checkpoint : c.run = proc[p].training /\ partial' = [partial EXCEPT ![KeyOf(p)] = c]
    <2>1. research[proc[p].training] \in Training
        BY <1>2, Typed
    <2>2. [run |-> proc[p].training, altered |-> research[proc[p].training].altered] \in Checkpoint
        BY <2>1, Typed DEF Training, Checkpoint
    <2> QED BY <2>2 DEF Commit
<1>4. /\ partial' \in [Key -> Checkpoint] /\ partial'[KeyOf(p)] = c
      /\ \A k \in Key : k # KeyOf(p) => partial'[k] = partial[k]
    BY <1>2, <1>3 DEF TypeOK
<1>5. /\ proc' = [proc EXCEPT ![p] = proc'[p]] /\ proc'[p] \in Run /\ proc'[p].at = "replace"
      /\ proc'[p].namespace = proc[p].namespace /\ proc'[p].recipe = proc[p].recipe
      /\ proc'[p].folds = proc[p].folds /\ proc'[p].training = proc[p].training
    BY <1>1, GotoRun
<1>6. TypeOK' /\ Lasts
    BY <1>1, <1>4, <1>5, RunsTyped, Typed DEF TypeOK, Lasts
<1>7. Sound(p)'
    BY <1>1, <1>2, <1>5 DEF Sound, InOrder, Known, Locked, RollingOf
<1>8. NamedRight'
    BY <1>1, <1>2, <1>3, <1>4 DEF LocksHold, NamedRight
<1> QED BY <1>1, <1>5, <1>6, <1>7, <1>8, NothingTrained, OneMoves

LEMMA ReplaceStep == ASSUME TypeOK, LocksHold, NEW p \in Proc, Replace(p) PROVE TypeOK' /\ LocksHold'
<1>1. /\ proc[p].at = "replace"
      /\ UNCHANGED <<research, lock, evidence, starts, kills, alterations, raced>>
    BY DEF Replace, counters
<1>2. /\ KeyOf(p) \in Key
      /\ Known(proc[p].training, proc[p].namespace, proc[p].recipe, Len(proc[p].folds))
    BY <1>1, KeyTyped DEF Sound
<1>3. excused' \subseteq Nat
    <2>1. Shared(p, proc[p].training) \subseteq Nat
        BY Typed DEF Shared, Alongside
    <2> QED BY <2>1 DEF Replace, TypeOK
<1>4. Lasts
    BY <1>1, Typed DEF Lasts
<1>5. CASE Stop(p) /\ UNCHANGED <<checkpoint, partial>>
    <2>1. TypeOK'
        BY <1>1, <1>3, <1>5, StopRun, RunsTyped DEF TypeOK
    <2> QED BY <1>1, <1>4, <1>5, <2>1, StopRun, NothingTrained, OneMoves
<1>6. CASE /\ checkpoint' = [checkpoint EXCEPT ![KeyOf(p)] = partial[KeyOf(p)]]
           /\ partial' = [partial EXCEPT ![KeyOf(p)] = Missing]
           /\ Adopt(p, proc[p].training)
    <2>1. Missing \in Checkpoint /\ Missing.run = 0
        BY DEF Missing, Checkpoint
    <2>2. /\ checkpoint' \in [Key -> Checkpoint] /\ partial' \in [Key -> Checkpoint]
          /\ \A k \in Key : /\ checkpoint'[k] = IF k = KeyOf(p) THEN partial[k] ELSE checkpoint[k]
                            /\ partial'[k] = IF k = KeyOf(p) THEN Missing ELSE partial[k]
        BY <1>2, <1>6, <2>1 DEF TypeOK
    <2>3. proc' = [proc EXCEPT ![p] = proc'[p]] /\ proc'[p] \in Run /\ Sound(p)'
        BY <1>1, <1>2, <1>6, AdoptRun, Typed
    <2>4. TypeOK'
        BY <1>1, <1>3, <2>2, <2>3, RunsTyped DEF TypeOK
    <2>5. NamedRight'
        BY <1>1, <2>1, <2>2 DEF LocksHold, NamedRight
    <2> QED BY <1>1, <1>4, <2>3, <2>4, <2>5, NothingTrained, OneMoves
<1> QED BY <1>5, <1>6 DEF Replace

(* The lock that is replaced has the same rolling folds.                   *)
LEMMA WriteLockStep == ASSUME TypeOK, LocksHold, NEW p \in Proc, WriteLock(p) PROVE TypeOK' /\ LocksHold'
<1>1. /\ proc[p].at = "lock"
      /\ UNCHANGED <<research, checkpoint, partial, evidence, starts, kills, alterations, excused, raced>>
    BY DEF WriteLock, counters
<1>2. Sound(p) /\ Len(proc[p].folds) = RollingCount
    BY <1>1, Counts DEF LocksHold, Sound
<1>3. /\ RollingOf(proc[p].folds) \in Seq(Nat) /\ Len(RollingOf(proc[p].folds)) = RollingCount
      /\ \A n \in 1 .. RollingCount : RollingOf(proc[p].folds)[n] = proc[p].folds[n]
    <2>1. \A n \in 1 .. RollingCount : proc[p].folds[n] \in Nat
        BY <1>2, Typed
    <2>2. /\ SubSeq(proc[p].folds, 1, RollingCount) \in Seq(Nat)
          /\ Len(SubSeq(proc[p].folds, 1, RollingCount)) =
                IF 1 <= RollingCount THEN RollingCount - 1 + 1 ELSE 0
          /\ \A n \in 1 .. RollingCount - 1 + 1 :
                SubSeq(proc[p].folds, 1, RollingCount)[n] = proc[p].folds[1 + n - 1]
        BY <2>1, Counts, SubSeqProperties
    <2> QED BY <2>2, Counts DEF RollingOf
<1>4. PICK new \in Lock :
          /\ new.namespace = proc[p].namespace /\ new.folds = RollingOf(proc[p].folds)
          /\ lock' = {l \in lock : <<l.namespace, l.folds>> # <<new.namespace, new.folds>>} \cup {new}
    <2>1. [namespace |-> proc[p].namespace, folds |-> RollingOf(proc[p].folds),
           bars |-> proc[p].bars] \in Lock
        BY <1>3, Typed DEF Lock
    <2> QED BY <2>1 DEF WriteLock, Mine
<1>5. Lasts
    <2>1. \A l \in lock : \E m \in lock' : m.namespace = l.namespace /\ m.folds = l.folds
        BY <1>4
    <2> QED BY <1>1, <2>1, Typed DEF Lasts
<1>6. Goto(p, "fold") /\ "fold" \in At
    BY <1>2, Counts DEF WriteLock, At
<1>7. /\ proc' = [proc EXCEPT ![p] = proc'[p]] /\ proc'[p] \in Run /\ proc'[p].at = "fold"
      /\ proc'[p].namespace = proc[p].namespace /\ proc'[p].recipe = proc[p].recipe
      /\ proc'[p].folds = proc[p].folds
    BY <1>6, GotoRun
<1>8. TypeOK'
    <2>1. lock' \subseteq Lock
        BY <1>4 DEF TypeOK
    <2> QED BY <1>1, <1>7, <2>1, RunsTyped DEF TypeOK
<1>9. Sound(p)'
    <2>1. InOrder(proc[p].folds, proc[p].namespace, proc[p].recipe)'
        BY <1>1, <1>2, <1>7 DEF Sound, InOrder, Known
    <2>2. new \in lock' /\ Len(proc'[p].folds) <= Holdout
        BY <1>2, <1>4, <1>7, Counts
    <2>3. Locked(proc[p].namespace, proc[p].folds)'
        BY <1>4, <1>7, <2>2 DEF Locked, RollingOf
    <2> QED BY <1>7, <2>1, <2>2, <2>3 DEF Sound
<1>10. LocksKnown'
    <2> SUFFICES ASSUME NEW l \in lock'
                 PROVE  /\ l.namespace \in Namespace /\ Len(l.folds) = RollingCount
                        /\ \E recipe \in Recipe : InOrder(l.folds, l.namespace, recipe)'
        BY DEF LocksKnown
    <2>1. CASE l \in lock
        BY <1>1, <2>1 DEF LocksHold, LocksKnown, InOrder, Known
    <2>2. CASE l = new
        <3>1. PICK recipe \in Recipe : recipe = proc[p].recipe
            BY Typed
        <3>2. InOrder(l.folds, l.namespace, recipe)
            BY <1>2, <1>3, <1>4, <2>2, <3>1 DEF Sound, InOrder
        <3>3. InOrder(l.folds, l.namespace, recipe)'
            BY <1>1, <3>2 DEF InOrder, Known
        <3>4. l.namespace \in Namespace /\ Len(l.folds) = RollingCount
            BY <1>3, <1>4, <2>2, Typed
        <3> QED BY <3>1, <3>3, <3>4
    <2> QED BY <1>4, <2>1, <2>2
<1>11. HoldoutAfterLock'
    <2> SUFFICES ASSUME NEW i \in 1 .. Len(research), research'[i].key.fold = Holdout
                 PROVE  \E l \in lock' :
                            /\ l.namespace = research'[i].key.namespace
                            /\ Len(l.folds) = RollingCount
                            /\ \A n \in 1 .. RollingCount :
                                  /\ l.folds[n] < i
                                  /\ research'[l.folds[n]].key = [research'[i].key EXCEPT !.fold = n - 1]
        BY <1>1 DEF HoldoutAfterLock
    <2> QED BY <1>5, StaysLocked DEF LocksHold
<1>12. NamedRight'
    BY <1>1 DEF LocksHold, NamedRight
<1> QED BY <1>5, <1>7, <1>8, <1>9, <1>10, <1>11, <1>12, OneMoves

--------------------------------------------------------------------------------
LEMMA NextStep == TypeOK /\ LocksHold /\ [Next]_vars => TypeOK' /\ LocksHold'
<1> SUFFICES ASSUME TypeOK, LocksHold, [Next]_vars PROVE TypeOK' /\ LocksHold'
    OBVIOUS
<1>1. CASE UNCHANGED vars
    <2>1. /\ UNCHANGED <<research, checkpoint, partial, lock, evidence, proc>>
          /\ UNCHANGED <<starts, kills, alterations, excused, raced>>
        BY <1>1 DEF vars, counters
    <2>2. TypeOK' /\ Lasts
        BY <2>1, Typed DEF TypeOK, Lasts
    <2>3. ASSUME NEW q \in Proc, proc'[q].at # "idle" PROVE Sound(q)'
        BY <2>1, <2>2, <2>3, StaysSound DEF LocksHold
    <2> QED BY <2>1, <2>2, <2>3, NothingTrained DEF LocksHold
<1> QED
    BY <1>1, StartStep, InspectStep, TrainStep, RecordStep, CommitStep, ReplaceStep, StreamStep,
       WriteLockStep, FinishStep, KillStep, AlterStep DEF Next, Step

(* Every variable keeps its type.                                          *)
THEOREM TypeCorrect == Spec => []TypeOK
<1> QED BY InitLocks, NextStep, PTL DEF Spec

(* The final holdout is trained only after the rolling folds of its recipe *)
(* were locked, for every calendar that build_walk_forward_plan accepts.   *)
THEOREM HoldoutIsLast == Spec => []HoldoutAfterLock
<1>1. LocksHold => HoldoutAfterLock
    BY DEF LocksHold
<1> QED BY <1>1, InitLocks, NextStep, PTL DEF Spec
--------------------------------------------------------------------------------
(* Promotion.  A fold that passed its gate was unique among the runs that  *)
(* were recorded when it was trained; so an earlier run with the same      *)
(* predictions was being trained at the same time, and both are in raced.  *)
(* And the folds of a run, hence of its evidence, have their manifests.    *)
LatePassed ==
    \A i, j \in 1 .. Len(research) :
        i < j /\ research[j].gate /\ SamePredictions(research[i].key, research[j].key) =>
            {i, j} \subseteq raced

FilesRecorded ==
    \A k \in Key :
        /\ checkpoint[k].run # 0 => research[checkpoint[k].run].recorded
        /\ partial[k].run # 0 => research[partial[k].run].recorded

HasManifests(p) ==
    /\ \A n \in 1 .. Len(proc[p].folds) : research[proc[p].folds[n]].recorded
    /\ proc[p].at \in {"commit", "replace"} => research[proc[p].training].recorded
    /\ proc[p].at = "finish" => Len(proc[p].folds) = Holdout + 1

EvidenceOfFolds(e) ==
    /\ Len(e.folds) = RollingCount + 1
    /\ \E namespace \in Namespace : InOrder(e.folds, namespace, e.recipe)
    /\ \A n \in 1 .. RollingCount + 1 :
          /\ research[e.folds[n]].recorded
          /\ e.promoted => research[e.folds[n]].gate

Manifested ==
    /\ FilesRecorded
    /\ \A p \in Proc : proc[p].at # "idle" => HasManifests(p)
    /\ \A e \in evidence : EvidenceOfFolds(e)

(* No step takes a run, its verdict or its manifest away.                  *)
Stays ==
    /\ Len(research') \in Nat /\ Len(research) <= Len(research')
    /\ \A i \in 1 .. Len(research) :
          /\ research'[i].key = research[i].key /\ research'[i].gate = research[i].gate
          /\ research[i].recorded => research'[i].recorded

LEMMA KeepsStay == ASSUME TypeOK, research' = research PROVE Stays
  BY Typed DEF Stays

LEMMA RecordResearch ==
    ASSUME TypeOK, LocksHold, NEW p \in Proc, Record(p)
    PROVE  /\ proc[p].training \in 1 .. Len(research) /\ Len(research') = Len(research)
           /\ \A i \in 1 .. Len(research) :
                 /\ research'[i].key = research[i].key /\ research'[i].gate = research[i].gate
                 /\ research'[i].altered = research[i].altered
                 /\ research[i].recorded \/ i = proc[p].training => research'[i].recorded
<1>1. proc[p].training \in 1 .. Len(research)
    BY DEF LocksHold, Sound, Known, Record
<1>2. research[proc[p].training] \in Training
    BY <1>1, Typed
<1>3. PICK t \in Training :
          /\ t.key = research[proc[p].training].key /\ t.gate = research[proc[p].training].gate
          /\ t.altered = research[proc[p].training].altered /\ t.recorded
          /\ research' = [research EXCEPT ![proc[p].training] = t]
    <2>1. [research[proc[p].training] EXCEPT !.recorded = TRUE] \in Training
        BY <1>2 DEF Training
    <2> QED BY <1>2, <2>1 DEF Record, Training
<1>4. /\ Len(research') = Len(research)
      /\ \A j \in 1 .. Len(research) : research'[j] = IF j = proc[p].training THEN t ELSE research[j]
    BY <1>1, <1>3, Typed, ExceptSeq
<1> QED BY <1>1, <1>3, <1>4

LEMMA AlterResearch ==
    ASSUME TypeOK, Alter
    PROVE  \E i \in 1 .. Len(research) :
              /\ excused' = excused \cup {i} /\ Len(research') = Len(research)
              /\ \A j \in 1 .. Len(research) :
                    /\ research'[j].key = research[j].key /\ research'[j].gate = research[j].gate
                    /\ research'[j].recorded = research[j].recorded
                    /\ j # i => research'[j].altered = research[j].altered
<1>1. PICK i \in 1 .. Len(research) :
          research' = [research EXCEPT ![i].altered = TRUE] /\ excused' = excused \cup {i}
    BY DEF Alter
<1>2. research[i] \in Training
    BY Typed
<1>3. PICK t \in Training :
          /\ t.key = research[i].key /\ t.gate = research[i].gate
          /\ t.recorded = research[i].recorded
          /\ research' = [research EXCEPT ![i] = t]
    <2>1. [research[i] EXCEPT !.altered = TRUE] \in Training
        BY <1>2 DEF Training
    <2> QED BY <1>1, <1>2, <2>1 DEF Training
<1>4. /\ Len(research') = Len(research)
      /\ \A j \in 1 .. Len(research) : research'[j] = IF j = i THEN t ELSE research[j]
    BY <1>3, Typed, ExceptSeq
<1> QED BY <1>1, <1>3, <1>4

LEMMA TrainResearch ==
    ASSUME TypeOK, LocksHold, NEW p \in Proc, Train(p)
    PROVE  /\ Len(research') = Len(research) + 1
           /\ \A i \in 1 .. Len(research) : research'[i] = research[i]
           /\ research'[Len(research) + 1].key = KeyOf(p)
           /\ research'[Len(research) + 1].gate = Passed(KeyOf(p), proc[p].bars)
           /\ ~research'[Len(research) + 1].altered
           /\ ~research'[Len(research) + 1].recorded
<1>1. KeyOf(p) \in Key
    BY KeyTyped DEF Train
<1>2. PICK t \in Training :
          /\ t.key = KeyOf(p) /\ t.gate = Passed(KeyOf(p), proc[p].bars)
          /\ ~t.altered /\ ~t.recorded /\ research' = Append(research, t)
    <2>1. Unique(KeyOf(p)) \in BOOLEAN /\ Passed(KeyOf(p), proc[p].bars) \in BOOLEAN
        BY DEF Unique, Passed
    <2>2. [key |-> KeyOf(p), bars |-> proc[p].bars, unique |-> Unique(KeyOf(p)),
           gate |-> Passed(KeyOf(p), proc[p].bars), recorded |-> FALSE, altered |-> FALSE] \in Training
        BY <1>1, <2>1, Typed DEF Training
    <2> QED BY <2>2 DEF Train
<1> QED BY <1>2, Typed, AppendProperties

LEMMA ResearchStays == ASSUME TypeOK, LocksHold, [Next]_vars PROVE Stays
<1>1. ASSUME NEW p \in Proc, Train(p) PROVE Stays
    BY <1>1, TrainResearch, Typed DEF Stays
<1>2. ASSUME NEW p \in Proc, Record(p) PROVE Stays
    BY <1>2, RecordResearch, Typed DEF Stays
<1>3. ASSUME Alter PROVE Stays
    BY <1>3, AlterResearch, Typed DEF Stays
<1>4. ASSUME NEW p \in Proc,
             \/ Start(p) \/ Inspect(p) \/ Commit(p) \/ Replace(p) \/ Stream(p)
             \/ WriteLock(p) \/ Finish(p) \/ Kill(p)
      PROVE  Stays
    <2>1. research' = research
        BY <1>4 DEF Start, Inspect, Commit, Replace, Stream, WriteLock, Finish, Kill
    <2> QED BY <2>1, KeepsStay
<1>5. CASE UNCHANGED vars
    BY <1>5, KeepsStay DEF vars
<1> QED BY <1>1, <1>2, <1>3, <1>4, <1>5 DEF Next, Step

(* What Adopt does to the folds.                                           *)
LEMMA AdoptFolds ==
    ASSUME TypeOK, LocksHold, NEW p \in Proc,
           proc[p].at \in {"fold", "train", "record", "commit", "replace"},
           NEW run \in Nat, Adopt(p, run)
    PROVE  /\ proc' = [proc EXCEPT ![p] = proc'[p]]
           /\ Len(proc'[p].folds) = Len(proc[p].folds) + 1
           /\ \A n \in 1 .. Len(proc[p].folds) : proc'[p].folds[n] = proc[p].folds[n]
           /\ proc'[p].folds[Len(proc[p].folds) + 1] = run
           /\ proc'[p].at \in {"fold", "stream", "finish"}
           /\ proc'[p].at = "finish" => Len(proc'[p].folds) = Holdout + 1
<1> DEFINE folds == Append(proc[p].folds, run)
<1>1. Len(proc[p].folds) <= Holdout /\ proc[p] \in Run
    BY Typed DEF LocksHold, Sound
<1>2. /\ folds \in Seq(Nat) /\ Len(folds) = Len(proc[p].folds) + 1
      /\ \A n \in 1 .. Len(proc[p].folds) : folds[n] = proc[p].folds[n]
      /\ folds[Len(proc[p].folds) + 1] = run
    BY Typed, AppendProperties
<1> HIDE DEF folds
<1>3. PICK at \in {"fold", "stream", "finish"} :
          at = AfterFold(Len(folds)) /\ (at = "finish" => Len(folds) = Holdout + 1)
    BY <1>1, <1>2, Typed, Counts DEF AfterFold
<1>4. /\ proc' = [proc EXCEPT ![p] = proc'[p]]
      /\ proc'[p] = [proc[p] EXCEPT !.folds = folds, !.at = at, !.training = 0]
    BY <1>3, Typed DEF Adopt, folds
<1>5. proc'[p].folds = folds /\ proc'[p].at = at
    BY <1>1, <1>4 DEF Run
<1> QED BY <1>2, <1>3, <1>4, <1>5

(* A run that does not move keeps its manifests.                           *)
LEMMA KeepsManifests ==
    ASSUME TypeOK, LocksHold, Stays, NEW p \in Proc, proc[p].at # "idle", HasManifests(p),
           proc'[p] = proc[p]
    PROVE  HasManifests(p)'
<1>1. \A n \in 1 .. Len(proc[p].folds) : proc[p].folds[n] \in 1 .. Len(research)
    BY DEF LocksHold, Sound, InOrder, Known
<1>2. proc[p].at \in {"commit", "replace"} => proc[p].training \in 1 .. Len(research)
    BY DEF LocksHold, Sound, Known
<1> QED BY <1>1, <1>2 DEF HasManifests, Stays

LEMMA KeepsFiles ==
    ASSUME TypeOK, LocksHold, FilesRecorded, Stays, checkpoint' = checkpoint, partial' = partial
    PROVE  FilesRecorded'
  BY DEF FilesRecorded, LocksHold, NamedRight, Stays

LEMMA KeepsEvidence ==
    ASSUME TypeOK, Stays, NEW e, EvidenceOfFolds(e)
    PROVE  EvidenceOfFolds(e)'
<1>1. PICK namespace \in Namespace : InOrder(e.folds, namespace, e.recipe)
    BY DEF EvidenceOfFolds
<1>2. \A n \in 1 .. RollingCount + 1 : e.folds[n] \in 1 .. Len(research)
    BY <1>1 DEF EvidenceOfFolds, InOrder, Known
<1>3. InOrder(e.folds, namespace, e.recipe)'
    BY <1>1, Typed DEF InOrder, Known, Stays
<1> QED BY <1>2, <1>3 DEF EvidenceOfFolds, Stays

(* The moving run, the files and the new evidence are what is left to see. *)
LEMMA MoverManifests ==
    ASSUME TypeOK, LocksHold, Manifested, Stays, NEW p \in Proc,
           proc' = [proc EXCEPT ![p] = proc'[p]],
           proc'[p].at # "idle" => HasManifests(p)',
           FilesRecorded',
           \A e \in evidence' \ evidence : EvidenceOfFolds(e)'
    PROVE  Manifested'
<1>1. ASSUME NEW q \in Proc, proc'[q].at # "idle" PROVE HasManifests(q)'
    <2>1. CASE q = p
        BY <1>1, <2>1
    <2>2. CASE q # p
        BY <1>1, <2>2, Typed, KeepsManifests DEF Manifested
    <2> QED BY <2>1, <2>2
<1>2. ASSUME NEW e \in evidence' PROVE EvidenceOfFolds(e)'
    BY KeepsEvidence DEF Manifested
<1> QED BY <1>1, <1>2 DEF Manifested

LEMMA StepManifests ==
    ASSUME TypeOK, LocksHold, Manifested, Stays, NEW p \in Proc, Step(p) \/ Start(p) \/ Kill(p)
    PROVE  Manifested'
<1>1. ASSUME checkpoint' = checkpoint, partial' = partial PROVE FilesRecorded'
    BY <1>1, KeepsFiles DEF Manifested
<1>2. ASSUME Start(p) PROVE Manifested'
    <2>1. proc' = [proc EXCEPT ![p] = proc'[p]] /\ proc'[p].at = "fold" /\ proc'[p].folds = <<>>
        <3>1. PICK n \in Namespace, r \in Recipe, b \in Bars :
                  proc' = [proc EXCEPT ![p] = [Idle EXCEPT !.at = "fold", !.namespace = n,
                                                           !.recipe = r, !.bars = b]]
            BY <1>2 DEF Start
        <3>2. /\ proc' = [proc EXCEPT ![p] = proc'[p]]
              /\ proc'[p] = [Idle EXCEPT !.at = "fold", !.namespace = n, !.recipe = r, !.bars = b]
            BY <3>1, Typed
        <3> QED BY <3>2, IdleRun DEF Run
    <2>2. HasManifests(p)'
        BY <2>1 DEF HasManifests
    <2> QED BY <1>1, <1>2, <2>1, <2>2, MoverManifests DEF Start
<1>3. ASSUME Stop(p), FilesRecorded', \A e \in evidence' \ evidence : EvidenceOfFolds(e)'
      PROVE  Manifested'
    BY <1>3, StopRun, MoverManifests
<1>4. ASSUME NEW at \in At \ {"replace", "finish"}, Goto(p, at), at = "commit" => Record(p),
             proc[p].at # "idle",
             FilesRecorded', evidence' = evidence
      PROVE  Manifested'
    <2>1. /\ proc' = [proc EXCEPT ![p] = proc'[p]] /\ proc'[p].at = at
          /\ proc'[p].folds = proc[p].folds /\ proc'[p].training = proc[p].training
        BY <1>4, GotoRun
    <2>2. \A n \in 1 .. Len(proc[p].folds) : proc[p].folds[n] \in 1 .. Len(research)
        BY <1>4 DEF LocksHold, Sound, InOrder, Known
    <2>3. at = "commit" => research'[proc[p].training].recorded
        BY <1>4, RecordResearch
    <2>4. HasManifests(p)'
        BY <1>4, <2>1, <2>2, <2>3 DEF Manifested, HasManifests, Stays
    <2> QED BY <1>4, <2>1, <2>4, MoverManifests
<1>5. ASSUME NEW run \in 1 .. Len(research'), Adopt(p, run), research' = research,
             proc[p].at \in {"fold", "train", "record", "commit", "replace"}, research[run].recorded,
             FilesRecorded', evidence' = evidence
      PROVE  Manifested'
    <2>1. run \in Nat
        BY <1>5
    <2>2. /\ proc' = [proc EXCEPT ![p] = proc'[p]]
          /\ Len(proc'[p].folds) = Len(proc[p].folds) + 1
          /\ \A n \in 1 .. Len(proc[p].folds) : proc'[p].folds[n] = proc[p].folds[n]
          /\ proc'[p].folds[Len(proc[p].folds) + 1] = run
          /\ proc'[p].at \in {"fold", "stream", "finish"}
          /\ proc'[p].at = "finish" => Len(proc'[p].folds) = Holdout + 1
        BY <1>5, <2>1, AdoptFolds
    <2>3. \A n \in 1 .. Len(proc[p].folds) : research[proc[p].folds[n]].recorded
        BY <1>5 DEF Manifested, HasManifests
    <2>4. ASSUME NEW n \in 1 .. Len(proc'[p].folds) PROVE research'[proc'[p].folds[n]].recorded
        <3>1. n \in 1 .. Len(proc[p].folds) \/ n = Len(proc[p].folds) + 1
            BY <2>2, Typed
        <3> QED BY <1>5, <2>2, <2>3, <3>1
    <2>5. HasManifests(p)'
        BY <2>2, <2>4 DEF HasManifests
    <2> QED BY <1>5, <2>2, <2>5, MoverManifests
<1>6. ASSUME Inspect(p) PROVE Manifested'
    <2>1. proc[p].at = "fold" /\ "train" \in At
        BY <1>6 DEF Inspect, At
    <2>2. CASE Valid(checkpoint[KeyOf(p)]) /\ Adopt(p, checkpoint[KeyOf(p)].run)
        <3>1. /\ checkpoint[KeyOf(p)].run \in 1 .. Len(research)
              /\ research[checkpoint[KeyOf(p)].run].recorded
            BY <2>1, <2>2, KeyTyped DEF Valid, LocksHold, NamedRight, Manifested, FilesRecorded
        <3> QED BY <1>1, <1>5, <1>6, <2>1, <2>2, <3>1 DEF Inspect
    <2>3. CASE Goto(p, "train")
        BY <1>1, <1>4, <1>6, <2>1, <2>3 DEF Inspect
    <2> QED BY <1>6, <2>2, <2>3 DEF Inspect
<1>7. ASSUME Train(p) PROVE Manifested'
    <2>1. /\ proc[p].at = "train" /\ Sound(p)
          /\ proc' = [proc EXCEPT ![p] = proc'[p]]
          /\ proc'[p] = [proc[p] EXCEPT !.at = "record", !.training = Len(research) + 1]
        BY <1>7, Typed DEF Train, LocksHold
    <2>2. proc'[p].at = "record" /\ proc'[p].folds = proc[p].folds
        BY <2>1, Typed DEF Run
    <2>3. HasManifests(p)'
        BY <2>1, <2>2 DEF Manifested, HasManifests, Stays, Sound, InOrder, Known
    <2> QED BY <1>1, <1>7, <2>1, <2>3, MoverManifests DEF Train
<1>8. ASSUME Record(p) PROVE Manifested'
    <2>1. "commit" \in At
        BY DEF At
    <2> QED BY <1>1, <1>4, <1>8, <2>1 DEF Record
<1>9. ASSUME Commit(p) PROVE Manifested'
    <2>1. /\ proc[p].at = "commit" /\ "replace" \in At /\ Sound(p)
        BY <1>9 DEF Commit, At, LocksHold
    <2>2. /\ proc' = [proc EXCEPT ![p] = proc'[p]] /\ proc'[p].at = "replace"
          /\ proc'[p].folds = proc[p].folds /\ proc'[p].training = proc[p].training
        BY <1>9, <2>1, GotoRun DEF Commit
    <2>3. research[proc[p].training].recorded /\ proc[p].training \in 1 .. Len(research)
        BY <2>1 DEF Manifested, HasManifests, Sound, Known
    <2>4. HasManifests(p)'
        BY <1>9, <2>1, <2>2 DEF Commit, Manifested, HasManifests
    <2>5. FilesRecorded'
        <3>1. /\ KeyOf(p) \in Key /\ partial' = [partial EXCEPT ![KeyOf(p)] = partial'[KeyOf(p)]]
              /\ partial'[KeyOf(p)].run = proc[p].training
            BY <1>9, <2>1, KeyTyped DEF Commit, TypeOK
        <3>2. checkpoint' = checkpoint /\ research' = research
            BY <1>9 DEF Commit
        <3> QED BY <2>3, <3>1, <3>2 DEF Manifested, FilesRecorded, TypeOK
    <2> QED BY <1>9, <2>2, <2>4, <2>5, MoverManifests DEF Commit
<1>10. ASSUME Replace(p) PROVE Manifested'
    <2>1. proc[p].at = "replace" /\ KeyOf(p) \in Key
        BY <1>10, KeyTyped DEF Replace
    <2>2. research[proc[p].training].recorded /\ proc[p].training \in 1 .. Len(research)
        BY <2>1 DEF Manifested, HasManifests, LocksHold, Sound, Known
    <2>3. CASE Stop(p) /\ UNCHANGED <<checkpoint, partial>>
        BY <1>1, <1>3, <1>10, <2>3 DEF Replace
    <2>4. CASE /\ checkpoint' = [checkpoint EXCEPT ![KeyOf(p)] = partial[KeyOf(p)]]
               /\ partial' = [partial EXCEPT ![KeyOf(p)] = Missing]
               /\ Adopt(p, proc[p].training)
        <3>1. \A k \in Key : /\ checkpoint'[k] = IF k = KeyOf(p) THEN partial[k] ELSE checkpoint[k]
                             /\ partial'[k] = IF k = KeyOf(p) THEN Missing ELSE partial[k]
            BY <2>1, <2>4 DEF TypeOK
        <3>2. Missing.run = 0 /\ research' = research /\ evidence' = evidence
            BY <1>10 DEF Replace, Missing
        <3>3. FilesRecorded'
            BY <3>1, <3>2 DEF Manifested, FilesRecorded
        <3> QED BY <1>5, <2>1, <2>2, <2>4, <3>2, <3>3
    <2> QED BY <1>10, <2>3, <2>4 DEF Replace
<1>11. ASSUME Stream(p) PROVE Manifested'
    <2>1. "lock" \in At /\ proc[p].at = "stream"
        BY <1>11 DEF At, Stream
    <2>2. CASE Goto(p, "lock")
        BY <1>1, <1>4, <1>11, <2>1, <2>2 DEF Stream
    <2>3. CASE Stop(p)
        BY <1>1, <1>3, <1>11, <2>3 DEF Stream
    <2> QED BY <1>11, <2>2, <2>3 DEF Stream
<1>12. ASSUME WriteLock(p) PROVE Manifested'
    <2>1. /\ "fold" \in At /\ proc[p].at = "lock" /\ Len(proc[p].folds) = Holdout
          /\ Len(proc[p].folds) \in Nat
        BY <1>12, Typed DEF At, WriteLock, LocksHold, Sound
    <2>2. Goto(p, "fold")
        BY <1>12, <2>1 DEF WriteLock
    <2> QED BY <1>1, <1>4, <1>12, <2>1, <2>2 DEF WriteLock
<1>13. ASSUME Finish(p) PROVE Manifested'
    <2>1. Sound(p) /\ HasManifests(p) /\ Len(proc[p].folds) = RollingCount + 1
        BY <1>13 DEF Finish, LocksHold, Manifested, HasManifests, Holdout
    <2>2. PICK new : new = [folds |-> proc[p].folds, recipe |-> proc[p].recipe, bars |-> proc[p].bars,
              promoted |-> Promotable(proc[p].folds, proc[p].recipe, proc[p].bars)]
        OBVIOUS
    <2>3. EvidenceOfFolds(new)
        <3>1. PICK n \in Namespace : n = proc[p].namespace
            BY Typed
        <3>2. InOrder(new.folds, n, new.recipe)
            BY <2>1, <2>2, <3>1 DEF Sound
        <3>3. \A i \in 1 .. RollingCount + 1 :
                 /\ research[new.folds[i]].recorded
                 /\ new.promoted => research[new.folds[i]].gate
            BY <2>1, <2>2 DEF HasManifests, Promotable
        <3> QED BY <2>1, <2>2, <3>2, <3>3 DEF EvidenceOfFolds
    <2>4. evidence' \ evidence \subseteq {new}
        BY <1>13, <2>2 DEF Finish
    <2>5. EvidenceOfFolds(new)'
        BY <2>3, KeepsEvidence
    <2>6. Stop(p) /\ FilesRecorded'
        BY <1>1, <1>13 DEF Finish
    <2> QED BY <1>3, <2>4, <2>5, <2>6
<1>14. ASSUME Kill(p) PROVE Manifested'
    BY <1>1, <1>3, <1>14 DEF Kill
<1> QED BY <1>2, <1>6, <1>7, <1>8, <1>9, <1>10, <1>11, <1>12, <1>13, <1>14 DEF Step

(* A training races with every run of the same predictions that has no     *)
(* manifest yet; with those that have one it is not unique.                *)
LEMMA TrainRaces ==
    ASSUME TypeOK, LocksHold, LatePassed, NEW p \in Proc, Train(p)
    PROVE  LatePassed'
<1> SUFFICES ASSUME NEW i \in 1 .. Len(research'), NEW j \in 1 .. Len(research'), i < j,
                    research'[j].gate, SamePredictions(research'[i].key, research'[j].key)
             PROVE  {i, j} \subseteq raced'
    BY DEF LatePassed
<1>1. Len(research') = Len(research) + 1 /\ Len(research) \in Nat
    BY TrainResearch, Typed
<1>2. i \in 1 .. Len(research) /\ research'[i] = research[i]
    BY <1>1, TrainResearch
<1>3. CASE j \in 1 .. Len(research)
    <2>1. research'[j] = research[j]
        BY <1>3, TrainResearch
    <2>2. {i, j} \subseteq raced
        BY <1>2, <1>3, <2>1 DEF LatePassed
    <2> QED BY <2>2 DEF Train
<1>4. CASE j = Len(research) + 1
    <2>1. Unique(KeyOf(p)) /\ SamePredictions(research[i].key, KeyOf(p))
        BY <1>2, <1>4, TrainResearch DEF Passed
    <2>2. i \in Racing(KeyOf(p))
        BY <1>2, <2>1 DEF Unique, Racing
    <2> QED BY <1>4, <2>2 DEF Train
<1> QED BY <1>1, <1>3, <1>4

LEMMA NextRaces == TypeOK /\ LocksHold /\ LatePassed /\ [Next]_vars => LatePassed'
<1> SUFFICES ASSUME TypeOK, LocksHold, LatePassed, [Next]_vars PROVE LatePassed'
    OBVIOUS
<1>1. ASSUME Len(research') = Len(research), raced' = raced PROVE LatePassed'
    BY <1>1, ResearchStays DEF LatePassed, Stays
<1>2. ASSUME NEW p \in Proc, Record(p) PROVE LatePassed'
    BY <1>1, <1>2, RecordResearch DEF Record
<1>3. ASSUME Alter PROVE LatePassed'
    BY <1>1, <1>3, AlterResearch DEF Alter
<1>4. ASSUME NEW p \in Proc,
             \/ Start(p) \/ Inspect(p) \/ Commit(p) \/ Replace(p) \/ Stream(p)
             \/ WriteLock(p) \/ Finish(p) \/ Kill(p)
      PROVE  LatePassed'
    BY <1>1, <1>4 DEF Start, Inspect, Commit, Replace, Stream, WriteLock, Finish, Kill
<1>5. CASE UNCHANGED vars
    BY <1>1, <1>5 DEF vars
<1> QED BY <1>2, <1>3, <1>4, <1>5, TrainRaces DEF Next, Step

LEMMA NextManifests == TypeOK /\ LocksHold /\ Manifested /\ [Next]_vars => Manifested'
<1> SUFFICES ASSUME TypeOK, LocksHold, Manifested, [Next]_vars PROVE Manifested'
    OBVIOUS
<1>1. Stays
    BY ResearchStays
<1>2. ASSUME UNCHANGED <<checkpoint, partial, proc, evidence>> PROVE Manifested'
    BY <1>1, <1>2, KeepsFiles, KeepsEvidence, KeepsManifests DEF Manifested
<1>3. CASE UNCHANGED vars
    BY <1>2, <1>3 DEF vars
<1>4. CASE Alter
    BY <1>2, <1>4 DEF Alter
<1> QED BY <1>1, <1>3, <1>4, StepManifests DEF Next

LEMMA InitManifests == Init => LatePassed /\ Manifested
<1> SUFFICES ASSUME Init PROVE LatePassed /\ Manifested
    OBVIOUS
<1>1. research = <<>> /\ Len(research) = 0 /\ Missing.run = 0 /\ evidence = {}
    BY DEF Init, Missing
<1>2. \A p \in Proc : proc[p].at = "idle"
    BY IdleRun DEF Init
<1>3. \A k \in Key : checkpoint[k].run = 0 /\ partial[k].run = 0
    BY <1>1 DEF Init
<1> QED BY <1>1, <1>2, <1>3 DEF LatePassed, Manifested, FilesRecorded

LEMMA PromotesOnce == TypeOK /\ LatePassed /\ Manifested => PromotedOnce
<1> SUFFICES ASSUME TypeOK, LatePassed, Manifested, NEW e \in evidence, e.promoted
             PROVE  /\ Len(e.folds) = RollingCount + 1
                    /\ \A n \in 1 .. RollingCount + 1 :
                          /\ research[e.folds[n]].recorded
                          /\ research[e.folds[n]].key.fold = n - 1
                          /\ research[e.folds[n]].key.recipe = e.recipe
                    /\ \A d \in evidence :
                          d.promoted /\ d.recipe = e.recipe =>
                              \A n \in 1 .. RollingCount + 1 :
                                  e.folds[n] = d.folds[n] \/ {e.folds[n], d.folds[n]} \subseteq raced
    BY DEF PromotedOnce
<1>1. ASSUME NEW d \in evidence, d.promoted, NEW n \in 1 .. RollingCount + 1
      PROVE  /\ d.folds[n] \in 1 .. Len(research) /\ research[d.folds[n]].gate
             /\ research[d.folds[n]].recorded
             /\ research[d.folds[n]].key.fold = n - 1
             /\ research[d.folds[n]].key.recipe = d.recipe
    <2>1. EvidenceOfFolds(d)
        BY DEF Manifested
    <2>2. PICK namespace \in Namespace : InOrder(d.folds, namespace, d.recipe)
        BY <2>1 DEF EvidenceOfFolds
    <2>3. Known(d.folds[n], namespace, d.recipe, n - 1)
        BY <2>1, <2>2 DEF EvidenceOfFolds, InOrder
    <2> QED BY <1>1, <2>1, <2>3 DEF EvidenceOfFolds, Known
<1>2. ASSUME NEW d \in evidence, d.promoted, d.recipe = e.recipe,
             NEW n \in 1 .. RollingCount + 1, e.folds[n] # d.folds[n]
      PROVE  {e.folds[n], d.folds[n]} \subseteq raced
    <2>1. /\ SamePredictions(research[e.folds[n]].key, research[d.folds[n]].key)
          /\ SamePredictions(research[d.folds[n]].key, research[e.folds[n]].key)
        BY <1>1, <1>2 DEF SamePredictions
    <2>2. e.folds[n] < d.folds[n] \/ d.folds[n] < e.folds[n]
        BY <1>1, <1>2, Typed
    <2>3. CASE e.folds[n] < d.folds[n]
        BY <1>1, <1>2, <2>1, <2>3 DEF LatePassed
    <2>4. CASE d.folds[n] < e.folds[n]
        BY <1>1, <1>2, <2>1, <2>4 DEF LatePassed
    <2> QED BY <2>2, <2>3, <2>4
<1>3. Len(e.folds) = RollingCount + 1
    BY DEF Manifested, EvidenceOfFolds
<1> QED BY <1>1, <1>2, <1>3

(* The same predictions are not promoted twice, under whatever namespace,  *)
(* unless two trainings looked for each other's manifest before either had *)
(* one; and what is promoted rests on the folds of its plan, in order, all *)
(* with their manifests (_prediction_is_unique, the evidence directory).   *)
THEOREM PredictionsPromotedOnce == Spec => []PromotedOnce
<1>1. Init => TypeOK /\ LocksHold /\ LatePassed /\ Manifested
    BY InitLocks, InitManifests
<1>2. /\ TypeOK /\ LocksHold /\ LatePassed /\ Manifested /\ [Next]_vars
      => TypeOK' /\ LocksHold' /\ LatePassed' /\ Manifested'
    BY NextStep, NextRaces, NextManifests
<1> QED BY <1>1, <1>2, PromotesOnce, PTL DEF Spec

--------------------------------------------------------------------------------
(* Trainings.  A run in hand is trained and not yet adopted.  The others   *)
(* of its key are excused; so nobody overwrites the checkpoint of a run    *)
(* that is not, and whoever is about to train its fold came while it was   *)
(* in hand.                                                                *)
Underway(p) == proc[p].at \in {"record", "commit", "replace"}
InHand(i) == \E p \in Proc : Underway(p) /\ proc[p].training = i
Named(i) == [run |-> i, altered |-> FALSE]

AlteredExcused == \A i \in 1 .. Len(research) : research[i].altered => i \in excused
OneTrainer ==
    \A p, q \in Proc : Underway(p) /\ Underway(q) /\ proc[p].training = proc[q].training => p = q
OthersExcused ==
    \A p \in Proc : Underway(p) =>
        \A i \in 1 .. Len(research) :
            research[i].key = KeyOf(p) /\ i # proc[p].training => i \in excused
CompleteNamed ==
    \A i \in 1 .. Len(research) :
        i \in excused \/ InHand(i) \/ checkpoint[research[i].key] = Named(i)
SeenByTrainer ==
    \A p \in Proc : proc[p].at = "train" =>
        \A i \in 1 .. Len(research) : research[i].key = KeyOf(p) => i \in excused \/ InHand(i)
PartialOwn ==
    \A p \in Proc : proc[p].at = "replace" /\ proc[p].training \notin excused =>
        partial[KeyOf(p)] = Named(proc[p].training)

Kept ==
    /\ AlteredExcused /\ OneTrainer /\ OthersExcused /\ CompleteNamed
    /\ SeenByTrainer /\ PartialOwn /\ TrainedOnce

LEMMA UnderwayKey ==
    ASSUME TypeOK, LocksHold, NEW p \in Proc, Underway(p)
    PROVE  /\ proc[p].training \in 1 .. Len(research) /\ KeyOf(p) \in Key
           /\ research[proc[p].training].key = KeyOf(p)
<1>1. Sound(p) /\ Known(proc[p].training, proc[p].namespace, proc[p].recipe, Len(proc[p].folds))
    BY DEF LocksHold, Sound, Underway
<1> QED BY <1>1, KeyTyped DEF Underway

(* Nothing new is trained: what the steps must show.                       *)
LEMMA NothingForgotten ==
    ASSUME TypeOK, LocksHold, Kept, Stays, Len(research') = Len(research), excused \subseteq excused',
           \A i \in 1 .. Len(research) : research'[i].altered => research[i].altered \/ i \in excused',
           \A q \in Proc : Underway(q)' =>
               Underway(q) /\ proc'[q].training = proc[q].training /\ KeyOf(q)' = KeyOf(q),
           \A q \in Proc : Underway(q) /\ ~Underway(q)' =>
               \/ proc[q].training \in excused'
               \/ /\ checkpoint'[KeyOf(q)] = Named(proc[q].training)
                  /\ \A r \in Proc : proc'[r].at = "train" => KeyOf(r)' # KeyOf(q),
           \A q \in Proc : proc'[q].at = "train" =>
               \A i \in 1 .. Len(research) :
                   research[i].key = KeyOf(q)' => i \in excused \/ InHand(i),
           \A i \in 1 .. Len(research) : checkpoint[research[i].key] = Named(i) =>
               i \in excused' \/ checkpoint'[research[i].key] = Named(i),
           PartialOwn'
    PROVE  Kept'
<1>1. \A i \in 1 .. Len(research) : research'[i].key = research[i].key
    BY DEF Stays
<1>2. AlteredExcused'
    BY DEF Kept, AlteredExcused
<1>3. OneTrainer'
    BY DEF Kept, OneTrainer
<1>4. OthersExcused'
    <2> SUFFICES ASSUME NEW p \in Proc, Underway(p)', NEW i \in 1 .. Len(research),
                        research'[i].key = KeyOf(p)', i # proc'[p].training
                 PROVE  i \in excused'
        BY DEF OthersExcused
    <2>1. research[i].key = KeyOf(p) /\ i # proc[p].training /\ Underway(p)
        BY <1>1
    <2> QED BY <2>1 DEF Kept, OthersExcused
<1>5. ASSUME NEW i \in 1 .. Len(research), InHand(i)
      PROVE  \/ InHand(i)' \/ i \in excused'
             \/ /\ checkpoint'[research[i].key] = Named(i)
                /\ \A r \in Proc : proc'[r].at = "train" => KeyOf(r)' # research[i].key
    <2>1. PICK q \in Proc : Underway(q) /\ proc[q].training = i
        BY <1>5 DEF InHand
    <2>2. research[i].key = KeyOf(q)
        BY <2>1, UnderwayKey
    <2>3. CASE Underway(q)'
        BY <2>1, <2>3 DEF InHand
    <2>4. CASE ~Underway(q)'
        BY <2>1, <2>2, <2>4
    <2> QED BY <2>3, <2>4
<1>6. CompleteNamed'
    BY <1>1, <1>5 DEF Kept, CompleteNamed
<1>7. SeenByTrainer'
    <2> SUFFICES ASSUME NEW p \in Proc, proc'[p].at = "train", NEW i \in 1 .. Len(research),
                        research'[i].key = KeyOf(p)'
                 PROVE  i \in excused' \/ InHand(i)'
        BY DEF SeenByTrainer
    <2>1. research[i].key = KeyOf(p)' /\ (i \in excused \/ InHand(i))
        BY <1>1
    <2> QED BY <1>5, <2>1
<1>8. TrainedOnce'
    BY <1>1 DEF Kept, TrainedOnce
<1> QED BY <1>2, <1>3, <1>4, <1>6, <1>7, <1>8 DEF Kept

(* A step of one process that keeps research and the files.                *)
LEMMA OneLeaves ==
    ASSUME TypeOK, LocksHold, Kept, UNCHANGED <<research, checkpoint, partial>>, excused \subseteq excused',
           NEW p \in Proc, proc' = [proc EXCEPT ![p] = proc'[p]], ~Underway(p)',
           Underway(p) => proc[p].training \in excused',
           proc'[p].at = "train" =>
               \A i \in 1 .. Len(research) :
                   research[i].key = KeyOf(p)' => i \in excused \/ InHand(i)
    PROVE  Kept'
<1>1. \A q \in Proc \ {p} : proc'[q] = proc[q] /\ KeyOf(q)' = KeyOf(q) /\ Underway(q)' = Underway(q)
    BY Typed DEF KeyOf, Underway
<1>2. Stays
    BY KeepsStay
<1>3. PartialOwn'
    BY <1>1 DEF Kept, PartialOwn, Underway
<1>4. \A q \in Proc : proc'[q].at = "train" =>
          \A i \in 1 .. Len(research) : research[i].key = KeyOf(q)' => i \in excused \/ InHand(i)
    BY <1>1 DEF Kept, SeenByTrainer
<1>5. \A q \in Proc : Underway(q)' => Underway(q) /\ proc'[q].training = proc[q].training /\ KeyOf(q)' = KeyOf(q)
    BY <1>1
<1>6. \A q \in Proc : Underway(q) /\ ~Underway(q)' => proc[q].training \in excused'
    BY <1>1
<1> QED BY <1>2, <1>3, <1>4, <1>5, <1>6, NothingForgotten

(* The steps away from a fold: none of them was training.                  *)
LEMMA QuietKeeps ==
    ASSUME TypeOK, LocksHold, Kept, NEW p \in Proc,
           Start(p) \/ Stream(p) \/ WriteLock(p) \/ Finish(p) \/ Kill(p)
    PROVE  Kept'
<1>1. ASSUME Start(p) PROVE Kept'
    <2>1. PICK n \in Namespace, r \in Recipe, b \in Bars :
              proc' = [proc EXCEPT ![p] = [Idle EXCEPT !.at = "fold", !.namespace = n,
                                                       !.recipe = r, !.bars = b]]
        BY <1>1 DEF Start
    <2>2. proc' = [proc EXCEPT ![p] = proc'[p]] /\ proc'[p].at = "fold"
        BY <2>1, IdleRun, Typed DEF Run
    <2> QED BY <1>1, <2>2, OneLeaves DEF Start, Underway
<1>2. ASSUME Stop(p), UNCHANGED <<research, checkpoint, partial>>,
             excused \subseteq excused', Underway(p) => proc[p].training \in excused'
      PROVE  Kept'
    BY <1>2, StopRun, OneLeaves DEF Underway
<1>3. ASSUME NEW at \in {"lock", "finish", "fold"}, Goto(p, at), ~Underway(p),
             UNCHANGED <<research, checkpoint, partial, excused>>
      PROVE  Kept'
    <2>1. at \in At
        BY DEF At
    <2>2. proc' = [proc EXCEPT ![p] = proc'[p]] /\ proc'[p].at = at
        BY <1>3, <2>1, GotoRun
    <2> QED BY <1>3, <2>2, OneLeaves DEF Underway
<1>4. ASSUME Stream(p) PROVE Kept'
    <2>1. ~Underway(p) /\ UNCHANGED <<research, checkpoint, partial, excused>>
        BY <1>4 DEF Stream, Underway
    <2>2. Stop(p) \/ Goto(p, "lock")
        BY <1>4 DEF Stream
    <2> QED BY <1>2, <1>3, <2>1, <2>2
<1>5. ASSUME WriteLock(p) PROVE Kept'
    <2>1. ~Underway(p) /\ UNCHANGED <<research, checkpoint, partial, excused>>
        BY <1>5 DEF WriteLock, Underway
    <2>2. Goto(p, "finish") \/ Goto(p, "fold")
        BY <1>5 DEF WriteLock
    <2> QED BY <1>3, <2>1, <2>2
<1>6. ASSUME Finish(p) PROVE Kept'
    BY <1>2, <1>6 DEF Finish, Underway
<1>7. ASSUME Kill(p) PROVE Kept'
    <2>1. Underway(p) => proc[p].training # 0
        BY UnderwayKey
    <2> QED BY <1>2, <1>7, <2>1 DEF Kill
<1> QED BY <1>1, <1>4, <1>5, <1>6, <1>7

(* A fold is trained when its checkpoint is not valid: then every run of   *)
(* it is excused or in hand.                                               *)
LEMMA InspectKeeps ==
    ASSUME TypeOK, LocksHold, Kept, NEW p \in Proc, Inspect(p)
    PROVE  Kept'
<1>1. /\ proc[p].at = "fold" /\ UNCHANGED <<research, checkpoint, partial, excused>> /\ ~Underway(p)
    BY DEF Inspect, Underway
<1>2. CASE Valid(checkpoint[KeyOf(p)]) /\ Adopt(p, checkpoint[KeyOf(p)].run)
    <2>1. checkpoint[KeyOf(p)].run \in Nat
        BY <1>1, KeyTyped DEF TypeOK, Checkpoint
    <2>2. proc' = [proc EXCEPT ![p] = proc'[p]] /\ proc'[p].at \in {"fold", "stream", "finish"}
        BY <1>1, <1>2, <2>1, AdoptFolds
    <2> QED BY <1>1, <2>2, OneLeaves DEF Underway
<1>3. CASE ~Valid(checkpoint[KeyOf(p)]) /\ Goto(p, "train")
    <2>1. "train" \in At
        BY DEF At
    <2>2. /\ proc' = [proc EXCEPT ![p] = proc'[p]] /\ proc'[p].at = "train"
          /\ proc'[p].namespace = proc[p].namespace /\ proc'[p].recipe = proc[p].recipe
          /\ proc'[p].folds = proc[p].folds
        BY <1>3, <2>1, GotoRun
    <2>3. KeyOf(p)' = KeyOf(p)
        BY <2>2 DEF KeyOf
    <2>4. ASSUME NEW i \in 1 .. Len(research), research[i].key = KeyOf(p)
          PROVE  i \in excused \/ InHand(i)
        <3>1. CASE checkpoint[research[i].key] = Named(i)
            <4>1. /\ checkpoint[KeyOf(p)].run = i /\ checkpoint[KeyOf(p)].altered = FALSE
                BY <2>4, <3>1 DEF Named
            <4>2. research[i].altered
                <5>1. research[i].altered \in BOOLEAN
                    BY Typed DEF Training
                <5>2. i # 0
                    BY Typed
                <5>3. research[i].altered # FALSE
                    <6> SUFFICES ASSUME research[i].altered = FALSE PROVE FALSE
                        OBVIOUS
                    <6>1. Valid(checkpoint[KeyOf(p)])
                        BY <4>1, <5>2 DEF Valid
                    <6> QED BY <1>3, <6>1
                <5> QED BY <5>1, <5>3
            <4> QED BY <4>2 DEF Kept, AlteredExcused
        <3> QED BY <3>1 DEF Kept, CompleteNamed
    <2> QED BY <1>1, <2>2, <2>3, <2>4, OneLeaves DEF Underway
<1> QED BY <1>2, <1>3 DEF Inspect

(* A training excuses those that are on its fold, and itself with them.    *)
LEMMA TrainKeeps ==
    ASSUME TypeOK, LocksHold, Kept, NEW p \in Proc, Train(p)
    PROVE  Kept'
<1>l. PICK last \in Nat : last = Len(research) + 1
    BY Typed
<1>1. /\ proc[p].at = "train" /\ ~Underway(p) /\ UNCHANGED <<checkpoint, partial>>
      /\ excused' = excused \cup Shared(p, last)
    BY <1>l DEF Train, Underway
<1>2. /\ Len(research') = last /\ Len(research) \in Nat /\ research'[last].key = KeyOf(p)
      /\ ~research'[last].altered
      /\ \A i \in 1 .. Len(research) : research'[i] = research[i]
    BY <1>l, TrainResearch, Typed
<1>3. /\ proc' = [proc EXCEPT ![p] = [proc[p] EXCEPT !.at = "record", !.training = last]]
      /\ proc[p] \in Run
    BY <1>l, Typed DEF Train
<1>4. /\ proc'[p].at = "record" /\ proc'[p].training = last
      /\ proc'[p].namespace = proc[p].namespace /\ proc'[p].recipe = proc[p].recipe
      /\ proc'[p].folds = proc[p].folds
      /\ \A q \in Proc \ {p} : proc'[q] = proc[q]
    BY <1>3, Typed DEF Run
<1>5. /\ Underway(p)' /\ \A q \in Proc : KeyOf(q)' = KeyOf(q)
      /\ \A q \in Proc \ {p} : Underway(q)' = Underway(q) /\ proc'[q].training = proc[q].training
    BY <1>4 DEF Underway, KeyOf
<1>6. ASSUME NEW q \in Proc, Underway(q), KeyOf(q) = KeyOf(p)
      PROVE  last \in excused' /\ proc[q].training \in excused'
    <2>1. q \in Alongside(p)
        BY <1>1, <1>6 DEF Alongside, Underway
    <2>2. proc[q].training # 0 /\ last # 0
        BY <1>l, <1>6, UnderwayKey, Typed
    <2> QED BY <1>1, <2>1, <2>2 DEF Shared
<1>7. ASSUME NEW i \in 1 .. Len(research), research[i].key = KeyOf(p) PROVE i \in excused'
    <2>1. i \in excused \/ InHand(i)
        BY <1>1, <1>7 DEF Kept, SeenByTrainer
    <2>2. CASE InHand(i)
        <3>1. PICK q \in Proc : Underway(q) /\ proc[q].training = i
            BY <2>2 DEF InHand
        <3> QED BY <1>6, <1>7, <3>1, UnderwayKey
    <2> QED BY <1>1, <2>1, <2>2
<1>8. \A i \in 1 .. last : i \in 1 .. Len(research) \/ i = last
    BY <1>l, <1>2
<1>9. \A q \in Proc : Underway(q) => proc[q].training \in 1 .. Len(research) /\ proc[q].training # last
    BY <1>l, <1>2, UnderwayKey
<1>10. AlteredExcused'
    BY <1>1, <1>2, <1>8 DEF Kept, AlteredExcused
<1>11. OneTrainer'
    BY <1>4, <1>5, <1>9 DEF Kept, OneTrainer
<1>12. OthersExcused'
    <2> SUFFICES ASSUME NEW q \in Proc, Underway(q)', NEW i \in 1 .. last,
                        research'[i].key = KeyOf(q), i # proc'[q].training
                 PROVE  i \in excused'
        BY <1>2, <1>5 DEF OthersExcused
    <2>1. CASE q = p
        BY <1>2, <1>4, <1>7, <1>8, <2>1
    <2>2. CASE q # p /\ i \in 1 .. Len(research)
        <3>1. Underway(q) /\ research[i].key = KeyOf(q) /\ i # proc[q].training
            BY <1>2, <1>5, <2>2
        <3> QED BY <1>1, <2>2, <3>1 DEF Kept, OthersExcused
    <2>3. CASE q # p /\ i = last
        BY <1>2, <1>5, <1>6, <2>3
    <2> QED BY <1>8, <2>1, <2>2, <2>3
<1>13. \A i \in 1 .. Len(research) : InHand(i) => InHand(i)'
    BY <1>1, <1>5 DEF InHand
<1>14. InHand(last)'
    BY <1>4, <1>5 DEF InHand
<1>15. CompleteNamed'
    BY <1>1, <1>2, <1>8, <1>13, <1>14 DEF Kept, CompleteNamed
<1>16. SeenByTrainer'
    <2> SUFFICES ASSUME NEW q \in Proc, proc'[q].at = "train", NEW i \in 1 .. last,
                        research'[i].key = KeyOf(q)
                 PROVE  i \in excused' \/ InHand(i)'
        BY <1>2, <1>5 DEF SeenByTrainer
    <2>1. proc[q].at = "train"
        BY <1>4
    <2>2. CASE i \in 1 .. Len(research)
        BY <1>1, <1>2, <1>13, <2>1, <2>2 DEF Kept, SeenByTrainer
    <2> QED BY <1>8, <1>14, <2>2
<1>17. PartialOwn'
    <2> SUFFICES ASSUME NEW q \in Proc, proc'[q].at = "replace", proc'[q].training \notin excused'
                 PROVE  partial[KeyOf(q)] = Named(proc'[q].training)
        BY <1>1, <1>5 DEF PartialOwn
    <2>1. q # p /\ proc'[q] = proc[q]
        BY <1>4
    <2> QED BY <1>1, <2>1 DEF Kept, PartialOwn
<1>18. TrainedOnce'
    <2> SUFFICES ASSUME NEW i \in 1 .. last, NEW j \in 1 .. last, i < j,
                        research'[i].key = research'[j].key
                 PROVE  i \in excused'
        BY <1>2 DEF TrainedOnce
    <2>1. i \in 1 .. Len(research)
        BY <1>l, <1>2
    <2>2. CASE j \in 1 .. Len(research)
        BY <1>1, <1>2, <2>1, <2>2 DEF Kept, TrainedOnce
    <2>3. CASE j = last
        BY <1>2, <1>7, <2>1, <2>3
    <2> QED BY <1>8, <2>2, <2>3
<1> QED BY <1>10, <1>11, <1>12, <1>15, <1>16, <1>17, <1>18 DEF Kept

LEMMA NamedTyped == ASSUME NEW i PROVE Named(i).run = i /\ Named(i).altered = FALSE
  BY DEF Named

(* A process that goes on with its run in hand.                            *)
LEMMA GoesOn ==
    ASSUME TypeOK, NEW p \in Proc, NEW at \in {"commit", "replace"}, Underway(p), Goto(p, at)
    PROVE  /\ \A q \in Proc : /\ Underway(q)' = Underway(q) /\ proc'[q].training = proc[q].training
                              /\ KeyOf(q)' = KeyOf(q)
           /\ \A q \in Proc \ {p} : proc'[q] = proc[q]
           /\ proc'[p].at = at
           /\ \A q \in Proc : proc'[q].at = "train" => proc[q].at = "train"
<1>1. at \in At
    BY DEF At
<1>2. /\ proc' = [proc EXCEPT ![p] = proc'[p]] /\ proc'[p].at = at
      /\ proc'[p].namespace = proc[p].namespace /\ proc'[p].recipe = proc[p].recipe
      /\ proc'[p].folds = proc[p].folds /\ proc'[p].training = proc[p].training
    BY <1>1, GotoRun
<1>3. \A q \in Proc \ {p} : proc'[q] = proc[q]
    BY <1>2, Typed
<1>4. Underway(p)' = Underway(p)
    BY <1>2 DEF Underway
<1>5. \A q \in Proc : Underway(q)' = Underway(q)
    BY <1>3, <1>4 DEF Underway
<1>6. \A q \in Proc : KeyOf(q)' = KeyOf(q)
    BY <1>2, <1>3 DEF KeyOf
<1>7. \A q \in Proc : proc'[q].training = proc[q].training
    BY <1>2, <1>3
<1> QED BY <1>2, <1>3, <1>5, <1>6, <1>7

LEMMA RecordKeeps ==
    ASSUME TypeOK, LocksHold, Kept, NEW p \in Proc, Record(p)
    PROVE  Kept'
<1>1. /\ UNCHANGED <<checkpoint, partial, excused>> /\ Underway(p) /\ Goto(p, "commit")
    BY DEF Record, Underway
<1>2. /\ \A q \in Proc : /\ Underway(q)' = Underway(q) /\ proc'[q].training = proc[q].training
                         /\ KeyOf(q)' = KeyOf(q)
      /\ \A q \in Proc \ {p} : proc'[q] = proc[q]
      /\ proc'[p].at = "commit"
      /\ \A q \in Proc : proc'[q].at = "train" => proc[q].at = "train"
    BY <1>1, GoesOn
<1>3. /\ Len(research') = Len(research)
      /\ \A i \in 1 .. Len(research) : research'[i].altered = research[i].altered
    BY RecordResearch
<1>4. Stays
    BY ResearchStays DEF Next, Step
<1>5. PartialOwn'
    <2> SUFFICES ASSUME NEW q \in Proc, proc'[q].at = "replace", proc'[q].training \notin excused
                 PROVE  partial[KeyOf(q)] = Named(proc'[q].training)
        BY <1>1, <1>2 DEF PartialOwn
    <2>1. proc[q].at = "replace" /\ proc[q].training = proc'[q].training
        BY <1>2
    <2> QED BY <2>1 DEF Kept, PartialOwn
<1>6. \A q \in Proc : proc'[q].at = "train" =>
          \A i \in 1 .. Len(research) : research[i].key = KeyOf(q)' => i \in excused \/ InHand(i)
    BY <1>2 DEF Kept, SeenByTrainer
<1> QED BY <1>1, <1>2, <1>3, <1>4, <1>5, <1>6, NothingForgotten

(* The hashes of a payload are taken when nobody else has the key, or the  *)
(* run is excused.                                                         *)
LEMMA CommitKeeps ==
    ASSUME TypeOK, LocksHold, Kept, NEW p \in Proc, Commit(p)
    PROVE  Kept'
<1>1. /\ UNCHANGED <<research, checkpoint, excused>> /\ Underway(p) /\ Goto(p, "replace")
      /\ partial' = [partial EXCEPT ![KeyOf(p)] =
             [run |-> proc[p].training, altered |-> research[proc[p].training].altered]]
    BY DEF Commit, Underway
<1>2. /\ \A q \in Proc : /\ Underway(q)' = Underway(q) /\ proc'[q].training = proc[q].training
                         /\ KeyOf(q)' = KeyOf(q)
      /\ \A q \in Proc \ {p} : proc'[q] = proc[q]
      /\ \A q \in Proc : proc'[q].at = "train" => proc[q].at = "train"
    BY <1>1, GoesOn
<1>3. Stays
    BY <1>1, KeepsStay
<1>4. /\ proc[p].training \in 1 .. Len(research) /\ KeyOf(p) \in Key
      /\ research[proc[p].training].key = KeyOf(p)
    BY <1>1, UnderwayKey
<1>5. PartialOwn'
    <2> SUFFICES ASSUME NEW q \in Proc, proc'[q].at = "replace", proc'[q].training \notin excused
                 PROVE  partial'[KeyOf(q)] = Named(proc'[q].training)
        BY <1>1, <1>2 DEF PartialOwn
    <2>1. CASE q = p
        <3>1. proc[p].training \notin excused
            BY <1>2, <2>1
        <3>2. ~research[proc[p].training].altered
            BY <1>4, <3>1 DEF Kept, AlteredExcused
        <3>3. research[proc[p].training].altered \in BOOLEAN
            BY <1>4, Typed DEF Training
        <3>4. partial'[KeyOf(p)] =
                  [run |-> proc[p].training, altered |-> research[proc[p].training].altered]
            BY <1>1, <1>4 DEF TypeOK
        <3>5. research[proc[p].training].altered = FALSE
            BY <3>2, <3>3
        <3> QED BY <1>2, <2>1, <3>4, <3>5 DEF Named
    <2>2. CASE q # p
        <3>1. /\ proc[q].at = "replace" /\ Underway(q) /\ proc[q].training = proc'[q].training
            BY <1>2, <2>2 DEF Underway
        <3>2. proc[q].training \in 1 .. Len(research) /\ research[proc[q].training].key = KeyOf(q)
            BY <3>1, UnderwayKey
        <3>3. KeyOf(q) # KeyOf(p)
            <4> SUFFICES ASSUME KeyOf(q) = KeyOf(p) PROVE FALSE
                OBVIOUS
            <4>1. proc[q].training # proc[p].training
                BY <1>1, <2>2, <3>1 DEF Kept, OneTrainer
            <4>2. proc[q].training \in excused
                BY <1>1, <3>2, <4>1 DEF Kept, OthersExcused
            <4> QED BY <3>1, <4>2
        <3>4. partial'[KeyOf(q)] = partial[KeyOf(q)]
            BY <1>1, <3>3 DEF TypeOK
        <3> QED BY <3>1, <3>4 DEF Kept, PartialOwn
    <2> QED BY <2>1, <2>2
<1>6. \A q \in Proc : proc'[q].at = "train" =>
          \A i \in 1 .. Len(research) : research[i].key = KeyOf(q)' => i \in excused \/ InHand(i)
    BY <1>2 DEF Kept, SeenByTrainer
<1> QED BY <1>1, <1>2, <1>3, <1>5, <1>6, NothingForgotten

(* A run that nobody excuses finds its own file to move, and nobody is     *)
(* about to train its fold.                                                *)
LEMMA ReplaceKeeps ==
    ASSUME TypeOK, LocksHold, Kept, NEW p \in Proc, Replace(p)
    PROVE  Kept'
<1>1. /\ proc[p].at = "replace" /\ Underway(p) /\ UNCHANGED research
      /\ excused' = excused \cup Shared(p, proc[p].training)
    BY DEF Replace, Underway
<1>k. PICK key \in Key : key = KeyOf(p)
    BY <1>1, UnderwayKey
<1>2. /\ proc[p].training \in 1 .. Len(research) /\ research[proc[p].training].key = key
      /\ proc[p].training \in Nat /\ proc[p].training # 0
    BY <1>1, <1>k, UnderwayKey, Typed
<1>3. /\ proc' = [proc EXCEPT ![p] = proc'[p]] /\ ~Underway(p)' /\ proc'[p].at # "train"
    <2>1. CASE Adopt(p, proc[p].training)
        <3>1. /\ proc' = [proc EXCEPT ![p] = proc'[p]] /\ proc'[p].at \in {"fold", "stream", "finish"}
            BY <1>1, <1>2, <2>1, AdoptFolds
        <3> QED BY <3>1 DEF Underway
    <2>2. CASE Stop(p)
        BY <2>2, StopRun DEF Underway
    <2> QED BY <2>1, <2>2 DEF Replace
<1>4. \A q \in Proc \ {p} : proc'[q] = proc[q] /\ KeyOf(q)' = KeyOf(q) /\ Underway(q)' = Underway(q)
    BY <1>3, Typed DEF KeyOf, Underway
<1>5. ASSUME NEW q \in Proc \ {p}, Underway(q), KeyOf(q) = key PROVE proc[q].training \in excused
    <2>1. proc[q].training \in 1 .. Len(research) /\ research[proc[q].training].key = key
        BY <1>5, UnderwayKey
    <2>2. proc[q].training # proc[p].training
        BY <1>1, <1>5 DEF Kept, OneTrainer
    <2> QED BY <1>1, <1>k, <2>1, <2>2 DEF Kept, OthersExcused
<1>6. ASSUME NEW k \in Key, k # key
      PROVE  checkpoint'[k] = checkpoint[k] /\ partial'[k] = partial[k]
    BY <1>k, <1>6 DEF Replace, TypeOK
<1>7. \/ proc[p].training \in excused'
      \/ /\ checkpoint'[key] = Named(proc[p].training)
         /\ \A r \in Proc : proc'[r].at = "train" => KeyOf(r)' # key
    <2> SUFFICES ASSUME proc[p].training \notin excused'
                 PROVE  /\ checkpoint'[key] = Named(proc[p].training)
                        /\ \A r \in Proc : proc'[r].at = "train" => KeyOf(r)' # key
        OBVIOUS
    <2>1. partial[key] = Named(proc[p].training)
        BY <1>1, <1>k DEF Kept, PartialOwn
    <2>2. partial[key] # Missing
        <3>1. Missing.run = 0
            BY DEF Missing
        <3> QED BY <1>2, <2>1, <3>1, NamedTyped
    <2>3. checkpoint'[key] = Named(proc[p].training)
        BY <1>k, <2>1, <2>2 DEF Replace, TypeOK
    <2>4. ASSUME NEW r \in Proc, proc'[r].at = "train", KeyOf(r)' = key PROVE FALSE
        <3>1. r \in Proc \ {p}
            BY <1>3, <2>4
        <3>2. proc[r].at = "train" /\ KeyOf(r) = key
            BY <1>4, <2>4, <3>1
        <3>3. r \in Alongside(p)
            BY <1>k, <3>1, <3>2 DEF Alongside
        <3>4. proc[p].training \in Shared(p, proc[p].training)
            BY <1>2, <3>3 DEF Shared
        <3> QED BY <1>1, <3>4
    <2> QED BY <2>3, <2>4
<1>8. Stays
    BY <1>1, KeepsStay
<1>9. PartialOwn'
    <2> SUFFICES ASSUME NEW q \in Proc, proc'[q].at = "replace", proc'[q].training \notin excused'
                 PROVE  partial'[KeyOf(q)'] = Named(proc'[q].training)
        BY DEF PartialOwn, Named
    <2>1. q \in Proc \ {p}
        BY <1>3 DEF Underway
    <2>2. proc[q].at = "replace" /\ Underway(q) /\ proc'[q].training = proc[q].training /\ KeyOf(q)' = KeyOf(q)
        BY <1>4, <2>1 DEF Underway
    <2>3. proc[q].training \notin excused
        BY <1>1, <2>2
    <2>4. KeyOf(q) \in Key /\ KeyOf(q) # key
        BY <1>5, <2>1, <2>2, <2>3, UnderwayKey
    <2>5. partial[KeyOf(q)] = Named(proc[q].training)
        BY <2>2, <2>3 DEF Kept, PartialOwn
    <2> QED BY <1>6, <2>2, <2>4, <2>5
<1>10. ASSUME NEW j \in 1 .. Len(research), checkpoint[research[j].key] = Named(j)
       PROVE  j \in excused' \/ checkpoint'[research[j].key] = Named(j)
    <2>1. research[j].key \in Key
        BY Typed
    <2>2. CASE research[j].key # key
        BY <1>6, <1>10, <2>1, <2>2
    <2>3. CASE research[j].key = key /\ j = proc[p].training
        BY <1>7, <2>3
    <2>4. CASE research[j].key = key /\ j # proc[p].training
        BY <1>1, <1>k, <2>4 DEF Kept, OthersExcused
    <2> QED BY <2>2, <2>3, <2>4
<1>11. \A q \in Proc : Underway(q)' =>
           Underway(q) /\ proc'[q].training = proc[q].training /\ KeyOf(q)' = KeyOf(q)
    BY <1>3, <1>4
<1>12. \A q \in Proc : Underway(q) /\ ~Underway(q)' =>
           \/ proc[q].training \in excused'
           \/ /\ checkpoint'[KeyOf(q)] = Named(proc[q].training)
              /\ \A r \in Proc : proc'[r].at = "train" => KeyOf(r)' # KeyOf(q)
    BY <1>4, <1>7, <1>k
<1>13. \A q \in Proc : proc'[q].at = "train" =>
           \A i \in 1 .. Len(research) : research[i].key = KeyOf(q)' => i \in excused \/ InHand(i)
    BY <1>3, <1>4 DEF Kept, SeenByTrainer
<1> QED BY <1>1, <1>8, <1>9, <1>10, <1>11, <1>12, <1>13, NothingForgotten

LEMMA AlterKeeps == ASSUME TypeOK, LocksHold, Kept, Alter PROVE Kept'
<1>1. PICK i \in 1 .. Len(research) :
          /\ excused' = excused \cup {i} /\ Len(research') = Len(research)
          /\ \A j \in 1 .. Len(research) : j # i => research'[j].altered = research[j].altered
    BY AlterResearch
<1>2. UNCHANGED <<checkpoint, partial, proc>>
    BY DEF Alter
<1>3. \A q \in Proc : KeyOf(q)' = KeyOf(q) /\ Underway(q)' = Underway(q)
    BY <1>2 DEF KeyOf, Underway
<1>4. Stays
    BY ResearchStays DEF Next
<1>5. PartialOwn'
    BY <1>1, <1>2, <1>3 DEF Kept, PartialOwn, Named
<1>6. \A q \in Proc : proc'[q].at = "train" =>
          \A j \in 1 .. Len(research) : research[j].key = KeyOf(q)' => j \in excused \/ InHand(j)
    BY <1>2, <1>3 DEF Kept, SeenByTrainer
<1>7. \A j \in 1 .. Len(research) : research'[j].altered => research[j].altered \/ j \in excused'
    BY <1>1
<1> QED BY <1>1, <1>2, <1>3, <1>4, <1>5, <1>6, <1>7, NothingForgotten

LEMMA NextKept == TypeOK /\ LocksHold /\ Kept /\ [Next]_vars => Kept'
<1> SUFFICES ASSUME TypeOK, LocksHold, Kept, [Next]_vars PROVE Kept'
    OBVIOUS
<1>1. CASE UNCHANGED vars
    BY <1>1 DEF vars, Kept, AlteredExcused, OneTrainer, OthersExcused, CompleteNamed, SeenByTrainer,
                PartialOwn, TrainedOnce, Underway, InHand, KeyOf, Named
<1>2. ASSUME NEW p \in Proc, Start(p) \/ Step(p) \/ Kill(p) PROVE Kept'
    BY <1>2, QuietKeeps, InspectKeeps, TrainKeeps, RecordKeeps, CommitKeeps, ReplaceKeeps DEF Step
<1>3. CASE Alter
    BY <1>3, AlterKeeps
<1> QED BY <1>1, <1>2, <1>3 DEF Next

LEMMA InitKept == Init => Kept
<1> SUFFICES ASSUME Init PROVE Kept
    OBVIOUS
<1>1. Len(research) = 0
    BY DEF Init
<1>2. \A p \in Proc : proc[p].at = "idle"
    BY IdleRun DEF Init
<1> QED BY <1>1, <1>2 DEF Kept, AlteredExcused, OneTrainer, OthersExcused, CompleteNamed,
                SeenByTrainer, PartialOwn, TrainedOnce, Underway

(* A fold of a namespace is not trained a second time, unless an artifact  *)
(* of the first was altered, its run died before the checkpoint was in     *)
(* place, or another run was on the fold with it (_inspect_checkpoint and  *)
(* the checkpoint that run_walk_forward writes after each fold).           *)
THEOREM FoldTrainedOnce == Spec => []TrainedOnce
<1>1. Init => TypeOK /\ LocksHold /\ Kept
    BY InitLocks, InitKept
<1>2. TypeOK /\ LocksHold /\ Kept /\ [Next]_vars => TypeOK' /\ LocksHold' /\ Kept'
    BY NextStep, NextKept
<1>3. Kept => TrainedOnce
    BY DEF Kept
<1> QED BY <1>1, <1>2, <1>3, PTL DEF Spec
================================================================================
