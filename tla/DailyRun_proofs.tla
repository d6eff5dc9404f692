---------------------------- MODULE DailyRun_proofs ----------------------------
(***************************************************************************)
(* Proofs about DailyRun: type correctness, and the three safety           *)
(* properties of the daily run, for any plans, processes, sessions and     *)
(* bounds.                                                                 *)
(***************************************************************************)
EXTENDS DailyRun, TLAPS

Types == TypeOK /\ \A i \in Proc : proc[i].at # "idle" => proc[i].plan \in Plan

--------------------------------------------------------------------------------
(* What the helpers of the model do to a process and to a run state.       *)
LEMMA NoRunIsState == NoRun \in RunState
BY DEF NoRun, NoRecord, RunState, RunStatus, Record

LEMMA NoManifestIsManifest == NoManifest \in Manifest
<1>1. 0 \in Version
  BY BoundAssumption DEF Version
<1>2. NoRun.steps = [n \in StepName |-> NoRecord] /\ NoRecord \in Record
  BY DEF NoRun, NoRecord, Record
<1> QED BY <1>1, <1>2 DEF NoManifest, Manifest, RunStatus

LEMMA IdleIsRecord == Idle \in ProcState
<1>1. 0 \in Version
  BY BoundAssumption DEF Version
<1> QED BY <1>1, NoRunIsState, NoManifestIsManifest DEF Idle, ProcState, At

LEMMA GotoRecord ==
    ASSUME Types, NEW i \in Proc, NEW a, Goto(i, a)
    PROVE  proc' = [proc EXCEPT ![i] = [proc[i] EXCEPT !.at = a]]
BY DEF Types, TypeOK, Goto

LEMMA SaveRecord ==
    ASSUME Types, NEW i \in Proc, NEW s, NEW a, Save(i, s, a)
    PROVE  /\ proc' = [proc EXCEPT ![i] = [proc[i] EXCEPT !.at = a, !.state = s]]
           /\ run' = [run EXCEPT ![Of(i)] = s]
BY DEF Types, TypeOK, ProcState, Save

LEMMA WithTyped ==
    ASSUME Types, NEW i \in Proc, NEW n \in StepName,
           NEW status \in {"none", "SUCCEEDED", "SKIPPED", "FAILED", "BLOCKED"}, NEW input \in Nat
    PROVE  With(i, n, status, input) \in RunState
<1>1. proc[i].state \in RunState
  BY DEF Types, TypeOK, ProcState
<1>2. [status |-> status, input |-> input] \in Record
  BY DEF Record
<1> QED BY <1>1, <1>2 DEF With, RunState

LEMMA BlockedTyped ==
    ASSUME NEW s \in RunState, NEW after
    PROVE  Blocked(s, after) \in RunState
<1>1. [status |-> "BLOCKED", input |-> 0] \in Record
  BY DEF Record
<1>2. \A n \in StepName : s.steps[n] \in Record
  BY DEF RunState
<1> QED BY <1>1, <1>2 DEF Blocked, RunState

LEMMA StatusTyped ==
    ASSUME NEW s \in RunState, NEW status \in RunStatus
    PROVE  [s EXCEPT !.status = status] \in RunState
BY DEF RunState

(* A process that gets a typed record and knows its plan keeps the types.  *)
LEMMA RecordTyped ==
    ASSUME Types, NEW i \in Proc, NEW r \in ProcState,
           r.at # "idle" => r.plan \in Plan, proc' = [proc EXCEPT ![i] = r]
    PROVE  /\ proc' \in [Proc -> ProcState]
           /\ \A j \in Proc : proc'[j].at # "idle" => proc'[j].plan \in Plan
BY DEF Types, TypeOK

LEMMA GotoTyped ==
    ASSUME Types, NEW i \in Proc, proc[i].at # "idle", NEW a \in At, Goto(i, a)
    PROVE  /\ proc' \in [Proc -> ProcState]
           /\ \A j \in Proc : proc'[j].at # "idle" => proc'[j].plan \in Plan
<1>1. proc[i] \in ProcState /\ proc[i].plan \in Plan
  BY DEF Types, TypeOK
<1>2. [proc[i] EXCEPT !.at = a] \in ProcState /\ [proc[i] EXCEPT !.at = a].plan = proc[i].plan
  BY <1>1 DEF ProcState
<1> QED BY <1>1, <1>2, GotoRecord, RecordTyped

LEMMA SaveTyped ==
    ASSUME Types, NEW i \in Proc, proc[i].at # "idle", NEW a \in At, NEW s \in RunState, Save(i, s, a)
    PROVE  /\ proc' \in [Proc -> ProcState]
           /\ \A j \in Proc : proc'[j].at # "idle" => proc'[j].plan \in Plan
           /\ run' \in [Plan -> RunState]
<1>1. proc[i] \in ProcState /\ proc[i].plan \in Plan /\ run \in [Plan -> RunState]
  BY DEF Types, TypeOK
<1> DEFINE r == [proc[i] EXCEPT !.at = a, !.state = s]
<1>2. r \in ProcState /\ r.plan = proc[i].plan
  BY <1>1 DEF ProcState
<1>3. proc' = [proc EXCEPT ![i] = r] /\ run' = [run EXCEPT ![Of(i)] = s]
  BY SaveRecord
<1> HIDE DEF r
<1> QED BY <1>1, <1>2, <1>3, RecordTyped DEF Of

(* A step that only moves, or only moves and saves.                        *)
LEMMA OnlyGotoTyped ==
    ASSUME Types, NEW i \in Proc, proc[i].at # "idle", NEW a \in At, Goto(i, a),
           UNCHANGED <<target, ready, active, applies, files, counters, history>>
    PROVE  Types'
BY GotoTyped DEF Types, TypeOK, files, counters, history

LEMMA OnlySaveTyped ==
    ASSUME Types, NEW i \in Proc, proc[i].at # "idle", NEW a \in At, NEW s \in RunState, Save(i, s, a),
           UNCHANGED <<target, ready, active, applies, manifest, incidents, counters, history>>
    PROVE  Types'
BY SaveTyped DEF Types, TypeOK, counters, history

LEMMA FailingSaveTyped ==
    ASSUME Types, NEW i \in Proc, proc[i].at # "idle", NEW a \in At, NEW s \in RunState, Save(i, s, a), Mishap,
           UNCHANGED <<target, ready, active, applies, manifest, incidents, kills, history>>
    PROVE  Types'
<1>1. trouble' \in 0 .. MaxTrouble
  BY BoundAssumption DEF Types, TypeOK, Mishap
<1> QED BY <1>1, SaveTyped DEF Types, TypeOK, history

--------------------------------------------------------------------------------
LEMMA InitTypes == Init => Types
<1> SUFFICES ASSUME Init PROVE Types
  OBVIOUS
<1>1. 0 \in Version /\ 0 \in 0 .. LastSession /\ 0 \in 0 .. MaxApplies
      /\ 0 \in 0 .. MaxTrouble /\ 0 \in 0 .. MaxKills
  BY BoundAssumption, SessionAssumption DEF Version
<1>2. \A i \in Proc : proc[i] = Idle
  BY DEF Init
<1>3. \A i \in Proc : proc[i].at = "idle"
  BY <1>2 DEF Idle
<1>4. proc \in [Proc -> ProcState]
  BY IdleIsRecord DEF Init
<1>5. run \in [Plan -> RunState] /\ manifest \in [Plan -> Manifest]
  BY NoRunIsState, NoManifestIsManifest DEF Init
<1>6. active \in [owner : Plan \cup {NoOne}, version : Version, end : 0 .. LastSession]
  BY <1>1 DEF Init
<1> QED BY <1>1, <1>3, <1>4, <1>5, <1>6 DEF Init, Types, TypeOK

LEMMA BusyReads ==
    ASSUME Types, NEW i \in Proc, proc[i].at # "idle"
    PROVE  /\ Of(i) \in Plan /\ Mine(i) \in Session
           /\ proc[i] \in ProcState /\ proc[i].state \in RunState
           /\ proc[i].dataset \in Version /\ proc[i].dataset \in Nat
           /\ proc[i].payload \in Manifest /\ applies[Of(i)] \in Nat
BY BoundAssumption DEF Types, TypeOK, ProcState, Of, Mine, Version

LEMMA PreflightTypes ==
    ASSUME Types, NEW i \in Proc, Preflight(i)
    PROVE  Types'
<1>1. CASE SaveLoaded(i)
  BY <1>1, BusyReads, OnlySaveTyped DEF SaveLoaded, At
<1>2. CASE SkipNonTrading(i)
  <2>1. [proc[i].state EXCEPT !.status = "SKIPPED_NON_TRADING_DAY"] \in RunState
    BY <1>2, BusyReads, StatusTyped DEF SkipNonTrading, RunStatus
  <2> QED BY <1>2, <2>1, OnlySaveTyped DEF SkipNonTrading, At
<1>3. CASE NotReady(i)
  <2>1. [proc[i].state EXCEPT !.status = "BLOCKED"] \in RunState
    BY <1>3, BusyReads, StatusTyped DEF NotReady, RunStatus
  <2> QED BY <1>3, <2>1, BlockedTyped, OnlySaveTyped DEF NotReady, At
<1>4. CASE Acquire(i)
  BY <1>4, OnlyGotoTyped DEF Acquire, At
<1>5. CASE Refused(i)
  <2> DEFINE r == IF manifest[Of(i)] = NoManifest THEN Idle
                  ELSE [Idle EXCEPT !.at = "enrich", !.plan = Of(i)]
  <2>1. Of(i) \in Plan
    BY <1>5, BusyReads DEF Refused
  <2>2. [Idle EXCEPT !.at = "enrich", !.plan = Of(i)] \in ProcState
    BY <2>1, IdleIsRecord DEF ProcState, At
  <2>3. Idle.at = "idle" /\ [Idle EXCEPT !.at = "enrich", !.plan = Of(i)].plan = Of(i)
    BY DEF Idle
  <2>4. r \in ProcState /\ (r.at # "idle" => r.plan \in Plan)
    BY <2>1, <2>2, <2>3, IdleIsRecord
  <2>5. proc' = [proc EXCEPT ![i] = r]
    BY <1>5 DEF Refused
  <2> HIDE DEF r
  <2>6. /\ proc' \in [Proc -> ProcState]
        /\ \A j \in Proc : proc'[j].at # "idle" => proc'[j].plan \in Plan
    BY <2>4, <2>5, RecordTyped
  <2> QED BY <1>5, <2>6 DEF Refused, Types, TypeOK, files, counters, history
<1> QED BY <1>1, <1>2, <1>3, <1>4, <1>5 DEF Preflight

LEMMA SyncFailureTyped ==
    ASSUME Types, NEW i \in Proc, proc[i].at # "idle", SyncFailure(i)
    PROVE  /\ proc' \in [Proc -> ProcState]
           /\ \A j \in Proc : proc'[j].at # "idle" => proc'[j].plan \in Plan
           /\ run' \in [Plan -> RunState]
<1>1. With(i, "sync_publish", "FAILED", 0) \in RunState
  BY WithTyped DEF StepName, Order
<1> QED BY <1>1, BlockedTyped, SaveTyped DEF SyncFailure, At

LEMMA AttemptTyped ==
    ASSUME Types, NEW p \in Plan, Attempt(p)
    PROVE  applies' \in [Plan -> 0 .. MaxApplies]
<1>1. applies \in [Plan -> 0 .. MaxApplies]
  BY DEF Types, TypeOK
<1>2. CASE Certified(p)
  <2>1. applies[p] + 1 \in 0 .. MaxApplies
    BY <1>1, <1>2, BoundAssumption DEF Attempt
  <2> QED BY <1>1, <1>2, <2>1 DEF Attempt
<1>3. CASE ~Certified(p)
  BY <1>1, <1>3 DEF Attempt
<1> QED BY <1>2, <1>3

LEMMA SynchroniseTypes ==
    ASSUME Types, NEW i \in Proc, Synchronise(i)
    PROVE  Types'
<1>1. CASE SyncReused(i)
  <2>1. (IF Step(i, "sync_publish").input = applies[Of(i)] THEN "verify" ELSE "failed") \in At
    BY DEF At
  <2> QED BY <1>1, <2>1, OnlyGotoTyped DEF SyncReused
<1>2. CASE ApplyRefused(i)
  <2>1. Of(i) \in Plan
    BY <1>2, BusyReads DEF ApplyRefused
  <2>2. applies' \in [Plan -> 0 .. MaxApplies]
    BY <1>2, <2>1, AttemptTyped DEF ApplyRefused
  <2> QED BY <1>2, <2>2, SyncFailureTyped DEF ApplyRefused, Types, TypeOK, counters, history
<1>3. CASE Apply(i)
  <2>1. Of(i) \in Plan
    BY <1>3, BusyReads DEF Apply
  <2>2. applies' \in [Plan -> 0 .. MaxApplies]
    BY <1>3, <2>1, AttemptTyped DEF Apply
  <2>3. "apply" \in At
    BY DEF At
  <2> QED BY <1>3, <2>2, <2>3, GotoTyped DEF Apply, Types, TypeOK, files, counters, history
<1>4. CASE Publish(i)
  <2>1. Of(i) \in Plan /\ Mine(i) \in Session
    BY <1>4, BusyReads DEF Publish
  <2>2. active.version + 1 \in Version
    BY <1>4, BoundAssumption DEF Publish, Types, TypeOK, Version
  <2>3. Mine(i) \in 0 .. LastSession
    BY <2>1, SessionAssumption DEF Session
  <2>4. active' \in [owner : Plan \cup {NoOne}, version : Version, end : 0 .. LastSession]
    BY <1>4, <2>1, <2>2, <2>3 DEF Publish
  <2>5. target' = target
    BY <1>4 DEF Publish, Alias!Publish
  <2> QED BY <1>4, <2>4, <2>5 DEF Publish, Types, TypeOK, files, counters, history
<1>5. CASE ApplyDone(i)
  BY <1>5, OnlyGotoTyped DEF ApplyDone, At
<1>6. CASE ApplyFails(i)
  <2>1. trouble' \in 0 .. MaxTrouble
    BY <1>6, BoundAssumption DEF ApplyFails, Mishap, Types, TypeOK
  <2> QED BY <1>6, <2>1, SyncFailureTyped DEF ApplyFails, Types, TypeOK, history
<1>7. CASE SyncRecorded(i)
  <2>1. proc[i].at # "idle"
    BY <1>7 DEF SyncRecorded
  <2>2. With(i, "sync_publish", "SUCCEEDED", applies[Of(i)]) \in RunState
    BY <2>1, BusyReads, WithTyped DEF StepName, Order
  <2> QED BY <1>7, <2>1, <2>2, OnlySaveTyped DEF SyncRecorded, At
<1> QED BY <1>1, <1>2, <1>3, <1>4, <1>5, <1>6, <1>7 DEF Synchronise

LEMMA SyncEvaluationTyped ==
    ASSUME Types, NEW i \in Proc, proc[i].at # "idle", NEW gates \in SUBSET Gate, SyncEvaluation(i, gates)
    PROVE  incidents' \subseteq Session \X Gate /\ doubled' \subseteq Session \X Gate
<1>1. Mine(i) \in Session
  BY BusyReads
<1> QED BY <1>1 DEF SyncEvaluation, Types, TypeOK

LEMMA GatedTypes ==
    ASSUME Types, NEW i \in Proc, Gated(i)
    PROVE  Types'
<1> USE DEF At
<1>1. CASE Verify(i)
  <2> DEFINE v == active.version
             reused == Reusable(Step(i, "dataset_verify"), v)
             s == IF reused THEN proc[i].state ELSE With(i, "dataset_verify", "SUCCEEDED", v)
             r == [proc[i] EXCEPT !.at = "features", !.state = s, !.dataset = v]
  <2>1. proc[i].at # "idle" /\ v \in Version /\ v \in Nat
    BY <1>1, BoundAssumption DEF Verify, Types, TypeOK, Version
  <2>2. Of(i) \in Plan /\ proc[i].plan \in Plan /\ proc[i] \in ProcState /\ proc[i].state \in RunState
    BY <2>1, BusyReads DEF Of
  <2>3. s \in RunState
    BY <2>1, <2>2, WithTyped DEF StepName, Order
  <2>4. proc' = [proc EXCEPT ![i] = r] /\ run' = IF reused THEN run ELSE [run EXCEPT ![Of(i)] = s]
    BY <1>1, <2>2 DEF Verify, Types, TypeOK, ProcState
  <2>5. run' \in [Plan -> RunState]
    BY <2>2, <2>3, <2>4 DEF Types, TypeOK
  <2> HIDE DEF s, reused
  <2>6. r \in ProcState /\ r.plan \in Plan
    BY <2>1, <2>2, <2>3 DEF ProcState
  <2> HIDE DEF r
  <2>7. /\ proc' \in [Proc -> ProcState]
        /\ \A j \in Proc : proc'[j].at # "idle" => proc'[j].plan \in Plan
    BY <2>4, <2>6, RecordTyped
  <2> QED BY <1>1, <2>5, <2>7 DEF Verify, Types, TypeOK, counters, history
<1>2. CASE VerifyFails(i)
  <2>1. With(i, "dataset_verify", "FAILED", 0) \in RunState
    BY <1>2, WithTyped DEF StepName, Order
  <2> QED BY <1>2, <2>1, BlockedTyped, FailingSaveTyped DEF VerifyFails
<1>3. CASE Features(i)
  <2>1. With(i, "feature_materialization", "SUCCEEDED", proc[i].dataset) \in RunState
    BY <1>3, BusyReads, WithTyped DEF Features, StepName
  <2>2. CASE Goto(i, "slo") /\ UNCHANGED run
    BY <1>3, <2>2, OnlyGotoTyped DEF Features, files
  <2>3. CASE Save(i, With(i, "feature_materialization", "SUCCEEDED", proc[i].dataset), "slo")
    BY <1>3, <2>1, <2>3, OnlySaveTyped DEF Features
  <2> QED BY <1>3, <2>2, <2>3 DEF Features
<1>4. CASE GateReused(i)
  BY <1>4, OnlyGotoTyped DEF GateReused
<1>5. CASE EvaluateGate(i)
  <2>1. PICK bad \in SUBSET {"blocking"} :
        /\ IF bad = {} THEN UNCHANGED trouble ELSE Mishap
        /\ proc' = [proc EXCEPT ![i].at = "slo_events", ![i].failing = bad,
                                ![i].seen = OpenFor(Mine(i), {"blocking"})]
    BY <1>5 DEF EvaluateGate
  <2> DEFINE seen == OpenFor(Mine(i), {"blocking"})
             r == [proc[i] EXCEPT !.at = "slo_events", !.failing = bad, !.seen = seen]
  <2>2. seen \in SUBSET Gate /\ bad \in SUBSET Gate
    BY DEF OpenFor, Gate
  <2>3. proc[i] \in ProcState /\ proc[i].plan \in Plan
    BY <1>5, BusyReads DEF EvaluateGate, Of
  <2>4. proc' = [proc EXCEPT ![i] = r]
    BY <2>1, <2>3 DEF Types, TypeOK, ProcState
  <2> HIDE DEF seen
  <2>5. r \in ProcState /\ r.plan \in Plan
    BY <2>2, <2>3 DEF ProcState
  <2> HIDE DEF r
  <2>6. /\ proc' \in [Proc -> ProcState]
        /\ \A j \in Proc : proc'[j].at # "idle" => proc'[j].plan \in Plan
    BY <2>4, <2>5, RecordTyped
  <2>7. trouble' \in 0 .. MaxTrouble
    BY <2>1, BoundAssumption DEF Mishap, Types, TypeOK
  <2> QED BY <1>5, <2>6, <2>7 DEF EvaluateGate, Types, TypeOK, files, history
<1>6. CASE GateEvents(i)
  <2>1. incidents' \subseteq Session \X Gate /\ doubled' \subseteq Session \X Gate
    BY <1>6, SyncEvaluationTyped DEF GateEvents, Gate
  <2>2. /\ proc' \in [Proc -> ProcState]
        /\ \A j \in Proc : proc'[j].at # "idle" => proc'[j].plan \in Plan
    BY <1>6, GotoTyped DEF GateEvents
  <2> QED BY <1>6, <2>1, <2>2 DEF GateEvents, Types, TypeOK, counters
<1>7. CASE GateFails(i)
  <2>1. With(i, "slo_gate", "FAILED", proc[i].dataset) \in RunState
    BY <1>7, BusyReads, WithTyped DEF GateFails, StepName, Order
  <2> QED BY <1>7, <2>1, BlockedTyped, FailingSaveTyped DEF GateFails
<1>8. CASE GatePasses(i)
  <2>1. With(i, "slo_gate", "SUCCEEDED", proc[i].dataset) \in RunState
    BY <1>8, BusyReads, WithTyped DEF GatePasses, StepName, Order
  <2>2. allowed' \subseteq Plan \X Version
    BY <1>8, BusyReads DEF GatePasses, Types, TypeOK
  <2>3. /\ proc' \in [Proc -> ProcState]
        /\ \A j \in Proc : proc'[j].at # "idle" => proc'[j].plan \in Plan
        /\ run' \in [Plan -> RunState]
    BY <1>8, <2>1, SaveTyped DEF GatePasses
  <2> QED BY <1>8, <2>2, <2>3 DEF GatePasses, Types, TypeOK, counters
<1>9. CASE GateBlocks(i)
  <2>1. With(i, "slo_gate", "BLOCKED", proc[i].dataset) \in RunState
    BY <1>9, BusyReads, WithTyped DEF GateBlocks, StepName, Order
  <2> QED BY <1>9, <2>1, OnlySaveTyped DEF GateBlocks
<1>10. CASE RunBlocked(i)
  <2>1. [proc[i].state EXCEPT !.status = "BLOCKED"] \in RunState
    BY <1>10, BusyReads, StatusTyped DEF RunBlocked, RunStatus
  <2> QED BY <1>10, <2>1, BlockedTyped, OnlySaveTyped DEF RunBlocked
<1> QED BY <1>1, <1>2, <1>3, <1>4, <1>5, <1>6, <1>7, <1>8, <1>9, <1>10 DEF Gated

LEMMA ConcludeTypes ==
    ASSUME Types, NEW i \in Proc, Conclude(i)
    PROVE  Types'
<1> USE DEF At
<1>1. \A n \in StepName, status \in {"SUCCEEDED", "SKIPPED", "FAILED"} :
        proc[i].at # "idle" => With(i, n, status, proc[i].dataset) \in RunState
  BY BusyReads, WithTyped
<1>2. "regression_backtest" \in StepName /\ "report" \in StepName /\ "notification" \in StepName
  BY DEF StepName, Order
<1>3. \A status \in RunStatus :
        proc[i].at # "idle" => [proc[i].state EXCEPT !.status = status] \in RunState
  BY BusyReads, StatusTyped
<1>4. CASE RegressionReused(i)
  BY <1>4, OnlyGotoTyped DEF RegressionReused
<1>5. CASE RegressionSkipped(i)
  BY <1>1, <1>2, <1>5, OnlySaveTyped DEF RegressionSkipped, RegressionDue
<1>6. CASE Regression(i)
  BY <1>1, <1>2, <1>6, OnlySaveTyped DEF Regression, RegressionDue
<1>7. CASE RegressionFails(i)
  BY <1>1, <1>2, <1>7, FailingSaveTyped DEF RegressionFails, RegressionDue
<1>8. CASE Succeed(i)
  BY <1>3, <1>8, OnlySaveTyped DEF Succeed, RunStatus
<1>9. CASE Report(i)
  BY <1>1, <1>2, <1>9, OnlySaveTyped DEF Report
<1>10. CASE Notify(i)
  BY <1>1, <1>2, <1>10, OnlySaveTyped DEF Notify
<1>11. CASE NotifyFails(i)
  <2>1. trouble' \in 0 .. MaxTrouble
    BY <1>11, BoundAssumption DEF NotifyFails, Mishap, Types, TypeOK
  <2> QED BY <1>11, <2>1, GotoTyped DEF NotifyFails, Types, TypeOK, files, history
<1>12. CASE Failed(i)
  BY <1>3, <1>12, OnlySaveTyped DEF Failed, RunStatus
<1>13. CASE WriteManifest(i)
  <2> DEFINE s == proc[i].state
             v == IF proc[i].at = "finish" /\ s.status # "FAILED" THEN proc[i].dataset ELSE 0
             m == [status |-> s.status, steps |-> s.steps, version |-> v]
  <2>1. Of(i) \in Plan /\ s \in RunState /\ proc[i].dataset \in Version /\ 0 \in Version
    BY <1>13, BusyReads, BoundAssumption DEF WriteManifest, Version
  <2>2. m \in Manifest
    BY <2>1 DEF Manifest, RunState
  <2>3. manifest' \in [Plan -> Manifest]
    BY <1>13, <2>2 DEF WriteManifest, Types, TypeOK
  <2> DEFINE r == [Idle EXCEPT !.at = "enrich", !.plan = Of(i)]
  <2>4. r \in ProcState /\ r.plan \in Plan
    BY <2>1, IdleIsRecord DEF ProcState, Idle
  <2>5. proc' = [proc EXCEPT ![i] = r]
    BY <1>13 DEF WriteManifest
  <2> HIDE DEF r, m
  <2>6. /\ proc' \in [Proc -> ProcState]
        /\ \A j \in Proc : proc'[j].at # "idle" => proc'[j].plan \in Plan
    BY <2>4, <2>5, RecordTyped
  <2> QED BY <1>13, <2>3, <2>6 DEF WriteManifest, Types, TypeOK, counters, history
<1> QED BY <1>4, <1>5, <1>6, <1>7, <1>8, <1>9, <1>10, <1>11, <1>12, <1>13 DEF Conclude

LEMMA EnrichTypes ==
    ASSUME Types, NEW i \in Proc, Enrich(i)
    PROVE  Types'
<1>1. proc[i].at # "idle"
  BY DEF Enrich, EnrichRead, EnrichLedger, EnrichEvents, EnrichWrite
<1>2. Of(i) \in Plan /\ proc[i].plan \in Plan /\ proc[i] \in ProcState /\ proc[i].payload \in Manifest
  BY <1>1, BusyReads DEF Of
<1>3. manifest[Of(i)] \in Manifest
  BY <1>2 DEF Types, TypeOK
<1>4. CASE EnrichRead(i)
  <2> DEFINE m == manifest[Of(i)]
             f == IF Delivered(m) THEN {} ELSE {"delivery"}
             r == [proc[i] EXCEPT !.at = "enrich_ledger", !.payload = m, !.failing = f]
  <2>1. f \in SUBSET Gate
    BY DEF Gate
  <2>2. proc' = [proc EXCEPT ![i] = r]
    BY <1>2, <1>4 DEF EnrichRead, Types, TypeOK, ProcState
  <2> HIDE DEF f
  <2>3. r \in ProcState /\ r.plan \in Plan
    BY <1>2, <1>3, <2>1 DEF ProcState, At
  <2> HIDE DEF r
  <2>4. /\ proc' \in [Proc -> ProcState]
        /\ \A j \in Proc : proc'[j].at # "idle" => proc'[j].plan \in Plan
    BY <2>2, <2>3, RecordTyped
  <2> QED BY <1>4, <2>4 DEF EnrichRead, Types, TypeOK, files, counters, history
<1>5. CASE EnrichLedger(i)
  <2> DEFINE seen == OpenFor(Mine(i), {"delivery"})
             r == [proc[i] EXCEPT !.at = "enrich_events", !.seen = seen]
  <2>1. seen \in SUBSET Gate
    BY DEF OpenFor, Gate
  <2>2. proc' = [proc EXCEPT ![i] = r]
    BY <1>2, <1>5 DEF EnrichLedger, Types, TypeOK, ProcState
  <2> HIDE DEF seen
  <2>3. r \in ProcState /\ r.plan \in Plan
    BY <1>2, <2>1 DEF ProcState, At
  <2> HIDE DEF r
  <2>4. /\ proc' \in [Proc -> ProcState]
        /\ \A j \in Proc : proc'[j].at # "idle" => proc'[j].plan \in Plan
    BY <2>2, <2>3, RecordTyped
  <2> QED BY <1>5, <2>4 DEF EnrichLedger, Types, TypeOK, files, counters, history
<1>6. CASE EnrichEvents(i)
  <2>1. incidents' \subseteq Session \X Gate /\ doubled' \subseteq Session \X Gate
    BY <1>1, <1>6, SyncEvaluationTyped DEF EnrichEvents, Gate
  <2>2. /\ proc' \in [Proc -> ProcState]
        /\ \A j \in Proc : proc'[j].at # "idle" => proc'[j].plan \in Plan
    BY <1>1, <1>6, GotoTyped DEF EnrichEvents, At
  <2> QED BY <1>6, <2>1, <2>2 DEF EnrichEvents, Types, TypeOK, counters
<1>7. CASE EnrichWrite(i)
  <2>1. manifest' \in [Plan -> Manifest]
    BY <1>2, <1>7 DEF EnrichWrite, Types, TypeOK
  <2>2. /\ proc' \in [Proc -> ProcState]
        /\ \A j \in Proc : proc'[j].at # "idle" => proc'[j].plan \in Plan
    BY <1>7, IdleIsRecord DEF EnrichWrite, Types, TypeOK, Idle
  <2> QED BY <1>7, <2>1, <2>2 DEF EnrichWrite, Types, TypeOK, counters, history
<1> QED BY <1>4, <1>5, <1>6, <1>7 DEF Enrich

LEMMA LoadTypes ==
    ASSUME Types, NEW i \in Proc, NEW p \in Plan, Load(i, p)
    PROVE  Types'
<1> DEFINE s == IF run[p] = NoRun THEN [NoRun EXCEPT !.status = "RUNNING"] ELSE run[p]
           r == [Idle EXCEPT !.at = "loaded", !.plan = p, !.state = s]
<1>1. s \in RunState
  BY NoRunIsState DEF Types, TypeOK, RunState, RunStatus
<1>2. proc' = [proc EXCEPT ![i] = r]
  BY DEF Load
<1> HIDE DEF s
<1>3. r \in ProcState /\ r.plan \in Plan
  BY <1>1, IdleIsRecord DEF ProcState, At, Idle
<1> HIDE DEF r
<1>4. /\ proc' \in [Proc -> ProcState]
      /\ \A j \in Proc : proc'[j].at # "idle" => proc'[j].plan \in Plan
  BY <1>2, <1>3, RecordTyped
<1>5. trouble' \in 0 .. MaxTrouble
  BY BoundAssumption DEF Load, Mishap, Types, TypeOK
<1> QED BY <1>4, <1>5 DEF Load, Types, TypeOK, files, history

LEMMA KillTypes ==
    ASSUME Types, NEW i \in Proc, Kill(i)
    PROVE  Types'
<1>1. /\ proc' \in [Proc -> ProcState]
      /\ \A j \in Proc : proc'[j].at # "idle" => proc'[j].plan \in Plan
  BY IdleIsRecord DEF Kill, Types, TypeOK, Idle
<1>2. kills' \in 0 .. MaxKills
  BY BoundAssumption DEF Kill, Types, TypeOK
<1> QED BY <1>1, <1>2 DEF Kill, Types, TypeOK, files, history

LEMMA NextTypes == Types /\ [Next]_vars => Types'
<1> SUFFICES ASSUME Types, [Next]_vars PROVE Types'
  OBVIOUS
<1>1. ASSUME NEW i \in Proc, Work(i) PROVE Types'
  BY <1>1, PreflightTypes, SynchroniseTypes, GatedTypes, ConcludeTypes, EnrichTypes DEF Work
<1>2. ASSUME NEW s \in Session, OpenWindow(s) PROVE Types'
  BY <1>2 DEF OpenWindow, Types, TypeOK, files, counters, history
<1>3. CASE UNCHANGED vars
  BY <1>3 DEF vars, Types, TypeOK, files, counters, history
<1> QED BY <1>1, <1>2, <1>3, LoadTypes, KillTypes DEF Next

(* The state of the daily run keeps its types.                             *)
THEOREM TypeCorrect == Spec => []TypeOK
<1>1. Types => TypeOK
  BY DEF Types
<1> QED BY <1>1, InitTypes, NextTypes, PTL DEF Spec

--------------------------------------------------------------------------------
(***************************************************************************)
(* The lease excludes: no two processes are in the DAG of one session.     *)
(* Then nobody opens or resolves the incident of the gate between the      *)
(* moment a process reads the ledger and the moment it writes to it.       *)
(***************************************************************************)
LeaseExcludes ==
    \A i, j \in Proc : i # j /\ proc[i].at \in Leased /\ proc[j].at \in Leased => Mine(i) # Mine(j)

ReadIsCurrent ==
    \A i \in Proc : proc[i].at = "slo_events" =>
        ("blocking" \in proc[i].seen <=> <<Mine(i), "blocking">> \in incidents)

LedgerInv == Types /\ LeaseExcludes /\ ReadIsCurrent /\ OpenedOnce

(* A step of process i that only moves it, keeping its plan.               *)
Moved(i, a) == /\ proc'[i].at = a /\ proc'[i].plan = proc[i].plan
               /\ \A j \in Proc \ {i} : proc'[j] = proc[j]

LEMMA GotoMoves ==
    ASSUME Types, NEW i \in Proc, NEW a, Goto(i, a)
    PROVE  Moved(i, a) /\ proc'[i].state = proc[i].state /\ proc'[i].dataset = proc[i].dataset
           /\ proc'[i].payload = proc[i].payload
BY GotoRecord DEF Moved, Types, TypeOK, ProcState

LEMMA SaveMoves ==
    ASSUME Types, NEW i \in Proc, NEW s, NEW a, Save(i, s, a)
    PROVE  Moved(i, a) /\ proc'[i].state = s /\ proc'[i].dataset = proc[i].dataset
           /\ proc'[i].payload = proc[i].payload
<1> DEFINE r == [proc[i] EXCEPT !.at = a, !.state = s]
<1>1. proc[i] \in ProcState /\ proc \in [Proc -> ProcState]
  BY DEF Types, TypeOK
<1>2. /\ r.at = a /\ r.state = s /\ r.plan = proc[i].plan
      /\ r.dataset = proc[i].dataset /\ r.payload = proc[i].payload
  BY <1>1 DEF ProcState
<1>3. proc' = [proc EXCEPT ![i] = r]
  BY SaveRecord
<1> HIDE DEF r
<1> QED BY <1>1, <1>2, <1>3 DEF Moved

(* A step that takes no lease, reads no ledger and leaves the incidents of *)
(* the gate alone.                                                         *)
LEMMA LedgerStep ==
    ASSUME LedgerInv, Types', NEW i \in Proc, target' = target,
           \A j \in Proc \ {i} : proc'[j] = proc[j],
           proc'[i].at \in Leased => proc[i].at \in Leased /\ proc'[i].plan = proc[i].plan,
           proc'[i].at # "slo_events",
           \A t \in Session : <<t, "blocking">> \in incidents' <=> <<t, "blocking">> \in incidents,
           \A t \in Session : <<t, "blocking">> \in doubled' <=> <<t, "blocking">> \in doubled
    PROVE  LedgerInv'
<1>1. \A j \in Proc : proc'[j].at \in Leased =>
            proc[j].at \in Leased /\ target'[proc'[j].plan] = target[proc[j].plan]
  OBVIOUS
<1>2. LeaseExcludes'
  BY <1>1 DEF LedgerInv, LeaseExcludes, Mine, Of
<1>3. ReadIsCurrent'
  <2> SUFFICES ASSUME NEW j \in Proc, proc'[j].at = "slo_events"
               PROVE  "blocking" \in proc'[j].seen <=> <<target'[proc'[j].plan], "blocking">> \in incidents'
    BY DEF ReadIsCurrent, Mine, Of
  <2>1. proc'[j] = proc[j]
    OBVIOUS
  <2>2. Mine(j) \in Session
    BY <2>1, BusyReads DEF LedgerInv
  <2> QED BY <2>1, <2>2 DEF LedgerInv, ReadIsCurrent, Mine, Of
<1>4. OpenedOnce'
  BY DEF LedgerInv, OpenedOnce
<1> QED BY <1>2, <1>3, <1>4 DEF LedgerInv

LEMMA LedgerMove ==
    ASSUME LedgerInv, Types', NEW i \in Proc, NEW a, Moved(i, a), a # "slo_events",
           a \in Leased => proc[i].at \in Leased,
           UNCHANGED <<target, incidents, doubled>>
    PROVE  LedgerInv'
BY LedgerStep DEF Moved

LEMMA LedgerGoto ==
    ASSUME LedgerInv, Types', NEW i \in Proc, NEW a, Goto(i, a), a # "slo_events",
           a \in Leased => proc[i].at \in Leased,
           UNCHANGED <<target, incidents, doubled>>
    PROVE  LedgerInv'
BY GotoMoves, LedgerMove DEF LedgerInv

LEMMA LedgerSave ==
    ASSUME LedgerInv, Types', NEW i \in Proc, NEW s, NEW a, Save(i, s, a), a # "slo_events",
           a \in Leased => proc[i].at \in Leased,
           UNCHANGED <<target, incidents, doubled>>
    PROVE  LedgerInv'
BY SaveMoves, LedgerMove DEF LedgerInv

LEMMA InitLedger == Init => LedgerInv
<1> SUFFICES ASSUME Init PROVE LedgerInv
  OBVIOUS
<1>1. \A i \in Proc : proc[i].at = "idle"
  BY DEF Init, Idle
<1> QED BY <1>1, InitTypes DEF Init, LedgerInv, LeaseExcludes, ReadIsCurrent, OpenedOnce, Leased

LEMMA PreflightLedger ==
    ASSUME LedgerInv, Types', NEW i \in Proc, Preflight(i)
    PROVE  LedgerInv'
<1> USE DEF LedgerInv, Leased, files, counters, history
<1>1. CASE SaveLoaded(i)
  BY <1>1, LedgerSave DEF SaveLoaded
<1>2. CASE SkipNonTrading(i)
  BY <1>2, LedgerSave DEF SkipNonTrading
<1>3. CASE NotReady(i)
  BY <1>3, LedgerSave DEF NotReady
<1>4. CASE Acquire(i)
  <2>1. Moved(i, "sync")
    BY <1>4, GotoMoves DEF Acquire
  <2>2. \A j \in Proc : proc'[j].plan = proc[j].plan
    BY <2>1 DEF Moved
  <2>3. \A j \in Proc : proc'[j].at \in Leased => j = i \/ proc[j].at \in Leased
    BY <2>1 DEF Moved
  <2>4. \A j \in Proc \ {i} : proc[j].at \in Leased => Mine(j) # Mine(i)
    BY <1>4 DEF Acquire, LeaseFree
  <2>5. LeaseExcludes'
    BY <1>4, <2>2, <2>3, <2>4 DEF LeaseExcludes, Acquire, Mine, Of
  <2>6. \A j \in Proc : proc'[j].at = "slo_events" => proc'[j] = proc[j]
    BY <2>1 DEF Moved
  <2>7. ReadIsCurrent'
    BY <1>4, <2>6 DEF ReadIsCurrent, Acquire, Mine, Of
  <2> QED BY <1>4, <2>5, <2>7 DEF Acquire, OpenedOnce
<1>5. CASE Refused(i)
  <2>1. proc'[i].at \in {"idle", "enrich"} /\ \A j \in Proc \ {i} : proc'[j] = proc[j]
    BY <1>5 DEF Refused, Idle, Types, TypeOK
  <2> QED BY <1>5, <2>1, LedgerStep DEF Refused
<1> QED BY <1>1, <1>2, <1>3, <1>4, <1>5 DEF Preflight

LEMMA SynchroniseLedger ==
    ASSUME LedgerInv, Types', NEW i \in Proc, Synchronise(i)
    PROVE  LedgerInv'
<1> USE DEF LedgerInv, Leased, files, counters, history
<1>1. CASE SyncReused(i)
  BY <1>1, LedgerGoto DEF SyncReused
<1>2. CASE ApplyRefused(i)
  BY <1>2, LedgerSave DEF ApplyRefused, SyncFailure
<1>3. CASE Apply(i)
  BY <1>3, LedgerGoto DEF Apply
<1>4. CASE Publish(i)
  BY <1>4, LedgerStep DEF Publish, Alias!Publish
<1>5. CASE ApplyDone(i)
  BY <1>5, LedgerGoto DEF ApplyDone
<1>6. CASE ApplyFails(i)
  BY <1>6, LedgerSave DEF ApplyFails, SyncFailure
<1>7. CASE SyncRecorded(i)
  BY <1>7, LedgerSave DEF SyncRecorded
<1> QED BY <1>1, <1>2, <1>3, <1>4, <1>5, <1>6, <1>7 DEF Synchronise

LEMMA GatedLedger ==
    ASSUME LedgerInv, Types', NEW i \in Proc, Gated(i)
    PROVE  LedgerInv'
<1> USE DEF LedgerInv, Leased, files, counters, history
<1>1. CASE Verify(i)
  <2>1. proc[i].at = "verify" /\ Moved(i, "features")
    BY <1>1 DEF Verify, Moved, Types, TypeOK, ProcState
  <2> QED BY <1>1, <2>1, LedgerMove DEF Verify
<1>2. CASE VerifyFails(i)
  BY <1>2, LedgerSave DEF VerifyFails
<1>3. CASE Features(i)
  BY <1>3, LedgerGoto, LedgerSave DEF Features
<1>4. CASE GateReused(i)
  BY <1>4, LedgerGoto DEF GateReused
<1>5. CASE EvaluateGate(i)
  <2>1. /\ Moved(i, "slo_events") /\ proc[i].at = "slo"
        /\ proc'[i].seen = OpenFor(Mine(i), {"blocking"})
    BY <1>5 DEF EvaluateGate, Moved, Types, TypeOK, ProcState
  <2>2. UNCHANGED <<target, incidents, doubled>>
    BY <1>5 DEF EvaluateGate
  <2>3. \A j \in Proc : proc'[j].plan = proc[j].plan /\ (proc'[j].at \in Leased => proc[j].at \in Leased)
    BY <2>1 DEF Moved
  <2>4. LeaseExcludes'
    BY <2>2, <2>3 DEF LeaseExcludes, Mine, Of
  <2>5. ReadIsCurrent'
    BY <2>1, <2>2 DEF ReadIsCurrent, Moved, OpenFor, Mine, Of
  <2> QED BY <2>2, <2>4, <2>5 DEF OpenedOnce
<1>6. CASE GateEvents(i)
  <2>1. proc[i].at = "slo_events" /\ Moved(i, "slo_record") /\ target' = target
    BY <1>6, GotoMoves DEF GateEvents
  <2>2. Mine(i) \in Session
    BY <2>1, BusyReads
  <2>3. \A j \in Proc : proc'[j].plan = proc[j].plan /\ (proc'[j].at \in Leased => proc[j].at \in Leased)
    BY <2>1 DEF Moved
  <2>4. LeaseExcludes'
    BY <2>1, <2>3 DEF LeaseExcludes, Mine, Of
  <2>5. \A t \in Session : t # Mine(i) => (<<t, "blocking">> \in incidents' <=> <<t, "blocking">> \in incidents)
    BY <1>6 DEF GateEvents, SyncEvaluation
  <2>6. ReadIsCurrent'
    <3> SUFFICES ASSUME NEW j \in Proc, proc'[j].at = "slo_events"
                 PROVE  "blocking" \in proc'[j].seen <=> <<target'[proc'[j].plan], "blocking">> \in incidents'
      BY DEF ReadIsCurrent, Mine, Of
    <3>1. j # i /\ proc'[j] = proc[j]
      BY <2>1 DEF Moved
    <3>2. Mine(j) # Mine(i) /\ Mine(j) \in Session
      BY <2>1, <3>1, BusyReads DEF LeaseExcludes
    <3> QED BY <2>1, <2>5, <3>1, <3>2 DEF ReadIsCurrent, Mine, Of
  <2>7. OpenedOnce'
    <3>1. "blocking" \in proc[i].seen <=> <<Mine(i), "blocking">> \in incidents
      BY <2>1 DEF ReadIsCurrent
    <3>2. doubled' = doubled \cup (incidents \cap ({Mine(i)} \X ((proc[i].failing \ proc[i].seen) \cap {"blocking"})))
      BY <1>6 DEF GateEvents, SyncEvaluation
    <3> QED BY <3>1, <3>2 DEF OpenedOnce
  <2> QED BY <2>4, <2>6, <2>7
<1>7. CASE GateFails(i)
  BY <1>7, LedgerSave DEF GateFails
<1>8. CASE GatePasses(i)
  BY <1>8, LedgerSave DEF GatePasses
<1>9. CASE GateBlocks(i)
  BY <1>9, LedgerSave DEF GateBlocks
<1>10. CASE RunBlocked(i)
  BY <1>10, LedgerSave DEF RunBlocked
<1> QED BY <1>1, <1>2, <1>3, <1>4, <1>5, <1>6, <1>7, <1>8, <1>9, <1>10 DEF Gated

LEMMA ConcludeLedger ==
    ASSUME LedgerInv, Types', NEW i \in Proc, Conclude(i)
    PROVE  LedgerInv'
<1> USE DEF LedgerInv, Leased, files, counters, history
<1>1. CASE RegressionReused(i) \/ NotifyFails(i)
  BY <1>1, LedgerGoto DEF RegressionReused, NotifyFails
<1>2. CASE RegressionSkipped(i) \/ Regression(i) \/ RegressionFails(i)
  BY <1>2, LedgerSave DEF RegressionSkipped, Regression, RegressionFails, RegressionDue
<1>3. CASE Succeed(i) \/ Report(i) \/ Notify(i) \/ Failed(i)
  BY <1>3, LedgerSave DEF Succeed, Report, Notify, Failed
<1>4. CASE WriteManifest(i)
  <2>1. proc'[i].at = "enrich" /\ \A j \in Proc \ {i} : proc'[j] = proc[j]
    BY <1>4 DEF WriteManifest, Idle, Types, TypeOK
  <2> QED BY <1>4, <2>1, LedgerStep DEF WriteManifest
<1> QED BY <1>1, <1>2, <1>3, <1>4 DEF Conclude

LEMMA EnrichLedgerInv ==
    ASSUME LedgerInv, Types', NEW i \in Proc, Enrich(i)
    PROVE  LedgerInv'
<1> USE DEF LedgerInv, Leased, files, counters, history
<1>1. CASE EnrichRead(i)
  <2>1. Moved(i, "enrich_ledger")
    BY <1>1 DEF EnrichRead, Moved, Types, TypeOK, ProcState
  <2> QED BY <1>1, <2>1, LedgerMove DEF EnrichRead
<1>2. CASE EnrichLedger(i)
  <2>1. Moved(i, "enrich_events")
    BY <1>2 DEF EnrichLedger, Moved, Types, TypeOK, ProcState
  <2> QED BY <1>2, <2>1, LedgerMove DEF EnrichLedger
<1>3. CASE EnrichEvents(i)
  <2>1. Moved(i, "enrich_write")
    BY <1>3, GotoMoves DEF EnrichEvents
  <2>2. \A t \in Session : <<t, "blocking">> \in incidents' <=> <<t, "blocking">> \in incidents
    BY <1>3 DEF EnrichEvents, SyncEvaluation
  <2>3. \A t \in Session : <<t, "blocking">> \in doubled' <=> <<t, "blocking">> \in doubled
    BY <1>3 DEF EnrichEvents, SyncEvaluation
  <2>4. target' = target
    BY <1>3 DEF EnrichEvents
  <2> QED BY <2>1, <2>2, <2>3, <2>4, LedgerStep DEF Moved
<1>4. CASE EnrichWrite(i)
  <2>1. proc'[i].at = "idle" /\ \A j \in Proc \ {i} : proc'[j] = proc[j]
    BY <1>4 DEF EnrichWrite, Idle, Types, TypeOK
  <2> QED BY <1>4, <2>1, LedgerStep DEF EnrichWrite
<1> QED BY <1>1, <1>2, <1>3, <1>4 DEF Enrich

LEMMA NextLedger == LedgerInv /\ [Next]_vars => LedgerInv'
<1> SUFFICES ASSUME LedgerInv, [Next]_vars PROVE LedgerInv'
  OBVIOUS
<1>1. Types'
  BY NextTypes DEF LedgerInv
<1>2. ASSUME NEW i \in Proc, Work(i) PROVE LedgerInv'
  BY <1>1, <1>2, PreflightLedger, SynchroniseLedger, GatedLedger, ConcludeLedger, EnrichLedgerInv DEF Work
<1>3. ASSUME NEW i \in Proc, Kill(i) PROVE LedgerInv'
  <2>1. proc'[i].at = "idle" /\ \A j \in Proc \ {i} : proc'[j] = proc[j]
    BY <1>3 DEF Kill, Idle, LedgerInv, Types, TypeOK
  <2> QED BY <1>1, <1>3, <2>1, LedgerStep DEF Kill, Leased, files, history
<1>4. ASSUME NEW i \in Proc, NEW p \in Plan, Load(i, p) PROVE LedgerInv'
  <2>1. proc'[i].at = "loaded" /\ \A j \in Proc \ {i} : proc'[j] = proc[j]
    BY <1>4 DEF Load, Idle, LedgerInv, Types, TypeOK
  <2> QED BY <1>1, <1>4, <2>1, LedgerStep DEF Load, Leased, files, history
<1>5. ASSUME NEW s \in Session, OpenWindow(s) PROVE LedgerInv'
  BY <1>1, <1>5 DEF OpenWindow, LedgerInv, LeaseExcludes, ReadIsCurrent, OpenedOnce, Mine, Of,
                    files, history
<1>6. CASE UNCHANGED vars
  BY <1>1, <1>6 DEF vars, LedgerInv, LeaseExcludes, ReadIsCurrent, OpenedOnce, Mine, Of, files, history
<1> QED BY <1>2, <1>3, <1>4, <1>5, <1>6 DEF Next

(* While an incident of the SLO gate is open, no evaluation of its session *)
(* opens it again: the read and the write of the ledger are two steps, and *)
(* what keeps them together is the lease.                                  *)
THEOREM IncidentOpenedOnce == Spec => []OpenedOnce
<1>1. LedgerInv => OpenedOnce
  BY DEF LedgerInv
<1> QED BY <1>1, InitLedger, NextLedger, PTL DEF Spec

--------------------------------------------------------------------------------
(***************************************************************************)
(* Every copy of a plan's state, on disk or in memory, that says the gate  *)
(* passed or the regression was attempted says so of a dataset the gate    *)
(* let pass, and only such a dataset gets to the regression.               *)
(***************************************************************************)
RestsOn(s, p, ok) ==
    /\ s.steps["regression_backtest"].status \in {"SUCCEEDED", "SKIPPED", "FAILED"} =>
          <<p, s.steps["regression_backtest"].input>> \in ok
    /\ s.steps["slo_gate"].status = "SUCCEEDED" => <<p, s.steps["slo_gate"].input>> \in ok

RecordRestsOn(r, ok) ==
    /\ RestsOn(r.state, r.plan, ok) /\ RestsOn(r.payload, r.plan, ok)
    /\ r.at = "regress" => <<r.plan, r.dataset>> \in ok

GateInv ==
    /\ Types
    /\ \A p \in Plan : RestsOn(run[p], p, allowed) /\ RestsOn(manifest[p], p, allowed)
    /\ \A i \in Proc : RecordRestsOn(proc[i], allowed)

(* More datasets pass the gate, never fewer.                               *)
LEMMA RestsOnMore ==
    ASSUME NEW s, NEW p, NEW ok, NEW more, ok \subseteq more, RestsOn(s, p, ok)
    PROVE  RestsOn(s, p, more)
BY DEF RestsOn

(* What the helpers on run states preserve.                                *)
LEMMA NothingRests ==
    ASSUME NEW p, NEW ok
    PROVE  /\ RestsOn(NoRun, p, ok) /\ RestsOn([NoRun EXCEPT !.status = "RUNNING"], p, ok)
           /\ RestsOn(NoManifest, p, ok)
<1>1. "regression_backtest" \in StepName /\ "slo_gate" \in StepName
  BY DEF StepName, Order
<1> QED BY <1>1 DEF RestsOn, NoRun, NoManifest, NoRecord

LEMMA StatusRests ==
    ASSUME NEW s \in RunState, NEW p, NEW ok, NEW status, RestsOn(s, p, ok)
    PROVE  RestsOn([s EXCEPT !.status = status], p, ok)
BY DEF RestsOn, RunState

LEMMA BlockedRests ==
    ASSUME NEW s \in RunState, NEW after, NEW p, NEW ok, RestsOn(s, p, ok)
    PROVE  RestsOn(Blocked(s, after), p, ok)
<1> DEFINE b == Blocked(s, after)
<1>1. \A n \in StepName : b.steps[n] = s.steps[n] \/ b.steps[n] = [status |-> "BLOCKED", input |-> 0]
  BY DEF Blocked, RunState
<1>2. "regression_backtest" \in StepName /\ "slo_gate" \in StepName
  BY DEF StepName, Order
<1> HIDE DEF b
<1>3. RestsOn(b, p, ok)
  BY <1>1, <1>2 DEF RestsOn
<1> QED BY <1>3 DEF b

LEMMA WithSteps ==
    ASSUME Types, NEW i \in Proc, NEW n \in StepName, NEW status, NEW input
    PROVE  /\ With(i, n, status, input).status = proc[i].state.status
           /\ \A k \in StepName : With(i, n, status, input).steps[k] =
                  IF k = n THEN [status |-> status, input |-> input] ELSE proc[i].state.steps[k]
<1>1. proc[i].state \in RunState
  BY DEF Types, TypeOK, ProcState
<1> QED BY <1>1 DEF With, RunState

LEMMA WithRests ==
    ASSUME Types, NEW i \in Proc, NEW n \in StepName, NEW status, NEW input, NEW p, NEW ok,
           RestsOn(proc[i].state, p, ok),
           n \in {"regression_backtest", "slo_gate"} =>
               status \notin {"SUCCEEDED", "SKIPPED", "FAILED"} \/ <<p, input>> \in ok
    PROVE  RestsOn(With(i, n, status, input), p, ok)
<1> DEFINE w == With(i, n, status, input)
<1>1. \A k \in StepName : w.steps[k] =
          IF k = n THEN [status |-> status, input |-> input] ELSE proc[i].state.steps[k]
  BY WithSteps
<1>2. "regression_backtest" \in StepName /\ "slo_gate" \in StepName
  BY DEF StepName, Order
<1> HIDE DEF w
<1>3. RestsOn(w, p, ok)
  BY <1>1, <1>2 DEF RestsOn
<1> QED BY <1>3 DEF w

LEMMA IdleRests ==
    ASSUME NEW ok
    PROVE  RecordRestsOn(Idle, ok)
BY NothingRests DEF RecordRestsOn, Idle

LEMMA InitGate == Init => GateInv
<1> SUFFICES ASSUME Init PROVE GateInv
  OBVIOUS
<1>1. \A i \in Proc : proc[i] = Idle
  BY DEF Init
<1>2. \A p \in Plan : run[p] = NoRun /\ manifest[p] = NoManifest
  BY DEF Init
<1> QED BY <1>1, <1>2, InitTypes, IdleRests, NothingRests DEF GateInv

(* A step of one process, after which its record and the files still rest  *)
(* on the gate.                                                            *)
LEMMA GateStep ==
    ASSUME GateInv, Types', NEW i \in Proc, allowed \subseteq allowed',
           \A j \in Proc \ {i} : proc'[j] = proc[j],
           RecordRestsOn(proc'[i], allowed'),
           \A p \in Plan : RestsOn(run'[p], p, allowed') /\ RestsOn(manifest'[p], p, allowed')
    PROVE  GateInv'
<1>1. ASSUME NEW j \in Proc, j # i PROVE RecordRestsOn(proc'[j], allowed')
  <2>1. proc'[j] = proc[j] /\ RecordRestsOn(proc[j], allowed)
    BY <1>1 DEF GateInv
  <2> QED BY <2>1, RestsOnMore DEF RecordRestsOn
<1> QED BY <1>1 DEF GateInv

LEMMA FilesRest ==
    ASSUME GateInv, allowed \subseteq allowed'
    PROVE  \A p \in Plan : RestsOn(run[p], p, allowed') /\ RestsOn(manifest[p], p, allowed')
BY RestsOnMore DEF GateInv

LEMMA GateMove ==
    ASSUME GateInv, Types', NEW i \in Proc, NEW a, Moved(i, a), allowed \subseteq allowed',
           a = "regress" => <<Of(i), proc[i].dataset>> \in allowed' /\ proc'[i].dataset = proc[i].dataset,
           RestsOn(proc'[i].state, Of(i), allowed'),
           RestsOn(proc'[i].payload, Of(i), allowed'),
           \A p \in Plan : RestsOn(run'[p], p, allowed'),
           UNCHANGED manifest
    PROVE  GateInv'
<1>1. RecordRestsOn(proc'[i], allowed')
  BY DEF RecordRestsOn, Moved, Of
<1>2. \A p \in Plan : RestsOn(manifest'[p], p, allowed')
  BY FilesRest
<1> QED BY <1>1, <1>2, GateStep DEF Moved

LEMMA GateGoto ==
    ASSUME GateInv, Types', NEW i \in Proc, NEW a, Goto(i, a), allowed \subseteq allowed',
           a = "regress" => <<Of(i), proc[i].dataset>> \in allowed',
           UNCHANGED <<run, manifest>>
    PROVE  GateInv'
<1>1. /\ Moved(i, a) /\ proc'[i].state = proc[i].state /\ proc'[i].dataset = proc[i].dataset
      /\ proc'[i].payload = proc[i].payload
  BY GotoMoves DEF GateInv
<1>2. RestsOn(proc[i].state, Of(i), allowed) /\ RestsOn(proc[i].payload, Of(i), allowed)
  BY DEF GateInv, RecordRestsOn, Of
<1>3. RestsOn(proc'[i].state, Of(i), allowed') /\ RestsOn(proc'[i].payload, Of(i), allowed')
  BY <1>1, <1>2, RestsOnMore
<1>4. \A p \in Plan : RestsOn(run'[p], p, allowed')
  BY FilesRest
<1> QED BY <1>1, <1>3, <1>4, GateMove

LEMMA GateSave ==
    ASSUME GateInv, Types', NEW i \in Proc, NEW s, NEW a, Save(i, s, a), allowed \subseteq allowed',
           a = "regress" => <<Of(i), proc[i].dataset>> \in allowed',
           RestsOn(s, Of(i), allowed'),
           UNCHANGED manifest
    PROVE  GateInv'
<1>1. /\ Moved(i, a) /\ proc'[i].state = s /\ proc'[i].dataset = proc[i].dataset
      /\ proc'[i].payload = proc[i].payload
  BY SaveMoves DEF GateInv
<1>2. RestsOn(proc[i].payload, Of(i), allowed')
  BY RestsOnMore DEF GateInv, RecordRestsOn, Of
<1>3. run' = [run EXCEPT ![Of(i)] = s] /\ run \in [Plan -> RunState]
  BY DEF Save, GateInv, Types, TypeOK
<1>4. \A p \in Plan : RestsOn(run'[p], p, allowed')
  BY <1>3, FilesRest
<1> QED BY <1>1, <1>2, <1>4, GateMove

LEMMA GateSaveOnly ==
    ASSUME GateInv, Types', NEW i \in Proc, NEW s, NEW a, Save(i, s, a), a # "regress",
           RestsOn(s, Of(i), allowed), manifest' = manifest, allowed' = allowed
    PROVE  GateInv'
BY GateSave

LEMMA StateRests ==
    ASSUME GateInv, NEW i \in Proc, proc[i].at # "idle"
    PROVE  /\ proc[i].state \in RunState /\ RestsOn(proc[i].state, Of(i), allowed)
           /\ proc[i].at = "regress" => <<Of(i), proc[i].dataset>> \in allowed
BY BusyReads DEF GateInv, RecordRestsOn, Of

LEMMA PreflightGate ==
    ASSUME GateInv, Types', NEW i \in Proc, Preflight(i)
    PROVE  GateInv'
<1>1. allowed' = allowed /\ proc[i].at # "idle"
  BY DEF Preflight, SaveLoaded, SkipNonTrading, NotReady, Acquire, Refused, history
<1>2. proc[i].state \in RunState /\ RestsOn(proc[i].state, Of(i), allowed)
  BY <1>1, StateRests
<1>3. CASE SaveLoaded(i)
  BY <1>1, <1>2, <1>3, GateSave DEF SaveLoaded
<1>4. CASE SkipNonTrading(i)
  BY <1>1, <1>2, <1>4, StatusRests, GateSave DEF SkipNonTrading
<1>5. CASE NotReady(i)
  <2>1. [proc[i].state EXCEPT !.status = "BLOCKED"] \in RunState
    BY <1>2, StatusTyped DEF RunStatus
  <2>2. RestsOn(Blocked([proc[i].state EXCEPT !.status = "BLOCKED"], 0), Of(i), allowed)
    BY <1>2, <2>1, StatusRests, BlockedRests
  <2> QED BY <1>1, <1>5, <2>2, GateSaveOnly DEF NotReady
<1>6. CASE Acquire(i)
  BY <1>1, <1>6, GateGoto DEF Acquire, files
<1>7. CASE Refused(i)
  <2>1. /\ proc'[i] = Idle \/ proc'[i] = [Idle EXCEPT !.at = "enrich", !.plan = Of(i)]
        /\ \A j \in Proc \ {i} : proc'[j] = proc[j]
    BY <1>7 DEF Refused, GateInv, Types, TypeOK
  <2>2. RecordRestsOn([Idle EXCEPT !.at = "enrich", !.plan = Of(i)], allowed')
    BY NothingRests DEF RecordRestsOn, Idle
  <2> QED BY <1>1, <1>7, <2>1, <2>2, IdleRests, FilesRest, GateStep DEF Refused, files
<1> QED BY <1>3, <1>4, <1>5, <1>6, <1>7 DEF Preflight

LEMMA SyncFailureGate ==
    ASSUME GateInv, Types', NEW i \in Proc, proc[i].at # "idle", SyncFailure(i),
           allowed' = allowed, UNCHANGED manifest
    PROVE  GateInv'
<1>1. RestsOn(proc[i].state, Of(i), allowed)
  BY StateRests
<1> DEFINE w == With(i, "sync_publish", "FAILED", 0)
<1>2. w \in RunState /\ RestsOn(w, Of(i), allowed)
  BY <1>1, WithTyped, WithRests DEF StepName, Order, GateInv
<1>3. RestsOn(Blocked(w, Order["sync_publish"]), Of(i), allowed)
  BY <1>2, BlockedRests
<1> QED BY <1>3, GateSave DEF SyncFailure

LEMMA SynchroniseGate ==
    ASSUME GateInv, Types', NEW i \in Proc, Synchronise(i)
    PROVE  GateInv'
<1> USE DEF files, history
<1>1. CASE SyncReused(i)
  BY <1>1, GateGoto DEF SyncReused
<1>2. CASE ApplyRefused(i)
  BY <1>2, SyncFailureGate DEF ApplyRefused
<1>3. CASE Apply(i)
  BY <1>3, GateGoto DEF Apply
<1>4. CASE Publish(i)
  BY <1>4 DEF Publish, GateInv
<1>5. CASE ApplyDone(i)
  BY <1>5, GateGoto DEF ApplyDone
<1>6. CASE ApplyFails(i)
  BY <1>6, SyncFailureGate DEF ApplyFails
<1>7. CASE SyncRecorded(i)
  <2>1. RestsOn(proc[i].state, Of(i), allowed)
    BY <1>7, StateRests DEF SyncRecorded
  <2>2. RestsOn(With(i, "sync_publish", "SUCCEEDED", applies[Of(i)]), Of(i), allowed)
    BY <2>1, WithRests DEF StepName, Order, GateInv
  <2> QED BY <1>7, <2>2, GateSave DEF SyncRecorded
<1> QED BY <1>1, <1>2, <1>3, <1>4, <1>5, <1>6, <1>7 DEF Synchronise

LEMMA GatedGate ==
    ASSUME GateInv, Types', NEW i \in Proc, Gated(i)
    PROVE  GateInv'
<1> USE DEF files, history
<1>1. /\ proc[i].at # "idle" /\ Types /\ proc[i] \in ProcState
      /\ proc[i].state \in RunState /\ RestsOn(proc[i].state, Of(i), allowed)
      /\ RestsOn(proc[i].payload, Of(i), allowed)
      /\ proc[i].dataset \in Nat
  BY StateRests, BusyReads DEF Gated, Verify, VerifyFails, Features, GateReused, EvaluateGate,
     GateEvents, GateFails, GatePasses, GateBlocks, RunBlocked, GateInv, RecordRestsOn, Of
<1>2. "dataset_verify" \in StepName /\ "feature_materialization" \in StepName /\ "slo_gate" \in StepName
  BY DEF StepName, Order
<1>3. CASE Verify(i)
  <2> DEFINE v == active.version
             reused == Reusable(Step(i, "dataset_verify"), v)
             s == IF reused THEN proc[i].state ELSE With(i, "dataset_verify", "SUCCEEDED", v)
  <2>1. RestsOn(s, Of(i), allowed)
    BY <1>1, <1>2, WithRests
  <2>2. /\ Moved(i, "features") /\ proc'[i].state = s /\ proc'[i].payload = proc[i].payload
        /\ run' = IF reused THEN run ELSE [run EXCEPT ![Of(i)] = s]
    BY <1>1, <1>3 DEF Verify, Moved, Types, TypeOK, ProcState
  <2> HIDE DEF s, reused
  <2>3. \A p \in Plan : RestsOn(run'[p], p, allowed)
    BY <2>1, <2>2 DEF GateInv, Types, TypeOK
  <2>4. allowed' = allowed /\ manifest' = manifest
    BY <1>3 DEF Verify
  <2> QED BY <1>1, <2>1, <2>2, <2>3, <2>4, GateMove
<1>4. CASE VerifyFails(i)
  <2> DEFINE w == With(i, "dataset_verify", "FAILED", 0)
  <2>1. w \in RunState /\ RestsOn(w, Of(i), allowed)
    BY <1>1, <1>2, WithTyped, WithRests
  <2>2. RestsOn(Blocked(w, Order["dataset_verify"]), Of(i), allowed)
    BY <2>1, BlockedRests
  <2> QED BY <1>4, <2>2, GateSave DEF VerifyFails
<1>5. CASE Features(i)
  <2>1. RestsOn(With(i, "feature_materialization", "SUCCEEDED", proc[i].dataset), Of(i), allowed)
    BY <1>1, <1>2, WithRests
  <2> QED BY <1>5, <2>1, GateSave, GateGoto DEF Features
<1>6. CASE GateReused(i)
  <2>1. <<Of(i), proc[i].dataset>> \in allowed
    BY <1>1, <1>6 DEF GateReused, Reusable, Step, RestsOn
  <2> QED BY <1>6, <2>1, GateGoto DEF GateReused
<1>7. CASE EvaluateGate(i)
  <2>1. /\ Moved(i, "slo_events") /\ proc'[i].state = proc[i].state
        /\ proc'[i].payload = proc[i].payload
    BY <1>1, <1>7 DEF EvaluateGate, Moved, Types, TypeOK, ProcState
  <2>2. allowed' = allowed /\ manifest' = manifest /\ run' = run
    BY <1>7 DEF EvaluateGate
  <2> QED BY <1>1, <2>1, <2>2, FilesRest, GateMove
<1>8. CASE GateEvents(i)
  BY <1>8, GateGoto DEF GateEvents
<1>9. CASE GateFails(i)
  <2> DEFINE w == With(i, "slo_gate", "FAILED", proc[i].dataset)
  <2>1. w \in RunState
    BY <1>1, <1>2, WithTyped
  <2>2. RestsOn(w, Of(i), allowed)
    <3>1. \A k \in StepName : w.steps[k] =
            IF k = "slo_gate" THEN [status |-> "FAILED", input |-> proc[i].dataset] ELSE proc[i].state.steps[k]
      BY <1>1, <1>2, WithSteps
    <3>2. "regression_backtest" \in StepName
      BY DEF StepName, Order
    <3> HIDE DEF w
    <3> QED BY <1>1, <1>2, <3>1, <3>2 DEF RestsOn
  <2>3. RestsOn(Blocked(w, Order["slo_gate"]), Of(i), allowed)
    BY <2>1, <2>2, BlockedRests
  <2>4. Save(i, Blocked(w, Order["slo_gate"]), "failed") /\ manifest' = manifest /\ allowed' = allowed
    BY <1>9 DEF GateFails
  <2> HIDE DEF w
  <2> QED BY <2>3, <2>4, GateSaveOnly
<1>10. CASE GatePasses(i)
  <2>1. allowed' = allowed \cup {<<Of(i), proc[i].dataset>>}
    BY <1>10 DEF GatePasses
  <2>2. RestsOn(proc[i].state, Of(i), allowed')
    BY <1>1, <2>1, RestsOnMore
  <2>3. RestsOn(With(i, "slo_gate", "SUCCEEDED", proc[i].dataset), Of(i), allowed')
    BY <1>1, <1>2, <2>1, <2>2, WithRests
  <2> QED BY <1>10, <2>1, <2>3, GateSave DEF GatePasses
<1>11. CASE GateBlocks(i)
  <2>1. RestsOn(With(i, "slo_gate", "BLOCKED", proc[i].dataset), Of(i), allowed)
    BY <1>1, <1>2, WithRests
  <2> QED BY <1>11, <2>1, GateSave DEF GateBlocks
<1>12. CASE RunBlocked(i)
  <2>1. [proc[i].state EXCEPT !.status = "BLOCKED"] \in RunState
    BY <1>1, StatusTyped DEF RunStatus
  <2>2. RestsOn(Blocked([proc[i].state EXCEPT !.status = "BLOCKED"], Order["slo_gate"]), Of(i), allowed)
    BY <1>1, <2>1, StatusRests, BlockedRests
  <2> QED BY <1>12, <2>2, GateSaveOnly DEF RunBlocked
<1> QED BY <1>3, <1>4, <1>5, <1>6, <1>7, <1>8, <1>9, <1>10, <1>11, <1>12 DEF Gated

LEMMA ConcludeGate ==
    ASSUME GateInv, Types', NEW i \in Proc, Conclude(i)
    PROVE  GateInv'
<1> USE DEF files, history
<1>1. /\ proc[i].at # "idle" /\ Types
      /\ proc[i].state \in RunState /\ RestsOn(proc[i].state, Of(i), allowed)
      /\ proc[i].at = "regress" => <<Of(i), proc[i].dataset>> \in allowed
  BY StateRests DEF Conclude, RegressionReused, RegressionSkipped, Regression, RegressionFails,
     RegressionDue, Succeed, Report, Notify, NotifyFails, Failed, WriteManifest, GateInv
<1>2. "regression_backtest" \in StepName /\ "report" \in StepName /\ "notification" \in StepName
  BY DEF StepName, Order
<1>3. CASE RegressionReused(i) \/ NotifyFails(i)
  BY <1>3, GateGoto DEF RegressionReused, NotifyFails
<1>4. ASSUME proc[i].at = "regress", NEW status
      PROVE  RestsOn(With(i, "regression_backtest", status, proc[i].dataset), Of(i), allowed)
  BY <1>1, <1>2, <1>4, WithRests
<1>5. CASE RegressionSkipped(i)
  BY <1>4, <1>5, GateSave DEF RegressionSkipped, RegressionDue
<1>6. CASE Regression(i)
  BY <1>4, <1>6, GateSave DEF Regression, RegressionDue
<1>7. CASE RegressionFails(i)
  <2>1. /\ proc[i].at = "regress" /\ manifest' = manifest /\ allowed' = allowed
        /\ Save(i, With(i, "regression_backtest", "FAILED", proc[i].dataset), "failed")
    BY <1>7 DEF RegressionFails, RegressionDue
  <2>2. RestsOn(With(i, "regression_backtest", "FAILED", proc[i].dataset), Of(i), allowed)
    BY <1>4, <2>1
  <2> QED BY <2>1, <2>2, GateSaveOnly
<1>8. CASE Succeed(i) \/ Failed(i)
  <2>1. /\ RestsOn([proc[i].state EXCEPT !.status = "SUCCEEDED"], Of(i), allowed)
        /\ RestsOn([proc[i].state EXCEPT !.status = "FAILED"], Of(i), allowed)
    BY <1>1, StatusRests
  <2> QED BY <1>8, <2>1, GateSaveOnly DEF Succeed, Failed
<1>9. CASE Report(i) \/ Notify(i)
  <2>1. /\ RestsOn(With(i, "report", "SUCCEEDED", proc[i].dataset), Of(i), allowed)
        /\ RestsOn(With(i, "notification", "SUCCEEDED", proc[i].dataset), Of(i), allowed)
    BY <1>1, <1>2, WithRests
  <2> QED BY <1>9, <2>1, GateSave DEF Report, Notify
<1>10. CASE WriteManifest(i)
  <2>1. /\ proc'[i] = [Idle EXCEPT !.at = "enrich", !.plan = Of(i)]
        /\ \A j \in Proc \ {i} : proc'[j] = proc[j]
    BY <1>1, <1>10 DEF WriteManifest, Types, TypeOK
  <2>2. RecordRestsOn(proc'[i], allowed')
    BY <2>1, NothingRests DEF RecordRestsOn, Idle
  <2>3. \A p \in Plan : RestsOn(manifest'[p], p, allowed)
    BY <1>1, <1>10, FilesRest DEF WriteManifest, RestsOn, GateInv, Types, TypeOK
  <2> QED BY <1>10, <2>1, <2>2, <2>3, FilesRest, GateStep DEF WriteManifest
<1> QED BY <1>3, <1>5, <1>6, <1>7, <1>8, <1>9, <1>10 DEF Conclude

LEMMA EnrichGate ==
    ASSUME GateInv, Types', NEW i \in Proc, Enrich(i)
    PROVE  GateInv'
<1> USE DEF files, history
<1>1. /\ proc[i].at # "idle" /\ Types /\ Of(i) \in Plan /\ proc[i] \in ProcState
      /\ RestsOn(proc[i].state, Of(i), allowed) /\ RestsOn(proc[i].payload, Of(i), allowed)
  BY BusyReads DEF Enrich, EnrichRead, EnrichLedger, EnrichEvents, EnrichWrite, GateInv, RecordRestsOn, Of
<1>2. allowed' = allowed /\ run' = run
  BY DEF Enrich, EnrichRead, EnrichLedger, EnrichEvents, EnrichWrite
<1>3. CASE EnrichRead(i)
  <2>1. /\ Moved(i, "enrich_ledger") /\ proc'[i].state = proc[i].state
        /\ proc'[i].payload = manifest[Of(i)]
    BY <1>1, <1>3 DEF EnrichRead, Moved, Types, TypeOK, ProcState
  <2>2. RestsOn(manifest[Of(i)], Of(i), allowed) /\ manifest' = manifest
    BY <1>1, <1>3 DEF EnrichRead, GateInv
  <2> QED BY <1>1, <1>2, <2>1, <2>2, FilesRest, GateMove
<1>4. CASE EnrichLedger(i)
  <2>1. /\ Moved(i, "enrich_events") /\ proc'[i].state = proc[i].state
        /\ proc'[i].payload = proc[i].payload
    BY <1>1, <1>4 DEF EnrichLedger, Moved, Types, TypeOK, ProcState
  <2>2. manifest' = manifest
    BY <1>4 DEF EnrichLedger
  <2> QED BY <1>1, <1>2, <2>1, <2>2, FilesRest, GateMove
<1>5. CASE EnrichEvents(i)
  BY <1>2, <1>5, GateGoto DEF EnrichEvents
<1>6. CASE EnrichWrite(i)
  <2>1. proc'[i] = Idle /\ \A j \in Proc \ {i} : proc'[j] = proc[j]
    BY <1>1, <1>6 DEF EnrichWrite, Types, TypeOK
  <2>2. \A p \in Plan : RestsOn(manifest'[p], p, allowed)
    BY <1>1, <1>6, FilesRest DEF EnrichWrite, GateInv, Types, TypeOK
  <2> QED BY <1>2, <2>1, <2>2, IdleRests, FilesRest, GateStep
<1> QED BY <1>3, <1>4, <1>5, <1>6 DEF Enrich

LEMMA NextGate == GateInv /\ [Next]_vars => GateInv'
<1> SUFFICES ASSUME GateInv, [Next]_vars PROVE GateInv'
  OBVIOUS
<1>1. Types'
  BY NextTypes DEF GateInv
<1>2. ASSUME NEW i \in Proc, Work(i) PROVE GateInv'
  BY <1>1, <1>2, PreflightGate, SynchroniseGate, GatedGate, ConcludeGate, EnrichGate DEF Work
<1>3. ASSUME NEW i \in Proc, Kill(i) PROVE GateInv'
  <2>1. proc'[i] = Idle /\ \A j \in Proc \ {i} : proc'[j] = proc[j]
    BY <1>3 DEF Kill, GateInv, Types, TypeOK
  <2> QED BY <1>1, <1>3, <2>1, IdleRests, FilesRest, GateStep DEF Kill, files, history
<1>4. ASSUME NEW i \in Proc, NEW p \in Plan, Load(i, p) PROVE GateInv'
  <2> DEFINE s == IF run[p] = NoRun THEN [NoRun EXCEPT !.status = "RUNNING"] ELSE run[p]
             r == [Idle EXCEPT !.at = "loaded", !.plan = p, !.state = s]
  <2>1. proc'[i] = r /\ \A j \in Proc \ {i} : proc'[j] = proc[j]
    BY <1>4 DEF Load, GateInv, Types, TypeOK
  <2>2. RestsOn(s, p, allowed)
    BY NothingRests DEF GateInv
  <2> HIDE DEF s
  <2>3. RecordRestsOn(r, allowed)
    BY <2>2, NothingRests DEF RecordRestsOn, Idle
  <2>4. UNCHANGED <<allowed, run, manifest>>
    BY <1>4 DEF Load, files, history
  <2> HIDE DEF r
  <2> QED BY <1>1, <2>1, <2>3, <2>4, FilesRest, GateStep
<1>5. ASSUME NEW s \in Session, OpenWindow(s) PROVE GateInv'
  BY <1>1, <1>5 DEF OpenWindow, GateInv, files, history
<1>6. CASE UNCHANGED vars
  BY <1>1, <1>6 DEF vars, GateInv, files, history
<1> QED BY <1>2, <1>3, <1>4, <1>5, <1>6 DEF Next

(* No regression is on record, in a run state or in a manifest, but for a  *)
(* dataset that the SLO gate let pass for this plan.                       *)
THEOREM ResearchIsGated == Spec => []ResearchGated
<1>1. GateInv => ResearchGated
  BY DEF GateInv, RestsOn, ResearchGated, Researched
<1> QED BY <1>1, InitGate, NextGate, PTL DEF Spec

--------------------------------------------------------------------------------
(***************************************************************************)
(* What is on record in the state s of a process that has come to a, with  *)
(* the dataset d: every step behind it, on that dataset.  A run that ends  *)
(* as SUCCEEDED has them all.                                              *)
(***************************************************************************)
Synchronised == {"verify", "features", "slo", "slo_events", "slo_record", "regress",
                 "succeed", "report", "notify"}
Verified == Synchronised \ {"verify"}
Materialised == Verified \ {"features"}
PastGate == {"regress", "succeed", "report", "notify"}

Recorded(s, n, d) == s.steps[n].status \in {"SUCCEEDED", "SKIPPED"} /\ s.steps[n].input = d

EvidencedAt(a, s, d) ==
    /\ a \in Synchronised => s.steps["sync_publish"].status = "SUCCEEDED"
    /\ a \in Verified => d > 0 /\ Recorded(s, "dataset_verify", d)
    /\ a \in Materialised => Recorded(s, "feature_materialization", d)
    /\ a \in PastGate => Recorded(s, "slo_gate", d)
    /\ a \in PastGate \ {"regress"} => Recorded(s, "regression_backtest", d)
    /\ a = "notify" => Recorded(s, "report", d)
    /\ a = "finish" /\ s.status = "SUCCEEDED" =>
        /\ d > 0 /\ s.steps["sync_publish"].status = "SUCCEEDED"
        /\ \A n \in StepName \ {"sync_publish"} : Recorded(s, n, d)
    /\ a = "manifest" => s.status # "SUCCEEDED"

Evidenced(m) ==
    m.status = "SUCCEEDED" =>
        /\ m.version > 0 /\ m.steps["sync_publish"].status = "SUCCEEDED"
        /\ \A n \in StepName \ {"sync_publish"} : Recorded(m, n, m.version)

EvidenceInv ==
    /\ Types
    /\ active.version = 0 => active.end = 0
    /\ \A p \in Plan : Evidenced(manifest[p])
    /\ \A i \in Proc : /\ EvidencedAt(proc[i].at, proc[i].state, proc[i].dataset)
                       /\ Evidenced(proc[i].payload)

(* Outside of the DAG nothing is claimed.                                  *)
LEMMA NothingClaimed ==
    ASSUME NEW a, NEW s, NEW d, a \notin Synchronised \cup {"finish", "manifest"}
    PROVE  EvidencedAt(a, s, d)
BY DEF EvidencedAt, Synchronised, Verified, Materialised, PastGate

LEMMA IdleEvidence ==
    ASSUME NEW a \in {"idle", "loaded", "enrich"}, NEW s
    PROVE  EvidencedAt(a, s, 0) /\ Evidenced(NoManifest)
BY NothingClaimed DEF Evidenced, NoManifest, Synchronised

LEMMA InitEvidence == Init => EvidenceInv
<1> SUFFICES ASSUME Init PROVE EvidenceInv
  OBVIOUS
<1>1. \A i \in Proc : proc[i].at = "idle" /\ proc[i].dataset = 0 /\ proc[i].payload = NoManifest
  BY DEF Init, Idle
<1>2. \A p \in Plan : manifest[p] = NoManifest
  BY DEF Init
<1>3. active.end = 0
  BY DEF Init
<1> QED BY <1>1, <1>2, <1>3, InitTypes, IdleEvidence DEF EvidenceInv

LEMMA EvidenceStep ==
    ASSUME EvidenceInv, Types', NEW i \in Proc,
           \A j \in Proc \ {i} : proc'[j] = proc[j],
           EvidencedAt(proc'[i].at, proc'[i].state, proc'[i].dataset),
           Evidenced(proc'[i].payload),
           \A p \in Plan : Evidenced(manifest'[p]),
           active' = active
    PROVE  EvidenceInv'
BY DEF EvidenceInv

LEMMA EvidenceMove ==
    ASSUME EvidenceInv, Types', NEW i \in Proc, NEW a, Moved(i, a),
           proc'[i].payload = proc[i].payload,
           EvidencedAt(a, proc'[i].state, proc'[i].dataset),
           manifest' = manifest, active' = active
    PROVE  EvidenceInv'
BY EvidenceStep DEF EvidenceInv, Moved

LEMMA EvidenceGoto ==
    ASSUME EvidenceInv, Types', NEW i \in Proc, NEW a, Goto(i, a),
           EvidencedAt(a, proc[i].state, proc[i].dataset),
           manifest' = manifest, active' = active
    PROVE  EvidenceInv'
<1>1. /\ Moved(i, a) /\ proc'[i].state = proc[i].state /\ proc'[i].dataset = proc[i].dataset
      /\ proc'[i].payload = proc[i].payload
  BY GotoMoves DEF EvidenceInv
<1> QED BY <1>1, EvidenceMove

LEMMA EvidenceSave ==
    ASSUME EvidenceInv, Types', NEW i \in Proc, NEW s, NEW a, Save(i, s, a),
           EvidencedAt(a, s, proc[i].dataset),
           manifest' = manifest, active' = active
    PROVE  EvidenceInv'
<1>1. /\ Moved(i, a) /\ proc'[i].state = s /\ proc'[i].dataset = proc[i].dataset
      /\ proc'[i].payload = proc[i].payload
  BY SaveMoves DEF EvidenceInv
<1> QED BY <1>1, EvidenceMove

LEMMA PreflightEvidence ==
    ASSUME EvidenceInv, Types', NEW i \in Proc, Preflight(i)
    PROVE  EvidenceInv'
<1> USE DEF files
<1>1. proc[i].at # "idle" /\ active' = active /\ manifest' = manifest /\ Types
  BY DEF Preflight, SaveLoaded, SkipNonTrading, NotReady, Acquire, Refused, EvidenceInv
<1>2. proc[i].state \in RunState
  BY <1>1, BusyReads
<1>3. CASE SaveLoaded(i)
  <2>1. EvidencedAt("preflight", proc[i].state, proc[i].dataset)
    BY NothingClaimed DEF Synchronised
  <2> QED BY <1>1, <1>3, <2>1, EvidenceSave DEF SaveLoaded
<1>4. CASE SkipNonTrading(i)
  <2> DEFINE s == [proc[i].state EXCEPT !.status = "SKIPPED_NON_TRADING_DAY"]
  <2>1. s.status = "SKIPPED_NON_TRADING_DAY"
    BY <1>2 DEF RunState
  <2>2. Save(i, s, "manifest")
    BY <1>4 DEF SkipNonTrading
  <2> HIDE DEF s
  <2>3. EvidencedAt("manifest", s, proc[i].dataset)
    BY <2>1 DEF EvidencedAt, Synchronised, Verified, Materialised, PastGate
  <2> QED BY <1>1, <2>2, <2>3, EvidenceSave
<1>5. CASE NotReady(i)
  <2> DEFINE s == Blocked([proc[i].state EXCEPT !.status = "BLOCKED"], 0)
  <2>1. s.status = "BLOCKED"
    BY <1>2 DEF RunState, Blocked
  <2>2. Save(i, s, "manifest")
    BY <1>5 DEF NotReady
  <2> HIDE DEF s
  <2>3. EvidencedAt("manifest", s, proc[i].dataset)
    BY <2>1 DEF EvidencedAt, Synchronised, Verified, Materialised, PastGate
  <2> QED BY <1>1, <2>2, <2>3, EvidenceSave
<1>6. CASE Acquire(i)
  <2>1. EvidencedAt("sync", proc[i].state, proc[i].dataset)
    BY NothingClaimed DEF Synchronised
  <2> QED BY <1>1, <1>6, <2>1, EvidenceGoto DEF Acquire
<1>7. CASE Refused(i)
  <2>1. /\ proc'[i] = Idle \/ proc'[i] = [Idle EXCEPT !.at = "enrich", !.plan = Of(i)]
        /\ \A j \in Proc \ {i} : proc'[j] = proc[j]
    BY <1>1, <1>7 DEF Refused, Types, TypeOK
  <2>2. /\ proc'[i].at \in {"idle", "enrich"} /\ proc'[i].dataset = 0
        /\ proc'[i].payload = NoManifest
    <3>1. CASE proc'[i] = Idle
      BY <3>1 DEF Idle
    <3>2. CASE proc'[i] = [Idle EXCEPT !.at = "enrich", !.plan = Of(i)]
      BY <3>2 DEF Idle
    <3> QED BY <2>1, <3>1, <3>2
  <2>3. \A p \in Plan : Evidenced(manifest'[p])
    BY <1>1 DEF EvidenceInv
  <2> QED BY <1>1, <2>1, <2>2, <2>3, IdleEvidence, EvidenceStep
<1> QED BY <1>3, <1>4, <1>5, <1>6, <1>7 DEF Preflight

(* A record that is written on the dataset keeps the others.               *)
LEMMA WithRecorded ==
    ASSUME Types, NEW i \in Proc, NEW n \in StepName, NEW status, NEW input
    PROVE  /\ \A k \in StepName \ {n} : With(i, n, status, input).steps[k] = proc[i].state.steps[k]
           /\ With(i, n, status, input).steps[n].status = status
           /\ With(i, n, status, input).steps[n].input = input
           /\ With(i, n, status, input).status = proc[i].state.status
<1> DEFINE w == With(i, n, status, input)
           r == [status |-> status, input |-> input]
<1>1. w.status = proc[i].state.status /\ \A k \in StepName : w.steps[k] = IF k = n THEN r ELSE proc[i].state.steps[k]
  BY WithSteps
<1>2. r.status = status /\ r.input = input
  OBVIOUS
<1> HIDE DEF w, r
<1>3. /\ \A k \in StepName \ {n} : w.steps[k] = proc[i].state.steps[k]
      /\ w.steps[n].status = status /\ w.steps[n].input = input
  BY <1>1, <1>2
<1> QED BY <1>1, <1>3 DEF w

LEMMA SynchroniseEvidence ==
    ASSUME EvidenceInv, Types', NEW i \in Proc, Synchronise(i)
    PROVE  EvidenceInv'
<1> USE DEF files
<1>1. proc[i].at # "idle" /\ manifest' = manifest /\ Types
  BY DEF Synchronise, SyncReused, ApplyRefused, Apply, Publish, ApplyDone, ApplyFails, SyncRecorded, EvidenceInv
<1>2. \A s, d : \A a \in {"apply", "applied", "failed"} : EvidencedAt(a, s, d)
  BY NothingClaimed DEF Synchronised
<1>3. CASE SyncReused(i)
  <2>1. proc[i].state.steps["sync_publish"].status = "SUCCEEDED"
    BY <1>3 DEF SyncReused, Synced, Step
  <2>2. EvidencedAt("verify", proc[i].state, proc[i].dataset)
    BY <2>1 DEF EvidencedAt, Synchronised, Verified, Materialised, PastGate
  <2> QED BY <1>1, <1>2, <1>3, <2>2, EvidenceGoto DEF SyncReused
<1>4. CASE ApplyRefused(i)
  BY <1>1, <1>2, <1>4, EvidenceSave DEF ApplyRefused, SyncFailure
<1>5. CASE Apply(i)
  BY <1>1, <1>2, <1>5, EvidenceGoto DEF Apply
<1>6. CASE Publish(i)
  <2>1. active'.version = active.version + 1 /\ active.version \in Nat
    BY <1>1, <1>6, BoundAssumption DEF Publish, Types, TypeOK, Version
  <2> QED BY <1>1, <1>6, <2>1 DEF Publish, EvidenceInv
<1>7. CASE ApplyDone(i)
  BY <1>1, <1>2, <1>7, EvidenceGoto DEF ApplyDone
<1>8. CASE ApplyFails(i)
  BY <1>1, <1>2, <1>8, EvidenceSave DEF ApplyFails, SyncFailure
<1>9. CASE SyncRecorded(i)
  <2> DEFINE s == With(i, "sync_publish", "SUCCEEDED", applies[Of(i)])
  <2>1. "sync_publish" \in StepName
    BY DEF StepName, Order
  <2>2. s.steps["sync_publish"].status = "SUCCEEDED"
    BY <1>1, <2>1, WithRecorded
  <2>3. Save(i, s, "verify") /\ active' = active
    BY <1>9 DEF SyncRecorded
  <2> HIDE DEF s
  <2>4. EvidencedAt("verify", s, proc[i].dataset)
    BY <2>2 DEF EvidencedAt, Synchronised, Verified, Materialised, PastGate
  <2> QED BY <1>1, <2>3, <2>4, EvidenceSave
<1> QED BY <1>3, <1>4, <1>5, <1>6, <1>7, <1>8, <1>9 DEF Synchronise

LEMMA GatedEvidence ==
    ASSUME EvidenceInv, Types', NEW i \in Proc, Gated(i)
    PROVE  EvidenceInv'
<1> DEFINE d == proc[i].dataset
           s == proc[i].state
<1> USE DEF files
<1>1. /\ proc[i].at # "idle" /\ active' = active /\ manifest' = manifest /\ Types
      /\ EvidencedAt(proc[i].at, s, d)
  BY DEF Gated, Verify, VerifyFails, Features, GateReused, EvaluateGate, GateEvents, GateFails,
     GatePasses, GateBlocks, RunBlocked, EvidenceInv
<1>2. s \in RunState /\ proc[i] \in ProcState /\ Mine(i) \in Session /\ d \in Nat
  BY <1>1, BusyReads
<1>3. \A t, e : \A a \in {"failed", "blocked"} : EvidencedAt(a, t, e)
  BY NothingClaimed DEF Synchronised
<1>4. /\ "sync_publish" \in StepName /\ "dataset_verify" \in StepName
      /\ "feature_materialization" \in StepName /\ "slo_gate" \in StepName
  BY DEF StepName, Order
<1> HIDE DEF d, s
<1> USE DEF EvidencedAt, Synchronised, Verified, Materialised, PastGate, Recorded
<1>5. CASE Verify(i)
  <2> DEFINE v == active.version
             reused == Reusable(Step(i, "dataset_verify"), v)
             t == IF reused THEN s ELSE With(i, "dataset_verify", "SUCCEEDED", v)
  <2>1. v > 0
    <3>1. active.end > 0 /\ v \in Nat
      BY <1>1, <1>2, <1>5, SessionAssumption, BoundAssumption DEF Verify, Session, Types, TypeOK, Version
    <3> QED BY <3>1 DEF EvidenceInv
  <2>2. s.steps["sync_publish"].status = "SUCCEEDED"
    BY <1>1, <1>5 DEF Verify
  <2>3. t.steps["sync_publish"].status = "SUCCEEDED" /\ Recorded(t, "dataset_verify", v)
    <3>1. CASE reused
      BY <2>2, <3>1 DEF Reusable, Step, s
    <3>2. CASE ~reused
      BY <1>1, <1>4, <2>2, <3>2, WithRecorded DEF s
    <3> QED BY <3>1, <3>2
  <2>4. /\ Moved(i, "features") /\ proc'[i].state = t /\ proc'[i].payload = proc[i].payload
        /\ proc'[i].dataset = v
    BY <1>1, <1>2, <1>5 DEF Verify, Moved, Types, TypeOK, ProcState, s
  <2> HIDE DEF t, v, reused
  <2>5. EvidencedAt("features", t, v)
    BY <2>1, <2>3
  <2> QED BY <1>1, <2>4, <2>5, EvidenceMove
<1>6. CASE VerifyFails(i)
  BY <1>1, <1>3, <1>6, EvidenceSave DEF VerifyFails
<1>7. CASE Features(i)
  <2>1. CASE Reusable(Step(i, "feature_materialization"), d)
    <3>1. EvidencedAt("slo", s, d)
      BY <1>1, <1>7, <2>1 DEF Features, Reusable, Step, s
    <3>2. Goto(i, "slo")
      BY <1>7, <2>1 DEF Features, d
    <3> QED BY <1>1, <3>1, <3>2, EvidenceGoto DEF s, d
  <2>2. CASE ~Reusable(Step(i, "feature_materialization"), d)
    <3> DEFINE t == With(i, "feature_materialization", "SUCCEEDED", d)
    <3>1. Save(i, t, "slo") /\ proc[i].at = "features"
      BY <1>7, <2>2 DEF Features, d
    <3>2. /\ \A k \in StepName \ {"feature_materialization"} : t.steps[k] = s.steps[k]
          /\ Recorded(t, "feature_materialization", d)
      BY <1>1, <1>4, WithRecorded DEF s
    <3> HIDE DEF t
    <3>3. EvidencedAt("slo", t, d)
      BY <1>1, <1>4, <3>1, <3>2
    <3> QED BY <1>1, <3>1, <3>3, EvidenceSave DEF d
  <2> QED BY <2>1, <2>2
<1>8. CASE GateReused(i)
  <2>1. EvidencedAt("regress", s, d)
    BY <1>1, <1>8 DEF GateReused, Reusable, Step, s, d
  <2> QED BY <1>1, <1>8, <2>1, EvidenceGoto DEF GateReused, s, d
<1>9. CASE EvaluateGate(i)
  <2>1. /\ Moved(i, "slo_events") /\ proc'[i].state = s /\ proc'[i].dataset = d
        /\ proc'[i].payload = proc[i].payload /\ proc[i].at = "slo"
    BY <1>1, <1>2, <1>9 DEF EvaluateGate, Moved, Types, TypeOK, ProcState, s, d
  <2>2. EvidencedAt("slo_events", s, d)
    BY <1>1, <2>1
  <2> QED BY <1>1, <2>1, <2>2, EvidenceMove
<1>10. CASE GateEvents(i)
  <2>1. EvidencedAt("slo_record", s, d)
    BY <1>1, <1>10 DEF GateEvents
  <2> QED BY <1>1, <1>10, <2>1, EvidenceGoto DEF GateEvents, s, d
<1>11. CASE GateFails(i)
  BY <1>1, <1>3, <1>11, EvidenceSave DEF GateFails
<1>12. CASE GatePasses(i)
  <2> DEFINE t == With(i, "slo_gate", "SUCCEEDED", d)
  <2>1. Save(i, t, "regress") /\ proc[i].at = "slo_record"
    BY <1>12 DEF GatePasses, d
  <2>2. /\ \A k \in StepName \ {"slo_gate"} : t.steps[k] = s.steps[k]
        /\ Recorded(t, "slo_gate", d)
    BY <1>1, <1>4, WithRecorded DEF s
  <2> HIDE DEF t
  <2>3. EvidencedAt("regress", t, d)
    BY <1>1, <1>4, <2>1, <2>2
  <2> QED BY <1>1, <2>1, <2>3, EvidenceSave DEF d
<1>13. CASE GateBlocks(i)
  BY <1>1, <1>3, <1>13, EvidenceSave DEF GateBlocks
<1>14. CASE RunBlocked(i)
  <2> DEFINE t == Blocked([s EXCEPT !.status = "BLOCKED"], Order["slo_gate"])
  <2>1. t.status = "BLOCKED" /\ Save(i, t, "finish")
    BY <1>2, <1>14 DEF RunState, Blocked, RunBlocked, s
  <2> HIDE DEF t
  <2>2. EvidencedAt("finish", t, d)
    BY <2>1
  <2> QED BY <1>1, <2>1, <2>2, EvidenceSave DEF d
<1> QED BY <1>5, <1>6, <1>7, <1>8, <1>9, <1>10, <1>11, <1>12, <1>13, <1>14 DEF Gated

LEMMA ConcludeEvidence ==
    ASSUME EvidenceInv, Types', NEW i \in Proc, Conclude(i)
    PROVE  EvidenceInv'
<1> DEFINE d == proc[i].dataset
           s == proc[i].state
<1> USE DEF files
<1>1. /\ proc[i].at # "idle" /\ active' = active /\ Types
      /\ EvidencedAt(proc[i].at, s, d)
  BY DEF Conclude, RegressionReused, RegressionSkipped, Regression, RegressionFails,
     RegressionDue, Succeed, Report, Notify, NotifyFails, Failed, WriteManifest, EvidenceInv
<1>2. s \in RunState /\ proc[i] \in ProcState /\ d \in Nat /\ Of(i) \in Plan
  BY <1>1, BusyReads
<1>3. StepName = {"sync_publish", "dataset_verify", "feature_materialization", "slo_gate",
                  "regression_backtest", "report", "notification"}
  BY DEF StepName, Order
<1>4. \A t, e : EvidencedAt("failed", t, e)
  BY NothingClaimed DEF Synchronised
<1> HIDE DEF d, s
<1> USE DEF EvidencedAt, Synchronised, Verified, Materialised, PastGate, Recorded
<1>5. CASE RegressionReused(i)
  <2>1. EvidencedAt("succeed", s, d) /\ manifest' = manifest
    BY <1>1, <1>5 DEF RegressionReused, RegressionDone, Reusable, Step, s, d
  <2> QED BY <1>1, <1>5, <2>1, EvidenceGoto DEF RegressionReused, s, d
<1>6. ASSUME NEW status \in {"SUCCEEDED", "SKIPPED"}, proc[i].at = "regress", manifest' = manifest,
             Save(i, With(i, "regression_backtest", status, d), "succeed")
      PROVE  EvidenceInv'
  <2> DEFINE t == With(i, "regression_backtest", status, d)
  <2>1. /\ \A k \in StepName \ {"regression_backtest"} : t.steps[k] = s.steps[k]
        /\ Recorded(t, "regression_backtest", d)
    BY <1>1, <1>3, WithRecorded DEF s
  <2>2. Save(i, t, "succeed")
    BY <1>6
  <2> HIDE DEF t
  <2>3. EvidencedAt("succeed", t, d)
    BY <1>1, <1>3, <1>6, <2>1
  <2> QED BY <1>1, <1>6, <2>2, <2>3, EvidenceSave DEF d
<1>7. CASE RegressionSkipped(i)
  BY <1>6, <1>7 DEF RegressionSkipped, RegressionDue, d
<1>8. CASE Regression(i)
  BY <1>6, <1>8 DEF Regression, RegressionDue, d
<1>9. CASE RegressionFails(i)
  BY <1>1, <1>4, <1>9, EvidenceSave DEF RegressionFails
<1>10. CASE Succeed(i)
  <2> DEFINE t == [s EXCEPT !.status = "SUCCEEDED"]
  <2>1. t.steps = s.steps /\ Save(i, t, "report") /\ proc[i].at = "succeed" /\ manifest' = manifest
    BY <1>2, <1>10 DEF Succeed, RunState, s
  <2> HIDE DEF t
  <2>2. EvidencedAt("report", t, d)
    BY <1>1, <2>1
  <2> QED BY <1>1, <2>1, <2>2, EvidenceSave DEF d
<1>11. CASE Report(i)
  <2> DEFINE t == With(i, "report", "SUCCEEDED", d)
  <2>1. Save(i, t, "notify") /\ proc[i].at = "report" /\ manifest' = manifest
    BY <1>11 DEF Report, d
  <2>2. /\ \A k \in StepName \ {"report"} : t.steps[k] = s.steps[k]
        /\ Recorded(t, "report", d)
    BY <1>1, <1>3, WithRecorded DEF s
  <2> HIDE DEF t
  <2>3. EvidencedAt("notify", t, d)
    BY <1>1, <1>3, <2>1, <2>2
  <2> QED BY <1>1, <2>1, <2>3, EvidenceSave DEF d
<1>12. CASE Notify(i)
  <2> DEFINE t == With(i, "notification", "SUCCEEDED", d)
  <2>1. Save(i, t, "finish") /\ proc[i].at = "notify" /\ manifest' = manifest
    BY <1>12 DEF Notify, d
  <2>2. /\ \A k \in StepName \ {"notification"} : t.steps[k] = s.steps[k]
        /\ Recorded(t, "notification", d)
    BY <1>1, <1>3, WithRecorded DEF s
  <2> HIDE DEF t
  <2>3. EvidencedAt("finish", t, d)
    BY <1>1, <1>3, <2>1, <2>2
  <2> QED BY <1>1, <2>1, <2>3, EvidenceSave DEF d
<1>13. CASE NotifyFails(i)
  BY <1>1, <1>4, <1>13, EvidenceGoto DEF NotifyFails
<1>14. CASE Failed(i)
  <2> DEFINE t == [s EXCEPT !.status = "FAILED"]
  <2>1. t.status = "FAILED" /\ Save(i, t, "finish") /\ manifest' = manifest
    BY <1>2, <1>14 DEF Failed, RunState, s
  <2> HIDE DEF t
  <2>2. EvidencedAt("finish", t, d)
    BY <2>1
  <2> QED BY <1>1, <2>1, <2>2, EvidenceSave DEF d
<1>15. CASE WriteManifest(i)
  <2> DEFINE v == IF proc[i].at = "finish" /\ s.status # "FAILED" THEN d ELSE 0
             m == [status |-> s.status, steps |-> s.steps, version |-> v]
  <2>1. proc[i].at = "finish" \/ proc[i].at = "manifest"
    BY <1>15 DEF WriteManifest
  <2>2. Evidenced(m)
    BY <1>1, <2>1 DEF Evidenced
  <2>3. manifest' = [manifest EXCEPT ![Of(i)] = m]
    BY <1>15 DEF WriteManifest, s, d
  <2> HIDE DEF m
  <2>4. \A p \in Plan : Evidenced(manifest'[p])
    BY <1>1, <2>2, <2>3 DEF EvidenceInv, Types, TypeOK
  <2>5. /\ proc'[i].at = "enrich" /\ proc'[i].dataset = 0 /\ proc'[i].payload = NoManifest
        /\ \A j \in Proc \ {i} : proc'[j] = proc[j]
    BY <1>1, <1>15 DEF WriteManifest, Types, TypeOK, Idle
  <2> QED BY <1>1, <2>4, <2>5, IdleEvidence, EvidenceStep
<1> QED BY <1>5, <1>7, <1>8, <1>9, <1>10, <1>11, <1>12, <1>13, <1>14, <1>15 DEF Conclude

LEMMA EnrichEvidence ==
    ASSUME EvidenceInv, Types', NEW i \in Proc, Enrich(i)
    PROVE  EvidenceInv'
<1>1. /\ proc[i].at # "idle" /\ active' = active /\ Types /\ Evidenced(proc[i].payload)
  BY DEF Enrich, EnrichRead, EnrichLedger, EnrichEvents, EnrichWrite, EvidenceInv
<1>2. Of(i) \in Plan /\ proc[i] \in ProcState
  BY <1>1, BusyReads
<1>3. \A t, e : \A a \in {"enrich_ledger", "enrich_events", "enrich_write"} : EvidencedAt(a, t, e)
  BY NothingClaimed DEF Synchronised
<1>4. \A p \in Plan : Evidenced(manifest[p])
  BY DEF EvidenceInv
<1>5. CASE EnrichRead(i)
  <2>1. Moved(i, "enrich_ledger") /\ proc'[i].payload = manifest[Of(i)] /\ manifest' = manifest
    BY <1>1, <1>2, <1>5 DEF EnrichRead, Moved, Types, TypeOK, ProcState, files
  <2> QED BY <1>1, <1>2, <1>3, <1>4, <2>1, EvidenceStep DEF Moved
<1>6. CASE EnrichLedger(i)
  <2>1. Moved(i, "enrich_events") /\ proc'[i].payload = proc[i].payload /\ manifest' = manifest
    BY <1>1, <1>2, <1>6 DEF EnrichLedger, Moved, Types, TypeOK, ProcState, files
  <2> QED BY <1>1, <1>3, <2>1, EvidenceMove
<1>7. CASE EnrichEvents(i)
  BY <1>1, <1>3, <1>7, EvidenceGoto DEF EnrichEvents
<1>8. CASE EnrichWrite(i)
  <2>1. /\ proc'[i].at = "idle" /\ proc'[i].dataset = 0 /\ proc'[i].payload = NoManifest
        /\ \A j \in Proc \ {i} : proc'[j] = proc[j]
    BY <1>1, <1>8 DEF EnrichWrite, Types, TypeOK, Idle
  <2>2. \A p \in Plan : Evidenced(manifest'[p])
    BY <1>1, <1>2, <1>4, <1>8 DEF EnrichWrite, Types, TypeOK
  <2> QED BY <1>1, <2>1, <2>2, IdleEvidence, EvidenceStep
<1> QED BY <1>5, <1>6, <1>7, <1>8 DEF Enrich

LEMMA NextEvidence == EvidenceInv /\ [Next]_vars => EvidenceInv'
<1> SUFFICES ASSUME EvidenceInv, [Next]_vars PROVE EvidenceInv'
  OBVIOUS
<1>1. Types'
  BY NextTypes DEF EvidenceInv
<1>2. ASSUME NEW i \in Proc, Work(i) PROVE EvidenceInv'
  BY <1>1, <1>2, PreflightEvidence, SynchroniseEvidence, GatedEvidence, ConcludeEvidence, EnrichEvidence DEF Work
<1>3. \A p \in Plan : Evidenced(manifest[p])
  BY DEF EvidenceInv
<1>4. ASSUME NEW i \in Proc, Kill(i) PROVE EvidenceInv'
  <2>1. /\ proc'[i].at = "idle" /\ proc'[i].dataset = 0 /\ proc'[i].payload = NoManifest
        /\ \A j \in Proc \ {i} : proc'[j] = proc[j]
    BY <1>4 DEF Kill, EvidenceInv, Types, TypeOK, Idle
  <2>2. manifest' = manifest /\ active' = active
    BY <1>4 DEF Kill, files
  <2> QED BY <1>1, <1>3, <2>1, <2>2, IdleEvidence, EvidenceStep
<1>5. ASSUME NEW i \in Proc, NEW p \in Plan, Load(i, p) PROVE EvidenceInv'
  <2>1. /\ proc'[i].at = "loaded" /\ proc'[i].dataset = 0 /\ proc'[i].payload = NoManifest
        /\ \A j \in Proc \ {i} : proc'[j] = proc[j]
    BY <1>5 DEF Load, EvidenceInv, Types, TypeOK, Idle
  <2>2. manifest' = manifest /\ active' = active
    BY <1>5 DEF Load, files
  <2> QED BY <1>1, <1>3, <2>1, <2>2, IdleEvidence, EvidenceStep
<1>6. ASSUME NEW s \in Session, OpenWindow(s) PROVE EvidenceInv'
  BY <1>1, <1>6 DEF OpenWindow, EvidenceInv, files
<1>7. CASE UNCHANGED vars
  BY <1>1, <1>7 DEF vars, EvidenceInv, files
<1> QED BY <1>2, <1>4, <1>5, <1>6, <1>7 DEF Next

(* A manifest that says SUCCEEDED has every step of the DAG on record, on  *)
(* the dataset that it declares, whatever attempts and processes wrote it. *)
THEOREM SuccessIsEvidenced == Spec => []SucceededEvidence
<1>1. EvidenceInv => SucceededEvidence
  BY DEF EvidenceInv, Evidenced, Recorded, SucceededEvidence, Passed
<1> QED BY <1>1, InitEvidence, NextEvidence, PTL DEF Spec
================================================================================
