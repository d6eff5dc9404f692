------------------------------- MODULE DailyRun --------------------------------
(***************************************************************************)
(* The daily research run: runtime/production_daily_run.py over            *)
(* runtime/daily_research_run.py, with the SLO gate and the incident       *)
(* ledger of runtime/sre.py.  execute_plan walks a DAG                     *)
(*                                                                         *)
(*   sync_publish -> dataset_verify -> slo_gate -> regression_backtest     *)
(*                -> report -> notification -> manifest                    *)
(*                                                                         *)
(* and saves run_state.json after every step, so that a killed or failed   *)
(* run is resumed by executing the same plan again.  A step is reused when *)
(* its record SUCCEEDED with the same input.  Several processes may run    *)
(* the same plan or different ones; a lease per target session admits one  *)
(* of them to the DAG.  Three things happen outside of that lease: the run *)
(* state is loaded and saved before it is taken, a process that is refused *)
(* or whose session is not ready still writes, and the manifest is         *)
(* enriched with the completion SLO after it is released.                  *)
(*                                                                         *)
(* The synchronisation is seen from outside, as the module Publication     *)
(* states it and DailySync implements it: apply_plan switches the alias to *)
(* a new dataset of the plan's session, once, and never backwards.         *)
(***************************************************************************)
EXTENDS Naturals, FiniteSets

CONSTANTS
    Plan,           \* plan ids
    NoRegression,   \* plans whose regression is skipped: a backfill, or not enabled
    Rerun,          \* plans that are also executed when nothing calls for it
    Proc,           \* processes of tq-daily-run
    LastSession,    \* sessions are 1 .. LastSession
    NonTrading,     \* the ones the exchange is closed on
    Early,          \* the ones whose provider window is not open yet
    NoOne,          \* the alias before the first publication
    MaxVersion,     \* bound: dataset versions
    MaxApplies,     \* bound: versions of apply_state.json that are told apart
    MaxTrouble,     \* bound: failures of a provider, a gate, a regression or a channel,
                    \* and executions of Rerun plans that are not Wanted, together
    MaxKills        \* bound: killed processes

Session == 1 .. LastSession
Version == 0 .. MaxVersion

ASSUME PlanAssumption == NoOne \notin Plan /\ Rerun \subseteq Plan /\ NoRegression \subseteq Plan
ASSUME SessionAssumption == LastSession \in Nat /\ NonTrading \subseteq Session /\ Early \subseteq Session
ASSUME BoundAssumption == /\ MaxVersion \in Nat /\ MaxApplies \in Nat
                          /\ MaxTrouble \in Nat /\ MaxKills \in Nat

(* The steps in the order of _block_downstream; feature_materialization    *)
(* belongs to the verification of the dataset.                             *)
Order == [sync_publish |-> 1, dataset_verify |-> 2, slo_gate |-> 3,
          regression_backtest |-> 4, report |-> 5, notification |-> 6]
StepName == DOMAIN Order \cup {"feature_materialization"}

(***************************************************************************)
(* A step record: its status and its input.  The input of sync_publish     *)
(* stands for the hash of apply_state.json it certifies, i.e. its version  *)
(* (applies); of the input of every other step the dataset version is      *)
(* kept.                                                                   *)
(***************************************************************************)
Record == [status : {"none", "SUCCEEDED", "SKIPPED", "FAILED", "BLOCKED"},
           input  : Nat]
NoRecord == [status |-> "none", input |-> 0]
RunStatus == {"none", "RUNNING", "SUCCEEDED", "FAILED", "BLOCKED", "SKIPPED_NON_TRADING_DAY"}
RunState == [status : RunStatus, steps : [StepName -> Record]]
NoRun == [status |-> "none", steps |-> [n \in StepName |-> NoRecord]]

(* manifest.json: the run state with immutable_input.dataset_version_id    *)
(* (0: the key is absent).                                                 *)
Manifest == [status : RunStatus, steps : [StepName -> Record], version : Version]
NoManifest == [status |-> "none", steps |-> NoRun.steps, version |-> 0]

(***************************************************************************)
(* Checks of the SLO evaluations: a blocking one of evaluate_daily_slo and *)
(* platform.notification_delivery of evaluate_run_completion.  The checks  *)
(* that only warn open incidents too, and are not told apart from passing. *)
(***************************************************************************)
Gate == {"blocking", "delivery"}

VARIABLES
    target,     \* [Plan -> Session]: plan.json
    ready,      \* sessions whose provider window has opened
    active,     \* the dataset alias: owner plan, version and last session
    applies,    \* [Plan -> Nat]: calls of apply_plan, as apply_state.json counts them
    run,        \* [Plan -> RunState]: run_state.json
    manifest,   \* [Plan -> Manifest]: manifest.json
    incidents,  \* active_incidents of events.jsonl: pairs <<session, gate>>
    proc,       \* [Proc -> what the process holds in memory]
    trouble, kills,
    allowed,    \* history: pairs <<plan, version>> the SLO gate let pass
    doubled     \* history: pairs <<session, gate>> opened while they were open

files == <<run, manifest, incidents>>
counters == <<trouble, kills>>
history == <<allowed, doubled>>
vars == <<target, ready, active, applies, files, proc, counters, history>>

At == {"idle", "loaded", "preflight", "sync", "apply", "applied", "verify", "features",
       "slo", "slo_events", "slo_record", "blocked", "regress", "succeed", "report",
       "notify", "failed", "finish", "manifest", "enrich", "enrich_ledger",
       "enrich_events", "enrich_write"}

(* Where a process holds the lease of its session; leaving "finish"        *)
(* releases it, and so does death.                                         *)
Leased == {"sync", "apply", "applied", "verify", "features", "slo", "slo_events",
           "slo_record", "blocked", "regress", "succeed", "report", "notify",
           "failed", "finish"}

(* The alias, which the synchronisation switches. *)
Alias == INSTANCE Publication WITH owner <- active.owner, end <- active.end

(***************************************************************************)
(* In memory: the state that is saved, the dataset that was verified, the  *)
(* gates that fail, the open incidents as they were read and the manifest  *)
(* as it was read for the enrichment.                                      *)
(***************************************************************************)
ProcState == [at : At, plan : Plan \cup {NoOne}, state : RunState, dataset : Version,
              failing : SUBSET Gate, seen : SUBSET Gate, payload : Manifest]
Idle == [at |-> "idle", plan |-> NoOne, state |-> NoRun, dataset |-> 0,
         failing |-> {}, seen |-> {}, payload |-> NoManifest]

--------------------------------------------------------------------------------
Init ==
    /\ target \in [Plan -> Session]
    /\ ready = Session \ Early
    /\ active = [owner |-> NoOne, version |-> 0, end |-> 0]
    /\ applies = [p \in Plan |-> 0]
    /\ run = [p \in Plan |-> NoRun]
    /\ manifest = [p \in Plan |-> NoManifest]
    /\ incidents = {}
    /\ proc = [i \in Proc |-> Idle]
    /\ trouble = 0 /\ kills = 0
    /\ allowed = {} /\ doubled = {}

Of(i) == proc[i].plan
Mine(i) == target[Of(i)]
Step(i, n) == proc[i].state.steps[n]

Goto(i, a) == proc' = [proc EXCEPT ![i].at = a]

(* _save_state of the run state s, after which the process is at a.        *)
Save(i, s, a) ==
    /\ proc' = [proc EXCEPT ![i].state = s, ![i].at = a]
    /\ run' = [run EXCEPT ![Of(i)] = s]

(* _finish_step *)
With(i, n, status, input) ==
    [proc[i].state EXCEPT !.steps[n] = [status |-> status, input |-> input]]

(* _block_downstream: 0 is the index of calendar_preflight, not in order.  *)
Blocked(s, after) ==
    [s EXCEPT !.steps = [n \in StepName |->
        IF /\ n \in DOMAIN Order /\ Order[n] > after
           /\ s.steps[n].status \notin {"SUCCEEDED", "SKIPPED"}
        THEN [status |-> "BLOCKED", input |-> 0]
        ELSE s.steps[n]]]

(* _step_reusable *)
ReusableByStatus(r, input) == r.status = "SUCCEEDED"
Reusable(r, input) == r.status = "SUCCEEDED" /\ r.input = input

(***************************************************************************)
(* A plan is wanted until it has finished and the incidents of its session *)
(* are resolved, unless a process is at it; other executions are bounded.  *)
(***************************************************************************)
Finished(p) == manifest[p].status \in {"SUCCEEDED", "SKIPPED_NON_TRADING_DAY"}
Wanted(p) ==
    /\ ~Finished(p) \/ \E g \in Gate : <<target[p], g>> \in incidents
    /\ \A j \in Proc : Of(j) # p

Mishap == trouble < MaxTrouble /\ trouble' = trouble + 1

--------------------------------------------------------------------------------
LoadUnlessBlocked(i, p) ==
    /\ proc[i].at = "idle" /\ run[p].status # "BLOCKED"
    /\ proc' = [proc EXCEPT ![i] = [Idle EXCEPT
            !.at = "loaded", !.plan = p,
            !.state = IF run[p] = NoRun THEN [NoRun EXCEPT !.status = "RUNNING"] ELSE run[p]]]
    /\ IF Wanted(p) THEN UNCHANGED trouble ELSE p \in Rerun /\ Mishap
    /\ UNCHANGED <<target, ready, active, applies, files, kills, history>>

(* execute_plan reads run_state.json, or starts a new state ...            *)
Load(i, p) ==
    /\ proc[i].at = "idle"
    /\ proc' = [proc EXCEPT ![i] = [Idle EXCEPT
            !.at = "loaded", !.plan = p,
            !.state = IF run[p] = NoRun THEN [NoRun EXCEPT !.status = "RUNNING"] ELSE run[p]]]
    /\ IF Wanted(p) THEN UNCHANGED trouble ELSE p \in Rerun /\ Mishap
    /\ UNCHANGED <<target, ready, active, applies, files, kills, history>>

(* ... and saves it with the new attempt, before any lease is taken.       *)
SaveLoaded(i) ==
    /\ proc[i].at = "loaded"
    /\ Save(i, proc[i].state, "preflight")
    /\ UNCHANGED <<target, ready, active, applies, manifest, incidents, counters, history>>

SkipNonTrading(i) ==
    /\ proc[i].at = "preflight" /\ Mine(i) \in NonTrading
    /\ Save(i, [proc[i].state EXCEPT !.status = "SKIPPED_NON_TRADING_DAY"], "manifest")
    /\ UNCHANGED <<target, ready, active, applies, manifest, incidents, counters, history>>

NotReady(i) ==
    /\ proc[i].at = "preflight" /\ Mine(i) \notin NonTrading /\ Mine(i) \notin ready
    /\ Save(i, Blocked([proc[i].state EXCEPT !.status = "BLOCKED"], 0), "manifest")
    /\ UNCHANGED <<target, ready, active, applies, manifest, incidents, counters, history>>

LeaseFreeAlways(s) == TRUE

LeaseFree(s) == \A j \in Proc : proc[j].at \in Leased => Mine(j) # s

Acquire(i) ==
    /\ proc[i].at = "preflight" /\ Mine(i) \in ready \ NonTrading /\ LeaseFree(Mine(i))
    /\ Goto(i, "sync")
    /\ UNCHANGED <<target, ready, active, applies, files, counters, history>>

(* The lease is taken without waiting; whoever is refused enriches the     *)
(* manifest that an earlier attempt left, if there is one.                 *)
Refused(i) ==
    /\ proc[i].at = "preflight" /\ Mine(i) \in ready \ NonTrading /\ ~LeaseFree(Mine(i))
    /\ proc' = [proc EXCEPT ![i] = IF manifest[Of(i)] = NoManifest THEN Idle
                                   ELSE [Idle EXCEPT !.at = "enrich", !.plan = Of(i)]]
    /\ UNCHANGED <<target, ready, active, applies, files, counters, history>>

--------------------------------------------------------------------------------
(***************************************************************************)
(* sync_publish.  The checkpoint certifies apply_state.json: when the file *)
(* changed, _step_reusable raises.  A failed step and its blocked          *)
(* successors are saved one after the other; nothing reads the states in   *)
(* between.                                                                *)
(***************************************************************************)
Synced(i) == Step(i, "sync_publish").status = "SUCCEEDED"

SyncReused(i) ==
    /\ proc[i].at = "sync" /\ Synced(i)
    /\ Goto(i, IF Step(i, "sync_publish").input = applies[Of(i)] THEN "verify" ELSE "failed")
    /\ UNCHANGED <<target, ready, active, applies, files, counters, history>>

SyncFailure(i) ==
    Save(i, Blocked(With(i, "sync_publish", "FAILED", 0), Order["sync_publish"]), "failed")

(* daily_sync.lock is held by another process, or the alias is ahead       *)
(* (_guard_monotonic_active_alias).                                        *)
SyncLocked == \E j \in Proc : proc[j].at = "apply"
Behind(p) == active.owner # p /\ Alias!Ahead(p)

(***************************************************************************)
(* apply_plan writes its attempt to apply_state.json before it takes       *)
(* daily_sync.lock.  The file is told apart from the one before only if a  *)
(* checkpoint certifies that one.                                          *)
(***************************************************************************)
Certified(p) ==
    \E s \in {run[p]} \cup {proc[j].state : j \in {k \in Proc : Of(k) = p}} :
        s.steps["sync_publish"] = [status |-> "SUCCEEDED", input |-> applies[p]]

Attempt(p) ==
    /\ Certified(p) => applies[p] < MaxApplies
    /\ applies' = [applies EXCEPT ![p] = IF Certified(p) THEN @ + 1 ELSE @]

ApplyRefused(i) ==
    /\ proc[i].at = "sync" /\ ~Synced(i) /\ (SyncLocked \/ Behind(Of(i)))
    /\ Attempt(Of(i))
    /\ SyncFailure(i)
    /\ UNCHANGED <<target, ready, active, manifest, incidents, counters, history>>

Apply(i) ==
    /\ proc[i].at = "sync" /\ ~Synced(i) /\ ~SyncLocked /\ ~Behind(Of(i))
    /\ Attempt(Of(i))
    /\ Goto(i, "apply")
    /\ UNCHANGED <<target, ready, active, files, counters, history>>

(* The publication is a step of the module Publication.                    *)
Publish(i) ==
    /\ proc[i].at = "apply" /\ active.version < MaxVersion
    /\ active' = [owner |-> Of(i), version |-> active.version + 1, end |-> Mine(i)]
    /\ Alias!Publish(Of(i))
    /\ UNCHANGED <<ready, applies, files, proc, counters, history>>

(* Nothing is left to publish for the session.                             *)
ApplyDone(i) ==
    /\ proc[i].at = "apply" /\ active.end = Mine(i)
    /\ Goto(i, "applied")
    /\ UNCHANGED <<target, ready, active, applies, files, counters, history>>

ApplyFails(i) ==
    /\ proc[i].at = "apply" /\ Mishap
    /\ SyncFailure(i)
    /\ UNCHANGED <<target, ready, active, applies, manifest, incidents, kills, history>>

SyncRecorded(i) ==
    /\ proc[i].at = "applied"
    /\ Save(i, With(i, "sync_publish", "SUCCEEDED", applies[Of(i)]), "verify")
    /\ UNCHANGED <<target, ready, active, applies, manifest, incidents, counters, history>>

--------------------------------------------------------------------------------
(***************************************************************************)
(* dataset_verify resolves the alias as it is now: another plan may have   *)
(* moved it since the synchronisation, or since the attempt that is        *)
(* resumed.  The calendar of a dataset holds every session up to its end.  *)
(***************************************************************************)
Verify(i) ==
    /\ proc[i].at = "verify" /\ active.end >= Mine(i)
    /\ LET v == active.version
           reused == Reusable(Step(i, "dataset_verify"), v)
           s == IF reused THEN proc[i].state ELSE With(i, "dataset_verify", "SUCCEEDED", v)
       IN  /\ proc' = [proc EXCEPT ![i].at = "features", ![i].state = s, ![i].dataset = v]
           /\ run' = IF reused THEN run ELSE [run EXCEPT ![Of(i)] = s]
    /\ UNCHANGED <<target, ready, active, applies, manifest, incidents, counters, history>>

(* The manifest, its files or the materialised features do not verify.     *)
VerifyFails(i) ==
    /\ proc[i].at \in {"verify", "features"} /\ Mishap
    /\ Save(i, Blocked(With(i, "dataset_verify", "FAILED", 0), Order["dataset_verify"]), "failed")
    /\ UNCHANGED <<target, ready, active, applies, manifest, incidents, kills, history>>

Features(i) ==
    /\ proc[i].at = "features"
    /\ IF Reusable(Step(i, "feature_materialization"), proc[i].dataset)
       THEN Goto(i, "slo") /\ UNCHANGED run
       ELSE Save(i, With(i, "feature_materialization", "SUCCEEDED", proc[i].dataset), "slo")
    /\ UNCHANGED <<target, ready, active, applies, manifest, incidents, counters, history>>

(***************************************************************************)
(* slo_gate: the evaluation, the incidents it opens or resolves, and the   *)
(* checkpoint.  A gate that let the dataset pass is not evaluated again.   *)
(***************************************************************************)
GateReused(i) ==
    /\ proc[i].at = "slo" /\ Reusable(Step(i, "slo_gate"), proc[i].dataset)
    /\ Goto(i, "regress")
    /\ UNCHANGED <<target, ready, active, applies, files, counters, history>>

OpenFor(s, gates) == {g \in gates : <<s, g>> \in incidents}

EvaluateGate(i) ==
    /\ proc[i].at = "slo" /\ ~Reusable(Step(i, "slo_gate"), proc[i].dataset)
    /\ \E bad \in SUBSET {"blocking"} :
        /\ IF bad = {} THEN UNCHANGED trouble ELSE Mishap
        /\ proc' = [proc EXCEPT ![i].at = "slo_events", ![i].failing = bad,
                                ![i].seen = OpenFor(Mine(i), {"blocking"})]
    /\ UNCHANGED <<target, ready, active, applies, files, kills, history>>

(***************************************************************************)
(* sync_evaluation on the incidents it has read: a failing gate that was   *)
(* not open is opened, an open one that passes is resolved.                *)
(***************************************************************************)
SyncEvaluationOpens(i, gates) ==
    LET opened == {Mine(i)} \X ((proc[i].failing \ proc[i].seen) \cap gates)
    IN  /\ incidents' = incidents \cup opened
        /\ doubled' = doubled \cup (incidents \cap opened)

SyncEvaluation(i, gates) ==
    LET opened == (proc[i].failing \ proc[i].seen) \cap gates
        resolved == (proc[i].seen \ proc[i].failing) \cap gates
        pairs(gs) == {Mine(i)} \X gs
    IN  /\ incidents' = (incidents \cup pairs(opened)) \ pairs(resolved)
        /\ doubled' = doubled \cup (incidents \cap pairs(opened))

GateEvents(i) ==
    /\ proc[i].at = "slo_events"
    /\ SyncEvaluation(i, {"blocking"})
    /\ Goto(i, "slo_record")
    /\ UNCHANGED <<target, ready, active, applies, run, manifest, counters, allowed>>

(* The evaluation or the ledger raises. *)
GateFails(i) ==
    /\ proc[i].at = "slo_events" /\ Mishap
    /\ Save(i, Blocked(With(i, "slo_gate", "FAILED", proc[i].dataset), Order["slo_gate"]), "failed")
    /\ UNCHANGED <<target, ready, active, applies, manifest, incidents, kills, history>>

GatePasses(i) ==
    /\ proc[i].at = "slo_record" /\ "blocking" \notin proc[i].failing
    /\ Save(i, With(i, "slo_gate", "SUCCEEDED", proc[i].dataset), "regress")
    /\ allowed' = allowed \cup {<<Of(i), proc[i].dataset>>}
    /\ UNCHANGED <<target, ready, active, applies, manifest, incidents, counters, doubled>>

GateBlocksGoesOn(i) ==
    /\ proc[i].at = "slo_record" /\ "blocking" \in proc[i].failing
    /\ Save(i, With(i, "slo_gate", "BLOCKED", proc[i].dataset), "regress")
    /\ UNCHANGED <<target, ready, active, applies, manifest, incidents, counters, history>>

GateBlocks(i) ==
    /\ proc[i].at = "slo_record" /\ "blocking" \in proc[i].failing
    /\ Save(i, With(i, "slo_gate", "BLOCKED", proc[i].dataset), "blocked")
    /\ UNCHANGED <<target, ready, active, applies, manifest, incidents, counters, history>>

RunBlocked(i) ==
    /\ proc[i].at = "blocked"
    /\ Save(i, Blocked([proc[i].state EXCEPT !.status = "BLOCKED"], Order["slo_gate"]), "finish")
    /\ UNCHANGED <<target, ready, active, applies, manifest, incidents, counters, history>>

--------------------------------------------------------------------------------
RegressionDone(i) == Reusable(Step(i, "regression_backtest"), proc[i].dataset)
RegressionDue(i) == proc[i].at = "regress" /\ ~RegressionDone(i)

RegressionReused(i) ==
    /\ proc[i].at = "regress" /\ RegressionDone(i)
    /\ Goto(i, "succeed")
    /\ UNCHANGED <<target, ready, active, applies, files, counters, history>>

(* A regression that is skipped is recorded anew by every attempt.         *)
RegressionSkipped(i) ==
    /\ RegressionDue(i) /\ Of(i) \in NoRegression
    /\ Save(i, With(i, "regression_backtest", "SKIPPED", proc[i].dataset), "succeed")
    /\ UNCHANGED <<target, ready, active, applies, manifest, incidents, counters, history>>

Regression(i) ==
    /\ RegressionDue(i) /\ Of(i) \notin NoRegression
    /\ Save(i, With(i, "regression_backtest", "SUCCEEDED", proc[i].dataset), "succeed")
    /\ UNCHANGED <<target, ready, active, applies, manifest, incidents, counters, history>>

(* A regression that exits with an error leaves its successors' records.   *)
RegressionFails(i) ==
    /\ RegressionDue(i) /\ Of(i) \notin NoRegression /\ Mishap
    /\ Save(i, With(i, "regression_backtest", "FAILED", proc[i].dataset), "failed")
    /\ UNCHANGED <<target, ready, active, applies, manifest, incidents, kills, history>>

Succeed(i) ==
    /\ proc[i].at = "succeed"
    /\ Save(i, [proc[i].state EXCEPT !.status = "SUCCEEDED"], "report")
    /\ UNCHANGED <<target, ready, active, applies, manifest, incidents, counters, history>>

Report(i) ==
    /\ proc[i].at = "report"
    /\ Save(i, With(i, "report", "SUCCEEDED", proc[i].dataset), "notify")
    /\ UNCHANGED <<target, ready, active, applies, manifest, incidents, counters, history>>

(* _notify never reuses its step: every attempt that gets here sends.  A   *)
(* notification that is disabled (SKIPPED) is not told apart.              *)
Notify(i) ==
    /\ proc[i].at = "notify"
    /\ Save(i, With(i, "notification", "SUCCEEDED", proc[i].dataset), "finish")
    /\ UNCHANGED <<target, ready, active, applies, manifest, incidents, counters, history>>

(* The channel refuses: no record of the step is written.                  *)
NotifyFails(i) ==
    /\ proc[i].at = "notify" /\ Mishap
    /\ Goto(i, "failed")
    /\ UNCHANGED <<target, ready, active, applies, files, kills, history>>

(* The exception handler of execute_plan.                                  *)
Failed(i) ==
    /\ proc[i].at = "failed"
    /\ Save(i, [proc[i].state EXCEPT !.status = "FAILED"], "finish")
    /\ UNCHANGED <<target, ready, active, applies, manifest, incidents, counters, history>>

(* manifest.json, with the dataset unless the run failed or never had one; *)
(* the lease is released.                                                  *)
WriteManifest(i) ==
    /\ proc[i].at \in {"finish", "manifest"}
    /\ LET s == proc[i].state
           v == IF proc[i].at = "finish" /\ s.status # "FAILED" THEN proc[i].dataset ELSE 0
       IN  manifest' = [manifest EXCEPT ![Of(i)] =
                            [status |-> s.status, steps |-> s.steps, version |-> v]]
    /\ proc' = [proc EXCEPT ![i] = [Idle EXCEPT !.at = "enrich", !.plan = Of(i)]]
    /\ UNCHANGED <<target, ready, active, applies, run, incidents, counters, history>>

--------------------------------------------------------------------------------
(***************************************************************************)
(* _enrich_manifest, after the lease is released: the manifest is read,    *)
(* the completion is evaluated, the incidents are read and updated, and    *)
(* the manifest is written back.                                           *)
(***************************************************************************)
Delivered(m) == \/ m.steps["notification"].status \in {"SUCCEEDED", "SKIPPED"}
                \/ m.status # "SUCCEEDED" /\ m.steps["notification"].status = "BLOCKED"

EnrichRead(i) ==
    /\ proc[i].at = "enrich"
    /\ LET m == manifest[Of(i)]
       IN  proc' = [proc EXCEPT ![i].at = "enrich_ledger", ![i].payload = m,
                                ![i].failing = IF Delivered(m) THEN {} ELSE {"delivery"}]
    /\ UNCHANGED <<target, ready, active, applies, files, counters, history>>

EnrichLedger(i) ==
    /\ proc[i].at = "enrich_ledger"
    /\ proc' = [proc EXCEPT ![i].at = "enrich_events",
                            ![i].seen = OpenFor(Mine(i), {"delivery"})]
    /\ UNCHANGED <<target, ready, active, applies, files, counters, history>>

EnrichEvents(i) ==
    /\ proc[i].at = "enrich_events"
    /\ SyncEvaluation(i, {"delivery"})
    /\ Goto(i, "enrich_write")
    /\ UNCHANGED <<target, ready, active, applies, run, manifest, counters, allowed>>

EnrichWrite(i) ==
    /\ proc[i].at = "enrich_write"
    /\ manifest' = [manifest EXCEPT ![Of(i)] = proc[i].payload]
    /\ proc' = [proc EXCEPT ![i] = Idle]
    /\ UNCHANGED <<target, ready, active, applies, run, incidents, counters, history>>

--------------------------------------------------------------------------------
(* _session_ready: the provider window of a session opens.                 *)
OpenWindow(s) ==
    /\ s \notin ready
    /\ ready' = ready \cup {s}
    /\ UNCHANGED <<target, active, applies, files, proc, counters, history>>

Kill(i) ==
    /\ proc[i].at # "idle" /\ kills < MaxKills
    /\ kills' = kills + 1
    /\ proc' = [proc EXCEPT ![i] = Idle]
    /\ UNCHANGED <<target, ready, active, applies, files, trouble, history>>

Preflight(i) == SaveLoaded(i) \/ SkipNonTrading(i) \/ NotReady(i) \/ Acquire(i) \/ Refused(i)

Synchronise(i) ==
    \/ SyncReused(i) \/ ApplyRefused(i) \/ Apply(i) \/ Publish(i) \/ ApplyDone(i)
    \/ ApplyFails(i) \/ SyncRecorded(i)

Gated(i) ==
    \/ Verify(i) \/ VerifyFails(i) \/ Features(i)
    \/ GateReused(i) \/ EvaluateGate(i) \/ GateEvents(i) \/ GateFails(i)
    \/ GatePasses(i) \/ GateBlocks(i) \/ RunBlocked(i)

Conclude(i) ==
    \/ RegressionSkipped(i) \/ RegressionReused(i) \/ Regression(i) \/ RegressionFails(i) \/ Succeed(i)
    \/ Report(i) \/ Notify(i) \/ NotifyFails(i) \/ Failed(i)
    \/ WriteManifest(i)

Enrich(i) == EnrichRead(i) \/ EnrichLedger(i) \/ EnrichEvents(i) \/ EnrichWrite(i)

Work(i) == Preflight(i) \/ Synchronise(i) \/ Gated(i) \/ Conclude(i) \/ Enrich(i)

Next == \/ \E i \in Proc : \/ Work(i) \/ Kill(i)
                           \/ \E p \in Plan : Load(i, p)
        \/ \E s \in Session : OpenWindow(s)

Spec == Init /\ [][Next]_vars

(***************************************************************************)
(* Processes go on, time passes, and the operator does what the runbook    *)
(* says (docs/operations/sre-slo-and-game-day.md): resume the plan until   *)
(* it has finished and until its incidents are resolved.                   *)
(***************************************************************************)
Fairness == /\ \A i \in Proc : WF_vars(Work(i))
            /\ \A p \in Plan : SF_vars(Wanted(p) /\ \E i \in Proc : Load(i, p))
            /\ \A s \in Session : WF_vars(OpenWindow(s))

FairSpec == Spec /\ Fairness

--------------------------------------------------------------------------------
TypeOK ==
    /\ target \in [Plan -> Session]
    /\ ready \subseteq Session
    /\ active \in [owner : Plan \cup {NoOne}, version : Version, end : 0 .. LastSession]
    /\ applies \in [Plan -> 0 .. MaxApplies]
    /\ run \in [Plan -> RunState]
    /\ manifest \in [Plan -> Manifest]
    /\ incidents \subseteq Session \X Gate
    /\ proc \in [Proc -> ProcState]
    /\ trouble \in 0 .. MaxTrouble /\ kills \in 0 .. MaxKills
    /\ allowed \subseteq Plan \X Version
    /\ doubled \subseteq Session \X Gate

(***************************************************************************)
(* A manifest that says SUCCEEDED is evidence about one dataset: every     *)
(* step of the DAG succeeded or was skipped, on the version the manifest   *)
(* declares as its immutable input, although the steps may come from       *)
(* different attempts, the alias may have moved between them and other     *)
(* processes write the same files.                                         *)
(***************************************************************************)
Passed(m, n) == m.steps[n].status \in {"SUCCEEDED", "SKIPPED"} /\ m.steps[n].input = m.version

SucceededEvidence ==
    \A p \in Plan : manifest[p].status = "SUCCEEDED" =>
        /\ manifest[p].version > 0
        /\ manifest[p].steps["sync_publish"].status = "SUCCEEDED"
        /\ \A n \in StepName \ {"sync_publish"} : Passed(manifest[p], n)

(***************************************************************************)
(* No research without the gate: a regression on record ran, or was        *)
(* skipped, on a dataset that the SLO gate had let pass for this very      *)
(* plan.  A new version under the alias is gated again.                    *)
(***************************************************************************)
Researched(s, p) ==
    s.steps["regression_backtest"].status \in {"SUCCEEDED", "SKIPPED", "FAILED"} =>
        <<p, s.steps["regression_backtest"].input>> \in allowed

ResearchGated == \A p \in Plan : Researched(run[p], p) /\ Researched(manifest[p], p)

(***************************************************************************)
(* An incident of the daily SLO gate is opened once: while it is open,     *)
(* another evaluation of the session does not open it again (alert         *)
(* fingerprints deduplicate).                                              *)
(***************************************************************************)
OpenedOnce == doubled \cap (Session \X {"blocking"}) = {}

(***************************************************************************)
(* Recovery resumes the same immutable input: once the gate let a plan's   *)
(* dataset pass, later attempts of the plan stay on that dataset           *)
(* (docs/operations/sre-slo-and-game-day.md:48).                           *)
(***************************************************************************)
SameImmutableInput ==
    \A p \in Plan, v, w \in Version : <<p, v>> \in allowed /\ <<p, w>> \in allowed => v = w

(***************************************************************************)
(* What a plan's run needs: every plan finishes in the end, or the alias   *)
(* has gone past its session.                                              *)
(***************************************************************************)
RunsFinish == \A p \in Plan : <>(Finished(p) \/ Behind(p))

(***************************************************************************)
(* Incidents of a trading session end: a blocked gate and a delivery that  *)
(* failed are resolved when the plan is resumed, whatever was killed       *)
(* between the evaluation, the ledger, the checkpoint and the manifest.    *)
(***************************************************************************)
IncidentsEnd ==
    \A s \in Session \ NonTrading, g \in {"blocking", "delivery"} :
        <<s, g>> \in incidents ~> <<s, g>> \notin incidents
================================================================================
