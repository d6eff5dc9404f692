------------------------------- MODULE DailySync -------------------------------
(***************************************************************************)
(* The planned daily synchronisation of market data: a durable plan, the   *)
(* staging of provider responses, the promotion into Bronze, the pending-  *)
(* publish ledger, the fundamentals (PIT) refresh and the publication of   *)
(* a new dataset under the active alias, as run by                         *)
(* AuditedResumableDailySyncService (data/audited_daily_sync.py and the    *)
(* classes it extends: resumable_certified_sync.py,                        *)
(* certified_daily_sync.py, production_daily_sync.py,                      *)
(* planned_daily_sync.py, daily_sync.py).                                  *)
(*                                                                         *)
(* Everything on disk survives a killed process; what a process holds in   *)
(* memory (its program counter, its context, what it found to repair) does *)
(* not.  Every write of one file by os.replace is one action, so that a    *)
(* process can die between any two files.                                  *)
(*                                                                         *)
(* Contents are version numbers: 0 is a missing partition, and two         *)
(* contents are equal when their versions are.  One representative symbol  *)
(* stands for the universe, so a set of revised symbols is a boolean.      *)
(***************************************************************************)
EXTENDS Naturals, FiniteSets

CONSTANTS
    Plan,           \* plan ids
    Proc,           \* processes that may apply plans
    LastDate,       \* sessions are 1 .. LastDate
    Factor,         \* the adj_factor endpoint (one of the required ones)
    Required,       \* required market endpoints
    Optional,       \* optional market endpoints
    Lookback,       \* market_lookback_trading_days: always fetched again
    Catchup,        \* market_catchup_trading_days: searched for gaps
    MaxVersion,     \* bound: versions of a partition at the provider
    MaxRevisions,   \* bound: revisions at the provider, over all partitions
    MaxPit,         \* bound: versions of the fundamentals source
    MaxKills,       \* bound: killed processes
    MaxFailures,    \* bound: provider, gate or build failures
    BadVersions,    \* versions of a required partition that fail the quality gates
    PublishOnSync,  \* release_store.publish_on_sync of a standalone profile
    Resumption,     \* what the operator does with a plan that is half promoted (below)
    KillAt          \* the points at which a process may be killed

Date == 1 .. LastDate
Endpoint == Required \cup Optional
Part == Endpoint \X Date
Version == 0 .. MaxVersion
PitVersion == 0 .. MaxPit

ASSUME DateAssumption == LastDate \in Nat \ {0} /\ Lookback \in Nat \ {0} /\ Catchup \in Nat \ {0}
ASSUME EndpointAssumption == Factor \in Required /\ Required \cap Optional = {}
ASSUME BoundAssumption ==
    /\ MaxVersion \in Nat \ {0}
    /\ MaxRevisions \in Nat /\ MaxPit \in Nat /\ MaxKills \in Nat /\ MaxFailures \in Nat
    /\ BadVersions \subseteq Version \ {0, 1}
ASSUME FlagAssumption == PublishOnSync \in BOOLEAN

(***************************************************************************)
(* The code lets a plan start, or be resumed, at any time: "any".  The     *)
(* other values restrict the operator: with "finish" a half promoted plan  *)
(* is resumed before another one starts; with "abandon" a half promoted    *)
(* plan is not resumed any more once another one has promoted.             *)
(***************************************************************************)
ASSUME ResumptionAssumption == Resumption \in {"any", "finish", "abandon"}

VARIABLES
    remote,   \* what the provider currently serves, per partition
    bronze,   \* canonical Bronze: content of the data file and of its manifest
    curated,  \* curated day partitions, built from Bronze and PIT
    pit,      \* fundamentals: source, built table, recorded source fingerprint
    index,    \* the shared factor index and its indexed_through watermark
    pending,  \* pending_publish.json
    active,   \* the dataset behind the active alias
    plan,     \* plan.json of every plan
    stage,    \* staged partitions of every plan
    apply,    \* apply_state.json of every plan
    proc,     \* what every process is doing
    torn,     \* history: the partitions that a kill left without their manifest
    revisions, kills, failures  \* counters for the bounds

disk == <<bronze, curated, pit, index, pending, active>>
counters == <<torn, revisions, kills, failures>>
vars == <<remote, disk, plan, stage, apply, proc, counters>>

Image == [raw : [Endpoint -> Version], pit : PitVersion]
NoImage == [raw |-> [e \in Endpoint |-> 0], pit |-> 0]
Context == [dates : SUBSET Date, revised : BOOLEAN, pit : BOOLEAN]
NoWork == [dates |-> {}, revised |-> FALSE, pit |-> FALSE]

(* The durable steps whose order the checkpoint ledger records. *)
Step == {"market_fetch", "factor_reconcile", "raw_promote", "raw_validate",
         "extended_sync", "pit_refresh", "freshness_gate", "qlib_publish", "finished"}

(* Where a process stands inside apply_plan. *)
Point == {"idle", "preflight", "market_fetch", "factor_reconcile", "stage_repairs",
          "save_repairs", "end_reconcile", "raw_promote", "write_data", "write_manifest",
          "write_index", "end_promote", "raw_validate", "enter_publish", "extended_sync",
          "pit_refresh", "pit_state", "pit_pending", "pit_finish", "freshness_gate",
          "qlib_publish", "switch_alias", "clear_pending", "finish_publish", "applied",
          "close_plan"}

ASSUME KillAssumption == KillAt \subseteq Point \ {"idle"}

NoOne == "nobody"

ASSUME PlanAssumption == NoOne \notin Plan

PlanRecord == [status : {"none", "PLANNED", "APPLIED"}, target : Date, fetch : SUBSET Part,
               event : BOOLEAN, repairs : SUBSET Date, history : [Date -> Version]]
StageRecord == [base : Version, ver : Version, redone : BOOLEAN]
ApplyRecord == [status : {"none", "RUNNING", "FAILED", "SUCCEEDED"}, next : Step,
                ctx : Context, promotion : {"none", "begun", "overtaken"}]
ProcRecord == [at : Point, plan : Plan \cup {NoOne}, ctx : Context, found : Context,
               todo : SUBSET Part, skip : SUBSET Part]

TypeOK ==
    /\ remote \in [Part -> Version]
    /\ bronze \in [Part -> [data : Version, man : Version]]
    /\ curated \in [Date -> Image]
    /\ pit \in [source : PitVersion, built : PitVersion, seen : PitVersion]
    /\ index \in [value : [Date -> Version], through : 0 .. LastDate]
    /\ pending \in Context
    /\ active \in [content : [Date -> Image], end : 0 .. LastDate, owner : Plan \cup {NoOne}]
    /\ plan \in [Plan -> PlanRecord]
    /\ stage \in [Plan -> [Part -> StageRecord]]
    /\ apply \in [Plan -> ApplyRecord]
    /\ proc \in [Proc -> ProcRecord]
    /\ torn \in SUBSET Part
    /\ revisions \in 0 .. MaxRevisions
    /\ kills \in 0 .. MaxKills
    /\ failures \in 0 .. MaxFailures

-----------------------------------------------------------------------------
(* _partition_hash: trusts the manifest, and reads the file without one. *)
PartitionHash(t) ==
    IF bronze[t].data # 0 /\ bronze[t].man # 0 THEN bronze[t].man ELSE bronze[t].data

(* Dates of raw.list_dates("daily"): required endpoints arrive together. *)
Present == {d \in Date : bronze[<<Factor, d>>].data # 0}

LastOf(S) == CHOOSE d \in S \cup {0} : \A e \in S : e <= d

Latest(n, d) == {e \in Date : e <= d /\ e + n > d}

FetchMatrix(d) ==
    (Endpoint \X Latest(Lookback, d))
        \cup {t \in Required \X Latest(Catchup, d) : bronze[t].data = 0}

Staged(p, t) == stage[p][t].ver # 0
Overlay(p, t) == IF Staged(p, t) THEN stage[p][t].ver ELSE bronze[t].data

(* validate_raw_day over the staged rows of a date, laid over canonical Bronze. *)
ValidDay(p, d) == \A e \in Required : Overlay(p, <<e, d>>) \notin BadVersions \cup {0}

TargetsWithoutRepairs(p) == {t \in plan[p].fetch : Staged(p, t)}

(* _stage_targets, and the partitions that the plan found to change. *)
Promised(p) == plan[p].fetch \cup ({Factor} \X plan[p].repairs)
Targets(p) == {t \in Promised(p) : Staged(p, t)}
Changes(p) == {t \in Targets(p) : stage[p][t].base # stage[p][t].ver}

HasWork(c) == c.dates # {} \/ c.revised \/ c.pit

Idle == [at |-> "idle", plan |-> NoOne, ctx |-> NoWork, found |-> NoWork,
         todo |-> {}, skip |-> {}]
Locked == \E i \in Proc : proc[i].at \notin {"idle", "preflight"}
(* promotion is not on disk: it records whether p has begun to promote, and *)
(* whether another plan has since.                                          *)
HalfDone(p) == apply[p].promotion = "begun" /\ plan[p].status # "APPLIED"

(* _guard_monotonic_active_alias *)
BehindAliasByTwo(p) == active.owner # p /\ active.end > plan[p].target + 1
BehindAlias(p) == active.owner # p /\ active.end > plan[p].target

(* The steps before raw_promote: the ones whose checkpoint has no raw_changes. *)
BeforePromote == {"market_fetch", "factor_reconcile", "raw_promote"}

-----------------------------------------------------------------------------
(* Session 1 is published; the provider has data for every session. *)
Init ==
    /\ remote \in {r \in [Part -> {0, 1}] : \A t \in Part : t[1] \in Required => r[t] = 1}
    /\ bronze = [t \in Part |-> IF t[2] = 1 THEN [data |-> remote[t], man |-> remote[t]]
                                           ELSE [data |-> 0, man |-> 0]]
    /\ curated = [d \in Date |-> IF d = 1 THEN [NoImage EXCEPT !.raw = [e \in Endpoint |-> remote[<<e, 1>>]]]
                                          ELSE NoImage]
    /\ pit = [source |-> 0, built |-> 0, seen |-> 0]
    /\ index = [value |-> [d \in Date |-> 0], through |-> 0]
    /\ pending = NoWork
    /\ active = [content |-> curated, end |-> 1, owner |-> NoOne]
    /\ plan = [p \in Plan |-> [status |-> "none", target |-> 1, fetch |-> {}, event |-> FALSE,
                              repairs |-> {}, history |-> [d \in Date |-> 0]]]
    /\ stage = [p \in Plan |-> [t \in Part |-> [base |-> 0, ver |-> 0, redone |-> FALSE]]]
    /\ apply = [p \in Plan |-> [status |-> "none", next |-> "market_fetch", ctx |-> NoWork,
                               promotion |-> "none"]]
    /\ proc = [i \in Proc |-> Idle]
    /\ torn = {}
    /\ revisions = 0
    /\ kills = 0
    /\ failures = 0

-----------------------------------------------------------------------------
(* The provider publishes, or revises, one partition. *)
Revise(t) ==
    /\ remote[t] < MaxVersion /\ revisions < MaxRevisions
    /\ revisions' = revisions + 1
    /\ remote' = [remote EXCEPT ![t] = @ + 1]
    /\ UNCHANGED <<disk, plan, stage, apply, proc, torn, kills, failures>>

(***************************************************************************)
(* create_plan reads local state only.  A hard-killed plan of the same     *)
(* session (PLANNED, apply state RUNNING) is returned instead of a new one *)
(* (_crash_resume_plan).  Whether the factors of the target session differ *)
(* from the previous one is decided by data the versions do not show.      *)
(***************************************************************************)
CreatePlan(p, d) ==
    /\ plan[p].status = "none"
    /\ ~\E q \in Plan : /\ plan[q].status = "PLANNED" /\ plan[q].target = d
                        /\ apply[q].status = "RUNNING"
    /\ \E event \in BOOLEAN :
         plan' = [plan EXCEPT ![p] = [@ EXCEPT !.status = "PLANNED", !.target = d,
                                               !.fetch = FetchMatrix(d), !.event = event]]
    /\ UNCHANGED <<remote, disk, stage, apply, proc, counters>>

(***************************************************************************)
(* apply_plan before the lock: the checkpoints of an earlier attempt must  *)
(* verify (no staged file was rewritten after market_fetch, a promoted     *)
(* partition still has the promoted content), the plan may not be behind   *)
(* the active alias, and the session lease of the daily run keeps a second *)
(* process away from the session.  A refusal changes nothing.  An applied  *)
(* plan has nothing left to do and is left out.                            *)
(***************************************************************************)
CheckpointsVerify(p) ==
    /\ apply[p].next # "market_fetch" => \A t \in Part : ~stage[p][t].redone
    /\ apply[p].next \notin BeforePromote =>
           \A t \in Changes(p) : PartitionHash(t) = stage[p][t].ver

Preflight(i, p) ==
    /\ proc[i] = Idle
    /\ plan[p].status = "PLANNED"
    /\ \A j \in Proc : proc[j].plan # NoOne => plan[proc[j].plan].target # plan[p].target
    /\ CheckpointsVerify(p)
    /\ ~BehindAlias(p)
    /\ proc' = [proc EXCEPT ![i].at = "preflight", ![i].plan = p]
    /\ apply' = [apply EXCEPT ![p].status = IF @ = "none" THEN "RUNNING" ELSE @]
    /\ UNCHANGED <<remote, disk, plan, stage, counters>>

(* What the operator refrains from. *)
Held(p) ==
    \/ Resumption = "finish" /\ \E q \in Plan \ {p} : HalfDone(q)
    \/ Resumption = "abandon" /\ apply[p].promotion = "overtaken"

(* daily_sync.lock is taken without waiting; a holder makes the attempt fail. *)
Refused(i) ==
    /\ proc[i].at = "preflight"
    /\ Locked \/ Held(proc[i].plan)
    /\ proc' = [proc EXCEPT ![i] = Idle]
    /\ UNCHANGED <<remote, disk, plan, stage, apply, counters>>

(* Every step returns at once when its checkpoint exists. *)
ResumeAt(step) == IF step \in BeforePromote \cup {"raw_validate"} THEN step ELSE "enter_publish"

Lock(i) ==
    /\ proc[i].at = "preflight"
    /\ ~Locked /\ ~Held(proc[i].plan)
    /\ proc' = [proc EXCEPT ![i].at = ResumeAt(apply[proc[i].plan].next),
                            ![i].ctx = apply[proc[i].plan].ctx]
    /\ UNCHANGED <<remote, disk, plan, stage, apply, counters>>

-----------------------------------------------------------------------------
(* Helpers for the steps of process i. *)
At(i, point) == proc[i].at = point
Goto(i, point) == proc' = [proc EXCEPT ![i].at = point]

(* _finish_step: the record and the context reach apply_state.json together. *)
Finish(i, next, c) ==
    apply' = [apply EXCEPT ![proc[i].plan].next = next, ![proc[i].plan].ctx = c]

(* The except branch of apply_plan: FAILED and the context are saved. *)
Abort(i) ==
    /\ apply' = [apply EXCEPT ![proc[i].plan].status = "FAILED",
                              ![proc[i].plan].ctx = proc[i].ctx]
    /\ proc' = [proc EXCEPT ![i] = Idle]

(***************************************************************************)
(* _fetch_market_to_stage: dates in order; a partition that is already     *)
(* staged is not fetched again; an optional endpoint that fails is skipped *)
(* and stays absent; after a date its required rows are validated.         *)
(***************************************************************************)
Missing(i) == {t \in plan[proc[i].plan].fetch : ~Staged(proc[i].plan, t) /\ t \notin proc[i].skip}
FetchDates(p) == {t[2] : t \in plan[p].fetch}
DateFetched(i, d) == \A t \in Missing(i) : t[2] # d
NextToFetch(i, t) ==
    /\ At(i, "market_fetch") /\ t \in Missing(i)
    /\ \A d \in FetchDates(proc[i].plan) : d < t[2] => DateFetched(i, d) /\ ValidDay(proc[i].plan, d)

FetchPartition(i, t) ==
    /\ NextToFetch(i, t)
    /\ remote[t] # 0
    /\ stage' = [stage EXCEPT ![proc[i].plan][t] = [base |-> PartitionHash(t), ver |-> remote[t],
                                                         redone |-> FALSE]]
    /\ UNCHANGED <<remote, disk, plan, apply, proc, counters>>

FetchUnavailable(i, t) ==
    /\ NextToFetch(i, t)
    /\ remote[t] = 0 /\ t[1] \in Optional
    /\ proc' = [proc EXCEPT ![i].skip = @ \cup {t}]
    /\ UNCHANGED <<remote, disk, plan, stage, apply, counters>>

FetchRejected(i) ==
    /\ At(i, "market_fetch")
    /\ \E d \in FetchDates(proc[i].plan) : DateFetched(i, d) /\ ~ValidDay(proc[i].plan, d)
    /\ Abort(i)
    /\ UNCHANGED <<remote, disk, plan, stage, counters>>

FetchDone(i) ==
    /\ At(i, "market_fetch") /\ Missing(i) = {}
    /\ \A d \in FetchDates(proc[i].plan) : ValidDay(proc[i].plan, d)
    /\ Finish(i, "factor_reconcile", proc[i].ctx)
    /\ Goto(i, "factor_reconcile")
    /\ UNCHANGED <<remote, disk, plan, stage, counters>>

(***************************************************************************)
(* _reconcile_factors.  The shared index catches up with the canonical     *)
(* dates after its watermark; the provider's history is fetched once per   *)
(* plan and kept; the local history is the index with the staged rows laid *)
(* over it; the dates that differ are staged as repairs, and only then     *)
(* written into the plan.                                                  *)
(***************************************************************************)
CaughtUp ==
    [value |-> [d \in Date |-> IF d > index.through THEN bronze[<<Factor, d>>].data ELSE index.value[d]],
     through |-> LastOf(Present)]

LocalFactor(p, d) ==
    IF Staged(p, <<Factor, d>>) THEN stage[p][<<Factor, d>>].ver ELSE CaughtUp.value[d]

RemoteHistory(p) ==
    IF \E d \in Date : plan[p].history[d] # 0 THEN plan[p].history
    ELSE [d \in Date |-> IF d <= plan[p].target THEN remote[<<Factor, d>>] ELSE 0]

ReconcileFactors(i) ==
    LET p == proc[i].plan
        diff == {d \in 1 .. plan[p].target : RemoteHistory(p)[d] # LocalFactor(p, d)}
    IN  /\ At(i, "factor_reconcile")
        /\ IF plan[p].event
           THEN /\ plan' = [plan EXCEPT ![p].history = RemoteHistory(p)]
                /\ index' = CaughtUp
                /\ proc' = [proc EXCEPT ![i].todo = {Factor} \X diff, ![i].at = "stage_repairs"]
           ELSE /\ proc' = [proc EXCEPT ![i].todo = {}, ![i].at = "save_repairs"]
                /\ UNCHANGED <<plan, index>>
        /\ UNCHANGED <<remote, bronze, curated, pit, pending, active, stage, apply, counters>>

(***************************************************************************)
(* _stage_factor_repairs: one date after the other, each staged where it   *)
(* is not yet what the history has; the base of a partition staged before  *)
(* is kept.  A data file without its manifest counts as staged here: a     *)
(* resumed plan reads the file, finds no difference, and the date is lost  *)
(* to the repairs just as with the manifest.                               *)
(***************************************************************************)
Unrepaired(i) ==
    {t \in proc[i].todo : stage[proc[i].plan][t].ver # plan[proc[i].plan].history[t[2]]}

StageRepair(i, t) ==
    LET p == proc[i].plan
    IN  /\ At(i, "stage_repairs")
        /\ t \in Unrepaired(i) /\ \A u \in Unrepaired(i) : t[2] <= u[2]
        /\ stage' = [stage EXCEPT ![p][t] =
               [base |-> IF Staged(p, t) THEN stage[p][t].base ELSE PartitionHash(t),
                ver |-> plan[p].history[t[2]], redone |-> Staged(p, t)]]
        /\ UNCHANGED <<remote, disk, plan, apply, proc, counters>>

RepairsStaged(i) ==
    /\ At(i, "stage_repairs") /\ Unrepaired(i) = {}
    /\ Goto(i, "save_repairs")
    /\ UNCHANGED <<remote, disk, plan, stage, apply, counters>>

SaveRepairs(i) ==
    /\ At(i, "save_repairs")
    /\ plan' = [plan EXCEPT ![proc[i].plan].repairs = {t[2] : t \in proc[i].todo}]
    /\ proc' = [proc EXCEPT ![i].todo = {}, ![i].at = "end_reconcile"]
    /\ UNCHANGED <<remote, disk, stage, apply, counters>>

EndReconcile(i) ==
    /\ At(i, "end_reconcile")
    /\ Finish(i, "raw_promote", proc[i].ctx)
    /\ Goto(i, "raw_promote")
    /\ UNCHANGED <<remote, disk, plan, stage, counters>>

-----------------------------------------------------------------------------
(***************************************************************************)
(* _promote_staged_raw.  First the candidate days are validated and every  *)
(* partition must still be what it was when staged, or what is staged (an  *)
(* earlier attempt promoted it).                                           *)
(***************************************************************************)
BasesUntouched(p) == \A t \in Targets(p) : PartitionHash(t) = stage[p][t].base
BasesUnchecked(p) == \A t \in Targets(p) : Staged(p, t)

BasesHold(p) == \A t \in Targets(p) : PartitionHash(t) \in {stage[p][t].base, stage[p][t].ver}

PromotableUnchecked(p) == BasesHold(p)

Promotable(p) == BasesHold(p) /\ \A t \in Targets(p) : ValidDay(p, t[2])

PromoteRefused(i) ==
    /\ At(i, "raw_promote") /\ ~Promotable(proc[i].plan)
    /\ Abort(i)
    /\ UNCHANGED <<remote, disk, plan, stage, counters>>

(* _planned_raw_change_summary together with what _promote_raw finds to change. *)
Differing(p) == {t \in Targets(p) : bronze[t].data # stage[p][t].ver}
Summary(p) ==
    [dates |-> {t[2] : t \in Changes(p) \cup Differing(p)},
     revised |-> \/ \E t \in Changes(p) : stage[p][t].base # 0
                 \/ \E t \in Differing(p) : bronze[t].data # 0,
     pit |-> FALSE]

BeginPromote(i) ==
    LET p == proc[i].plan
    IN  /\ At(i, "raw_promote") /\ Promotable(p)
        /\ proc' = [proc EXCEPT ![i].found = Summary(p), ![i].todo = Differing(p),
                                ![i].at = "write_data"]
        /\ apply' = [q \in Plan |-> [apply[q] EXCEPT !.promotion =
                        IF q = p THEN "begun" ELSE IF HalfDone(q) THEN "overtaken" ELSE @]]
        /\ UNCHANGED <<remote, disk, plan, stage, counters>>

(***************************************************************************)
(* write_if_changed believes the manifest; a write replaces the data file  *)
(* and then the manifest.  The partitions go in the order of their names,  *)
(* which is left open here.                                                *)
(***************************************************************************)
SkipWrite(i, t) ==
    /\ At(i, "write_data") /\ t \in proc[i].todo
    /\ PartitionHash(t) = stage[proc[i].plan][t].ver
    /\ proc' = [proc EXCEPT ![i].todo = @ \ {t}]
    /\ UNCHANGED <<remote, disk, plan, stage, apply, counters>>

WriteData(i, t) ==
    /\ At(i, "write_data") /\ t \in proc[i].todo
    /\ PartitionHash(t) # stage[proc[i].plan][t].ver
    /\ bronze' = [bronze EXCEPT ![t].data = stage[proc[i].plan][t].ver]
    /\ Goto(i, "write_manifest")
    /\ UNCHANGED <<remote, curated, pit, index, pending, active, plan, stage, apply, counters>>

WriteManifest(i, t) ==
    /\ At(i, "write_manifest") /\ t \in proc[i].todo
    /\ bronze[t].data = stage[proc[i].plan][t].ver
    /\ bronze' = [bronze EXCEPT ![t].man = bronze[t].data]
    /\ proc' = [proc EXCEPT ![i].todo = @ \ {t}, ![i].at = "write_data"]
    /\ UNCHANGED <<remote, curated, pit, index, pending, active, plan, stage, apply, counters>>

WritePendingUnmerged(i) ==
    /\ At(i, "write_data") /\ proc[i].todo = {}
    /\ pending' = proc[i].found
    /\ proc' = [proc EXCEPT ![i].ctx = proc[i].found, ![i].found = NoWork, ![i].at = "write_index"]
    /\ UNCHANGED <<remote, bronze, curated, pit, index, active, plan, stage, apply, counters>>

(* The unpublished work of earlier plans is merged into pending_publish.json. *)
WritePending(i) ==
    LET merged == [dates |-> proc[i].found.dates \cup pending.dates,
                   revised |-> proc[i].found.revised \/ pending.revised,
                   pit |-> pending.pit]
    IN  /\ At(i, "write_data") /\ proc[i].todo = {}
        /\ pending' = merged
        /\ proc' = [proc EXCEPT ![i].ctx = merged, ![i].found = NoWork, ![i].at = "write_index"]
        /\ UNCHANGED <<remote, bronze, curated, pit, index, active, plan, stage, apply, counters>>

(* The provider's history becomes the shared index only after the promotion. *)
WriteIndex(i) ==
    LET p == proc[i].plan
    IN  /\ At(i, "write_index")
        /\ index' = IF plan[p].event THEN [value |-> plan[p].history, through |-> plan[p].target]
                                     ELSE index
        /\ Goto(i, "end_promote")
        /\ UNCHANGED <<remote, bronze, curated, pit, pending, active, plan, stage, apply, counters>>

EndPromote(i) ==
    /\ At(i, "end_promote")
    /\ Finish(i, "raw_validate", proc[i].ctx)
    /\ Goto(i, "raw_validate")
    /\ UNCHANGED <<remote, disk, plan, stage, counters>>

(***************************************************************************)
(* _validate_raw: every expected day has its required files; on the deep   *)
(* dates (fetched or changed) each file matches its manifest and passes    *)
(* the day's gate.                                                         *)
(***************************************************************************)
Sound(t) == bronze[t].man = bronze[t].data /\ bronze[t].data \notin BadVersions

StoreValid(i) ==
    LET p == proc[i].plan
    IN  /\ \A t \in Required \X (1 .. plan[p].target) : bronze[t].data # 0
        /\ \A t \in Required \X (FetchDates(p) \cup proc[i].ctx.dates) : Sound(t)

ValidateRaw(i) ==
    /\ At(i, "raw_validate") /\ StoreValid(i)
    /\ Finish(i, "extended_sync", proc[i].ctx)
    /\ Goto(i, "enter_publish")
    /\ UNCHANGED <<remote, disk, plan, stage, counters>>

ValidationFailed(i) ==
    /\ At(i, "raw_validate") /\ ~StoreValid(i)
    /\ Abort(i)
    /\ UNCHANGED <<remote, disk, plan, stage, counters>>

-----------------------------------------------------------------------------
(***************************************************************************)
(* _extended_and_publish.  The guard against a plan behind the active      *)
(* alias is repeated; a dataset this plan already published is recognised  *)
(* by its receipt; otherwise the work continues at the first step that has *)
(* no checkpoint.                                                          *)
(***************************************************************************)
BehindRefused(i) ==
    /\ At(i, "enter_publish") /\ BehindAlias(proc[i].plan)
    /\ Abort(i)
    /\ UNCHANGED <<remote, disk, plan, stage, counters>>

NoReceipt(p) == FALSE

HasReceipt(p) == apply[p].next = "qlib_publish" /\ active.owner = p

EnterPublish(i) ==
    LET p == proc[i].plan
    IN  /\ At(i, "enter_publish") /\ ~BehindAlias(p)
        /\ Goto(i, IF HasReceipt(p) THEN "clear_pending"
                   ELSE IF apply[p].next = "finished" THEN "applied" ELSE apply[p].next)
        /\ UNCHANGED <<remote, disk, plan, stage, apply, counters>>

ExtendedSync(i) ==
    /\ At(i, "extended_sync")
    /\ \E s \in {pit.source, pit.source + 1} \cap PitVersion : pit' = [pit EXCEPT !.source = s]
    /\ Finish(i, "pit_refresh", proc[i].ctx)
    /\ Goto(i, "pit_refresh")
    /\ UNCHANGED <<remote, bronze, curated, index, pending, active, plan, stage, counters>>

(***************************************************************************)
(* _refresh_pit_from_extended: rebuilds the table unless the recorded      *)
(* fingerprint is that of the source, then records the fingerprint; the    *)
(* change is in memory until pending_publish.json and the checkpoint have  *)
(* it.                                                                     *)
(***************************************************************************)
PitCurrent(i) ==
    /\ At(i, "pit_refresh") /\ pit.seen = pit.source
    /\ Goto(i, "pit_pending")
    /\ UNCHANGED <<remote, disk, plan, stage, apply, counters>>

PitRebuild(i) ==
    LET changed == pit.built # pit.source
    IN  /\ At(i, "pit_refresh") /\ pit.seen # pit.source
        /\ pit' = [pit EXCEPT !.built = pit.source]
        /\ proc' = [proc EXCEPT ![i].found = [NoWork EXCEPT !.revised = changed, !.pit = changed],
                                ![i].at = "pit_state"]
        /\ UNCHANGED <<remote, bronze, curated, index, pending, active, plan, stage, apply, counters>>

PitRecord(i) ==
    LET c == proc[i].ctx
        f == proc[i].found
        merged == [dates |-> c.dates, revised |-> c.revised \/ f.revised, pit |-> c.pit \/ f.pit]
    IN  /\ At(i, "pit_state")
        /\ pit' = [pit EXCEPT !.seen = pit.source]
        /\ proc' = [proc EXCEPT ![i].ctx = merged, ![i].found = NoWork, ![i].at = "pit_pending"]
        /\ UNCHANGED <<remote, bronze, curated, index, pending, active, plan, stage, apply, counters>>

(* The ledger is written from the plan's own context, not merged. *)
PitPending(i) ==
    /\ At(i, "pit_pending")
    /\ pending' = proc[i].ctx
    /\ Goto(i, "pit_finish")
    /\ UNCHANGED <<remote, bronze, curated, pit, index, active, plan, stage, apply, counters>>

PitFinish(i) ==
    /\ At(i, "pit_finish")
    /\ Finish(i, "freshness_gate", proc[i].ctx)
    /\ Goto(i, "freshness_gate")
    /\ UNCHANGED <<remote, disk, plan, stage, counters>>

(* Metadata and benchmark are refreshed and the freshness gate passes. *)
FreshnessGate(i) ==
    /\ At(i, "freshness_gate")
    /\ Finish(i, "qlib_publish", proc[i].ctx)
    /\ Goto(i, "qlib_publish")
    /\ UNCHANGED <<remote, disk, plan, stage, counters>>

(***************************************************************************)
(* _publish_qlib.  A curated day is rebuilt when the context names it, or  *)
(* all are when the fundamentals changed; otherwise an existing day is     *)
(* kept.  A release exports every curated day; an incremental update       *)
(* appends the days after the calendar of the active dataset and rewrites  *)
(* the history of revised symbols; without either nothing is published.    *)
(***************************************************************************)
Source(d) == [raw |-> [e \in Endpoint |-> bronze[<<e, d>>].data], pit |-> pit.built]
Release(c) == PublishOnSync /\ HasWork(c)
Appended == {d \in Present : d > active.end}

RebuiltByNameOnly(c) ==
    (c.dates \cap Present)
        \cup (IF Release(c) THEN {d \in Present : curated[d] = NoImage} ELSE Appended)

Rebuilt(c) ==
    (IF c.pit THEN Present ELSE c.dates \cap Present)
        \cup (IF Release(c) THEN {d \in Present : curated[d] = NoImage} ELSE Appended)

BuildCurated(i) ==
    LET c == proc[i].ctx
    IN  /\ At(i, "qlib_publish")
        /\ curated' = [d \in Date |-> IF d \in Rebuilt(c) THEN Source(d) ELSE curated[d]]
        /\ Goto(i, IF Release(c) \/ Appended # {} \/ c.revised THEN "switch_alias" ELSE "clear_pending")
        /\ UNCHANGED <<remote, bronze, pit, index, pending, active, plan, stage, apply, counters>>

SwitchAlias(i) ==
    LET c == proc[i].ctx
        exported(d) == Release(c) \/ c.revised \/ d \in Appended
    IN  /\ At(i, "switch_alias")
        /\ active' = [content |-> [d \in Date |-> IF exported(d) THEN curated[d] ELSE active.content[d]],
                      end |-> LastOf(Present), owner |-> proc[i].plan]
        /\ Goto(i, "clear_pending")
        /\ UNCHANGED <<remote, bronze, curated, pit, index, pending, plan, stage, apply, counters>>

ClearPending(i) ==
    /\ At(i, "clear_pending")
    /\ pending' = NoWork
    /\ Goto(i, "finish_publish")
    /\ UNCHANGED <<remote, bronze, curated, pit, index, active, plan, stage, apply, counters>>

FinishPublish(i) ==
    /\ At(i, "finish_publish")
    /\ Finish(i, "finished", proc[i].ctx)
    /\ Goto(i, "applied")
    /\ UNCHANGED <<remote, disk, plan, stage, counters>>

Applied(i) ==
    /\ At(i, "applied")
    /\ apply' = [apply EXCEPT ![proc[i].plan].status = "SUCCEEDED"]
    /\ Goto(i, "close_plan")
    /\ UNCHANGED <<remote, disk, plan, stage, counters>>

ClosePlan(i) ==
    /\ At(i, "close_plan")
    /\ plan' = [plan EXCEPT ![proc[i].plan].status = "APPLIED"]
    /\ proc' = [proc EXCEPT ![i] = Idle]
    /\ UNCHANGED <<remote, disk, stage, apply, counters>>

-----------------------------------------------------------------------------
(* Where a provider call, a gate or a build raises: apply_plan records it. *)
MayFail == {"market_fetch", "factor_reconcile", "stage_repairs", "extended_sync",
            "freshness_gate", "qlib_publish", "switch_alias"}

Fail(i) ==
    /\ proc[i].at \in MayFail
    /\ failures < MaxFailures
    /\ failures' = failures + 1
    /\ Abort(i)
    /\ UNCHANGED <<remote, disk, plan, stage, torn, revisions, kills>>

(* A kill between the file and its manifest: the hash is of what it replaced. *)
Torn(t) == bronze[t].man \notin {0, bronze[t].data}

(* The process is killed: the operating system drops its locks. *)
Kill(i) ==
    /\ proc[i].at \in KillAt
    /\ kills < MaxKills
    /\ kills' = kills + 1
    /\ torn' = IF At(i, "write_manifest") THEN torn \cup {t \in Part : Torn(t)} ELSE torn
    /\ proc' = [proc EXCEPT ![i] = Idle]
    /\ UNCHANGED <<remote, disk, plan, stage, apply, revisions, failures>>

Fetch(i) ==
    \/ \E t \in Part : FetchPartition(i, t) \/ FetchUnavailable(i, t) \/ StageRepair(i, t)
    \/ FetchRejected(i) \/ FetchDone(i)
    \/ ReconcileFactors(i) \/ RepairsStaged(i) \/ SaveRepairs(i) \/ EndReconcile(i)

Promote(i) ==
    \/ PromoteRefused(i) \/ BeginPromote(i)
    \/ \E t \in Part : SkipWrite(i, t) \/ WriteData(i, t) \/ WriteManifest(i, t)
    \/ WritePending(i) \/ WriteIndex(i) \/ EndPromote(i)
    \/ ValidateRaw(i) \/ ValidationFailed(i)

Publish(i) ==
    \/ BehindRefused(i) \/ EnterPublish(i)
    \/ ExtendedSync(i) \/ PitCurrent(i) \/ PitRebuild(i) \/ PitRecord(i) \/ PitPending(i)
    \/ PitFinish(i) \/ FreshnessGate(i)
    \/ BuildCurated(i) \/ SwitchAlias(i) \/ ClearPending(i) \/ FinishPublish(i)
    \/ Applied(i) \/ ClosePlan(i)

Work(i) == Refused(i) \/ Lock(i) \/ Fetch(i) \/ Promote(i) \/ Publish(i)

Next ==
    \/ \E t \in Part : Revise(t)
    \/ \E p \in Plan, d \in Date : CreatePlan(p, d)
    \/ \E i \in Proc, p \in Plan : Preflight(i, p)
    \/ \E i \in Proc : Work(i) \/ Fail(i) \/ Kill(i)

Spec == Init /\ [][Next]_vars

(* A running process keeps running, and an unfinished plan is resumed again. *)
FairSpec ==
    /\ Spec
    /\ \A i \in Proc : WF_vars(Work(i))
    /\ \A p \in Plan : SF_vars(\E i \in Proc : Preflight(i, p))
-----------------------------------------------------------------------------
(* Properties *)

(***************************************************************************)
(* What the active alias points to is, for every session Bronze has, what  *)
(* Bronze and the fundamentals hold when it is switched: publication never *)
(* uses a curated day that was built from older data and kept.             *)
(***************************************************************************)
PublishIsComplete ==
    [][active' # active =>
          \A d \in Present \cap 1 .. active'.end : active'.content[d] = Source(d)]_vars

(***************************************************************************)
(* A published session that is out of date is remembered: by the pending   *)
(* ledger, by a plan that is still to be finished, or by the process that  *)
(* is writing it.  (docs/daily_sync.md: the pending ledger is what a crash *)
(* between the promotion and the publication leaves behind.)               *)
(***************************************************************************)
RawStale(d) == active.content[d].raw # Source(d).raw
PitStale(d) == active.content[d] # NoImage /\ active.content[d].pit # pit.built
BeingPublished(i) == At(i, "clear_pending") \/ At(i, "finish_publish")

RawRemembered(d) ==
    \/ d \in pending.dates
    \/ \E p \in Plan : HalfDone(p) /\ apply[p].next \in BeforePromote
                          /\ \E t \in Changes(p) : t[2] = d
PitRemembered ==
    pending.pit \/ \E i \in Proc : At(i, "pit_state") \/ At(i, "pit_pending")

NothingForgotten ==
    \A d \in Present \cap 1 .. active.end :
        /\ RawStale(d) => RawRemembered(d)
        /\ PitStale(d) => PitRemembered

(***************************************************************************)
(* A plan keeps the factor history that it fetched; when another plan has  *)
(* repaired a factor since, the resumed plan takes the difference to its   *)
(* older history for a repair.  It puts the older factor back.             *)
(***************************************************************************)
Outdated(p, t) == t[1] = Factor /\ Staged(p, t) /\ stage[p][t].ver < stage[p][t].base
PutBack(t) == \E p \in Plan : HalfDone(p) /\ Outdated(p, t) /\ bronze[t].data = stage[p][t].ver
WasPutBack(t) == \E p \in Plan : apply[p].promotion # "none" /\ Outdated(p, t)

(***************************************************************************)
(* But for these two, a partition of Bronze is never replaced by an older  *)
(* version of itself: the base hashes recorded while staging refuse a plan *)
(* that another one has overtaken.                                         *)
(***************************************************************************)
BronzeMonotone ==
    [][\A t \in Part : bronze'[t].data >= bronze[t].data \/ Torn(t) \/ PutBack(t)']_vars

(* No required partition that fails the day's gate is ever published. *)
OnlyValidated ==
    \A d \in Date, e \in Required : active.content[d].raw[e] \notin BadVersions

(***************************************************************************)
(* A plan that is killed or fails after it staged a repair and before it   *)
(* names it forgets the repair: once resumed, it finds the staged factor   *)
(* and no difference.                                                      *)
(***************************************************************************)
Unnamed(p, t) == Staged(p, t) /\ t \notin Promised(p)
Forgotten(t, v) ==
    \E p \in Plan : apply[p].promotion # "none" /\ Unnamed(p, t) /\ stage[p][t].ver = v

(***************************************************************************)
(* The shared factor index is a cache of Bronze: it may lag, but it never  *)
(* holds a factor that Bronze does not have yet, for then the difference   *)
(* to the provider's history would no longer be found and repaired.        *)
(* Excepted are a factor that was put back, a repair that was forgotten,   *)
(* and a partition that a kill has left without its manifest.              *)
(***************************************************************************)
Excused(t) == WasPutBack(t) \/ t \in torn
Known(t, v) == v <= bronze[t].data \/ Excused(t) \/ Forgotten(t, v)

IndexNeverAhead == \A d \in Date : Known(<<Factor, d>>, index.value[d])

(***************************************************************************)
(* Publication is recovered from the receipt, not repeated: a process that *)
(* is about to switch the alias is not the one the alias already names.    *)
(***************************************************************************)
PublishedOnce == \A i \in Proc : At(i, "switch_alias") => active.owner # proc[i].plan

(***************************************************************************)
(* Seen from outside, the alias changes as the module Publication says,    *)
(* although a publication takes many steps, may be killed at any of them   *)
(* and is resumed from files.                                              *)
(***************************************************************************)
Alias == INSTANCE Publication WITH
    LastSession <- LastDate, owner <- active.owner, end <- active.end,
    target <- [p \in Plan |-> plan[p].target]

ImplementsPublication == Alias!Spec

(***************************************************************************)
(* What a plan began to promote is published in the end, and the plan      *)
(* closed, whatever fails or is killed on the way, if it is resumed again  *)
(* and again (docs/operations/daily-research.md: resume after a kill).     *)
(***************************************************************************)
PromotedIsPublished == \A p \in Plan : HalfDone(p) ~> plan[p].status = "APPLIED"

(***************************************************************************)
(* ... unless a factor repair rewrote a response staged before, which the  *)
(* checkpoint of market_fetch pins by its hash.                            *)
(***************************************************************************)
StageRewritten(p) == \E t \in Part : stage[p][t].redone
PromotedIsPublishedUnlessRewritten ==
    \A p \in Plan : HalfDone(p) ~> plan[p].status = "APPLIED" \/ StageRewritten(p)

=============================================================================
