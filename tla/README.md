# A verification development of qlib-platform

qlib-platform turns a daily feed of Chinese A-share market data into versioned datasets, runs a
gated daily research pipeline on them, deploys models, registers signals and delivers notifications.
This directory holds TLA+ models of its protocols: the parts that keep state in files or in SQLite,
are killed and resumed, and are run by several processes at once; and of the backtest that settles
orders by market rules. TLC checks them on small instances; TLAPS proves what matters most for every
value of their constants.

The implementation is `src/src/qlib_platform` (298 Python files, about 67,000 lines). More than
half of it is numerical research code without a protocol. The models cover the part a unit test
reaches worst: what a step leaves behind when the next one never comes, or when another process
comes first. All source paths below are relative to `src/src/qlib_platform` unless they start
with `src/`.

| module | models | lines |
| --- | --- | --- |
| `Publication` | what the active dataset alias promises (abstract specification) | 42 |
| `DailySync` | the planned daily synchronisation, from plan to published dataset | 804 |
| `DailyRun` | the daily research run that synchronises, gates, regresses, reports | 608 |
| `DailySignal` | the daily signal: inference, health, registration, announcement; model deployments | 457 |
| `Delivery` | the notification delivery ledger and its workers | 254 |
| `Registry` | dataset versions, releases, aliases, pointer files and the rebuild | 432 |
| `Execution` | the execution backends of the control plane | 279 |
| `FoldPlan` | the windows of a walk-forward run and of a production refit | 95 |
| `WalkForward` | walk-forward runs: checkpoints, selection lock, holdout, promotion | 297 |
| `Quickstart` | governed research runs: stage ledger, lock, reuse | 477 |
| `Custody` | settlement T+1 of an account (abstract specification) | 34 |
| `AShareSimulator` | the research simulator of cash A-shares | 376 |
| `*_proofs` | theorems about eight of the machines (those about `FoldPlan` are in `WalkForward_proofs`) | |
| `MC*` | instances for TLC, with one `.cfg` per question | |

## 1. Inventory

### 1.1 The daily path

1. **Planned daily synchronisation** (`data/planned_daily_sync.py`, specialised by `certified_`,
   `production_`, `resumable_certified_` and `audited_daily_sync.py`). State: `plan.json`,
   `stage/` and `apply_state.json` of each plan; Bronze partitions (a data file and a manifest
   each); the factor index; `pending_publish.json`; the PIT table and its fingerprint; the
   curated day partitions; the dataset and its alias. `create_plan` computes what to fetch;
   `apply_plan` takes `daily_sync.lock` and walks market_fetch, factor_reconcile, raw_promote,
   raw_validate, extended_sync, pit_refresh, freshness_gate and qlib_publish, writing a
   checkpoint after each. *Hard*: it may be killed between any two files; a plan is resumed from
   checkpoints that certify files other plans change; plans overlap; the provider revises data.
   *Correct when* the alias names a complete, validated dataset; it never goes back; what is
   promoted but not published is remembered; a publication is not repeated.

2. **Partition store, quality gates, normalisation** (`data/store.py`, `quality.py`,
   `normalize.py`): `write_if_changed`, validation of days and of the store, and the curated
   builder that rebuilds a day when its inputs changed. They are steps of 1.

3. **Dataset registry and alias** (`datasets/dataset_registry.py`, `qlib_export.py`,
   `dataset_resolver.py`, `releases/`): a SQLite table of versions and aliases plus pointer files;
   register, promote, promote_research_snapshot, rebuild, resolve; directories are built as
   candidates and renamed, releases archived. *Hard*: a rebuild reads every manifest below the root,
   those of candidates that a dead process left included. *Correct when* the alias resolves to a
   verified version, and database and files agree after a crash and a rebuild.

4. **Daily research run** (`runtime/production_daily_run.py` over `daily_research_run.py`).
   State: `run_state.json` and `manifest.json` per plan, a lease per target session.
   `execute_plan` walks sync_publish, dataset_verify, feature_materialization, slo_gate,
   regression_backtest, report and notification; a step is reused when its record SUCCEEDED with
   the same input. *Hard*: the alias moves between attempts; the state is loaded and saved
   outside of the lease; the manifest is enriched after it is released. *Correct when* a
   SUCCEEDED manifest is evidence about one dataset, and nothing is researched that the gate did
   not let pass.

5. **SLO gate and incident ledger** (`runtime/sre.py`): events.jsonl, from which the open
   incidents are derived; `evaluate_daily_slo`, `evaluate_run_completion`, `sync_evaluation`.
   *Correct when* an incident is opened once and is resolved in the end.

6. **Delivery ledger** (`ops/delivery_ledger.py`, table `deliveries` of `ops/ops_state.py`):
   reserve under a lease, send, record, retry; recover by the operator. *Hard*: the send and the
   sleep are outside of any transaction; leases expire; answers are lost. *Correct when* an
   undisturbed message is accepted once.

### 1.2 Operations, control plane and the rest

7. **Operations state and the daily signal** (`ops/ops_state.py`, `models/model_registry.py`,
   `runtime/daily_signal_runner.py`, `live_inference.py`, `signal_health.py`). State: the tables
   deployments, pipeline_runs and signals of one SQLite file, a directory per signal.
   `run_daily_signal` opens a run, may synchronise, infers, judges, writes the directory file by
   file, registers, announces and closes the run; `model-deploy` and `model-rollback` run beside
   it. *Hard*: every call of `OpsState` is a transaction, and nothing spans two of them or two
   files; a rerun writes into the directory of a signal that is registered, the scores in place.
   *Correct when* one model is deployed, the PASS signal of a date is the newest one, and what is
   announced is registered and has its files.
8. **Artifact outbox** (`platform_adapter/outbox.py`): enqueue, drain, failed with a retry
   delay; several drains may run.
9. **Execution backends** (`control_plane/execution.py`): submit, deliver, cancel, resume, a
   quota per project, a shared store and at-least-once delivery. *Hard*: every call reads a
   record, decides, and puts another one. *Correct when* a request has one outcome, a terminal
   record stands, and a delivery settles.
10. **Control plane storage** (`control_plane/storage.py`): content addressed objects with
    reference counts, metadata records; nothing else in the repository uses it yet.
11. **Research management** (`research/management/`): projects, members, ownership.
12. **Authentication** (`auth/`): accounts, tokens (issue, rotate, revoke), audit.
13. **Walk-forward workflow** (`research/workflow/walk_forward.py`, `train_select.py`,
    `timing.py`). State: a directory per trained fold, a checkpoint per fold and namespace, the
    selection lock, the evidence. *Hard*: runs die anywhere, share a namespace, and find
    artifacts altered. *Correct when* windows do not leak, the holdout comes after the lock, and
    predictions are promoted once.
14. **Governed research runs** (`research/workflow/governed_quickstart.py` and `control.py`).
    State: `run_state.json`, `.research.lock`, the stage evidence, `research_matrix.json`.
    *Hard*: the lock is a file that outlives its process and goes stale; the ledger is loaded
    before the lock is taken; the alias is resolved again and again. *Correct when* a result is
    reported for the inputs it was computed from, completed work is reused, and no attempt is
    lost.
15. **Backtesting** (`backtesting/`). The A-share simulator (`ashare_simulator.py` and the
    `ashare_*` modules it calls) keeps cash, total and sellable shares, unlocks per date and the
    capacity used, and walks over dates: unlock, corporate actions, orders, marks. *Hard*: a
    long sequence of legal orders on numbers with floors, minima, lots and caps. *Correct when*
    shares settle T+1, each order gets all it may and no more, and trading costs money. The Qlib
    guard, strategies and reports are the rest.
16. Feature store, evaluation and reporting, model bundles, monitoring, feedback labels,
    artifact contracts, layout migration, notifier channel, scheduler units, legacy ingestion,
    command line and settings: batch computations, renderings and adapters without a protocol of
    their own.

### 1.3 How they interact

`DailyRun` calls the synchronisation as one step and resolves the alias again in the next one;
it certifies `apply_state.json` by its hash, so that a plan applied again by anybody else
invalidates its checkpoint. Both are run by systemd timers and by an operator who resumes plans,
hence any number of processes. Their locks are `flock`s (`runtime/file_lock.py`):
refused rather than waited for, and released when their process dies; only the quick starts lock
with a file that stays.
`DailySignal` may call the synchronisation too, and hands its message to `Delivery`; every
research run resolves the alias through `Registry`. Files are replaced by `os.replace`,
one at a time; no two files change together. Everything in `ops_state.py` is a `BEGIN IMMEDIATE`
transaction; nothing outside of the database belongs to it.

## 2. Plan

| order | module | about | state |
| --- | --- | --- | --- |
| 1 | `Delivery` | leases, retries, lost answers | done; four theorems |
| 2 | `Publication` | abstract alias | done |
| 3 | `DailySync` | synchronisation; implements `Publication` | done; eight theorems |
| 4 | `DailyRun` | research run over `Publication` | done; four theorems |
| 5 | `DailySignal` | deployments, runs, signals with supersession, files | done; seven theorems |
| 6 | `Registry` | registration, promotion, pointer files, archiving, rebuild | done; five theorems |
| 7 | `Execution` | submit, deliver, cancel, resume, quota; overlapping calls | done; three theorems |
| 8 | `FoldPlan`, `WalkForward` | windows; checkpoints, lock, promotion | done; seven theorems |
| 9 | `Quickstart` | stage ledger, file lock, reuse | done; six theorems |
| 10 | `Custody`, `AShareSimulator` | T+1 settlement; the backtest that implements it | done, model-checked |
| 11 | small modules | outbox drains, token rotation, ownership transfer | open |

Open, in this order: two drains of the outbox; the three transactions of a token rotation; the
ownership transfer; `check_only` and `force_full` of the synchronisation; the prediction
backtest of a quick start as an option. Theorem worth proving next: `ImplementsCustody` of
`AShareSimulator`.

## 3. What each module models

### 3.1 `Publication`

Three variables: `owner` and `end` of the dataset behind the alias, and the `target` session of
each plan. `Publish(p)` switches the alias to plan `p` when `p` does not own it already and the
alias is not `Ahead` of the plan's session (`_guard_monotonic_active_alias` in
`data/resumable_certified_sync.py`); `Aim(p)` is the creation of a plan. It is what the rest of
the platform may assume of the synchronisation: `DailySync` is shown to implement it, and
`DailyRun` uses its `Publish` as the synchronisation step.

### 3.2 `DailySync`

- *Contents are versions.* A partition (endpoint and session) holds a number, 0 for none; two
  frames are equal when their numbers are. The provider publishes and revises (`Revise`). One
  representative symbol stands for the universe, so that "which symbols were revised" is a
  boolean of `Context`.
- *Files.* `remote` is the provider, `bronze[t].data` and `.man` the partition and its manifest,
  `index` the factor index and its watermark, `pending` is `pending_publish.json`, `pit` the
  built table and the recorded fingerprint, `curated` the day partitions, `active` the published
  dataset. `plan`, `stage` and `apply` are the files of each plan; `proc` is memory and is lost
  by `Kill`.
- *Steps.* One action per file written: `FetchPartition`, `StageRepair` (a date at a time, as the
  loop of `_stage_factor_repairs` does) until `RepairsStaged`, `SaveRepairs`, `BeginPromote` (base
  hashes are verified, then the pending ledger is merged), `WriteData`, `WriteManifest`,
  `WriteIndex`, `EndPromote`, `ValidateRaw`, `PitRebuild`, `PitRecord`, `PitPending`,
  `BuildCurated`, `SwitchAlias`, `ClearPending`, `FinishPublish`, `ClosePlan`. `Fail` is the
  exception handler of `apply_plan`; `Kill` takes a process away at any point of `KillAt`. `torn`
  remembers the partitions that a kill left between data and manifest.
- *Resumption.* `Preflight` takes a plan that is not closed and whose checkpoints still certify
  their files (`CheckpointsVerify`); `ResumeAt` is the first step without a checkpoint.
  `EnterPublish` recognises by the owner of the alias that the process died after the switch
  (`_recover_publish_receipt`).
- *The operator* is a constant: `Resumption = "any"` resumes whatever it likes, as the code lets
  it; "finish" resumes a half promoted plan before another one starts; "abandon" does not come
  back to a plan that another one has overtaken. The restrictions are used only by runs whose
  property the code does not keep without them, and section 6 says so.

Left out: `force_full`, dividends, the metadata refresh and `check_only`; content addressing of
`version_id` (each publication counts as a new version). `apply_plan` saves `apply_state.json`
once before it takes the lock; that attempt counter is modelled where it matters, in `DailyRun`
(`Attempt`).

### 3.3 `DailyRun`

- *Files*: `run` is `run_state.json`, `manifest` is `manifest.json` (0 for an absent dataset),
  `incidents` the open incidents that `events.jsonl` amounts to.
- *Memory*: `proc` holds the state as it was loaded, the dataset that was verified, the gates
  that fail, the incidents as they were read, and the manifest as it was read. All are used
  later than they are read, which is where the interleavings are.
- *Records*: a step has a status and an input, the dataset version, by which `_step_reusable`
  decides. The input of sync_publish is the hash of `apply_state.json`, which `applies` counts;
  only those changes are counted that a checkpoint can notice.
- *The lease* is held in the points of `Leased`. `Refused`, `SkipNonTrading` and `NotReady`
  return before it and still write; `EnrichRead` to `EnrichWrite` come after.
- *Outcomes* of a provider, gate, regression or channel are nondeterministic. A gate verdict
  that only warns is not told apart from one that passes. The report's input also hashes the
  state it renders; the dataset version is kept of it.

### 3.4 `Delivery`

A row per idempotency key, with status, lease and owner; a job per worker, which is at "send",
"taken" or "refused". `Reserve`, the records and `Recover` are one transaction each; the send is
between two of them, and `Expire` (the clock) and `Crash` may come at any point.
`SendAnswerLost` is a channel that took the message and raised. `disturbed` is a history
variable: the key's delivery outlived its lease, or died between the send and the record, or
lost an answer. `calls` bounds how often a worker reserves.

### 3.5 `DailySignal`

- *State*: `deployment`, `signal`, `run` are the three tables; `files` the directory of each
  signal, of which the verdict each file was written with is kept, and whether the scores are
  torn; `sent` what the channel took; `dataset` and `synced` what the daily sync left behind.
- *A signal* is a triple of deployment, dataset and session, as `signal_id` is hashed from them.
  Scores are the model and the content the dataset has for the session: two datasets with the
  same content make a collision under two ids.
- *Steps*: `Start` (start_run), `Sync`, `Read` (pin the dataset, read the deployed model), `Judge`,
  then the files in the order of the code: `WriteJson` for the attestation, the health and the
  manifest, which are renamed into place, `Open` and `Close` for the parquet and csv files of
  scores, which are overwritten one after the other and torn in between; `Register` / `Replay` /
  `RefuseSignal` (register_signal), `Notify`, `Finish` or `Fail` (finish_run). `Deploy`,
  `ChooseRollback`, `Rollback` and `Refit` are the registry of models; `SyncElsewhere` another sync.
- *History*: `decided` the verdicts the files of a signal were written with, `rewritten` the
  signals whose scores were opened under a row or under another writer and not written alone
  since. `shared` says that two processes have scores open together: what they leave is either's
  or torn.
- *Health checks* that read what the model has (data as of the session, a clean sync) are
  checked; the statistical ones are a choice of the verdict. Delivery is a channel that takes
  the message or does not: its ledger is the module `Delivery`.

### 3.6 `Registry`

- *State*: `place` and `built` are the directories of releases and versions, `left` the
  candidates that dead processes left, `pointer` the alias files; `row`, `lineage`, `recorded`,
  `alias` and `chosen` are the tables, and `source` says from which manifest a row was taken.
  Contents are names, as directories are named after their content.
- *Candidates.* A version is built in a directory with a dot in front of its name. `Build` writes
  its manifest, in place of the copied one of its parent; `Stamp` writes it again with the final
  path and PUBLISHED; `Place` renames the directory. `Listed` is what `rglob` finds while others
  build: the versions in place, what dead processes left, and any part of what the living hold
  (`Holds`). Two candidates of one version are told apart by what their manifests say only.
- *Operations* are sequences of transactions and renames of one process: export (build,
  register, promote), release (freeze, build, register, record, snapshot), import, recovery of
  an alias (`Choose`), promote, select, archive, rebuild. `WritePointer` and `Commit` are the
  two halves of `promote`, whose transaction stays open while the pointer file is replaced
  (`Unlocked` keeps the other writers waiting). `Archive` renames a release into the archive; one
  that is there already is removed file by file, hence "torn" first and gone in a second step.
- `Kill` rolls the transaction back and leaves the pointer; `LoseRegistry` deletes the database
  while nothing runs. `drifted`, `split` and `phantom` are history variables that name the
  situations in which pointer and alias, or the two bound aliases, are known to differ, and the
  versions a rebuild took from a candidate.

### 3.7 `Execution`

`record` is the store, `call` what a thread holds of the record it read. Each access to the
store is a step: `Get`, `Submit`, `Quota`, `Enqueue`, `Run`, `Begin`, `Handle`, then `Succeed`,
`Fail` or `Cancel`, for both backends. The queue (`queued`, `Redeliver`) is at-least-once, as
the comment of the worker backend assumes: a delivery that raised or was interrupted comes
again. `disturbed` marks requests on which calls overlapped, or whose outcome was lost between
the handler and the store.

### 3.8 `FoldPlan` and `WalkForward`

`FoldPlan` has no state: the windows of `build_walk_forward_plan` as integer arithmetic over
positions of a calendar, and `Integrity`, what `validate_fold_integrity` asks of them.
`WalkForward` extends it:

- `research` is the sequence of fold directories in the order of training, `checkpoint` and
  `partial` the files `<checkpoint>` and `<checkpoint>.tmp`, `lock` the selection locks,
  `evidence` the evidence directories.
- A run inspects each fold (`Inspect`), adopts it or trains it (`Train`, `Record`, `Commit`,
  `Replace`); after the rolling folds `Stream` verifies their predictions and `WriteLock` writes
  the lock; after the holdout `Finish` writes the evidence and decides promotion.
- Training is deterministic: two trainings of a fold and recipe make the same bytes, which is
  what `_prediction_is_unique` compares. Quality is a number per recipe, thresholds are numbers
  to be reached. `interrupt_after_fold` is a `Kill` between two folds.

### 3.9 `Quickstart`

- *State*: `ledger` is `run_state.json`, `evidence` what the file of a stage and its artifacts
  hold, `matrix` is `research_matrix.json`, `lock` the lock file and whether it is older than
  twelve hours, `made` the sequence of successful executions, so that a result is a number one
  can ask the inputs of.
- *Steps*: `Plan` (resolves the alias), `Load` (RunState), `CheckLease`, `Unlink`, `Create` or
  `Refuse` (research_lock), then per stage `Reuse` or `Start`, `Operate` or a failure, `Finish`;
  `Packs` and `Predictions` are the checks between stages; `WriteMatrix`, `Release`, and
  `Reject` of `main`. `MoveAlias`, `Alter`, `Expire` and `Kill` are the world.
- *Inputs*: an input hash is a record of what goes into it, the recipe (split, portfolio,
  configuration), the plan's dataset anchor, the verified dataset, the predictions.
- *History*: `altered`, `overtaken` and `robbed` name the executions, ledger copies and locks to
  which something happened that the code cannot see.

### 3.10 `Custody` and `AShareSimulator`

`Custody` has two functions, settled and bought shares: a purchase adds to the second, a sale takes
from the first, an opening settles everything and may multiply it. `AShareSimulator` is one call of
`simulate_ashare_orders`: `BeginDate` is release_t_plus_one and apply_corporate_actions, `Reject`,
`Buy` and `Sell` are the outcomes of `execute_order` with its checks in the code's order,
`MarkAccount` is `_mark_account`; `RaiseOnFraction` and `RaiseUnmarked` are its two errors. Bars,
orders and corporate actions of a date are chosen when it begins, which is as general as reading
them from frames. Cash is an integer in 1/10000 of a tick, so that fees are exact; the impact is
linear in the participation instead of its square root, and the properties use only that it moves
the price against the order. The bisection of `_fit_buy_to_cash` is a recursive function with the
bounds of the code; `BestPurchase` and `FairSale`, its references, are sets of quantities taken from
the documents. The open price of a row is any, within its limits or not, for the code infers limits
and checks nothing. The mapping to `Custody`: settled is available, bought is total minus available.

## 4. Runs

`tlc -workers 2 -config <cfg> <module>` in this directory. Sizes are distinct states.

| run | cfg | instance | checks | size |
| --- | --- | --- | --- | --- |
| `daily_overlap` | `MCDailySyncOverlap` | 2 processes, 2 plans, 2 sessions, 2 revisions of which the second is bad, 1 failure, 1 kill at any point, resume anything | `IndexNeverAhead` `OnlyValidated` `PublishedOnce` `BronzeMonotone` `ImplementsPublication` | 2.9 M |
| `daily_handover` | `MCDailySync` | an optional endpoint, fundamentals, a kill; half promoted plans are abandoned | `NothingForgotten` `PublishIsComplete` | 1.0 M |
| `daily_incremental` | `MCDailySyncIncremental` | incremental publication, fair, 1 kill anywhere but between a partition and its manifest, half promoted plans are resumed | `PromotedIsPublishedUnlessRewritten` | 0.15 M |
| `daily_run` | `MCDailyRun` | 2 processes, 2 plans, 3 sessions (one without trading), 2 mishaps or needless executions | `SucceededEvidence` `ResearchGated` `OpenedOnce` | 1.8 M |
| `daily_run_recovery` | `MCDailyRunAlone` | 1 process, fair, a kill, a failure, a window that opens late, a plan without regression | `RunsFinish` `IncidentsEnd` | 0.16 M |
| `daily_signal` | `MCDailySignal` | 2 inferences, 2 models, 3 datasets, a rollback, 2 events outside (a sync, activations), kills between and inside files | `OnlyLatestPasses` `FilesBackPass` `AnnouncedIsRegistered` `SignalsOfLiveModel` `RollbackOfRetired` | 2.2 M |
| `delivery` | `MCDelivery` | 2 workers, 1 key, 2 attempts, 2 reservations each, every disturbance | `OnceUnlessDisturbed` `OneSender` `SentIsFinal` `NeverStuck` | 11 k |
| `registry` | `MCRegistry` | 2 processes, 3 versions that derive from each other, 2 releases, 4 operations, a candidate left behind, a lost database, kills | `NamedIsInPlace` `PointersAgree` `SnapshotBound` `RebuildRestores` | 6.4 M |
| `execution` | `MCExecution` | 2 threads, both backends, 4 calls, a failure, an interruption, fair | `RunsOnce` `TerminalStands` `DeliveredSettles` | 0.41 M |
| `walk_forward` | `MCWalkForward` | 2 runs of any of 2 namespaces and 2 recipes, 2 rolling folds, a kill, an alteration | `HoldoutAfterLock` `PromotedOnce` `TrainedOnce` | 1.7 M |
| `quickstart` | `MCQuickstart` | 2 users with different splits, 2 requests, 1 mishap of any kind | `OneWriter` `ResultOfItsInput` `ReportsIntact` `AttemptsRemain` `NotRepeated` | 1.0 M |
| `ashare_simulator` | `MCAShareSimulator` | 3 dates, an ordinary and a STAR instrument, 2 orders a date, 2 corporate actions, 4 bars of which one opens above its limit | `ImplementsCustody` `AnswersAreBest` `TradingCosts` | 1.8 M |

What the properties say of the code:

- `BronzeMonotone`: the base hashes refuse a plan that another one has overtaken, in every
  interleaving of staging and promotion; the two exceptions, a partition that a kill left torn
  (`Torn`) and an older factor history that a resumed plan puts back (`PutBack`), are spelled out.
- `IndexNeverAhead`: the factor index is a cache that decides what is compared with the
  provider; ahead of Bronze it would hide a difference for good. The code does not keep that
  outright. The exceptions are a factor that was put back (`WasPutBack`), a repair that was staged
  and is forgotten (`Forgotten`: a kill or failure inside the loop, or before the plan names the
  repairs), and a partition that a kill left without its manifest (`torn`). Each of them bites
  within the bounds of the run, the last one with `BadVersions <- None` instead of a bad second
  revision, under which the property also passes (3.5 M states): section 6.
- `ImplementsPublication`: seen from outside, the alias is switched atomically, by one plan at a
  time, never twice by the same plan in a row and never backwards.
- `PublishedOnce`, `OnlyValidated`, `PublishIsComplete`: no duplicate publication after a kill
  between the switch and the checkpoint; nothing that a gate rejected, and no curated day older
  than its inputs, gets under the alias.
- `NothingForgotten`: a published session that no longer agrees with Bronze or with the
  fundamentals is named by the pending ledger or by a plan that is still to be finished. It and
  `PublishIsComplete` speak of the sessions Bronze has (`Present`); section 6 says how a plan can
  leave one out.
- `SucceededEvidence`: a SUCCEEDED manifest has every step on record on the very dataset it
  declares, although steps stem from different attempts, the alias moves in between and refused
  processes write the same files.
- `ResearchGated`: no regression on a dataset this plan's gate did not let pass.
- `OpenedOnce`: an open gate incident is not opened again.
- `RunsFinish`, `IncidentsEnd`: every plan finishes unless the alias passed it, and an incident
  of a trading session is resolved, whatever was killed on the way.
- `OnceUnlessDisturbed`, `OneSender`, `SentIsFinal`, `NeverStuck`: an undisturbed message is
  accepted once, by one sender at a time, SENT stays SENT, and no row stays locked.
- `OnlyLatestPasses`, `FilesBackPass`, `AnnouncedIsRegistered`: in every interleaving of two
  inferences the newest PASS signal of a date is the only one, and no message or PASS run stands
  for a signal that is not registered. Behind its row are the five files with its verdict,
  wherever a process was killed between or inside them; only scores that were overwritten under
  the row, or by two writers at once, may be torn, until one process has written them alone.
- `SignalsOfLiveModel`, `RollbackOfRetired`: deployments and rollbacks that
  interleave with an inference, or with each other, never activate
  a model that is not retired any more, and a signal is of a model that was live when its
  process read it.
- `NamedIsInPlace`, `PointersAgree`, `SnapshotBound`, `RebuildRestores`: what a row, alias or
  pointer names exists on disk whoever dies or archives, unless a rebuild registered it from a
  candidate (`phantom`), and a release that is named is whole somewhere; two promotions leave file
  and database of the same version; a release and its dataset move together; a rebuild links every
  parent in whatever order it reads the manifests.
- `RunsOnce`, `TerminalStands`, `DeliveredSettles`: duplicate and late deliveries do not run a
  finished request, late calls do not change it; every delivery settles, overlaps included.
- `HoldoutAfterLock`, `PromotedOnce`, `TrainedOnce`: no holdout is trained before a lock over
  exactly its rolling folds; promoted predictions of a recipe rest on one set of fold runs,
  across namespaces; a complete fold is not trained again.
- `OneWriter`, `ResultOfItsInput`, `ReportsIntact`, `AttemptsRemain`, `NotRepeated`: one run at
  a time writes an output directory, reported results are of the recipe and dataset beside them
  however many attempts they stem from, altered outputs are computed again, the ledger keeps its
  attempts, and completed stages are reused.
- `ImplementsCustody`: whatever is bought, sold and multiplied, the simulator is a custody
  account with T+1 settlement; in particular a share multiplier meets no locked shares.
- `AnswersAreBest`: bisection, lots, shared capacity and fees together give a purchase the
  largest quantity that lots and cash allow, and a sale less than a lot below what it asks for,
  has settled and may take of the capacity; a residual below the minimum is sold in full or not at
  all. The rounding of a sale is left open because the documents fix it for whole positions only,
  and there the code does otherwise (section 6).
- `TradingCosts`: no fill raises the account's worth at the open prices, each brought within the
  limits of its row as the fill is, and no purchase overdraws it.

**Bounds.** Two sessions are enough for a late session, a revision of a published one and a gap;
two versions of a partition for "older" and "newer", a third for a bad one. Two plans and two
processes suffice for every race found here: locks and leases exclude pairs, and the files race
pairwise. `MaxKills = 1` places one kill at every point of `KillAt`; repeated kills are a chain of
resumptions from states the same run reaches. Failures, revisions, versions and needless
executions are bounded by counters in the guards of the actions that spend them; each is named
in the module's CONSTANTS. Two-process runs keep kills and failures small; the proofs cover any
number of either.

`registry` has three versions because lineage needs a grandparent, and four operations because a
promotion, a snapshot, an archive and a rebuild interfere only in such chains; one candidate left
behind is what a rebuild can mistake for a version. `daily_signal` bounds the syncs and activations
together by two, the fewest with which a rollback meets a dataset that changed. `walk_forward` has
the smallest calendar with two rolling folds. `quickstart` has one cell: cells share only the ledger
and the matrix, and the proofs are for any number of them; one mishap at every point of two runs,
which is where each exception of the properties occurs. `ashare_simulator` shrinks lots to 2 and 3
shares and the cash to a few lots, so that the minimum commission, the capacity and the odd lots the
multipliers 3/2 and 1/2 leave decide between quantities; three dates are a purchase, its unlocking
under a multiplier, and the sale of the tail.

**Symmetry** over plans, processes and models is used only by runs without liveness properties.

**Deadlock** is not checked: each of these systems stops legitimately, when every plan is closed
and the provider has nothing new, or when a bound is used up.

**Fairness.** `DailySync`: a process that is not killed goes on (weak), and a plan that can be
resumed again and again is (strong): the timer's and the operator's part. `DailyRun`: processes
go on, provider windows open (weak); a plan that is `Wanted` is executed again (strong), which
is what the runbook `src/docs/operations/sre-slo-and-game-day.md` asks of the operator.
Executions nobody wants get no fairness. `Delivery`: only the clock; no worker is assumed to
take a step. `Execution`: threads go on with their call, and the queue delivers again what was
not answered (weak), which is what at-least-once means. `DailySignal`, `Registry`, `WalkForward`,
`Quickstart` and `AShareSimulator` state no fairness: their properties are about safety. `KillAt` in
`daily_incremental` leaves out one point, between a partition and its manifest, after which no
resumption recovers (section 6).

## 5. Proofs

`tlapm <module>.tla`; every obligation is proved, with no assumption beyond the ASSUMEs of the
modules (constants are naturals or non-negative, the factor endpoint is a required one, `NoOne`
is no plan, versions bound to releases exist, ...), which TLC evaluates in the runs. Each
machine has a theorem `TypeCorrect`, `[]TypeOK`; no run spends time on it.

- **`DailySync_proofs`.** `TypeCorrect`. `PublicationNotRepeated` (`PublishedOnce`) is not
  inductive: the test is made when publishing is entered and used several steps later. `IInv`
  adds that one process is inside the lock (`OneWorker`), that the plan that owns the alias has
  its qlib_publish step recorded as the next one or behind it (`OwnerReceipted`), and what is
  true of a process at each point: before the switch the alias is not its plan's, from
  enter_publish on it is not ahead of its plan, and at the switch the recorded next step is
  qlib_publish (`Placed`). `PublicationImplemented` maps each step to a step of `Publication` or
  to a stutter; the switch needs `PublishedOnce`, the guard against an alias that is ahead, and
  that no other process could move the alias in between.
  `OnlyValidatedPublished` (`OnlyValidated`) rests on `Validated`: Bronze, the curated days and
  the alias hold no required partition that fails the gates, and what a process inside the
  writes still has to write passed them. The second part is needed because the gate is
  evaluated once, before the first write; it holds to the last write because only the process
  past the lock stages, and it is the one that writes (`OneWorker`). Recovery from a kill needs
  no case of its own: a resumed promotion begins with the gate again.

  `BronzeNotReplaced` (`BronzeMonotone`) is about two plans of which one overtakes the other. The
  steps fall into few kinds (`StepKinds`): most are `Calm`, they touch neither Bronze nor what is
  staged; the rest stage, write Bronze, or begin and end something. The invariant `Overtaking`
  says that no version is newer than the provider's (`Versions`), that a staged response is at
  least as new as the base it was staged against unless a kept factor history made it
  (`Origins`), that a process inside the writes has the store to itself (`Alone`), that the
  ledgers agree with what is staged (`Ledgers`, `StillPlanned`, `Repairing`), and that the base
  hashes still hold until the last write of the promotion, partition by partition (`BasesKept`).
  The last one is why the code may check the bases once, before the first write. It holds
  without hypotheses, for any failures and kills.

  `IndexBehindBronze` (`IndexNeverAhead`) holds for any kill points, failures and resumptions,
  without a hypothesis; what the code does not keep is in the property, by name. `Indexed` says
  that a partition is torn only inside the write of a process or because a kill left it so
  (`Untorn`), and that what a plan is going to write into the index is foreseen: Bronze has it, an
  exception covers it, or the plan has it staged. `Ready` says so of the plan on disk (`Blank`,
  `Beyond`, `Begun`, `Settled`: once the plan is past factor_reconcile, for every date up to its
  session), `Underway` of the process that works on it: repair by repair while it stages
  (`Reconciled`), write by write while it promotes (`Promoted`). The other half of the argument is
  `Steady`, what no step takes back: a torn partition, an exception, a staged history, and a
  forgotten repair stay what they are, hence a factor that is known stays known (`KnownStays`).

  `NothingIsForgotten` (`NothingForgotten`) and `PublishedIsComplete` (`PublishIsComplete`) share
  the invariant `Accounted`. `Books` is the account: a day of Bronze that the curated days or the
  alias do not have as it is now is owed (`Owed`) by the pending ledger, or by a plan that is in
  the middle of its promotion and has the day in its change summary; likewise the fundamentals.
  The account is kept because one plan at most is half promoted (`OneHalfDone`) and because what
  that plan remembers, in `apply_state.json` or in the process, covers the ledger (`Covers`):
  pit_refresh and the publication write the ledger from their own context, so a context that
  knew less would erase something. The switch then makes every day as Bronze is, and the receipt
  that replaces a repeated publication stands for a fresh alias (`Fresh`), hence clearing the
  ledger after it loses nothing. The hypothesis `Orderly` says: synchronisations publish in full;
  a half promoted plan is finished before the next one is promoted, or abandoned for good; no kill
  inside pit_refresh; and, if plans are abandoned, none between two files of the promotion. TLC
  refutes both properties without any one of these (two plans, two sessions, two failures or one
  kill), so nothing in it is there for the proof alone. The failures, and the kills at the other
  points, are not bounded.
- **`DailyRun_proofs`.** `TypeCorrect`; then three invariants, one per property. `LedgerInv`:
  leases exclude, hence what a process read of the ledger at "slo_events" is still what the
  ledger says; `IncidentOpenedOnce` follows. `GateInv`: every copy of a plan's state (on disk,
  in a manifest, loaded by a process, read for the enrichment) that claims a passed gate or an
  attempted regression rests on an allowed dataset; stale copies are harmless because `allowed`
  only grows. `ResearchIsGated` follows. `EvidenceInv`: at each point of the DAG the records
  behind it are there and carry the dataset in hand, a version is never 0, and a process that
  skipped the DAG does not say SUCCEEDED; `SuccessIsEvidenced` follows. TLC checked all three
  invariants first, with and without kills.
- **`Delivery_proofs`.** `TypeCorrect`, `DeliveredOnce`, `SingleSender`, `SentStays`, from
  `IInv`: for an undisturbed key the active worker owns the lease of the row, and the number of
  acceptances is what the worker's phase and the row's status say.

- **`DailySignal_proofs`.** One invariant per theorem: `Live` (the model of a process past its
  reads was deployed, or has been switched since), `RollbackChosen` (a rollback's target was
  retired, hence activatable, when it was read; `Activatable` checks again), `Announcing` (a
  process at notify or finish has a registered signal), `Ordered` (orders count the registered
  rows, so that the newest has the largest). `FilesBackSignals` (`FilesBackPass`) rests on
  `Backed`: each file holds a verdict that some inference had (`decided`), or is torn, which only
  scores can be (`OnDisk`); a process has on disk what it has written so far (`Decision`); and
  once the signal is registered, or a process is past the scores, they are torn only if somebody
  opened them under the row or beside another writer (`Sound`).
- **`Registry_proofs`.** `AllReady` says what a process may rely on at each step (the directory
  it is about to register is in place, the version it promotes has a row, a manifest found in
  place is of a version in place); it is stable because directories are never removed and rows
  only grow (`Grows`), but for the loss of the database, which happens while nothing runs.
  `NamedStaysInPlace` (`NamedIsInPlace`) adds that a release is removed from the active place file
  by file only when the archive has it (`Whole`), and that a row was taken from a candidate only by
  a rebuild, which `phantom` remembers. `Agreement` adds that one process at most is inside
  promote's transaction. `RebuildIsComplete` (`RebuildRestores`) is about the two passes of a
  rebuild over the manifests it found, candidates included: what the first is through with has a
  row, in the second all have one, and what the second is through with is linked to every parent
  that was found (`Rebuilding`); other processes only add rows and links meanwhile
  (`KeepRebuilding`).
- **`Execution_proofs`.** `Undisturbed`: a call that is alone on its request still sees what it
  read (`Sees`), and `outcomes` and `begun` are what status and attempts say (`Counted`).
- **`WalkForward_proofs`.** `PlanPasses`: every plan the code lays out passes its own integrity
  check, for any calendar; `EnoughRolling`: the error after the loop is unreachable;
  `RefitIsSound`. `HoldoutIsLast` from `Sound` (the folds of a process are in order, known and
  older than the training in hand, and a process at the holdout has its lock), `LocksKnown` and
  `LocksHold`. `PredictionsPromotedOnce` (`PromotedOnce`): of two runs with the same predictions
  the later one passed its gate only if the two raced (`LatePassed`), and the folds of an
  evidence are recorded runs with a passed gate (`Manifested`). `FoldTrainedOnce` (`TrainedOnce`)
  from `Kept`: a complete fold that is not excused (altered, killed before its checkpoint, or in
  another's hand) is what the checkpoint of its key names, and still is when a run that inspected
  it begins to train.
- **`Quickstart_proofs`.** `Sound`: every record, copy and result, on disk or in memory, refers
  to an execution with just its inputs (`ResultsOfInputs`). `LeaseHeld`: a run inside that was
  not robbed owns the lock file (`Exclusive`). `CopyKept`: a copy that was not overtaken is the
  ledger (`CompletedReused`, `AttemptsKept`). `Intact`: wherever the hash of a record is the one
  on disk, the content is not altered, and an execution altered later is a newer one
  (`IntactResults`). TLC checked the four first, by simulation with more requests and mishaps
  too.

Only model-checked: all liveness (`RunsFinish`, `IncidentsEnd`, `NeverStuck`,
`DeliveredSettles`, `PromotedIsPublishedUnlessRewritten`), which is beyond this prover, and, so
far, the three properties of `AShareSimulator`.

## 6. Where the code and its documents disagree

Found with properties that the modules define and no run checks; adding one to a `.cfg` shows
it:

1. Kills inside pit_refresh (`KillAt <- PitPoints`) violate `NothingForgotten`:
   `_refresh_pit_from_extended` replaces the table and its fingerprint before the pending ledger
   learns of the change. The resumed step finds the fingerprint current; published sessions keep
   the older fundamentals.
2. Two failed plans of which the older is resumed (`Resumption = "any"`, `MaxFailures = 2`)
   violate `NothingForgotten`: pit_refresh of a resumed plan writes `pending_publish.json` from
   its own context and erases the dates another plan left.
3. `PromotedIsPublished` of `DailySync`: a factor repair rewrites a staged response that the
   market_fetch checkpoint pins by hash; after any later failure the plan cannot be resumed.
4. `SameImmutableInput` of `DailyRun`: a resumed plan verifies the alias anew and goes on with
   the dataset of another plan, whereas the runbook speaks of the same immutable input.
5. `LiveLeaseExcludes` of `Delivery`: `record_delivery_attempt` does not compare the lease
   owner; a worker that outlived its lease clears its successor's.
6. `ReplayIsExact` of `DailySignal` ("return False for an exact idempotent replay",
   `ops/ops_state.py:439`): `register_signal` takes a row with the same scores for an exact
   replay whatever its status. A signal that was REJECTED, and is inferred again with PASS,
   stays REJECTED in the table while the run ends PASS and announces it.
7. `AliasPublished` of `Registry` (`src/docs/qlib_data_platform.md`: aliases only target
   published versions): a second registration, or a rebuild, sets the row of an import back to
   VALIDATED, the status of its manifest, while the alias is on it.
8. `RowsInPlace` of `Registry`: `_publish_candidate` writes the manifest with PUBLISHED and the
   final path into the candidate before it renames it (`datasets/qlib_export.py:251`), and a
   rebuild reads every manifest below the root (`rglob`, `datasets/dataset_registry.py:441`). A
   process killed in between, or merely slow, has its candidate registered under a path that does
   not exist (five states: an export, a rebuild beside it). The copied manifest of a parent and
   the first manifest of a candidate are found in the same way.
9. `ReleaseRowsTrue` of `Registry` ("historical registry rows remain replayable after the physical
   move to archive/", `bootstrap.py:59`): releases are moved first and registered again
   afterwards; a kill in between leaves rows that name the active directory. Nothing reads that
   column yet.
10. `SignalImmutable` of `DailySignal` ("writes a local immutable live-signal directory",
    `src/docs/cli_reference.md:115`): an inference over the same model, dataset and session writes
    into the directory of the registered signal, the two files of scores in place. A kill inside
    leaves a registered PASS signal with torn scores, which `_previous_live_score` and the preview
    read without comparing a hash.
11. `IndexNeverAhead` of `DailySync` without its exceptions ("A failed plan therefore cannot poison
    the index", `data/planned_daily_sync.py:887`; "Failed plans therefore cannot advance
    factor-index provenance", `data/production_daily_sync.py:304`). A plan that is killed, or fails,
    inside `_stage_factor_repairs` or before the repairs are saved into the plan, and is then
    resumed, lays its staged rows over the local history, finds no difference, and names no repair:
    it promotes without them and writes the whole remote history into the index. Without `Forgotten`
    `daily_overlap` shows it with a kill or with a failure, in about twenty states.
12. `FullSalesUnrounded` of `AShareSimulator` ("full-position sells are not rounded through the
    buy-lot function, so residual holdings can be liquidated",
    `src/docs/professional_research_p1_p3.md:107`): `normalize_sell_quantity` rounds the sale of a
    whole ordinary position down to lots, so that of 150 shares 100 are sold, and a second order
    sells the tail.
13. `MarketCosts` of `AShareSimulator`: `resolve_limits` infers limits from the previous close and
    does not round them to a tick (1.26 becomes 1.386, the exchange says 1.39). An open price above
    such a limit is not refused, and a purchase is filled at the limit, below the market.

Met while modelling, excluded from the passing runs by a named exception, a history variable,
`KillAt` or `Resumption`, and reproducible by widening them:

- a kill between a partition's data and its manifest: `write_if_changed` takes the partition for
  unchanged and raw_validate rejects it for ever. `daily_overlap` kills there and keeps its
  properties (two of them except the torn partition); the liveness properties fail with
  "write_manifest" in `KillAt`, and so do `NothingForgotten` and `PublishIsComplete` with
  "write_data" or "write_manifest" when the half promoted plan is abandoned, because another plan
  can then overwrite what its summary names;
- a plan whose session lies more than `market_catchup` days after the last session of Bronze
  leaves the days between out. It promotes its own day and fails in raw_validate, and a plan for
  an older session publishes afterwards: the alias then lacks a session that no ledger names.
  `LastDate = 3`, `Lookback = Catchup = 1` shows it, and the attempt to prove
  `PublishedIsComplete` for every session found it; the properties quantify over the sessions
  Bronze has;
- a plan resumed after another one repaired a factor puts the older factor back (`PutBack`); the
  factor index, which the other one wrote, is then ahead of Bronze (`WasPutBack`). And an older plan
  replaces a newer partition that a kill left torn (`Torn`): its base hash is the one the stale
  manifest still names; the index is ahead of it then. All were found by the attempt to prove the
  properties without them;
- with incremental publication an optional endpoint that arrives late for a published session is
  never published (`Optional = {}` in `daily_incremental`);
- `run_state.json` of a daily run is loaded and saved before the lease: a refused process can
  write an older state over the running one's. Safety holds with it (`daily_run` and the
  theorems include it); that the plan still finishes is checked with one process, because a
  stale sync_publish record whose `apply_state.json` changed fails every later attempt;
- the delivery incident is read and appended outside of the lease, so it may be opened twice; it
  is not resolved for a session without trading, whose manifest has no notification step; checks
  that only warn are not resolved when a reused gate is not evaluated again;
- `_notify` of the daily run sends again on every attempt and does not go through the delivery
  ledger;
- a daily signal run that is killed stays RUNNING; nothing closes it;
- `promote_research_snapshot` writes no pointer file: a rebuild after it restores the alias that
  was promoted before (`drifted`); a release whose archiving is cut short after its manifest was
  removed raises in every later `archive_except`;
- Execution: an interrupted local run stays QUEUED or RUNNING and counts against the quota until
  it is cancelled; a delivery does not ask the quota when it runs a FAILED request again; a
  delivery of an unknown request that the quota refuses is refused as long as the quota is full;
  overlapping calls replace CANCELLED with SUCCEEDED or run the handler twice (`disturbed`);
- walk-forward: a fold that is trained again, because its artifact was altered, its run died
  before the checkpoint, or another namespace has the recipe, is never unique and its evidence
  never promoted; `promotion_thresholds` are not part of the holdout's fingerprint, so a run
  with other thresholds adopts a holdout judged by the older ones, seen before its own lock; the
  evidence directory is named after the folds alone; the temporary name of a checkpoint is
  shared;
- quick starts: the ledger is loaded before the lock, so a run that finished in between is lost
  from it (`overtaken`); a killed run's lock keeps the directory for twelve hours, whereas
  `src/docs/research_pipeline_ux.md` says that the next invocation reruns the stage; two runs
  that find the same stale lock, or the `finally` of a run that outlived its lock, remove a live
  one (`robbed`), and the second of two unlinks raises what `main` does not catch; a run that is
  refused writes REJECTED over the matrix of the one that succeeded; the alias is resolved by
  the plan, by the verification and by every child (`wild`); outputs are hashed when a stage
  finishes, not when its child exits;
- A-share simulator: a STAR sale may leave an odd lot, whereas the docstring of
  `normalize_sell_quantity` speaks of not creating one; corporate actions of one date apply in
  the order of their ids, and a dividend behind a multiplier is paid on the new shares; with a
  minimum commission a tiny sale can cost more than it brings and overdraw the account.

## 7. What is not modelled

Listed as hazards without a property: two drains of the artifact outbox, the ownership transfer
of a project, the rotation of a token. Each is a few transactions on one row, and says less
about this system than the modules above. The reference counts of the control plane storage have
no user.

Of the modelled parts: `force_full`, dividends, the metadata refresh and the unplanned modes of
the synchronisation; backfill and manual overrides of the daily run; tasks and acknowledgements
of the operations state; verification of contents and the repair of a broken staging release in
the registry; the limits of a quota other than concurrency; HPO, the continuous backtest and
reports of a walk-forward run; of the quick starts the release stage and walk-forward mode,
which `enforce_governance` rejects, overlays of differing `--config` files, a profile edited
between plan and child, and prior research ids. A quick start is taken to ask for the prediction
backtest. Exceptions that `main` does not catch are kills. Liveness of `Quickstart` is not
stated: with a lock that blocks for hours it would say little. Of the simulator: the inference
of price limits and of fee regimes from dates, which is a table, the sums of the report, and the
ledger that the guard of Qlib's Exchange keeps inside Qlib's account.

The numerical research code (factors, training, evaluation, studies, reports), artifact schemas
and the provider adapters are data transformations on floating point frames: no protocol, and
out of a model checker's reach. They are most of the implementation, which is why the
definitions here stand for about a tenth of its lines. The command line, settings and scheduler
units render or parse configuration. The database engine, `flock` and `os.replace` are taken to
be atomic as their documentation says; loss of data that was written but not synced to disk is
not modelled.
