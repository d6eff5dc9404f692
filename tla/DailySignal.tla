------------------------------ MODULE DailySignal ------------------------------
(***************************************************************************)
(* The signal of the day: runtime/daily_signal_runner.py and               *)
(* runtime/live_inference.py over the operations state of                  *)
(* ops/ops_state.py, with models/model_registry.py beside them.            *)
(*                                                                         *)
(* run_daily_signal records a run, synchronises the market data, infers    *)
(* the scores of one session with the deployed model, judges their         *)
(* health, writes a directory named after the signal file by file,         *)
(* registers the signal, announces it and closes the run.  Every call of   *)
(* OpsState is a transaction of its own, and nothing spans two of them:    *)
(* while one process infers, an operator deploys or rolls back a model,    *)
(* another process works on the same session, a sync publishes a dataset,  *)
(* or the process is killed.                                               *)
(*                                                                         *)
(* Scores are what the model makes of the content the dataset has for the  *)
(* session, so two datasets with the same content give the same scores     *)
(* under two signal ids.                                                   *)
(***************************************************************************)
EXTENDS Naturals, FiniteSets

CONSTANTS
    Model,          \* deployment ids
    Proc,           \* processes that infer
    Operator,       \* processes of model-rollback
    LastSession,    \* sessions are 1 .. LastSession
    Asked,          \* the sessions signals are asked for
    Ends,           \* Ends[d]: the last session of dataset d; 0 when that is before 1
    Content,        \* Content[d][s]: what dataset d holds of session s
    NoModel,
    MaxRuns,        \* bound: inferences that are started
    MaxSyncs,       \* bound: syncs elsewhere that change what they leave behind
    MaxOutside      \* bound: those syncs and the activations of a model together

Session == 1 .. LastSession
Dataset == DOMAIN Ends

ASSUME ModelAssumption == NoModel \notin Model
ASSUME DatasetAssumption == /\ LastSession \in Nat /\ LastSession > 0 /\ Asked \subseteq Session
                            /\ Ends \in [Dataset -> 0 .. LastSession]
                            /\ 1 \in Dataset /\ Dataset \subseteq Nat
ASSUME BoundAssumption == {MaxRuns, MaxSyncs, MaxOutside} \subseteq Nat

Signal == Model \X Dataset \X Session
Date(s) == s[3]
Score(s) == <<s[1], Content[s[2]][s[3]]>>

Verdict == {"none", "PASS", "REJECT"}
NoSignal == [status |-> "none", order |-> 0]

(* The files of a signal, in the order they are written.  The three JSON   *)
(* files (attestation, signal_health, manifest) are replaced by a rename.  *)
(* "scores" is model_score.parquet and model_topk.csv, overwritten one     *)
(* after the other: torn from the first byte of the one to the last byte   *)
(* of the other, and so after a kill in between.                           *)
Names == {"attestation", "scores", "health", "manifest"}
NoFiles == [f \in Names |-> "none"]

VARIABLES
    deployment, \* [Model -> status]: the table deployments
    signal,     \* [Signal -> status and order of registration]: the table signals
    run,        \* [1 .. MaxRuns -> ...]: the table pipeline_runs
    files,      \* [Signal -> [file -> decision it was written with]]: live/<signal_id>
    sent,       \* messages the channel took: pairs <<signal, verdict>>
    dataset,    \* the version the dataset alias selects
    synced,     \* the date of daily_sync/latest.json; 0 when it is missing, neither
                \* published nor noop, or pending_publish.json is not clear
    proc,       \* [Proc -> what the process holds in memory]
    rollback,   \* [Operator -> the model it is about to roll back to]
    syncs, switches,
    shared,     \* signals whose scores two processes had open together, since one of
                \* them last opened them alone
    decided,    \* history: [Signal -> decisions of the inferences that wrote files]
    rewritten   \* history: signals whose scores were overwritten under a row or a
                \* second writer, and not written alone since

tables == <<deployment, signal, run>>
market == <<dataset, synced>>
counters == <<syncs, switches>>
disk == <<files, shared, decided, rewritten>>
vars == <<tables, disk, sent, market, proc, rollback, counters>>

At == {"idle", "sync", "read", "judge", "register", "notify", "finish", "fail"} \cup Names
ProcState == [at : At, run : 0 .. MaxRuns, date : Session, sync : BOOLEAN,
              dataset : Dataset, model : Model \cup {NoModel}, verdict : Verdict,
              switched : BOOLEAN, open : BOOLEAN]
Idle == [at |-> "idle", run |-> 0, date |-> 1, sync |-> FALSE, dataset |-> 1,
         model |-> NoModel, verdict |-> "none", switched |-> FALSE, open |-> FALSE]
NoRun == [status |-> "none", signal |-> <<>>]

--------------------------------------------------------------------------------
(* The registry of models has a history of its own: something is DEPLOYED  *)
(* as soon as something was activated.                                     *)
Registry ==
    {d \in [Model -> {"none", "STAGED", "DEPLOYED", "RETIRED"}] :
        /\ \A m, n \in Model : d[m] = "DEPLOYED" /\ d[n] = "DEPLOYED" => m = n
        /\ (\E m \in Model : d[m] = "RETIRED") => \E m \in Model : d[m] = "DEPLOYED"}

Init ==
    /\ deployment \in Registry
    /\ signal = [s \in Signal |-> NoSignal]
    /\ run = [r \in 1 .. MaxRuns |-> NoRun]
    /\ files = [s \in Signal |-> NoFiles]
    /\ sent = {}
    /\ dataset = 1 /\ synced = 0
    /\ proc = [p \in Proc |-> Idle]
    /\ rollback = [o \in Operator |-> NoModel]
    /\ syncs = 0 /\ switches = 0
    /\ decided = [s \in Signal |-> {}] /\ shared = {} /\ rewritten = {}

Goto(p, a) == proc' = [proc EXCEPT ![p].at = a]
Raise(p) == proc' = [proc EXCEPT ![p] = [Idle EXCEPT !.at = "fail", !.run = proc[p].run]]

(* The signal p works on, once dataset and model are read.                 *)
Mine(p) == <<proc[p].model, proc[p].dataset, proc[p].date>>

Started == {r \in 1 .. MaxRuns : run[r].status # "none"}

(***************************************************************************)
(* run_daily_signal, with and without the sync.  Its other parameters,     *)
(* notify and supersede, are chosen where they are used.  The command      *)
(* live-inference leaves what a run leaves that is killed after it         *)
(* registered, except for the row in pipeline_runs.                        *)
(***************************************************************************)
Start(p) ==
    /\ proc[p].at = "idle"
    /\ Cardinality(Started) < MaxRuns
    /\ \E date \in Asked, sync \in BOOLEAN :
          LET r == Cardinality(Started) + 1 IN
          /\ run' = [run EXCEPT ![r].status = "RUNNING"]
          /\ proc' = [proc EXCEPT ![p] =
                [Idle EXCEPT !.at = IF sync THEN "sync" ELSE "read", !.run = r,
                             !.date = date, !.sync = sync]]
    /\ UNCHANGED <<deployment, signal, disk, sent, market, rollback, counters>>

(***************************************************************************)
(* run_daily_sync, called by a runner or by anybody else: it ends with     *)
(* latest.json published or noop for its date, a clear ledger and perhaps  *)
(* a new dataset; or it fails, and leaves that in latest.json or a ledger  *)
(* that is pending; or another sync holds the lock.                        *)
(***************************************************************************)
Synced(date) ==
    /\ synced' = date
    /\ dataset' \in {dataset} \cup {d \in Dataset : d = dataset + 1}
NotSynced == synced' = 0 /\ UNCHANGED dataset

Sync(p) ==
    /\ proc[p].at = "sync"
    /\ \/ Synced(proc[p].date) /\ Goto(p, "read")
       \/ (NotSynced \/ UNCHANGED market) /\ Raise(p)
    /\ UNCHANGED <<tables, disk, sent, rollback, counters>>

SyncElsewhere ==
    /\ syncs < MaxSyncs /\ syncs + switches < MaxOutside
    /\ (\E date \in Session : Synced(date)) \/ NotSynced
    /\ market' # market
    /\ syncs' = syncs + 1
    /\ UNCHANGED <<tables, disk, sent, proc, rollback, switches>>

Deployed == {m \in Model : deployment[m] = "DEPLOYED"}

(* pin_dataset and the row of the deployed model: two reads of what        *)
(* changes independently, in one step.  Neither is read again.             *)
ReadAny(p) == \* mutant: any registered deployment will do
    /\ proc[p].at = "read"
    /\ \E m \in {n \in Model : deployment[n] # "none"} :
          proc' = [proc EXCEPT ![p] = [@ EXCEPT !.at = "judge", !.model = m, !.dataset = dataset]]
    /\ UNCHANGED <<tables, disk, sent, market, rollback, counters>>

Read(p) ==
    /\ proc[p].at = "read"
    /\ \/ \E m \in Deployed : proc' = [proc EXCEPT ![p] =
                              [@ EXCEPT !.at = "judge", !.model = m, !.dataset = dataset]]
       \/ Deployed = {} /\ Raise(p)
    /\ UNCHANGED <<tables, disk, sent, market, rollback, counters>>

(***************************************************************************)
(* evaluate_signal_health.  What it reads of the state of this module is   *)
(* checked; the other reasons (age of the model, drift, dispersion,        *)
(* coverage of the scores) reject a signal or do not.  Before that the     *)
(* inference may raise: without rows of the session in the dataset, over   *)
(* features the model does not know, over an earlier signal whose scores   *)
(* are torn.  Whether a sync was required is not looked at again.          *)
(***************************************************************************)
Acceptable(p) ==
    /\ Ends[proc[p].dataset] = proc[p].date
    /\ proc[p].sync => synced = proc[p].date

Judge(p) ==
    /\ proc[p].at = "judge"
    /\ \/ /\ proc[p].date <= Ends[proc[p].dataset]
          /\ \E v \in {"REJECT"} \cup {w \in {"PASS"} : Acceptable(p)} :
                proc' = [proc EXCEPT ![p] = [@ EXCEPT !.at = "attestation", !.verdict = v,
                                                      !.sync = FALSE]]
       \/ Raise(p)
    /\ UNCHANGED <<tables, disk, sent, market, rollback, counters>>

(***************************************************************************)
(* run_live_inference writes the directory, whether or not it is there and *)
(* its signal registered.  A JSON file is complete or the one before it.   *)
(* The scores are torn from the moment they are opened; what two processes *)
(* leave that had them open together is either's, or torn.                 *)
(***************************************************************************)
AfterHealth(f) == \* mutant: registered before manifest.json is written
    CASE f = "attestation" -> "scores"
      [] f = "scores" -> "health"
      [] f \in {"health", "manifest"} -> "register"

After(f) ==
    CASE f = "attestation" -> "scores"
      [] f = "scores" -> "health"
      [] f = "health" -> "manifest"
      [] f = "manifest" -> "register"

Put(s, f, v) == files' = [files EXCEPT ![s] = [@ EXCEPT ![f] = v]]

WriteJsonNotify(p) == \* mutant: announced before it is registered
    LET f == proc[p].at IN
    /\ f \in Names \ {"scores"}
    /\ Put(Mine(p), f, proc[p].verdict)
    /\ decided' = [decided EXCEPT ![Mine(p)] = @ \cup {proc[p].verdict}]
    /\ Goto(p, IF f = "manifest" THEN "notify" ELSE After(f))
    /\ UNCHANGED <<tables, shared, rewritten, sent, market, rollback, counters>>

WriteJson(p) ==
    LET f == proc[p].at IN
    /\ f \in Names \ {"scores"}
    /\ Put(Mine(p), f, proc[p].verdict)
    /\ decided' = [decided EXCEPT ![Mine(p)] = @ \cup {proc[p].verdict}]
    /\ Goto(p, After(f))
    /\ UNCHANGED <<tables, shared, rewritten, sent, market, rollback, counters>>

(* The processes that have the scores of s open, and those that have       *)
(* written or begun to write them and not yet registered s.                *)
Opened(s) == {q \in Proc : proc[q].at = "scores" /\ proc[q].open /\ Mine(q) = s}
Writing(s) == Opened(s) \cup {q \in Proc : proc[q].at \in {"health", "manifest", "register"}
                                           /\ Mine(q) = s}

Open(p) ==
    LET s == Mine(p) IN
    /\ proc[p].at = "scores" /\ ~proc[p].open
    /\ Put(s, "scores", "torn")
    /\ shared' = IF Opened(s) # {} THEN shared \cup {s} ELSE shared \ {s}
    /\ rewritten' = IF signal[s].status # "none" \/ Writing(s) # {}
                    THEN rewritten \cup {s} ELSE rewritten
    /\ proc' = [proc EXCEPT ![p].open = TRUE]
    /\ UNCHANGED <<tables, decided, sent, market, rollback, counters>>

Close(p) ==
    LET s == Mine(p) IN
    /\ proc[p].at = "scores" /\ proc[p].open
    /\ \/ Put(s, "scores", proc[p].verdict)
       \/ s \in shared /\ Put(s, "scores", "torn")
    /\ rewritten' = IF s \in shared THEN rewritten ELSE rewritten \ {s}
    /\ proc' = [proc EXCEPT ![p] = [@ EXCEPT !.at = After("scores"), !.open = FALSE]]
    /\ UNCHANGED <<tables, shared, decided, sent, market, rollback, counters>>

(***************************************************************************)
(* register_signal, one transaction.  A row with the same scores of the    *)
(* same date is an idempotent replay, whatever its status; under another   *)
(* id it is a collision.  A PASS row of the date stands in the way of any  *)
(* other signal, unless supersede retires it.                              *)
(***************************************************************************)
Registered == {s \in Signal : signal[s].status # "none"}
SameScores(s) == {t \in Registered : Date(t) = Date(s) /\ Score(t) = Score(s)}
Passing(date) == {t \in Signal : Date(t) = date /\ signal[t].status = "PASS"}
Row(v) == [status |-> IF v = "PASS" THEN "PASS" ELSE "REJECTED",
           order |-> Cardinality(Registered) + 1]
InsertBeside(s, v) == \* mutant: supersede leaves the older PASS row alone
    signal' = [signal EXCEPT ![s] = Row(v)]

Insert(s, v) == signal' = [t \in Signal |-> IF t = s THEN Row(v)
                    ELSE IF t \in Passing(Date(s)) THEN [signal[t] EXCEPT !.status = "SUPERSEDED"]
                    ELSE signal[t]]

Refused(p, supersede) ==
    LET s == Mine(p) IN
    \/ SameScores(s) \notin {{}, {s}}
    \/ SameScores(s) = {} /\ Passing(Date(s)) # {} /\ ~supersede

Register(p) ==
    /\ proc[p].at = "register"
    /\ \E supersede \in BOOLEAN : ~Refused(p, supersede)
    /\ SameScores(Mine(p)) = {}
    /\ Insert(Mine(p), proc[p].verdict)
    /\ \E a \in {"notify", "finish"} : Goto(p, a)
    /\ UNCHANGED <<deployment, run, disk, sent, market, rollback, counters>>

Replay(p) ==
    /\ proc[p].at = "register"
    /\ SameScores(Mine(p)) = {Mine(p)}
    /\ \E a \in {"notify", "finish"} : Goto(p, a)
    /\ UNCHANGED <<tables, disk, sent, market, rollback, counters>>

RefuseSignal(p) ==
    /\ proc[p].at = "register"
    /\ \E supersede \in BOOLEAN : Refused(p, supersede)
    /\ Raise(p)
    /\ UNCHANGED <<tables, disk, sent, market, rollback, counters>>

(* The preview or the rejection is made of the scores on disk, which may   *)
(* raise when torn, and goes through the delivery ledger: it is taken now, *)
(* was taken or is being sent by somebody else, or is lost.                *)
Notify(p) ==
    /\ proc[p].at = "notify"
    /\ \/ sent' \in {sent, sent \cup {<<Mine(p), proc[p].verdict>>}} /\ Goto(p, "finish")
       \/ UNCHANGED sent /\ Raise(p)
    /\ UNCHANGED <<tables, disk, market, rollback, counters>>

(* finish_run with the verdict, and with FAILED after an exception.        *)
Finish(p) ==
    /\ proc[p].at = "finish"
    /\ run' = [run EXCEPT ![proc[p].run] =
          [status |-> IF proc[p].verdict = "PASS" THEN "PASS" ELSE "REJECTED",
           signal |-> Mine(p)]]
    /\ proc' = [proc EXCEPT ![p] = Idle]
    /\ UNCHANGED <<deployment, signal, disk, sent, market, rollback, counters>>

Fail(p) ==
    /\ proc[p].at = "fail"
    /\ run' = [run EXCEPT ![proc[p].run].status = "FAILED"]
    /\ proc' = [proc EXCEPT ![p] = Idle]
    /\ UNCHANGED <<deployment, signal, disk, sent, market, rollback, counters>>

(* Nothing closes the run of a process that died.                          *)
Kill(p) ==
    /\ proc[p].at # "idle"
    /\ proc' = [proc EXCEPT ![p] = Idle]
    /\ UNCHANGED <<tables, disk, sent, market, rollback, counters>>

--------------------------------------------------------------------------------
(* register_bundle at the end of a production refit.                       *)
Refit(m) ==
    /\ deployment[m] = "none"
    /\ deployment' = [deployment EXCEPT ![m] = "STAGED"]
    /\ UNCHANGED <<signal, run, disk, sent, market, proc, rollback, counters>>

(* OpsState.deploy, one transaction, after the bundle was loaded.          *)
ActivatableAny(m) == deployment[m] # "none" \* mutant: the status is not checked

Activatable(m) == deployment[m] \in {"STAGED", "RETIRED"}

Activate(m) ==
    /\ syncs + switches < MaxOutside
    /\ Activatable(m)
    /\ deployment' = [n \in Model |-> IF n = m THEN "DEPLOYED"
                          ELSE IF n \in Deployed THEN "RETIRED" ELSE deployment[n]]
    /\ proc' = [p \in Proc |-> [proc[p] EXCEPT !.switched = @ \/ proc[p].model # NoModel]]
    /\ switches' = switches + 1
    /\ UNCHANGED <<signal, run, disk, sent, market, syncs>>

(* ModelRegistry.deploy reads nothing before it that could change.         *)
Deploy(m) == Activate(m) /\ UNCHANGED rollback

(* ModelRegistry.rollback reads the status of its target, loads the bundle *)
(* and then deploys; or gives up, when the bundle fails its checks or the  *)
(* row cannot be activated any more.                                       *)
ChooseRollback(o) ==
    /\ rollback[o] = NoModel
    /\ \E m \in Model : deployment[m] = "RETIRED" /\ rollback' = [rollback EXCEPT ![o] = m]
    /\ UNCHANGED <<tables, disk, sent, market, proc, counters>>

Rollback(o) ==
    /\ rollback[o] # NoModel
    /\ Activate(rollback[o])
    /\ rollback' = [rollback EXCEPT ![o] = NoModel]

GiveUp(o) ==
    /\ rollback[o] # NoModel
    /\ rollback' = [rollback EXCEPT ![o] = NoModel]
    /\ UNCHANGED <<tables, disk, sent, market, proc, counters>>

Step(p) ==
    \/ Start(p) \/ Sync(p) \/ Read(p) \/ Judge(p)
    \/ WriteJson(p) \/ Open(p) \/ Close(p)
    \/ Register(p) \/ Replay(p) \/ RefuseSignal(p) \/ Notify(p) \/ Finish(p) \/ Fail(p)

Next ==
    \/ \E p \in Proc : Step(p) \/ Kill(p)
    \/ \E o \in Operator : ChooseRollback(o) \/ Rollback(o) \/ GiveUp(o)
    \/ \E m \in Model : Refit(m) \/ Deploy(m)
    \/ SyncElsewhere

Spec == Init /\ [][Next]_vars

--------------------------------------------------------------------------------
(* Every table and every process holds what the code can put there, at     *)
(* most one model is DEPLOYED, and a process past its reads knows a model. *)
TypeOK ==
    /\ deployment \in [Model -> {"none", "STAGED", "DEPLOYED", "RETIRED"}]
    /\ signal \in [Signal -> [status : {"none", "PASS", "REJECTED", "SUPERSEDED"}, order : Nat]]
    /\ run \in [1 .. MaxRuns ->
          [status : {"none", "RUNNING", "PASS", "REJECTED", "FAILED"},
           signal : Signal \cup {<<>>}]]
    /\ files \in [Signal -> [Names -> Verdict \cup {"torn"}]]
    /\ sent \subseteq Signal \X Verdict
    /\ dataset \in Dataset /\ synced \in 0 .. LastSession
    /\ proc \in [Proc -> ProcState]
    /\ rollback \in [Operator -> Model \cup {NoModel}]
    /\ syncs \in Nat /\ switches \in Nat
    /\ decided \in [Signal -> SUBSET Verdict] /\ shared \subseteq Signal
    /\ rewritten \subseteq Signal

(* Whoever deploys, rolls back or reads in between, at most one model is   *)
(* DEPLOYED (OpsState.deploy retires the current one in its transaction).  *)
OneDeployed == \A m, n \in Deployed : m = n

(* The PASS signal of a date is the one registered last for that date:     *)
(* whatever runs again, in whatever order, no older signal stands beside   *)
(* or in place of a newer one (register_signal).                           *)
OnlyLatestPasses ==
    \A s, t \in Registered :
        Date(s) = Date(t) /\ signal[s].status = "PASS" /\ s # t
            => signal[t].order < signal[s].order

(* Outside of the dates that were decided both ways, a PASS row stands for *)
(* a directory whose five files are there and say PASS, wherever a process *)
(* was killed between two of them or inside one, and the manifest, the     *)
(* health and the attestation stay so while the directory is written       *)
(* again.  Only a file of scores that was overwritten under the row, or by *)
(* two processes at once, may be torn, until one process has written it    *)
(* alone (run_live_inference registers last, and writes scores in place).  *)
FilesBackPass ==
    \A s \in Signal : signal[s].status \in {"PASS", "SUPERSEDED"} /\ decided[s] = {"PASS"} =>
        \A f \in Names : files[s][f] # "PASS" => files[s][f] = "torn" /\ s \in rewritten

(* docs/cli_reference.md: "live-inference writes a local immutable         *)
(* live-signal directory".  No run checks it: see README, section 6.       *)
SignalImmutable ==
    \A s \in Signal : signal[s].status \in {"PASS", "SUPERSEDED"} /\ decided[s] = {"PASS"} =>
        \A f \in Names : files[s][f] = "PASS"

(* A run that ended PASS, and a message that was sent, stand for a signal  *)
(* that is registered (run_daily_signal notifies after run_live_inference  *)
(* has registered, and a refused signal fails the run).                    *)
AnnouncedIsRegistered ==
    /\ \A m \in sent : m[1] \in Registered
    /\ \A r \in 1 .. MaxRuns : run[r].status = "PASS" => run[r].signal \in Registered

(* A signal is registered for a model that is DEPLOYED, or was when the    *)
(* process read it and has been replaced since (run_live_inference).       *)
SignalsOfLiveModel ==
    [][\A p \in Proc : signal' # signal /\ proc[p].at = "register" /\ proc'[p] # proc[p]
          => deployment[proc[p].model] = "DEPLOYED" \/ proc[p].switched]_vars

(* A rollback activates a model that is RETIRED at that very moment,       *)
(* although rollback reads its status before the transaction of deploy.    *)
RollbackOfRetired ==
    [][\A o \in Operator : switches' # switches /\ rollback'[o] # rollback[o]
          => deployment[rollback[o]] = "RETIRED"]_vars

(* "Register a signal; return False for an exact idempotent replay": the   *)
(* row that answers a replay has the status the inference found.           *)
ReplayIsExact ==
    [][\A p \in Proc : proc[p].at = "register" /\ proc'[p].at \in {"notify", "finish"}
          /\ proc[p].verdict = "PASS" => signal'[Mine(p)].status = "PASS"]_vars
================================================================================
