------------------------------ MODULE Quickstart -------------------------------
(***************************************************************************)
(* The governed local research runs: plan, run, matrix and baseline of     *)
(* research/workflow/governed_quickstart.py over the stage ledger and the  *)
(* lease of research/workflow/control.py, for one output directory.        *)
(*                                                                         *)
(* A run plans (which resolves the dataset alias), loads run_state.json,   *)
(* takes .research.lock and walks its stages: data.verify, then runtime,   *)
(* research and prediction backtest of each cell.  A stage whose record    *)
(* SUCCEEDED with the same input and whose outputs still have their hashes *)
(* is reused, any other is executed by a child process, which resolves the *)
(* alias itself.  The lock is a file: it survives its process, and is      *)
(* taken for stale after twelve hours.                                     *)
(*                                                                         *)
(* Runs of one output directory have the same --config.  Release stage and *)
(* walk-forward, which enforce_governance rejects, are left out.           *)
(***************************************************************************)
EXTENDS Naturals, Sequences, FiniteSets

CONSTANTS
    Proc,               \* invocations of the command line
    Cell,               \* cells (alpha pack and model) of the matrix
    NoCell,             \* the cell of data.verify
    Recipes,            \* number of split, portfolio and configuration inputs
    Versions,           \* number of dataset versions the alias may name
    Request,            \* Request[p]: what the user of p asks for
    MaxAsked,           \* bound: requests
    MaxMishaps          \* bound: failures, kills, moves of the alias, alterations, outlived leases

Recipe == 1 .. Recipes
Version == 1 .. Versions

(* Arguments: the cells in order, the scientific inputs, and the command:  *)
(* plan, run --dry-run or run; keep is --continue-on-error.                *)
Arguments == [cells : Seq(Cell) \ {<<>>}, recipe : Recipe,
              command : {"plan", "dry", "run"}, keep : BOOLEAN]

ASSUME QuickstartAssumption ==
    /\ NoCell \notin Cell
    /\ Recipes \in Nat \ {0} /\ Versions \in Nat \ {0}
    /\ Request \in [Proc -> SUBSET Arguments]
    /\ {MaxAsked, MaxMishaps} \subseteq Nat

VARIABLES
    alias,          \* the version the dataset reference resolves to
    ledger,         \* run_state.json
    evidence,       \* [Stage -> content of its file in stage_evidence, and of its artifacts]
    matrix,         \* research_matrix.json
    lock,           \* .research.lock
    made,           \* sequence of the executions that succeeded
    asked,          \* [Proc -> the request a user wants to see done]
    proc,           \* [Proc -> the run it is in]
    requests, mishaps,
    altered,        \* history: executions whose outputs were altered once recorded
    overtaken,      \* history: runs whose copy of the ledger is not the file any more
    robbed          \* history: runs whose lock was removed by another

count == <<requests, mishaps>>
vars == <<alias, ledger, evidence, matrix, lock, made, asked, proc, count,
          altered, overtaken, robbed>>

Verify == <<"verify", NoCell>>
Stage == {Verify} \cup ({"runtime", "research", "backtest"} \X Cell)

(* What a stage's input hash is made of.  0 is None or does not apply.     *)
Input == [recipe : Nat, anchor : Nat, dataset : Nat, of : Nat]
NoInput == [recipe |-> 0, anchor |-> 0, dataset |-> 0, of |-> 0]

(* Contents: whose, and by which edit.                                     *)
Content == [of : Nat, edit : Nat]
Missing == [of |-> 0, edit |-> 0]

Record == [status : {"none", "RUNNING", "SUCCEEDED", "FAILED"}, attempt : Nat,
           input : Input, output : Nat, hash : Content]
NoRecord == [status |-> "none", attempt |-> 0, input |-> NoInput, output |-> 0, hash |-> Missing]
Ledger == [stages : [Stage -> Record], history : SUBSET (Stage \X Nat)]
NoLedger == [stages |-> [s \in Stage |-> NoRecord], history |-> {}]

(* An execution of a child: the dataset it resolved, the predictions it    *)
(* was given, and whether that dataset could be another than the record's: *)
(* the alias moved during the run, or the plan had no anchor.              *)
Execution == [stage : Stage, recipe : Nat, dataset : Nat, of : Nat, wild : BOOLEAN]

Result == [research : Nat, backtest : Nat]
NoResult == [c \in Cell |-> [research |-> 0, backtest |-> 0]]

Free == [owner |-> {}, stale |-> FALSE]

Outside == {"idle", "load", "lease", "unlink", "create", "reject", "sketch"}
Inside == {"begin", "packs", "operate", "finish", "predictions", "matrix", "release"}

NoRequest == [cells |-> <<>>, recipe |-> 0, command |-> "plan", keep |-> FALSE]
Idle == [at |-> "idle", request |-> NoRequest, anchor |-> 0, dataset |-> 0, copy |-> NoLedger,
         stage |-> Verify, todo |-> <<>>, status |-> "none", output |-> 0, results |-> NoResult,
         failed |-> FALSE, raised |-> FALSE, wild |-> FALSE, tainted |-> {}]

Run == [at : Outside \cup Inside, request : Arguments \cup {NoRequest}, anchor : Nat, dataset : Nat,
        copy : Ledger, stage : Stage, todo : Seq(Cell), status : {"none", "SUCCEEDED", "FAILED"},
        output : Nat, results : [Cell -> Result], failed : BOOLEAN, raised : BOOLEAN,
        wild : BOOLEAN, tainted : SUBSET Nat]

Init ==
    /\ alias = 1
    /\ ledger = NoLedger
    /\ evidence = [s \in Stage |-> Missing]
    /\ matrix = [status |-> "none", dataset |-> 0, recipe |-> 0, results |-> NoResult]
    /\ lock = Free
    /\ made = <<>>
    /\ asked = [p \in Proc |-> NoRequest]
    /\ proc = [p \in Proc |-> Idle]
    /\ requests = 0 /\ mishaps = 0
    /\ altered = {} /\ overtaken = {} /\ robbed = {}

--------------------------------------------------------------------------------
files == <<alias, evidence, made, altered>>

At(p, at) == proc[p].at = at
Running(p) == proc[p].at \in Inside
Mishap == mishaps < MaxMishaps /\ mishaps' = mishaps + 1 /\ UNCHANGED requests
Leave(p) ==
    /\ proc' = [proc EXCEPT ![p] = Idle]
    /\ overtaken' = overtaken \ {p} /\ robbed' = robbed \ {p}

(* A user asks for a run, and asks again until it is done.                 *)
Ask(p) ==
    /\ asked[p] = NoRequest /\ At(p, "idle")
    /\ requests < MaxAsked /\ requests' = requests + 1 /\ UNCHANGED mishaps
    /\ \E r \in Request[p] : asked' = [asked EXCEPT ![p] = r]
    /\ UNCHANGED <<files, ledger, matrix, lock, proc, overtaken, robbed>>

Planned(p, anchor) ==
    proc' = [proc EXCEPT ![p] =
        [Idle EXCEPT !.at = IF asked[p].command = "plan" THEN "sketch" ELSE "load", !.request = asked[p],
                     !.anchor = anchor, !.dataset = anchor, !.wild = (anchor = 0)]]

(* _governed_plan: a verification that fails leaves the plan without an    *)
(* anchor, and the run goes on.                                            *)
Plan(p) ==
    /\ At(p, "idle") /\ asked[p] # NoRequest
    /\ \/ Planned(p, alias) /\ UNCHANGED count
       \/ Planned(p, 0) /\ Mishap
    /\ UNCHANGED <<files, ledger, matrix, lock, asked, overtaken, robbed>>

(* The command plan writes the matrix, whoever holds the lock.             *)
Sketch(p) ==
    /\ At(p, "sketch")
    /\ matrix' = [status |-> IF proc[p].anchor = 0 THEN "BLOCKED" ELSE "PLANNED",
                  dataset |-> proc[p].anchor, recipe |-> proc[p].request.recipe, results |-> NoResult]
    /\ asked' = [asked EXCEPT ![p] = IF proc[p].anchor = 0 THEN @ ELSE NoRequest]
    /\ Leave(p)
    /\ UNCHANGED <<files, ledger, lock, count>>

LoadAfresh(p) == \* mutant: the ledger of another research id is not taken over
    /\ At(p, "load")
    /\ proc' = [proc EXCEPT ![p].copy = IF matrix.recipe = proc[p].request.recipe THEN ledger ELSE NoLedger,
                            ![p].tainted = altered, ![p].at = "lease"]
    /\ UNCHANGED <<files, ledger, matrix, lock, asked, count, overtaken, robbed>>

(* RunState is constructed before the lock is taken.                       *)
Load(p) ==
    /\ At(p, "load")
    /\ proc' = [proc EXCEPT ![p].copy = ledger, ![p].tainted = altered, ![p].at = "lease"]
    /\ UNCHANGED <<files, ledger, matrix, lock, asked, count, overtaken, robbed>>

--------------------------------------------------------------------------------
(* research_lock: a file older than twelve hours is removed, whoever       *)
(* wrote it in the meantime; then the file is created exclusively.         *)
CheckLease(p) ==
    /\ At(p, "lease")
    /\ proc' = [proc EXCEPT ![p].at = IF lock.stale THEN "unlink" ELSE "create"]
    /\ UNCHANGED <<files, ledger, matrix, lock, asked, count, overtaken, robbed>>

Rob(p) == robbed' = {q \in (robbed \cup lock.owner) \ {p} : Running(q)}

Unlink(p) ==
    /\ At(p, "unlink")
    /\ lock' = Free /\ Rob(p)
    /\ proc' = [proc EXCEPT ![p] = IF lock.owner = {} THEN Idle ELSE [@ EXCEPT !.at = "create"]]
    /\ overtaken' = IF lock.owner = {} THEN overtaken \ {p} ELSE overtaken
    /\ UNCHANGED <<files, ledger, matrix, asked, count>>

Lease(p) ==
    /\ lock' = [owner |-> {p}, stale |-> FALSE]
    /\ proc' = [proc EXCEPT ![p].at = "begin"]

CreateShared(p) == \* mutant: the file is created without O_EXCL
    /\ At(p, "create")
    /\ Lease(p)
    /\ UNCHANGED <<files, ledger, matrix, asked, count, overtaken, robbed>>

Create(p) ==
    /\ At(p, "create") /\ lock.owner = {}
    /\ Lease(p)
    /\ UNCHANGED <<files, ledger, matrix, asked, count, overtaken, robbed>>

Refuse(p) ==
    /\ At(p, "create") /\ lock.owner # {}
    /\ proc' = [proc EXCEPT ![p].at = "reject"]
    /\ UNCHANGED <<files, ledger, matrix, lock, asked, count, overtaken, robbed>>

(* main: a run that was refused, or that raised, writes the matrix after   *)
(* the lock.                                                               *)
Reject(p) ==
    /\ At(p, "reject")
    /\ matrix' = [status |-> "REJECTED", dataset |-> proc[p].dataset,
                  recipe |-> proc[p].request.recipe, results |-> proc[p].results]
    /\ Leave(p)
    /\ UNCHANGED <<files, ledger, lock, asked, count>>

--------------------------------------------------------------------------------
(* The input of the stage a run is at.                                     *)
InputOf(run) ==
    IF run.stage = Verify THEN [recipe |-> 0, anchor |-> run.anchor, dataset |-> 0, of |-> 0]
    ELSE [recipe |-> run.request.recipe, anchor |-> run.anchor, dataset |-> run.dataset,
          of |-> IF run.stage[1] = "backtest" THEN run.results[Head(run.todo)].research ELSE 0]

(* What the evidence of an execution says: of two verifications of one     *)
(* version, and of two runtime probes, the same.                           *)
Saying(stage, id, dataset) ==
    [of |-> CASE stage[1] = "verify" -> dataset
              [] stage[1] = "runtime" -> 1
              [] stage[1] \in {"research", "backtest"} -> id,
     edit |-> 0]

RecordOf(run) == run.copy.stages[run.stage]
Agrees(run, r) == r.status = "SUCCEEDED" /\ r.input = InputOf(run)

ReusableWhatever(run, r) == \* mutant: the scientific inputs are not compared
    r.status = "SUCCEEDED" /\ r.hash # Missing /\ evidence[run.stage] = r.hash

ReusableUnread(run, r) == \* mutant: the outputs are not hashed again
    Agrees(run, r)

(* RunState.decide                                                         *)
Reusable(run, r) == Agrees(run, r) /\ r.hash # Missing /\ evidence[run.stage] = r.hash

(* Where a run goes from a stage.                                          *)
NextCell(run) ==
    LET left == Tail(run.todo) IN
    IF left = <<>> THEN [run EXCEPT !.todo = left, !.at = "matrix"]
    ELSE [run EXCEPT !.todo = left, !.at = "begin", !.stage = <<"runtime", Head(left)>>]

AfterFailure(run) ==
    IF run.request.keep THEN NextCell([run EXCEPT !.failed = TRUE])
    ELSE [run EXCEPT !.failed = TRUE, !.at = "matrix"]

AfterVerify(run, id) ==
    [run EXCEPT !.at = "packs", !.dataset = made[id].dataset, !.wild = @ \/ made[id].wild]

AfterSuccess(run, id) ==
    LET cell == Head(run.todo) IN
    CASE run.stage = Verify -> AfterVerify(run, id)
      [] run.stage # Verify /\ run.stage[1] = "runtime" ->
            [run EXCEPT !.at = "begin", !.stage = <<"research", cell>>]
      [] run.stage # Verify /\ run.stage[1] = "research" ->
            [run EXCEPT !.at = "predictions", !.results[cell] = [research |-> id, backtest |-> 0]]
      [] run.stage # Verify /\ run.stage[1] = "backtest" ->
            NextCell([run EXCEPT !.results[cell].backtest = id])

(* write: the whole copy replaces the file.                                *)
Write(p, copy) ==
    /\ ledger' = copy
    /\ overtaken' = overtaken \cup {q \in Proc \ {p} : proc[q].at \notin {"idle", "load", "sketch"}}

Reuse(p) ==
    /\ At(p, "begin") /\ Reusable(proc[p], RecordOf(proc[p]))
    /\ proc' = [proc EXCEPT ![p] = AfterSuccess(proc[p], RecordOf(proc[p]).output)]
    /\ UNCHANGED <<files, ledger, matrix, lock, asked, count, overtaken, robbed>>

Begun(run) ==
    [status |-> "RUNNING", attempt |-> RecordOf(run).attempt + 1, input |-> InputOf(run),
     output |-> 0, hash |-> Missing]

StartedForgetting(run) == \* mutant: the prior attempt does not go into the history
    [stages |-> [run.copy.stages EXCEPT ![run.stage] = Begun(run)], history |-> run.copy.history]

(* RunState.start                                                          *)
Started(run) ==
    [stages |-> [run.copy.stages EXCEPT ![run.stage] = Begun(run)],
     history |-> run.copy.history \cup
        (IF RecordOf(run).status = "none" THEN {} ELSE {<<run.stage, RecordOf(run).attempt>>})]

Start(p) ==
    /\ At(p, "begin") /\ ~ Reusable(proc[p], RecordOf(proc[p]))
    /\ proc' = [proc EXCEPT ![p].copy = Started(proc[p]), ![p].at = "operate"]
    /\ Write(p, Started(proc[p]))
    /\ UNCHANGED <<files, matrix, lock, asked, count, robbed>>

(* The operation of a stage and its evidence (_json_artifact): it succeeds,*)
(* its child exits with an error, of which nothing is told apart, or it    *)
(* raises, which is how a verification fails.                              *)
Operate(p) ==
    /\ At(p, "operate")
    /\ made' = Append(made, [stage |-> proc[p].stage, recipe |-> InputOf(proc[p]).recipe,
                             dataset |-> alias, of |-> InputOf(proc[p]).of, wild |-> proc[p].wild])
    /\ evidence' = [evidence EXCEPT ![proc[p].stage] = Saying(proc[p].stage, Len(made) + 1, alias)]
    /\ proc' = [proc EXCEPT ![p].at = "finish", ![p].status = "SUCCEEDED", ![p].output = Len(made) + 1]
    /\ UNCHANGED <<alias, altered, ledger, matrix, lock, asked, count, overtaken, robbed>>

ChildFails(p) ==
    /\ At(p, "operate") /\ proc[p].stage # Verify
    /\ Mishap
    /\ evidence' = [evidence EXCEPT ![proc[p].stage] = Missing]
    /\ proc' = [proc EXCEPT ![p].at = "finish", ![p].status = "FAILED", ![p].output = 0]
    /\ UNCHANGED <<alias, made, altered, ledger, matrix, lock, asked, overtaken, robbed>>

Raises(p) ==
    /\ At(p, "operate")
    /\ Mishap
    /\ proc' = [proc EXCEPT ![p].at = "finish", ![p].status = "FAILED", ![p].output = 0, ![p].raised = TRUE]
    /\ UNCHANGED <<files, ledger, matrix, lock, asked, overtaken, robbed>>

(* RunState.finish: the hashes are those the files have by now.            *)
Finished(run) ==
    [run.copy EXCEPT !.stages[run.stage] =
        [@ EXCEPT !.status = run.status, !.output = run.output,
                  !.hash = IF run.raised THEN Missing ELSE evidence[run.stage]]]

AfterFinish(run) ==
    LET left == [run EXCEPT !.copy = Finished(run), !.output = 0, !.status = "none"] IN
    CASE run.raised -> [left EXCEPT !.at = "release"]
      [] ~ run.raised /\ run.status = "FAILED" -> AfterFailure(left)
      [] ~ run.raised /\ run.status # "FAILED" -> AfterSuccess(left, run.output)

Finish(p) ==
    /\ At(p, "finish")
    /\ Write(p, Finished(proc[p]))
    /\ proc' = [proc EXCEPT ![p] = AfterFinish(proc[p])]
    /\ UNCHANGED <<files, matrix, lock, asked, count, robbed>>

(* _predictions: the research manifest names them; if it is gone by now    *)
(* there is no backtest.                                                   *)
Predictions(p) ==
    /\ At(p, "predictions")
    /\ \/ proc' = [proc EXCEPT ![p].at = "begin", ![p].stage = <<"backtest", Head(proc[p].todo)>>]
       \/ /\ evidence[proc[p].stage] # [of |-> proc[p].results[Head(proc[p].todo)].research, edit |-> 0]
          /\ proc' = [proc EXCEPT ![p] = NextCell(proc[p])]
    /\ UNCHANGED <<files, ledger, matrix, lock, asked, count, overtaken, robbed>>

(* The alpha packs are compatible with the verified dataset, or one is not *)
(* and raises.                                                             *)
Packs(p) ==
    /\ At(p, "packs")
    /\ proc' = [proc EXCEPT ![p] =
            IF proc[p].request.command = "dry" THEN [@ EXCEPT !.at = "matrix"]
            ELSE [@ EXCEPT !.at = "begin", !.stage = <<"runtime", Head(proc[p].request.cells)>>,
                           !.todo = proc[p].request.cells]]
    /\ UNCHANGED <<files, ledger, matrix, lock, asked, count, overtaken, robbed>>

Incompatible(p) ==
    /\ At(p, "packs")
    /\ Mishap
    /\ proc' = [proc EXCEPT ![p].raised = TRUE, ![p].at = "release"]
    /\ UNCHANGED <<files, ledger, matrix, lock, asked, overtaken, robbed>>

Outcome(p) ==
    CASE proc[p].request.command = "dry" -> "DRY_RUN"
      [] proc[p].request.command # "dry" /\ ~ proc[p].failed -> "SUCCEEDED"
      [] proc[p].failed /\ proc[p].request.keep -> "PARTIAL"
      [] proc[p].failed /\ ~ proc[p].request.keep -> "FAILED"

WriteMatrix(p) ==
    /\ At(p, "matrix")
    /\ matrix' = [status |-> Outcome(p), dataset |-> proc[p].dataset,
                  recipe |-> proc[p].request.recipe, results |-> proc[p].results]
    /\ asked' = [asked EXCEPT ![p] = IF proc[p].failed THEN @ ELSE NoRequest]
    /\ proc' = [proc EXCEPT ![p].at = "release"]
    /\ UNCHANGED <<files, ledger, lock, count, overtaken, robbed>>

(* The finally of research_lock removes the file, whoever created it.      *)
Release(p) ==
    /\ At(p, "release")
    /\ lock' = Free /\ Rob(p)
    /\ proc' = [proc EXCEPT ![p] = IF proc[p].raised THEN [@ EXCEPT !.at = "reject"] ELSE Idle]
    /\ overtaken' = overtaken \ {p}
    /\ UNCHANGED <<files, ledger, matrix, asked, count>>

--------------------------------------------------------------------------------
Kill(p) ==
    /\ proc[p].at # "idle"
    /\ Mishap
    /\ Leave(p)
    /\ UNCHANGED <<files, ledger, matrix, lock, asked>>

(* Twelve hours pass: for a lock that was left behind, or for a live run.  *)
Expire ==
    /\ lock.owner # {} /\ ~ lock.stale
    /\ lock' = [lock EXCEPT !.stale = TRUE]
    /\ IF \E p \in lock.owner : Running(p) THEN Mishap ELSE UNCHANGED count
    /\ UNCHANGED <<files, ledger, matrix, asked, proc, overtaken, robbed>>

(* Others publish, or move the alias back.                                 *)
MoveAlias ==
    /\ Mishap
    /\ \E v \in Version \ {alias} : alias' = v
    /\ proc' = [p \in Proc |-> IF At(p, "idle") THEN proc[p] ELSE [proc[p] EXCEPT !.wild = TRUE]]
    /\ UNCHANGED <<ledger, evidence, matrix, lock, made, asked, altered, overtaken, robbed>>

(* An output is edited or truncated.  Until it is recorded nobody can tell.*)
Alter(s) ==
    /\ evidence[s] # Missing
    /\ Mishap
    /\ evidence' = [evidence EXCEPT ![s].edit = mishaps + 1]
    /\ altered' = IF s[1] \in {"research", "backtest"}
                  THEN altered \cup ({evidence[s].of} \ {proc[p].output : p \in Proc})
                  ELSE altered
    /\ UNCHANGED <<alias, ledger, matrix, lock, made, asked, proc, overtaken, robbed>>

Step(p) ==
    \/ Sketch(p) \/ Load(p) \/ CheckLease(p) \/ Unlink(p) \/ Create(p) \/ Refuse(p) \/ Reject(p)
    \/ Reuse(p) \/ Start(p) \/ Operate(p) \/ Finish(p) \/ Packs(p)
    \/ Predictions(p) \/ WriteMatrix(p) \/ Release(p)

Next ==
    \/ \E p \in Proc : \/ Ask(p) \/ Plan(p) \/ Step(p)
                       \/ ChildFails(p) \/ Raises(p) \/ Incompatible(p) \/ Kill(p)
    \/ Expire \/ MoveAlias
    \/ \E s \in Stage : Alter(s)

Spec == Init /\ [][Next]_vars

--------------------------------------------------------------------------------
TypeOK ==
    /\ alias \in Version
    /\ ledger \in Ledger
    /\ evidence \in [Stage -> Content]
    /\ matrix \in [status : {"none", "PLANNED", "BLOCKED", "REJECTED", "DRY_RUN",
                             "SUCCEEDED", "PARTIAL", "FAILED"},
                   dataset : Nat, recipe : Nat, results : [Cell -> Result]]
    /\ lock \in [owner : SUBSET Proc, stale : BOOLEAN]
    /\ made \in Seq(Execution)
    /\ asked \in [Proc -> Arguments \cup {NoRequest}]
    /\ proc \in [Proc -> Run]
    /\ requests \in Nat /\ mishaps \in Nat
    /\ altered \subseteq Nat /\ overtaken \subseteq Proc /\ robbed \subseteq Proc

(* research_lock, "prevents concurrent writers" of                         *)
(* docs/research_pipeline_ux.md: of two runs that are inside at once one   *)
(* lost its lock file to another process, which took it for stale or took  *)
(* it along with its own.                                                  *)
OneWriter ==
    \A p, q \in Proc : p # q /\ Running(p) /\ Running(q) => p \in robbed \/ q \in robbed

(* The results in a matrix belong together and to its inputs, whichever    *)
(* attempts and runs they stem from: each cell's research is an execution  *)
(* of this cell, recipe and dataset, and its backtest one of these very    *)
(* predictions.  Excepted are executions that could resolve the alias to   *)
(* another version than their record says.                                 *)
ResultOfItsInput ==
    \A c \in Cell :
        LET r == matrix.results[c].research
            b == matrix.results[c].backtest
            Of(id, stage) == /\ made[id].stage = stage /\ made[id].recipe = matrix.recipe
                             /\ made[id].wild \/ made[id].dataset = matrix.dataset
        IN /\ r # 0 => Of(r, <<"research", c>>)
           /\ b # 0 => Of(b, <<"backtest", c>>) /\ r # 0 /\ made[b].of = r

(* "Interrupted, missing, half-written or modified output is not reused":  *)
(* a run reports nothing that was altered, once recorded, before it began. *)
ReportsIntact ==
    \A p \in Proc, c \in Cell :
        {proc[p].results[c].research, proc[p].results[c].backtest} \cap proc[p].tainted = {}

(* "Prior attempts remain in the ledger history": a write of the ledger    *)
(* loses no attempt, unless the writer loaded it before another one wrote. *)
Attempts(l) == l.history \cup {<<s, l.stages[s].attempt>> : s \in {t \in Stage : l.stages[t].status # "none"}}
AttemptsRemain ==
    [][\/ Attempts(ledger) \subseteq Attempts(ledger')
       \/ \E p \in overtaken : proc'[p] # proc[p]]_ledger

(* "Verified completed stages are reused": no stage is executed again      *)
(* whose record in the file is complete, of the same input and intact,     *)
(* with the same exception.                                                *)
NotRepeated ==
    [][\A p \in Proc : At(p, "begin") /\ proc'[p].at = "operate" =>
          p \in overtaken \/ ~ Reusable(proc[p], ledger.stages[proc[p].stage])]_vars
================================================================================
