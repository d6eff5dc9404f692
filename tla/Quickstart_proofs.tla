--------------------------- MODULE Quickstart_proofs ---------------------------
(***************************************************************************)
(* Proofs about Quickstart, for any processes, cells, recipes, versions,   *)
(* requests and bounds.                                                    *)
(***************************************************************************)
EXTENDS Quickstart, SequenceTheorems, TLAPS

(* Execution id of m is what a stage with these inputs stands for.         *)
Fits(m, id, stage, recipe, dataset, of) ==
    /\ id \in 1 .. Len(m)
    /\ m[id].stage = stage /\ m[id].recipe = recipe /\ m[id].of = of
    /\ m[id].wild \/ m[id].dataset = dataset

FitsInput(m, id, stage, input) ==
    Fits(m, id, stage, input.recipe, IF stage = Verify THEN input.anchor ELSE input.dataset, input.of)

RecordSound(m, stage, r) == r.status = "SUCCEEDED" => FitsInput(m, r.output, stage, r.input)
LedgerSound(m, l) == \A s \in Stage : RecordSound(m, s, l.stages[s])

ResultSound(m, recipe, dataset, c, r) ==
    /\ r.research # 0 => Fits(m, r.research, <<"research", c>>, recipe, dataset, 0)
    /\ r.backtest # 0 => r.research # 0 /\ Fits(m, r.backtest, <<"backtest", c>>, recipe, dataset, r.research)
ResultsSound(m, recipe, dataset, results) ==
    \A c \in Cell : ResultSound(m, recipe, dataset, c, results[c])

(* Where a run is: it has a request; unless it is wild the alias is still  *)
(* the one it planned for; at a stage of a cell it is the first one left;  *)
(* a backtest has its predictions.  The verification comes first.          *)
RunPlaced(a, run) ==
    /\ run.at # "idle" => run.request \in Arguments
    /\ run.at \in {"idle", "load", "lease", "unlink", "create", "sketch"} => run.stage = Verify
    /\ run.at # "idle" /\ ~ run.wild => a = run.anchor /\ run.dataset = run.anchor
    /\ run.at \in {"begin", "operate", "finish", "predictions"} /\ run.stage # Verify =>
          run.todo # <<>> /\ run.stage[2] = Head(run.todo)
    /\ run.at = "predictions" => run.stage[1] = "research" /\ run.results[run.stage[2]].research # 0
    /\ run.stage[1] = "backtest" => run.results[run.stage[2]].research # 0
    /\ run.stage = Verify => run.results = NoResult

(* What it has in hand: the record of the stage it executes and, once it   *)
(* was, the execution.                                                     *)
RunHolds(m, run) ==
    /\ run.at \in {"operate", "finish"} => RecordOf(run).input = InputOf(run)
    /\ run.at = "finish" => run.status \in {"SUCCEEDED", "FAILED"}
    /\ run.at = "finish" /\ run.status = "FAILED" => run.raised \/ run.stage # Verify
    /\ run.at = "finish" /\ run.status = "SUCCEEDED" => FitsInput(m, run.output, run.stage, InputOf(run))

RunSound(m, a, run) ==
    /\ RunPlaced(a, run) /\ RunHolds(m, run)
    /\ LedgerSound(m, run.copy)
    /\ ResultsSound(m, run.request.recipe, run.dataset, run.results)

Sound ==
    /\ LedgerSound(made, ledger)
    /\ \A p \in Proc : RunSound(made, alias, proc[p])
    /\ ResultsSound(made, matrix.recipe, matrix.dataset, matrix.results)

IInv == TypeOK /\ Sound

--------------------------------------------------------------------------------
(* The stages.                                                             *)
LEMMA StageShape ==
    ASSUME NEW s \in Stage
    PROVE  s # Verify => /\ s[1] \in {"runtime", "research", "backtest"} /\ s[2] \in Cell
                         /\ s = <<s[1], s[2]>>
  BY DEF Stage, Verify

LEMMA VerifyStage == Verify \in Stage /\ Verify[1] = "verify"
  BY DEF Stage, Verify

LEMMA CellStage ==
    ASSUME NEW c \in Cell, NEW k \in {"runtime", "research", "backtest"}
    PROVE  <<k, c>> \in Stage /\ <<k, c>> # Verify /\ <<k, c>>[1] = k /\ <<k, c>>[2] = c
  BY DEF Stage, Verify

LEMMA Requests ==
    /\ \A r \in Arguments : /\ r.recipe \in Nat \ {0} /\ r.cells \in Seq(Cell) /\ r.cells # <<>>
                            /\ r.keep \in BOOLEAN /\ r # NoRequest
    /\ NoRequest.recipe = 0
    /\ \A p \in Proc : Request[p] \subseteq Arguments
  BY QuickstartAssumption DEF Arguments, Recipe, NoRequest

LEMMA HeadTyped ==
    ASSUME NEW t \in Seq(Cell), t # <<>>
    PROVE  Head(t) \in Cell /\ Tail(t) \in Seq(Cell)
  OBVIOUS

LEMMA InputTyped ==
    ASSUME NEW run \in Run, NEW a, RunPlaced(a, run), run.at \in {"begin", "operate", "finish"}
    PROVE  InputOf(run) \in Input
<1>1. CASE run.stage = Verify
    BY <1>1 DEF InputOf, Input, Run
<1>2. CASE run.stage # Verify
  <2>1. run.todo # <<>> /\ Head(run.todo) \in Cell
    BY <1>2, HeadTyped DEF RunPlaced, Run
  <2>2. run.results[Head(run.todo)].research \in Nat
    BY <2>1 DEF Run, Result
  <2>3. run.request.recipe \in Nat
    BY Requests DEF Run
  <2> QED BY <1>2, <2>2, <2>3 DEF InputOf, Input, Run
<1> QED BY <1>1, <1>2

(* An execution more takes nothing from what the others stand for.         *)
LEMMA Grow ==
    ASSUME NEW m \in Seq(Execution), NEW e \in Execution
    PROVE  /\ Append(m, e) \in Seq(Execution) /\ Len(Append(m, e)) = Len(m) + 1
           /\ Append(m, e)[Len(m) + 1] = e
           /\ \A id \in 1 .. Len(m) : Append(m, e)[id] = m[id]
  OBVIOUS

LEMMA FitsGrows ==
    ASSUME NEW m \in Seq(Execution), NEW e \in Execution,
           NEW id, NEW stage, NEW recipe, NEW dataset, NEW of,
           Fits(m, id, stage, recipe, dataset, of)
    PROVE  Fits(Append(m, e), id, stage, recipe, dataset, of)
  BY Grow DEF Fits

LEMMA SoundGrows ==
    ASSUME NEW m \in Seq(Execution), NEW e \in Execution
    PROVE  /\ \A l : LedgerSound(m, l) => LedgerSound(Append(m, e), l)
           /\ \A recipe, dataset, results :
                ResultsSound(m, recipe, dataset, results) => ResultsSound(Append(m, e), recipe, dataset, results)
           /\ \A a, run : RunSound(m, a, run) => RunSound(Append(m, e), a, run)
<1>1. ASSUME NEW l, LedgerSound(m, l) PROVE LedgerSound(Append(m, e), l)
    BY <1>1, FitsGrows DEF LedgerSound, RecordSound, FitsInput
<1>2. ASSUME NEW recipe, NEW dataset, NEW results, ResultsSound(m, recipe, dataset, results)
      PROVE  ResultsSound(Append(m, e), recipe, dataset, results)
    BY <1>2, FitsGrows DEF ResultsSound, ResultSound
<1>3. ASSUME NEW a, NEW run, RunSound(m, a, run) PROVE RunSound(Append(m, e), a, run)
  <2>1. RunHolds(Append(m, e), run)
    BY <1>3, FitsGrows DEF RunSound, RunHolds, FitsInput
  <2> QED BY <1>1, <1>2, <1>3, <2>1 DEF RunSound
<1> QED BY <1>1, <1>2, <1>3

--------------------------------------------------------------------------------
(* The ledgers that start and finish write.                                *)
LEMMA StartedSound ==
    ASSUME NEW m, NEW a, NEW run \in Run, run.at = "begin", RunSound(m, a, run)
    PROVE  /\ Started(run) \in Ledger /\ LedgerSound(m, Started(run))
           /\ Started(run).stages[run.stage].input = InputOf(run)
<1>1. RecordOf(run) \in Record /\ run.stage \in Stage /\ run.copy \in Ledger
    BY DEF RecordOf, Run, Ledger
<1>2. InputOf(run) \in Input
    BY InputTyped DEF RunSound
<1>3. Begun(run) \in Record /\ Begun(run).input = InputOf(run) /\ Begun(run).status = "RUNNING"
  <2>1. Begun(run) = [status |-> "RUNNING", attempt |-> RecordOf(run).attempt + 1, input |-> InputOf(run),
                      output |-> 0, hash |-> Missing]
    BY DEF Begun
  <2>2. RecordOf(run).attempt + 1 \in Nat /\ Missing \in Content
    BY <1>1 DEF Record, Missing, Content
  <2> QED BY <1>2, <2>1, <2>2 DEF Record
<1>4. Started(run).stages = [run.copy.stages EXCEPT ![run.stage] = Begun(run)]
    BY DEF Started
<1>5. Started(run).history \in SUBSET (Stage \X Nat)
    BY <1>1 DEF Started, Ledger, Record
<1>6. Started(run) \in Ledger
    BY <1>1, <1>3, <1>5 DEF Started, Ledger
<1>7. LedgerSound(m, Started(run))
    BY <1>1, <1>3, <1>4 DEF RunSound, LedgerSound, RecordSound, Ledger
<1> QED BY <1>1, <1>3, <1>4, <1>6, <1>7 DEF Ledger

LEMMA FinishedSound ==
    ASSUME NEW m, NEW a, NEW run \in Run, run.at = "finish", RunSound(m, a, run),
           evidence \in [Stage -> Content]
    PROVE  Finished(run) \in Ledger /\ LedgerSound(m, Finished(run))
<1> DEFINE old == run.copy.stages[run.stage]
           new == [old EXCEPT !.status = run.status, !.output = run.output,
                              !.hash = IF run.raised THEN Missing ELSE evidence[run.stage]]
<1>1. old \in Record /\ run.stage \in Stage /\ run.copy \in Ledger
    BY DEF Run, Ledger
<1>2. Finished(run) = [run.copy EXCEPT !.stages[run.stage] = new]
    BY <1>1 DEF Finished, Ledger
<1>3. new \in Record /\ new.input = InputOf(run) /\ new.status = run.status /\ new.output = run.output
  <2>1. Missing \in Content /\ evidence[run.stage] \in Content
    BY <1>1 DEF Missing, Content
  <2>2. run.status \in {"SUCCEEDED", "FAILED"} /\ old.input = InputOf(run)
    BY DEF RunSound, RunHolds, RecordOf
  <2> QED BY <1>1, <2>1, <2>2 DEF Record, Run
<1>4. RecordSound(m, run.stage, new)
    BY <1>3 DEF RecordSound, RunSound, RunHolds
<1> HIDE DEF new, old
<1>5. Finished(run) \in Ledger /\ Finished(run).stages = [run.copy.stages EXCEPT ![run.stage] = new]
    BY <1>1, <1>2, <1>3 DEF Ledger
<1>6. LedgerSound(m, Finished(run))
    BY <1>1, <1>4, <1>5 DEF RunSound, LedgerSound, Ledger
<1> QED BY <1>5, <1>6

(* What a run that is past its verification keeps.                         *)
Carries(m, a, run) ==
    /\ run.request \in Arguments
    /\ ~ run.wild => a = run.anchor /\ run.dataset = run.anchor
    /\ run.stage # Verify
    /\ run.stage[1] = "backtest" => run.results[run.stage[2]].research # 0
    /\ LedgerSound(m, run.copy)
    /\ ResultsSound(m, run.request.recipe, run.dataset, run.results)

LEMMA NextCellSound ==
    ASSUME NEW m, NEW a, NEW run \in Run, Carries(m, a, run), run.todo # <<>>
    PROVE  NextCell(run) \in Run /\ RunSound(m, a, NextCell(run))
<1> DEFINE left == Tail(run.todo)
<1>1. left \in Seq(Cell)
    BY HeadTyped DEF Run
<1>2. CASE left = <<>>
  <2>1. NextCell(run) = [run EXCEPT !.todo = left, !.at = "matrix"]
    BY <1>2 DEF NextCell
  <2>2. NextCell(run) \in Run
    BY <1>1, <2>1 DEF Run, Inside
  <2> QED BY <2>1, <2>2 DEF RunSound, RunPlaced, RunHolds, Carries, Run
<1>3. CASE left # <<>>
  <2>1. NextCell(run) = [run EXCEPT !.todo = left, !.at = "begin", !.stage = <<"runtime", Head(left)>>]
    BY <1>3 DEF NextCell
  <2>2. <<"runtime", Head(left)>> \in Stage /\ <<"runtime", Head(left)>> # Verify
    BY <1>1, <1>3, HeadTyped, CellStage
  <2>3. NextCell(run) \in Run
    BY <1>1, <2>1, <2>2 DEF Run, Inside
  <2>4. RunPlaced(a, NextCell(run))
    BY <1>3, <2>1, <2>2 DEF RunPlaced, Carries, Run
  <2>5. RunHolds(m, NextCell(run))
    BY <2>1 DEF RunHolds, Run
  <2> QED BY <2>1, <2>3, <2>4, <2>5 DEF RunSound, Carries, Run
<1> QED BY <1>2, <1>3

LEMMA AfterFailureSound ==
    ASSUME NEW m, NEW a, NEW run \in Run, Carries(m, a, run), run.todo # <<>>
    PROVE  AfterFailure(run) \in Run /\ RunSound(m, a, AfterFailure(run))
<1>1. CASE run.request.keep
  <2>1. [run EXCEPT !.failed = TRUE] \in Run /\ Carries(m, a, [run EXCEPT !.failed = TRUE])
    BY DEF Run, Carries
  <2> QED BY <1>1, <2>1, NextCellSound DEF AfterFailure, Run
<1>2. CASE ~ run.request.keep
  <2>1. AfterFailure(run) = [run EXCEPT !.failed = TRUE, !.at = "matrix"]
    BY <1>2 DEF AfterFailure
  <2>2. AfterFailure(run) \in Run
    BY <2>1 DEF Run, Inside
  <2> QED BY <2>1, <2>2 DEF RunSound, RunPlaced, RunHolds, Carries, Run
<1> QED BY <1>1, <1>2

(* What a run that leaves a stage with execution id becomes.               *)
Leaves(m, a, run) ==
    /\ RunPlaced(a, run)
    /\ LedgerSound(m, run.copy)
    /\ ResultsSound(m, run.request.recipe, run.dataset, run.results)

LEMMA AfterSuccessSound ==
    ASSUME made \in Seq(Execution), NEW run \in Run, run.at \in {"begin", "finish"},
           Leaves(made, alias, run), NEW id, FitsInput(made, id, run.stage, InputOf(run))
    PROVE  AfterSuccess(run, id) \in Run /\ RunSound(made, alias, AfterSuccess(run, id))
<1> DEFINE cell == Head(run.todo)
           next == AfterSuccess(run, id)
<1>1. id \in 1 .. Len(made) /\ made[id] \in Execution /\ id \in Nat \ {0} /\ run.stage \in Stage
      /\ run.request \in Arguments
    BY DEF FitsInput, Fits, Run, Leaves, RunPlaced
<1>2. CASE run.stage = Verify
  <2>1. next = [run EXCEPT !.at = "packs", !.dataset = made[id].dataset, !.wild = @ \/ made[id].wild]
    BY <1>2 DEF AfterSuccess, AfterVerify
  <2>2. made[id].dataset \in Nat /\ made[id].wild \in BOOLEAN
    BY <1>1 DEF Execution
  <2>3. next \in Run
    BY <2>1, <2>2 DEF Run, Inside
  <2>4. InputOf(run).anchor = run.anchor
    BY <1>2 DEF InputOf
  <2>5. made[id].wild \/ made[id].dataset = run.anchor
    BY <1>2, <2>4 DEF FitsInput, Fits
  <2>6. run.results = NoResult
    BY <1>2 DEF Leaves, RunPlaced
  <2>7. RunPlaced(alias, next)
    BY <1>1, <1>2, <2>1, <2>2, <2>5, <2>6, VerifyStage DEF RunPlaced, Leaves, Run
  <2>8. ResultsSound(made, run.request.recipe, next.dataset, run.results)
    BY <2>6 DEF ResultsSound, ResultSound, NoResult
  <2> QED BY <2>1, <2>3, <2>7, <2>8 DEF RunSound, RunHolds, Leaves, Run
<1>3. CASE run.stage # Verify
  <2>1. /\ run.todo # <<>> /\ cell \in Cell /\ run.stage[2] = cell
        /\ run.stage[1] \in {"runtime", "research", "backtest"} /\ run.stage = <<run.stage[1], cell>>
    BY <1>1, <1>3, StageShape, HeadTyped DEF Leaves, RunPlaced, Run
  <2>2. /\ InputOf(run).recipe = run.request.recipe /\ InputOf(run).dataset = run.dataset
        /\ InputOf(run).of = IF run.stage[1] = "backtest" THEN run.results[cell].research ELSE 0
    BY <1>3 DEF InputOf
  <2>3. Fits(made, id, run.stage, run.request.recipe, run.dataset,
             IF run.stage[1] = "backtest" THEN run.results[cell].research ELSE 0)
    BY <1>3, <2>2 DEF FitsInput
  <2>4. CASE run.stage[1] = "runtime"
    <3>1. next = [run EXCEPT !.at = "begin", !.stage = <<"research", cell>>]
      BY <1>3, <2>4 DEF AfterSuccess
    <3>2. /\ <<"research", cell>> \in Stage /\ <<"research", cell>> # Verify
          /\ <<"research", cell>>[1] = "research" /\ <<"research", cell>>[2] = cell
      BY <2>1, CellStage
    <3>3. next \in Run
      BY <3>1, <3>2 DEF Run, Inside
    <3>4. RunPlaced(alias, next)
      BY <1>1, <1>3, <2>1, <3>1, <3>2 DEF RunPlaced, Leaves, Run
    <3> QED BY <3>1, <3>3, <3>4 DEF RunSound, RunHolds, Leaves, Run
  <2>5. CASE run.stage[1] = "research"
    <3> DEFINE r == [research |-> id, backtest |-> 0]
    <3>1. next = [run EXCEPT !.at = "predictions", !.results = [@ EXCEPT ![cell] = r]]
      BY <1>3, <2>5 DEF AfterSuccess
    <3>2. r \in Result /\ run.results \in [Cell -> Result]
      BY <1>1 DEF Result, Run
    <3>a. [run.results EXCEPT ![cell] = r] \in [Cell -> Result]
      BY <2>1, <3>2
    <3> HIDE DEF r, next
    <3>b. next.results = [run.results EXCEPT ![cell] = r]
      BY <3>1 DEF Run
    <3>c. next.results[cell] = r
      BY <2>1, <3>2, <3>b
    <3>d. next \in Run
      BY <3>1, <3>a DEF Run, Inside
    <3>3. /\ next \in Run /\ next.results = [run.results EXCEPT ![cell] = r] /\ next.results[cell] = r
      BY <3>b, <3>c, <3>d
    <3>4. RunPlaced(alias, next)
      <4>1. next.results[run.stage[2]].research # 0
        BY <1>1, <2>1, <3>3 DEF r
      <4> QED BY <1>1, <1>3, <2>1, <2>5, <3>1, <3>3, <4>1 DEF RunPlaced, Leaves, Run
    <3>5. ResultSound(made, run.request.recipe, run.dataset, cell, r)
      BY <2>1, <2>3, <2>5 DEF ResultSound, r
    <3>6. ResultsSound(made, run.request.recipe, run.dataset, next.results)
      BY <3>2, <3>3, <3>5 DEF ResultsSound, Leaves
    <3> QED BY <3>1, <3>3, <3>4, <3>6 DEF RunSound, RunHolds, Leaves, Run, next
  <2>6. CASE run.stage[1] = "backtest"
    <3> DEFINE r == [run.results[cell] EXCEPT !.backtest = id]
               left == [run EXCEPT !.results = [@ EXCEPT ![cell] = r]]
    <3>1. next = NextCell([run EXCEPT !.results[cell].backtest = id])
      BY <1>3, <2>6 DEF AfterSuccess
    <3>2. run.results \in [Cell -> Result] /\ run.results[cell] \in Result
      BY <2>1 DEF Run
    <3>3. r \in Result /\ r.research = run.results[cell].research /\ r.backtest = id
      BY <1>1, <3>2 DEF Result
    <3>4. [run EXCEPT !.results[cell].backtest = id] = left
      BY <3>2 DEF Run
    <3>5. left \in Run /\ left.results = [run.results EXCEPT ![cell] = r]
      BY <2>1, <3>2, <3>3 DEF Run
    <3>6. ResultSound(made, run.request.recipe, run.dataset, cell, r)
      <4>1. run.results[cell].research # 0
        BY <2>1, <2>6 DEF Leaves, RunPlaced
      <4>2. ResultSound(made, run.request.recipe, run.dataset, cell, run.results[cell])
        BY <2>1 DEF Leaves, ResultsSound
      <4> QED BY <2>1, <2>3, <2>6, <3>3, <4>1, <4>2 DEF ResultSound
    <3>7. ResultsSound(made, run.request.recipe, run.dataset, left.results)
      BY <3>2, <3>5, <3>6 DEF ResultsSound, Leaves
    <3>8. Carries(made, alias, left) /\ left.todo # <<>>
      <4>1. left.results[cell].research # 0
        BY <2>1, <2>6, <3>2, <3>3, <3>5 DEF Leaves, RunPlaced
      <4> QED BY <1>1, <1>3, <2>1, <3>7, <4>1 DEF Carries, Leaves, RunPlaced, Run
    <3>9. AfterSuccess(run, id) = NextCell(left)
      BY <3>1, <3>4
    <3> HIDE DEF left, r
    <3> QED BY <3>5, <3>8, <3>9, NextCellSound
  <2> QED BY <2>1, <2>4, <2>5, <2>6
<1> QED BY <1>2, <1>3

--------------------------------------------------------------------------------
(* The steps.  First what they have in common.                             *)
LEMMA IdleSound ==
    ASSUME NEW m, NEW a
    PROVE  Idle \in Run /\ RunSound(m, a, Idle) /\ NoLedger \in Ledger /\ LedgerSound(m, NoLedger)
<1>1. Missing \in Content /\ NoInput \in Input
    BY DEF Missing, Content, NoInput, Input
<1>2. NoRecord \in Record
    BY <1>1 DEF NoRecord, Record
<1>3. NoLedger \in Ledger /\ LedgerSound(m, NoLedger)
    BY <1>2 DEF NoLedger, Ledger, LedgerSound, RecordSound, NoRecord
<1>4. NoResult \in [Cell -> Result]
    BY DEF NoResult, Result
<1>5. ResultsSound(m, NoRequest.recipe, 0, NoResult)
    BY DEF NoResult, ResultsSound, ResultSound
<1>6. Idle \in Run
  <2>1. <<>> \in Seq(Cell) /\ {} \in SUBSET Nat
    OBVIOUS
  <2> QED BY <1>3, <1>4, <2>1, VerifyStage DEF Idle, Run, Outside, Inside
<1>7. RunPlaced(a, Idle) /\ RunHolds(m, Idle)
  <2>1. Idle.at = "idle" /\ Idle.stage = Verify /\ Idle.results = NoResult
    BY DEF Idle
  <2> QED BY <2>1, VerifyStage DEF RunPlaced, RunHolds
<1>8. LedgerSound(m, Idle.copy) /\ ResultsSound(m, Idle.request.recipe, Idle.dataset, Idle.results)
    BY <1>3, <1>5 DEF Idle
<1> QED BY <1>3, <1>6, <1>7, <1>8 DEF RunSound

LEMMA RunMoves ==
    ASSUME IInv, NEW p \in Proc, NEW run \in Run, RunSound(made, alias, run),
           proc' = [proc EXCEPT ![p] = run], UNCHANGED <<made, alias>>
    PROVE  /\ proc' \in [Proc -> Run]
           /\ \A q \in Proc : RunSound(made', alias', proc'[q])
<1>1. proc \in [Proc -> Run] /\ \A q \in Proc : RunSound(made, alias, proc[q])
    BY DEF IInv, TypeOK, Sound
<1>2. \A q \in Proc : proc'[q] = IF q = p THEN run ELSE proc[q]
    BY <1>1
<1>3. \A q \in Proc : RunSound(made, alias, proc'[q])
    BY <1>1, <1>2
<1> QED BY <1>1, <1>3

(* A run that changes its place only.                                      *)
LEMMA Goes ==
    ASSUME NEW m, NEW a, NEW run \in Run, RunSound(m, a, run), run.at # "idle",
           NEW at \in {"unlink", "create", "reject", "matrix", "release"},
           at \in {"unlink", "create"} => run.at \in {"lease", "unlink"}
    PROVE  [run EXCEPT !.at = at] \in Run /\ RunSound(m, a, [run EXCEPT !.at = at])
<1> DEFINE next == [run EXCEPT !.at = at]
<1>1. next \in Run
    BY DEF Run, Outside, Inside
<1>2. RunPlaced(a, next) /\ RunHolds(m, next)
    BY DEF RunSound, RunPlaced, RunHolds, Run
<1> QED BY <1>1, <1>2 DEF RunSound, Run

LEMMA AskKeeps ==
    ASSUME IInv, NEW p \in Proc, Ask(p) PROVE IInv'
<1>1. \A r \in Request[p] : r \in Arguments
    BY Requests
<1>2. TypeOK'
    BY <1>1 DEF Ask, IInv, TypeOK, files
<1>3. Sound'
    BY DEF Ask, IInv, Sound, files
<1> QED BY <1>2, <1>3 DEF IInv

LEMMA PlannedSound ==
    ASSUME NEW m, NEW a, NEW at \in {"sketch", "load"}, NEW request \in Arguments, NEW anchor \in Nat,
           NEW wild \in BOOLEAN, wild \/ anchor = a, NEW run,
           run = [Idle EXCEPT !.at = at, !.request = request, !.anchor = anchor, !.dataset = anchor,
                              !.wild = wild]
    PROVE  run \in Run /\ RunSound(m, a, run)
<1>1. Idle \in Run /\ RunSound(m, a, Idle)
    BY IdleSound
<1>2. Idle.stage = Verify /\ Idle.results = NoResult /\ Idle.copy = NoLedger
    BY DEF Idle
<1>3. /\ run.at = at /\ run.request = request /\ run.anchor = anchor /\ run.dataset = anchor
      /\ run.wild = wild /\ run.stage = Verify /\ run.results = NoResult /\ run.copy = NoLedger
    BY <1>1, <1>2 DEF Run
<1>4. run \in Run
    BY <1>1 DEF Run, Outside, Inside
<1>5. RunPlaced(a, run) /\ RunHolds(m, run)
    BY <1>3, VerifyStage DEF RunPlaced, RunHolds
<1>6. LedgerSound(m, run.copy)
    BY <1>1, <1>3, <1>2 DEF RunSound
<1>7. ResultsSound(m, run.request.recipe, run.dataset, run.results)
    BY <1>3 DEF ResultsSound, ResultSound, NoResult
<1> QED BY <1>4, <1>5, <1>6, <1>7 DEF RunSound

LEMMA PlanKeeps ==
    ASSUME IInv, NEW p \in Proc, Plan(p) PROVE IInv'
<1>1. PICK anchor \in {0, alias} : Planned(p, anchor) /\ (anchor = 0 \/ anchor = alias)
    BY DEF Plan
<1>2. asked[p] \in Arguments /\ anchor \in Nat
    BY <1>1 DEF Plan, IInv, TypeOK, Version
<1> DEFINE run == [Idle EXCEPT !.at = IF asked[p].command = "plan" THEN "sketch" ELSE "load",
                               !.request = asked[p], !.anchor = anchor, !.dataset = anchor,
                               !.wild = (anchor = 0)]
<1>3. PICK at \in {"sketch", "load"} : at = IF asked[p].command = "plan" THEN "sketch" ELSE "load"
    OBVIOUS
<1>4. PICK wild \in BOOLEAN : wild = (anchor = 0)
    OBVIOUS
<1>5. run = [Idle EXCEPT !.at = at, !.request = asked[p], !.anchor = anchor, !.dataset = anchor, !.wild = wild]
    BY <1>3, <1>4, Zenon
<1>6. proc' = [proc EXCEPT ![p] = run]
    BY <1>1 DEF Planned
<1> HIDE DEF run
<1>7. wild \/ anchor = alias
    BY <1>1, <1>4
<1>8. run \in Run /\ RunSound(made, alias, run)
    BY <1>2, <1>3, <1>5, <1>7, PlannedSound
<1>10. proc' \in [Proc -> Run] /\ \A q \in Proc : RunSound(made', alias', proc'[q])
    BY <1>6, <1>8, RunMoves DEF Plan, files
<1>11. TypeOK'
    BY <1>10 DEF Plan, Mishap, count, IInv, TypeOK, files
<1>12. Sound'
    BY <1>10 DEF Plan, IInv, Sound, files
<1> QED BY <1>11, <1>12 DEF IInv

(* A step of one run that leaves the files of the research alone.          *)
LEMMA RunKeeps ==
    ASSUME IInv, NEW p \in Proc, NEW run \in Run, RunSound(made, alias, run),
           proc' = [proc EXCEPT ![p] = run],
           UNCHANGED <<made, alias, altered, evidence, ledger, matrix, asked>>,
           lock' \in [owner : SUBSET Proc, stale : BOOLEAN],
           requests' \in Nat, mishaps' \in Nat, overtaken' \subseteq Proc, robbed' \subseteq Proc
    PROVE  IInv'
<1>1. proc' \in [Proc -> Run] /\ \A q \in Proc : RunSound(made', alias', proc'[q])
    BY RunMoves
<1>2. TypeOK'
    BY <1>1 DEF IInv, TypeOK
<1>3. Sound'
    BY <1>1 DEF IInv, Sound
<1> QED BY <1>2, <1>3 DEF IInv

LEMMA LoadKeeps ==
    ASSUME IInv, NEW p \in Proc, Load(p) PROVE IInv'
<1> DEFINE run == [proc[p] EXCEPT !.copy = ledger, !.tainted = altered, !.at = "lease"]
<1>1. proc[p] \in Run /\ RunSound(made, alias, proc[p]) /\ ledger \in Ledger /\ altered \subseteq Nat
      /\ LedgerSound(made, ledger) /\ proc[p].at = "load"
    BY DEF IInv, TypeOK, Sound, Load, At
<1>2. proc' = [proc EXCEPT ![p] = run]
    BY DEF Load, IInv, TypeOK
<1>3. run \in Run
    BY <1>1 DEF Run, Outside, Inside
<1>4. RunPlaced(alias, run) /\ RunHolds(made, run)
    BY <1>1 DEF RunSound, RunPlaced, RunHolds, Run
<1>5. RunSound(made, alias, run)
    BY <1>1, <1>4 DEF RunSound, Run
<1> HIDE DEF run
<1> QED BY <1>2, <1>3, <1>5, RunKeeps DEF Load, IInv, TypeOK, files, count

LEMMA CheckLeaseKeeps ==
    ASSUME IInv, NEW p \in Proc, CheckLease(p) PROVE IInv'
<1>1. PICK at \in {"unlink", "create"} : proc' = [proc EXCEPT ![p] = [proc[p] EXCEPT !.at = at]]
    BY DEF CheckLease, IInv, TypeOK
<1>2. proc[p] \in Run /\ RunSound(made, alias, proc[p]) /\ proc[p].at = "lease"
    BY DEF IInv, TypeOK, Sound, CheckLease, At
<1> DEFINE run == [proc[p] EXCEPT !.at = at]
<1>3. run \in Run /\ RunSound(made, alias, run)
    BY <1>2, Goes
<1>4. proc' = [proc EXCEPT ![p] = run]
    BY <1>1
<1> HIDE DEF run
<1> QED BY <1>3, <1>4, RunKeeps DEF CheckLease, IInv, TypeOK, files, count

LEMMA RefuseKeeps ==
    ASSUME IInv, NEW p \in Proc, Refuse(p) PROVE IInv'
<1> DEFINE run == [proc[p] EXCEPT !.at = "reject"]
<1>1. proc[p] \in Run /\ RunSound(made, alias, proc[p]) /\ proc[p].at # "idle"
    BY DEF IInv, TypeOK, Sound, Refuse, At
<1>2. run \in Run /\ RunSound(made, alias, run)
    BY <1>1, Goes
<1>3. proc' = [proc EXCEPT ![p] = run]
    BY DEF Refuse, IInv, TypeOK
<1> HIDE DEF run
<1> QED BY <1>2, <1>3, RunKeeps DEF Refuse, IInv, TypeOK, files, count

(* The lock, whoever takes or removes it.                                  *)
LEMMA RobTyped ==
    ASSUME TypeOK, NEW p \in Proc, Rob(p)
    PROVE  robbed' \subseteq Proc /\ Free \in [owner : SUBSET Proc, stale : BOOLEAN]
  BY DEF TypeOK, Rob, Free

LEMMA UnlinkKeeps ==
    ASSUME IInv, NEW p \in Proc, Unlink(p) PROVE IInv'
<1> DEFINE next == [proc[p] EXCEPT !.at = "create"]
           run == IF lock.owner = {} THEN Idle ELSE next
<1>1. proc[p] \in Run /\ RunSound(made, alias, proc[p]) /\ proc[p].at = "unlink"
    BY DEF IInv, TypeOK, Sound, Unlink, At
<1>2. next \in Run /\ RunSound(made, alias, next)
    BY <1>1, Goes
<1>3. proc' = [proc EXCEPT ![p] = run]
    BY DEF Unlink, IInv, TypeOK
<1> HIDE DEF next
<1>4. run \in Run /\ RunSound(made, alias, run)
    BY <1>2, IdleSound
<1> HIDE DEF run
<1>5. robbed' \subseteq Proc /\ lock' \in [owner : SUBSET Proc, stale : BOOLEAN]
    BY RobTyped DEF Unlink, IInv
<1> QED BY <1>3, <1>4, <1>5, RunKeeps DEF Unlink, IInv, TypeOK, files, count

LEMMA CreateKeeps ==
    ASSUME IInv, NEW p \in Proc, Create(p) PROVE IInv'
<1> DEFINE run == [proc[p] EXCEPT !.at = "begin"]
<1>1. proc[p] \in Run /\ RunSound(made, alias, proc[p]) /\ proc[p].at = "create"
    BY DEF IInv, TypeOK, Sound, Create, At
<1>2. proc' = [proc EXCEPT ![p] = run]
    BY DEF Create, Lease, IInv, TypeOK
<1>3. run \in Run
    BY <1>1 DEF Run, Inside
<1>4. proc[p].stage = Verify
    BY <1>1 DEF RunSound, RunPlaced
<1>5. RunPlaced(alias, run) /\ RunHolds(made, run)
    BY <1>1, <1>4 DEF RunSound, RunPlaced, RunHolds, Run
<1>6. RunSound(made, alias, run)
    BY <1>1, <1>5 DEF RunSound, Run
<1> HIDE DEF run
<1> QED BY <1>2, <1>3, <1>6, RunKeeps DEF Create, Lease, IInv, TypeOK, files, count

LEMMA ReleaseKeeps ==
    ASSUME IInv, NEW p \in Proc, Release(p) PROVE IInv'
<1> DEFINE next == [proc[p] EXCEPT !.at = "reject"]
           run == IF proc[p].raised THEN next ELSE Idle
<1>1. proc[p] \in Run /\ RunSound(made, alias, proc[p]) /\ proc[p].at # "idle"
    BY DEF IInv, TypeOK, Sound, Release, At
<1>2. next \in Run /\ RunSound(made, alias, next)
    BY <1>1, Goes
<1>3. proc' = [proc EXCEPT ![p] = run]
    BY DEF Release, IInv, TypeOK
<1> HIDE DEF next
<1>4. run \in Run /\ RunSound(made, alias, run)
    BY <1>2, IdleSound
<1> HIDE DEF run
<1>5. robbed' \subseteq Proc /\ lock' \in [owner : SUBSET Proc, stale : BOOLEAN]
    BY RobTyped DEF Release, IInv
<1> QED BY <1>3, <1>4, <1>5, RunKeeps DEF Release, IInv, TypeOK, files, count

LEMMA KillKeeps ==
    ASSUME IInv, NEW p \in Proc, Kill(p) PROVE IInv'
<1>1. proc' = [proc EXCEPT ![p] = Idle]
    BY DEF Kill, Leave
<1>2. mishaps' \in Nat /\ overtaken' \subseteq Proc /\ robbed' \subseteq Proc
    BY DEF Kill, Leave, Mishap, IInv, TypeOK
<1> QED BY <1>1, <1>2, IdleSound, RunKeeps DEF Kill, Mishap, IInv, TypeOK, files, count

LEMMA IncompatibleKeeps ==
    ASSUME IInv, NEW p \in Proc, Incompatible(p) PROVE IInv'
<1> DEFINE run == [proc[p] EXCEPT !.raised = TRUE, !.at = "release"]
<1>1. proc[p] \in Run /\ RunSound(made, alias, proc[p]) /\ proc[p].at = "packs"
    BY DEF IInv, TypeOK, Sound, Incompatible, At
<1>2. proc' = [proc EXCEPT ![p] = run]
    BY DEF Incompatible, IInv, TypeOK
<1>3. run \in Run
    BY <1>1 DEF Run, Inside
<1>4. RunPlaced(alias, run) /\ RunHolds(made, run)
    BY <1>1 DEF RunSound, RunPlaced, RunHolds, Run
<1>5. RunSound(made, alias, run)
    BY <1>1, <1>4 DEF RunSound, Run
<1> HIDE DEF run
<1>6. mishaps' \in Nat /\ requests' \in Nat
    BY DEF Incompatible, Mishap, IInv, TypeOK
<1> QED BY <1>2, <1>3, <1>5, <1>6, RunKeeps DEF Incompatible, IInv, TypeOK, files

--------------------------------------------------------------------------------
(* The steps that write the matrix.                                        *)
Matrix == [status : {"none", "PLANNED", "BLOCKED", "REJECTED", "DRY_RUN", "SUCCEEDED", "PARTIAL", "FAILED"},
           dataset : Nat, recipe : Nat, results : [Cell -> Result]]

LEMMA MatrixKeeps ==
    ASSUME IInv, NEW p \in Proc, NEW run \in Run, RunSound(made, alias, run),
           proc' = [proc EXCEPT ![p] = run],
           UNCHANGED <<made, alias, altered, evidence, ledger, lock, requests, mishaps>>,
           asked' \in [Proc -> Arguments \cup {NoRequest}],
           overtaken' \subseteq Proc, robbed' \subseteq Proc,
           matrix' \in Matrix, ResultsSound(made, matrix'.recipe, matrix'.dataset, matrix'.results)
    PROVE  IInv'
<1>1. proc' \in [Proc -> Run] /\ \A q \in Proc : RunSound(made', alias', proc'[q])
    BY RunMoves
<1>2. TypeOK'
    BY <1>1 DEF IInv, TypeOK, Matrix
<1>3. Sound'
    BY <1>1 DEF IInv, Sound
<1> QED BY <1>2, <1>3 DEF IInv

LEMMA SketchKeeps ==
    ASSUME IInv, NEW p \in Proc, Sketch(p) PROVE IInv'
<1>1. proc[p] \in Run
    BY DEF IInv, TypeOK
<1>2. proc[p].anchor \in Nat /\ proc[p].request.recipe \in Nat
    BY <1>1, Requests DEF Run
<1>3. NoResult \in [Cell -> Result]
    BY DEF NoResult, Result
<1>4. matrix' \in Matrix /\ matrix'.results = NoResult
    BY <1>2, <1>3 DEF Sketch, Matrix
<1>5. ResultsSound(made, matrix'.recipe, matrix'.dataset, matrix'.results)
    BY <1>4 DEF ResultsSound, ResultSound, NoResult
<1>6. asked' \in [Proc -> Arguments \cup {NoRequest}]
    BY DEF Sketch, IInv, TypeOK
<1>7. proc' = [proc EXCEPT ![p] = Idle] /\ overtaken' \subseteq Proc /\ robbed' \subseteq Proc
    BY DEF Sketch, Leave, IInv, TypeOK
<1> QED BY <1>4, <1>5, <1>6, <1>7, IdleSound, MatrixKeeps DEF Sketch, files, count

LEMMA RejectKeeps ==
    ASSUME IInv, NEW p \in Proc, Reject(p) PROVE IInv'
<1>1. proc[p] \in Run /\ RunSound(made, alias, proc[p])
    BY DEF IInv, TypeOK, Sound
<1>2. proc[p].dataset \in Nat /\ proc[p].request.recipe \in Nat /\ proc[p].results \in [Cell -> Result]
    BY <1>1, Requests DEF Run
<1>3. /\ matrix' \in Matrix /\ matrix'.recipe = proc[p].request.recipe
      /\ matrix'.dataset = proc[p].dataset /\ matrix'.results = proc[p].results
    BY <1>2 DEF Reject, Matrix
<1>4. ResultsSound(made, matrix'.recipe, matrix'.dataset, matrix'.results)
    BY <1>1, <1>3 DEF RunSound
<1>5. proc' = [proc EXCEPT ![p] = Idle] /\ overtaken' \subseteq Proc /\ robbed' \subseteq Proc
    BY DEF Reject, Leave, IInv, TypeOK
<1> QED BY <1>3, <1>4, <1>5, IdleSound, MatrixKeeps DEF Reject, IInv, TypeOK, files, count

LEMMA WriteMatrixKeeps ==
    ASSUME IInv, NEW p \in Proc, WriteMatrix(p) PROVE IInv'
<1> DEFINE run == [proc[p] EXCEPT !.at = "release"]
<1>1. proc[p] \in Run /\ RunSound(made, alias, proc[p]) /\ proc[p].at = "matrix"
    BY DEF IInv, TypeOK, Sound, WriteMatrix, At
<1>2. proc[p].dataset \in Nat /\ proc[p].request.recipe \in Nat /\ proc[p].results \in [Cell -> Result]
    BY <1>1, Requests DEF Run
<1>3. Outcome(p) \in {"DRY_RUN", "SUCCEEDED", "PARTIAL", "FAILED"}
  <2>1. proc[p].failed \in BOOLEAN /\ proc[p].request.keep \in BOOLEAN
    BY <1>1, Requests DEF Run, RunSound, RunPlaced
  <2> QED BY <2>1 DEF Outcome
<1>4. /\ matrix' \in Matrix /\ matrix'.recipe = proc[p].request.recipe
      /\ matrix'.dataset = proc[p].dataset /\ matrix'.results = proc[p].results
    BY <1>2, <1>3 DEF WriteMatrix, Matrix
<1>5. ResultsSound(made, matrix'.recipe, matrix'.dataset, matrix'.results)
    BY <1>1, <1>4 DEF RunSound
<1>6. asked' \in [Proc -> Arguments \cup {NoRequest}]
    BY DEF WriteMatrix, IInv, TypeOK
<1>7. proc' = [proc EXCEPT ![p] = run]
    BY DEF WriteMatrix, IInv, TypeOK
<1>8. run \in Run /\ RunSound(made, alias, run)
    BY <1>1, Goes
<1> HIDE DEF run
<1> QED BY <1>4, <1>5, <1>6, <1>7, <1>8, MatrixKeeps DEF WriteMatrix, IInv, TypeOK, files, count

--------------------------------------------------------------------------------
(* From stage to stage.                                                    *)
LEMMA PacksKeeps ==
    ASSUME IInv, NEW p \in Proc, Packs(p) PROVE IInv'
<1> DEFINE dry == [proc[p] EXCEPT !.at = "matrix"]
           cells == proc[p].request.cells
           wet == [proc[p] EXCEPT !.at = "begin", !.stage = <<"runtime", Head(cells)>>, !.todo = cells]
           run == IF proc[p].request.command = "dry" THEN dry ELSE wet
<1>1. proc[p] \in Run /\ RunSound(made, alias, proc[p]) /\ proc[p].at = "packs"
    BY DEF IInv, TypeOK, Sound, Packs, At
<1>2. dry \in Run /\ RunSound(made, alias, dry)
    BY <1>1, Goes
<1>3. cells \in Seq(Cell) /\ cells # <<>> /\ Head(cells) \in Cell
    BY <1>1, Requests, HeadTyped DEF RunSound, RunPlaced
<1> HIDE DEF cells
<1>4. /\ <<"runtime", Head(cells)>> \in Stage /\ <<"runtime", Head(cells)>> # Verify
      /\ <<"runtime", Head(cells)>>[1] = "runtime" /\ <<"runtime", Head(cells)>>[2] = Head(cells)
    BY <1>3, CellStage
<1>5. wet \in Run
    BY <1>1, <1>3, <1>4 DEF Run, Inside
<1>6. RunPlaced(alias, wet) /\ RunHolds(made, wet)
    BY <1>1, <1>3, <1>4 DEF RunSound, RunPlaced, RunHolds, Run
<1>7. RunSound(made, alias, wet)
    BY <1>1, <1>6 DEF RunSound, Run
<1>8. proc' = [proc EXCEPT ![p] = run]
    BY DEF Packs, cells, IInv, TypeOK
<1> HIDE DEF dry, wet
<1>9. run \in Run /\ RunSound(made, alias, run)
    BY <1>2, <1>5, <1>7
<1> HIDE DEF run
<1> QED BY <1>8, <1>9, RunKeeps DEF Packs, IInv, TypeOK, files, count

LEMMA PredictionsKeeps ==
    ASSUME IInv, NEW p \in Proc, Predictions(p) PROVE IInv'
<1> DEFINE cell == Head(proc[p].todo)
           next == [proc[p] EXCEPT !.at = "begin", !.stage = <<"backtest", cell>>]
<1>1. proc[p] \in Run /\ RunSound(made, alias, proc[p]) /\ proc[p].at = "predictions"
    BY DEF IInv, TypeOK, Sound, Predictions, At
<1>2. /\ proc[p].stage[1] = "research" /\ proc[p].stage # Verify /\ proc[p].todo # <<>>
      /\ proc[p].stage[2] = cell /\ proc[p].results[cell].research # 0
    BY <1>1, VerifyStage DEF RunSound, RunPlaced
<1>3. cell \in Cell
    BY <1>1, <1>2, HeadTyped DEF Run
<1> HIDE DEF cell
<1>4. /\ <<"backtest", cell>> \in Stage /\ <<"backtest", cell>> # Verify
      /\ <<"backtest", cell>>[1] = "backtest" /\ <<"backtest", cell>>[2] = cell
    BY <1>3, CellStage
<1>5. next \in Run /\ next.todo # <<>>
    BY <1>1, <1>2, <1>4 DEF Run, Inside
<1>6. RunPlaced(alias, next) /\ RunHolds(made, next)
    BY <1>1, <1>2, <1>4 DEF RunSound, RunPlaced, RunHolds, Run, cell
<1>7. RunSound(made, alias, next)
    BY <1>1, <1>6 DEF RunSound, Run
<1>8. Carries(made, alias, proc[p])
    BY <1>1, <1>2 DEF Carries, RunSound, RunPlaced
<1>9. NextCell(proc[p]) \in Run /\ RunSound(made, alias, NextCell(proc[p]))
    BY <1>1, <1>2, <1>8, NextCellSound
<1>10. \/ proc' = [proc EXCEPT ![p] = next]
       \/ proc' = [proc EXCEPT ![p] = NextCell(proc[p])]
    BY DEF Predictions, cell, IInv, TypeOK
<1> HIDE DEF next
<1> QED BY <1>5, <1>7, <1>9, <1>10, RunKeeps DEF Predictions, IInv, TypeOK, files, count

LEMMA ReuseKeeps ==
    ASSUME IInv, NEW p \in Proc, Reuse(p) PROVE IInv'
<1> DEFINE id == RecordOf(proc[p]).output
           run == AfterSuccess(proc[p], id)
<1>1. proc[p] \in Run /\ RunSound(made, alias, proc[p]) /\ proc[p].at = "begin" /\ made \in Seq(Execution)
    BY DEF IInv, TypeOK, Sound, Reuse, At
<1>2. RecordOf(proc[p]).status = "SUCCEEDED" /\ RecordOf(proc[p]).input = InputOf(proc[p])
    BY DEF Reuse, Reusable, Agrees
<1>3. FitsInput(made, id, proc[p].stage, InputOf(proc[p]))
    BY <1>1, <1>2 DEF RunSound, LedgerSound, RecordSound, RecordOf, Run
<1>4. Leaves(made, alias, proc[p])
    BY <1>1 DEF Leaves, RunSound
<1> HIDE DEF id
<1>5. run \in Run /\ RunSound(made, alias, run)
    BY <1>1, <1>3, <1>4, AfterSuccessSound
<1>6. proc' = [proc EXCEPT ![p] = run]
    BY DEF Reuse, id
<1> HIDE DEF run
<1> QED BY <1>5, <1>6, RunKeeps DEF Reuse, IInv, TypeOK, files, count

(* The steps that write the ledger.                                        *)
LEMMA WriteKeeps ==
    ASSUME IInv, NEW p \in Proc, NEW run \in Run, RunSound(made, alias, run),
           NEW copy \in Ledger, LedgerSound(made, copy), Write(p, copy),
           proc' = [proc EXCEPT ![p] = run],
           UNCHANGED <<files, matrix, lock, asked, count, robbed>>
    PROVE  IInv'
<1>1. proc' \in [Proc -> Run] /\ \A q \in Proc : RunSound(made', alias', proc'[q])
    BY RunMoves DEF files
<1>2. ledger' = copy /\ overtaken' \subseteq Proc
    BY DEF Write, IInv, TypeOK
<1>3. TypeOK'
    BY <1>1, <1>2 DEF IInv, TypeOK, files, count
<1>4. Sound'
    BY <1>1, <1>2 DEF IInv, Sound, files
<1> QED BY <1>3, <1>4 DEF IInv

LEMMA StartKeeps ==
    ASSUME IInv, NEW p \in Proc, Start(p) PROVE IInv'
<1> DEFINE copy == Started(proc[p])
           run == [proc[p] EXCEPT !.copy = copy, !.at = "operate"]
<1>1. proc[p] \in Run /\ RunSound(made, alias, proc[p]) /\ proc[p].at = "begin"
    BY DEF IInv, TypeOK, Sound, Start, At
<1>2. copy \in Ledger /\ LedgerSound(made, copy) /\ copy.stages[proc[p].stage].input = InputOf(proc[p])
    BY <1>1, StartedSound
<1>3. proc' = [proc EXCEPT ![p] = run] /\ Write(p, copy)
    BY DEF Start, IInv, TypeOK
<1> HIDE DEF copy
<1>4. run \in Run /\ run.copy = copy /\ run.stage = proc[p].stage /\ run.at = "operate"
    BY <1>1, <1>2 DEF Run, Inside
<1>5. InputOf(run) = InputOf(proc[p])
    BY <1>1 DEF InputOf, Run
<1>6. RunPlaced(alias, run)
    BY <1>1 DEF RunSound, RunPlaced, Run
<1>7. RunHolds(made, run)
    BY <1>2, <1>4, <1>5 DEF RunHolds, RecordOf
<1>8. RunSound(made, alias, run)
    BY <1>1, <1>2, <1>6, <1>7 DEF RunSound, Run
<1> HIDE DEF run
<1> QED BY <1>2, <1>3, <1>4, <1>8, WriteKeeps DEF Start

LEMMA FinishKeeps ==
    ASSUME IInv, NEW p \in Proc, Finish(p) PROVE IInv'
<1> DEFINE copy == Finished(proc[p])
           left == [proc[p] EXCEPT !.copy = copy, !.output = 0, !.status = "none"]
           id == proc[p].output
           run == AfterFinish(proc[p])
<1>1. /\ proc[p] \in Run /\ RunSound(made, alias, proc[p]) /\ proc[p].at = "finish"
      /\ made \in Seq(Execution) /\ evidence \in [Stage -> Content]
    BY DEF IInv, TypeOK, Sound, Finish, At
<1>2. copy \in Ledger /\ LedgerSound(made, copy)
    BY <1>1, FinishedSound
<1>3. proc' = [proc EXCEPT ![p] = run] /\ Write(p, copy)
    BY DEF Finish, IInv, TypeOK
<1>4. /\ proc[p].raised => run = [left EXCEPT !.at = "release"]
      /\ ~ proc[p].raised /\ proc[p].status = "FAILED" => run = AfterFailure(left)
      /\ ~ proc[p].raised /\ proc[p].status # "FAILED" => run = AfterSuccess(left, id)
    BY DEF AfterFinish
<1> HIDE DEF copy, id, run
<1>5. left \in Run /\ left.at = "finish" /\ left.stage = proc[p].stage /\ left.todo = proc[p].todo
    BY <1>1, <1>2 DEF Run
<1>6. InputOf(left) = InputOf(proc[p])
    BY <1>1 DEF InputOf, Run
<1>7. Leaves(made, alias, left)
    BY <1>1, <1>2 DEF Leaves, RunSound, RunPlaced, Run
<1>8. CASE proc[p].raised
  <2>1. run = [left EXCEPT !.at = "release"]
    BY <1>4, <1>8
  <2> HIDE DEF left
  <2>2. run \in Run
    BY <1>5, <2>1 DEF Run, Inside
  <2>3. RunPlaced(alias, run) /\ RunHolds(made, run)
    BY <1>5, <1>7, <2>1 DEF Leaves, RunPlaced, RunHolds, Run
  <2>4. RunSound(made, alias, run)
    BY <1>5, <1>7, <2>1, <2>3 DEF RunSound, Leaves, Run
  <2> QED BY <1>2, <1>3, <2>2, <2>4, WriteKeeps DEF Finish
<1>9. CASE ~ proc[p].raised /\ proc[p].status = "FAILED"
  <2> HIDE DEF left
  <2>1. Carries(made, alias, left) /\ left.todo # <<>>
    BY <1>1, <1>5, <1>7, <1>9 DEF Carries, Leaves, RunPlaced, RunSound, RunHolds
  <2>2. run \in Run /\ RunSound(made, alias, run)
    BY <1>4, <1>5, <1>9, <2>1, AfterFailureSound
  <2> QED BY <1>2, <1>3, <2>2, WriteKeeps DEF Finish
<1>10. CASE ~ proc[p].raised /\ proc[p].status # "FAILED"
  <2>1. FitsInput(made, id, left.stage, InputOf(left))
    BY <1>1, <1>5, <1>6, <1>10 DEF RunSound, RunHolds, id
  <2> HIDE DEF left
  <2>2. run \in Run /\ RunSound(made, alias, run)
    BY <1>1, <1>4, <1>5, <1>7, <1>10, <2>1, AfterSuccessSound
  <2> QED BY <1>2, <1>3, <2>2, WriteKeeps DEF Finish
<1> QED BY <1>8, <1>9, <1>10

(* The execution of a stage.                                               *)
LEMMA OperateKeeps ==
    ASSUME IInv, NEW p \in Proc, Operate(p) PROVE IInv'
<1> DEFINE input == InputOf(proc[p])
           id == Len(made) + 1
           e == [stage |-> proc[p].stage, recipe |-> input.recipe, dataset |-> alias,
                 of |-> input.of, wild |-> proc[p].wild]
           run == [proc[p] EXCEPT !.at = "finish", !.status = "SUCCEEDED", !.output = id]
<1>1. /\ proc[p] \in Run /\ RunSound(made, alias, proc[p]) /\ proc[p].at = "operate"
      /\ made \in Seq(Execution) /\ alias \in Nat /\ proc[p].stage \in Stage
    BY DEF IInv, TypeOK, Sound, Operate, At, Version, Run
<1>2. input \in Input
    BY <1>1, InputTyped DEF RunSound
<1>3. InputOf(run) = input /\ run \in Run /\ id \in Nat
  <2>1. id \in Nat
    BY <1>1
  <2> HIDE DEF id
  <2>2. run \in Run
    BY <1>1, <2>1 DEF Run, Inside
  <2>3. InputOf(run) = input
    BY <1>1 DEF InputOf, Run
  <2> QED BY <2>1, <2>2, <2>3
<1>4. made' = Append(made, e) /\ proc' = [proc EXCEPT ![p] = run]
    BY DEF Operate, IInv, TypeOK
<1> HIDE DEF input
<1>5. e \in Execution
    BY <1>1, <1>2 DEF Execution, Input, Run
<1>6. /\ made' \in Seq(Execution) /\ Len(made') = id /\ made'[id] = e
    BY <1>1, <1>4, <1>5, Grow
<1>7. FitsInput(made', id, proc[p].stage, input)
  <2>1. e.wild \/ alias = IF proc[p].stage = Verify THEN input.anchor ELSE input.dataset
    BY <1>1 DEF RunSound, RunPlaced, InputOf, input
  <2> HIDE DEF id
  <2>2. id \in 1 .. Len(made')
    BY <1>1, <1>6 DEF id
  <2> QED BY <1>6, <2>1, <2>2 DEF FitsInput, Fits
<1> HIDE DEF e
<1>8. RunSound(made', alias, proc[p])
    BY <1>1, <1>4, <1>5, SoundGrows
<1>9. RunSound(made', alias, run)
  <2>1. RunPlaced(alias, run)
    BY <1>1, <1>8 DEF RunSound, RunPlaced, Run
  <2>2. RecordOf(run) = RecordOf(proc[p]) /\ RecordOf(proc[p]).input = input
    BY <1>1 DEF RecordOf, Run, RunSound, RunHolds, input
  <2>3. run.stage = proc[p].stage /\ run.output = id /\ run.status = "SUCCEEDED"
    BY <1>1 DEF Run
  <2>4. RunHolds(made', run)
    BY <1>3, <1>7, <2>2, <2>3 DEF RunHolds
  <2> QED BY <1>1, <1>8, <2>1, <2>4 DEF RunSound, Run
<1> HIDE DEF run, id
<1>10. Saying(proc[p].stage, id, alias) \in Content
  <2>1. proc[p].stage[1] \in {"verify", "runtime", "research", "backtest"}
    BY <1>1, StageShape, VerifyStage
  <2> QED BY <1>1, <1>3, <2>1 DEF Saying, Content
<1>11. \A q \in Proc : proc'[q] = IF q = p THEN run ELSE proc[q]
    BY <1>4 DEF IInv, TypeOK
<1>12. \A q \in Proc : RunSound(made, alias, proc[q])
    BY DEF IInv, Sound
<1>13. \A q \in Proc : RunSound(made', alias, proc'[q])
    BY <1>1, <1>4, <1>5, <1>9, <1>11, <1>12, SoundGrows
<1>14. LedgerSound(made', ledger) /\ ResultsSound(made', matrix.recipe, matrix.dataset, matrix.results)
    BY <1>1, <1>4, <1>5, SoundGrows DEF IInv, Sound
<1>15. evidence' \in [Stage -> Content]
    BY <1>1, <1>10 DEF Operate, IInv, TypeOK, id
<1>16. proc' \in [Proc -> Run]
    BY <1>3, <1>4 DEF IInv, TypeOK
<1>17. TypeOK'
    BY <1>6, <1>15, <1>16 DEF Operate, IInv, TypeOK, count
<1>18. Sound'
    BY <1>13, <1>14 DEF Operate, Sound
<1> QED BY <1>17, <1>18 DEF IInv

(* A run that failed at its stage.                                         *)
LEMMA FailedSound ==
    ASSUME NEW m, NEW a, NEW run \in Run, RunSound(m, a, run), run.at = "operate", NEW raised \in BOOLEAN,
           raised \/ run.stage # Verify, NEW next,
           next = [run EXCEPT !.at = "finish", !.status = "FAILED", !.output = 0, !.raised = raised]
    PROVE  next \in Run /\ RunSound(m, a, next)
<1>1. next \in Run
    BY DEF Run, Inside
<1>2. InputOf(next) = InputOf(run) /\ RecordOf(next) = RecordOf(run)
    BY DEF InputOf, RecordOf, Run
<1>3. RunPlaced(a, next)
    BY DEF RunSound, RunPlaced, Run
<1>4. RunHolds(m, next)
    BY <1>2 DEF RunSound, RunHolds, Run
<1> QED BY <1>1, <1>3, <1>4 DEF RunSound, Run

LEMMA RaisesKeeps ==
    ASSUME IInv, NEW p \in Proc, Raises(p) PROVE IInv'
<1> DEFINE run == [proc[p] EXCEPT !.at = "finish", !.status = "FAILED", !.output = 0, !.raised = TRUE]
<1>1. proc[p] \in Run /\ RunSound(made, alias, proc[p]) /\ proc[p].at = "operate"
    BY DEF IInv, TypeOK, Sound, Raises, At
<1>2. run \in Run /\ RunSound(made, alias, run)
    BY <1>1, FailedSound
<1>3. proc' = [proc EXCEPT ![p] = run]
    BY DEF Raises, IInv, TypeOK
<1> HIDE DEF run
<1>4. mishaps' \in Nat /\ requests' \in Nat
    BY DEF Raises, Mishap, IInv, TypeOK
<1> QED BY <1>2, <1>3, <1>4, RunKeeps DEF Raises, IInv, TypeOK, files

LEMMA ChildFailsKeeps ==
    ASSUME IInv, NEW p \in Proc, ChildFails(p) PROVE IInv'
<1> DEFINE run == [proc[p] EXCEPT !.at = "finish", !.status = "FAILED", !.output = 0]
<1>1. /\ proc[p] \in Run /\ RunSound(made, alias, proc[p]) /\ proc[p].at = "operate"
      /\ proc[p].stage # Verify
    BY DEF IInv, TypeOK, Sound, ChildFails, At
<1>2. proc[p].raised \in BOOLEAN
      /\ run = [proc[p] EXCEPT !.at = "finish", !.status = "FAILED", !.output = 0, !.raised = proc[p].raised]
    BY <1>1 DEF Run
<1>3. run \in Run /\ RunSound(made, alias, run)
    BY <1>1, <1>2, FailedSound
<1>4. proc' = [proc EXCEPT ![p] = run]
    BY DEF ChildFails, IInv, TypeOK
<1> HIDE DEF run
<1>5. proc' \in [Proc -> Run] /\ \A q \in Proc : RunSound(made', alias', proc'[q])
    BY <1>3, <1>4, RunMoves DEF ChildFails
<1>6. evidence' \in [Stage -> Content]
    BY DEF ChildFails, IInv, TypeOK, Missing, Content
<1>7. TypeOK'
    BY <1>5, <1>6 DEF ChildFails, Mishap, IInv, TypeOK
<1>8. Sound'
    BY <1>5 DEF ChildFails, IInv, Sound
<1> QED BY <1>7, <1>8 DEF IInv

--------------------------------------------------------------------------------
(* The steps of others.                                                    *)
LEMMA ExpireKeeps ==
    ASSUME IInv, Expire PROVE IInv'
<1>1. requests' \in Nat /\ mishaps' \in Nat
    BY DEF Expire, Mishap, count, IInv, TypeOK
<1>2. TypeOK'
    BY <1>1 DEF Expire, IInv, TypeOK, files
<1>3. Sound'
    BY DEF Expire, IInv, Sound, files
<1> QED BY <1>2, <1>3 DEF IInv

LEMMA MoveAliasKeeps ==
    ASSUME IInv, MoveAlias PROVE IInv'
<1>1. alias' \in Version
    BY DEF MoveAlias
<1>2. ASSUME NEW q \in Proc PROVE proc'[q] \in Run /\ RunSound(made, alias', proc'[q])
  <2>1. proc[q] \in Run /\ RunSound(made, alias, proc[q])
    BY DEF IInv, TypeOK, Sound
  <2>2. CASE proc[q].at = "idle"
    <3>1. proc'[q] = proc[q]
      BY <2>2 DEF MoveAlias, At
    <3> QED BY <2>1, <2>2, <3>1 DEF RunSound, RunPlaced
  <2>3. CASE proc[q].at # "idle"
    <3>1. proc'[q] = [proc[q] EXCEPT !.wild = TRUE]
      BY <2>3 DEF MoveAlias, At
    <3>2. proc'[q] \in Run /\ InputOf(proc'[q]) = InputOf(proc[q]) /\ RecordOf(proc'[q]) = RecordOf(proc[q])
      BY <2>1, <3>1 DEF Run, InputOf, RecordOf
    <3>3. RunPlaced(alias', proc'[q])
      BY <2>1, <3>1 DEF RunSound, RunPlaced, Run
    <3>4. RunHolds(made, proc'[q])
      BY <2>1, <3>1, <3>2 DEF RunSound, RunHolds, Run
    <3> QED BY <2>1, <3>1, <3>2, <3>3, <3>4 DEF RunSound, Run
  <2> QED BY <2>2, <2>3
<1>3. proc' \in [Proc -> Run]
    BY <1>2 DEF MoveAlias
<1>4. TypeOK'
    BY <1>1, <1>3 DEF MoveAlias, Mishap, IInv, TypeOK
<1>5. Sound'
    BY <1>2 DEF MoveAlias, IInv, Sound
<1> QED BY <1>4, <1>5 DEF IInv

LEMMA AlterKeeps ==
    ASSUME IInv, NEW s \in Stage, Alter(s) PROVE IInv'
<1>1. evidence' \in [Stage -> Content]
    BY DEF Alter, Mishap, IInv, TypeOK, Content
<1>2. altered' \subseteq Nat
    BY DEF Alter, IInv, TypeOK, Content
<1>3. TypeOK'
    BY <1>1, <1>2 DEF Alter, Mishap, IInv, TypeOK
<1>4. Sound'
    BY DEF Alter, IInv, Sound
<1> QED BY <1>3, <1>4 DEF IInv

LEMMA StartSound ==
    ASSUME Init PROVE IInv
<1>1. Idle \in Run /\ NoLedger \in Ledger /\ LedgerSound(made, NoLedger) /\ RunSound(made, alias, Idle)
    BY IdleSound
<1>2. NoResult \in [Cell -> Result] /\ ResultsSound(made, 0, 0, NoResult)
    BY DEF NoResult, Result, ResultsSound, ResultSound
<1>3. TypeOK
  <2>1. alias \in Version /\ made \in Seq(Execution)
    BY QuickstartAssumption DEF Init, Version
  <2>2. evidence \in [Stage -> Content] /\ lock \in [owner : SUBSET Proc, stale : BOOLEAN]
    BY DEF Init, Missing, Content, Free
  <2>3. proc \in [Proc -> Run] /\ ledger \in Ledger
    BY <1>1 DEF Init
  <2> QED BY <1>2, <2>1, <2>2, <2>3 DEF Init, TypeOK
<1>4. Sound
    BY <1>1, <1>2 DEF Init, Sound
<1> QED BY <1>3, <1>4 DEF IInv

LEMMA StepKeeps == IInv /\ [Next]_vars => IInv'
<1> SUFFICES ASSUME IInv, [Next]_vars PROVE IInv'
    OBVIOUS
<1>1. ASSUME NEW p \in Proc, Step(p) PROVE IInv'
    BY <1>1, SketchKeeps, LoadKeeps, CheckLeaseKeeps, UnlinkKeeps, CreateKeeps, RefuseKeeps, RejectKeeps,
       ReuseKeeps, StartKeeps, OperateKeeps, FinishKeeps, PacksKeeps, PredictionsKeeps,
       WriteMatrixKeeps, ReleaseKeeps DEF Step
<1>2. ASSUME NEW p \in Proc, Ask(p) \/ Plan(p) PROVE IInv'
    BY <1>2, AskKeeps, PlanKeeps
<1>3. ASSUME NEW p \in Proc, ChildFails(p) \/ Raises(p) \/ Incompatible(p) \/ Kill(p) PROVE IInv'
    BY <1>3, ChildFailsKeeps, RaisesKeeps, IncompatibleKeeps, KillKeeps
<1>4. CASE Expire \/ MoveAlias \/ \E s \in Stage : Alter(s)
    BY <1>4, ExpireKeeps, MoveAliasKeeps, AlterKeeps
<1>5. CASE UNCHANGED vars
    BY <1>5 DEF vars, count, IInv, TypeOK, Sound
<1> QED BY <1>1, <1>2, <1>3, <1>4, <1>5 DEF Next

(* Every variable keeps its type, and Sound is preserved.                  *)
THEOREM Invariance == Spec => []IInv
<1>1. Init => IInv
    BY StartSound
<1>2. IInv /\ [Next]_vars => IInv'
    BY StepKeeps
<1> QED BY <1>1, <1>2, PTL DEF Spec

THEOREM TypeCorrect == Spec => []TypeOK
<1>1. IInv => TypeOK
    BY DEF IInv
<1> QED BY <1>1, Invariance, PTL

(* The results of a matrix belong together and to its inputs, for any      *)
(* number of runs, cells, kills and moves of the alias.                    *)
THEOREM ResultsOfInputs == Spec => []ResultOfItsInput
<1>1. ASSUME IInv PROVE ResultOfItsInput
  <2>1. \A c \in Cell : ResultSound(made, matrix.recipe, matrix.dataset, c, matrix.results[c])
    BY <1>1 DEF IInv, Sound, ResultsSound
  <2> QED BY <2>1 DEF ResultOfItsInput, ResultSound, Fits
<1> QED BY <1>1, Invariance, PTL

--------------------------------------------------------------------------------
(* The lease: who is inside and was not robbed holds it.                   *)
LeaseHeld == \A p \in Proc : Running(p) /\ p \notin robbed => lock.owner = {p}

LEMMA Robbing ==
    ASSUME TypeOK, LeaseHeld, NEW p \in Proc, Rob(p), NEW q \in Proc \ {p}, Running(q)
    PROVE  q \in robbed'
<1>1. q \in robbed \/ q \in lock.owner
    BY DEF LeaseHeld
<1> QED BY <1>1 DEF Rob

LEMMA StepLease ==
    ASSUME TypeOK, LeaseHeld, [Next]_vars
    PROVE  LeaseHeld'
<1>1. ASSUME NEW p \in Proc, Running(p) \/ ~ Running(p)', UNCHANGED lock, robbed' = robbed \/ robbed' = robbed \ {p},
             proc'[p].at = "idle" \/ robbed' = robbed,
             \A q \in Proc \ {p} : proc'[q] = proc[q]
      PROVE  LeaseHeld'
  <2>1. ASSUME NEW q \in Proc, Running(q)', q \notin robbed' PROVE lock'.owner = {q}
    <3>1. Running(q) /\ q \notin robbed
      BY <1>1, <2>1 DEF Running, Inside
    <3> QED BY <1>1, <3>1 DEF LeaseHeld
  <2> QED BY <2>1 DEF LeaseHeld
<1>2. ASSUME NEW p \in Proc, Create(p) PROVE LeaseHeld'
  <2>1. \A q \in Proc : Running(q) => q \in robbed
    BY <1>2 DEF Create, LeaseHeld
  <2>2. \A q \in Proc \ {p} : proc'[q] = proc[q]
    BY <1>2 DEF Create, Lease, TypeOK
  <2> QED BY <1>2, <2>1, <2>2 DEF Create, Lease, LeaseHeld, Running
<1>3. ASSUME NEW p \in Proc, Unlink(p) \/ Release(p) PROVE LeaseHeld'
  <2>1. /\ Rob(p) /\ ~ Running(p)'
        /\ \A q \in Proc \ {p} : proc'[q] = proc[q]
    BY <1>3 DEF Unlink, Release, TypeOK, Running, Inside, Idle, Run
  <2>2. \A q \in Proc \ {p} : Running(q) => q \in robbed'
    BY <2>1, Robbing
  <2> QED BY <2>1, <2>2 DEF LeaseHeld, Running
<1>4. ASSUME NEW p \in Proc, Sketch(p) \/ Reject(p) \/ Kill(p) PROVE LeaseHeld'
  <2>1. /\ UNCHANGED lock /\ robbed' = robbed \ {p} /\ proc'[p].at = "idle"
        /\ \A q \in Proc \ {p} : proc'[q] = proc[q]
    BY <1>4 DEF Sketch, Reject, Kill, Leave, Idle, TypeOK
  <2> QED BY <1>1, <2>1 DEF Running, Inside
<1>5. ASSUME NEW p \in Proc, Ask(p) \/ Plan(p) \/ Load(p) \/ CheckLease(p) \/ Refuse(p) PROVE LeaseHeld'
  <2>1. UNCHANGED <<lock, robbed>> /\ \A q \in Proc \ {p} : proc'[q] = proc[q]
    BY <1>5 DEF Ask, Plan, Planned, Load, CheckLease, Refuse, TypeOK
  <2>2. proc'[p].at \in {"idle", "sketch", "load", "lease", "unlink", "create", "reject"}
    <3>1. proc[p] \in Run
      BY DEF TypeOK
    <3>2. CASE Ask(p)
      BY <3>2 DEF Ask, At
    <3>3. CASE Plan(p)
      <4>1. Idle \in Run
        BY IdleSound
      <4>2. PICK anchor : Planned(p, anchor)
        BY <3>3 DEF Plan
      <4> QED BY <4>1, <4>2 DEF Planned, TypeOK, Run
    <3>4. CASE Load(p) \/ CheckLease(p) \/ Refuse(p)
      BY <3>1, <3>4 DEF Load, CheckLease, Refuse, TypeOK, Run
    <3> QED BY <1>5, <3>2, <3>3, <3>4
  <2> QED BY <1>1, <2>1, <2>2 DEF Running, Inside
<1>6. ASSUME NEW p \in Proc,
             \/ Reuse(p) \/ Start(p) \/ Operate(p) \/ Finish(p) \/ Packs(p) \/ Predictions(p)
             \/ WriteMatrix(p) \/ ChildFails(p) \/ Raises(p) \/ Incompatible(p)
      PROVE LeaseHeld'
  <2>1. UNCHANGED <<lock, robbed>> /\ \A q \in Proc \ {p} : proc'[q] = proc[q]
    BY <1>6 DEF Reuse, Start, Operate, Finish, Packs, Predictions, WriteMatrix, ChildFails, Raises,
                Incompatible, TypeOK
  <2>2. Running(p)
    BY <1>6 DEF Reuse, Start, Operate, Finish, Packs, Predictions, WriteMatrix, ChildFails, Raises,
                Incompatible, At, Running, Inside
  <2> QED BY <1>1, <2>1, <2>2
<1>7. CASE Expire
    BY <1>7 DEF Expire, LeaseHeld, Running, TypeOK
<1>8. CASE MoveAlias
  <2>1. \A q \in Proc : proc'[q].at = proc[q].at
    BY <1>8 DEF MoveAlias, TypeOK, Run
  <2> QED BY <1>8, <2>1 DEF MoveAlias, LeaseHeld, Running
<1>9. CASE UNCHANGED vars \/ \E s \in Stage : Alter(s)
    BY <1>9 DEF vars, Alter, LeaseHeld, Running
<1> QED BY <1>2, <1>3, <1>4, <1>5, <1>6, <1>7, <1>8, <1>9 DEF Next, Step

(* Two runs are inside only if one was robbed of its lock.                 *)
THEOREM Exclusive == Spec => []OneWriter
<1>1. Init => LeaseHeld
    BY DEF Init, LeaseHeld, Running, Inside, Idle
<1>2. IInv /\ LeaseHeld /\ [Next]_vars => LeaseHeld'
    BY StepLease DEF IInv
<1>3. LeaseHeld => OneWriter
    BY DEF LeaseHeld, OneWriter
<1> QED BY <1>1, <1>2, <1>3, Invariance, PTL DEF Spec

--------------------------------------------------------------------------------
(* Where the helpers lead: of a run they change neither the copy of the    *)
(* ledger nor what it saw altered, and its results by no more than id.     *)
Ids(r) == {r.research, r.backtest}

Follows(run, next, more) ==
    /\ next.copy = run.copy /\ next.tainted = run.tainted
    /\ next.at \in {"packs", "begin", "predictions", "matrix"}
    /\ \A c \in Cell : Ids(next.results[c]) \subseteq Ids(run.results[c]) \cup more \cup {0}

LEMMA NextCellFollows ==
    ASSUME NEW run \in Run PROVE Follows(run, NextCell(run), {})
  BY DEF NextCell, Run, Follows, Ids

LEMMA AfterFailureFollows ==
    ASSUME NEW run \in Run PROVE Follows(run, AfterFailure(run), {})
<1>1. [run EXCEPT !.failed = TRUE] \in Run
    BY DEF Run
<1>2. Follows(run, NextCell([run EXCEPT !.failed = TRUE]), {})
    BY <1>1, NextCellFollows DEF Follows, Run
<1>3. Follows(run, [run EXCEPT !.failed = TRUE, !.at = "matrix"], {})
    BY DEF Follows, Run, Ids
<1> QED BY <1>2, <1>3 DEF AfterFailure

LEMMA AfterSuccessFollows ==
    ASSUME NEW run \in Run, NEW id,
           run.stage # Verify => Head(run.todo) \in Cell
    PROVE  Follows(run, AfterSuccess(run, id),
                   IF run.stage[1] \in {"research", "backtest"} THEN {id} ELSE {})
<1> DEFINE cell == Head(run.todo)
           next == AfterSuccess(run, id)
<1>1. run.stage \in Stage /\ run.results \in [Cell -> Result]
    BY DEF Run
<1>2. CASE run.stage = Verify
  <2>1. next = [run EXCEPT !.at = "packs", !.dataset = made[id].dataset, !.wild = @ \/ made[id].wild]
    BY <1>2 DEF AfterSuccess, AfterVerify
  <2>2. PICK wild : wild = (run.wild \/ made[id].wild)
    OBVIOUS
  <2>3. next = [run EXCEPT !.at = "packs", !.dataset = made[id].dataset, !.wild = wild]
    BY <2>1, <2>2, Zenon
  <2> HIDE DEF next
  <2>4. next.copy = run.copy /\ next.tainted = run.tainted /\ next.at = "packs" /\ next.results = run.results
    BY <2>3 DEF Run
  <2> QED BY <1>1, <2>4 DEF Follows, Ids, next
<1>3. CASE run.stage # Verify /\ run.stage[1] = "runtime"
  <2>1. next = [run EXCEPT !.at = "begin", !.stage = <<"research", cell>>]
    BY <1>3 DEF AfterSuccess
  <2> QED BY <1>3, <2>1 DEF Follows, Ids, Run
<1>4. CASE run.stage # Verify /\ run.stage[1] = "research"
  <2> DEFINE r == [research |-> id, backtest |-> 0]
  <2>1. next = [run EXCEPT !.at = "predictions", !.results = [@ EXCEPT ![cell] = r]]
    BY <1>4 DEF AfterSuccess
  <2>2. r.research = id /\ r.backtest = 0
    OBVIOUS
  <2> HIDE DEF r, next
  <2>3. /\ next.copy = run.copy /\ next.tainted = run.tainted /\ next.at = "predictions"
        /\ next.results = [run.results EXCEPT ![cell] = r]
    BY <2>1 DEF Run
  <2>4. \A c \in Cell : next.results[c] = IF c = cell THEN r ELSE run.results[c]
    BY <1>1, <2>3
  <2> QED BY <1>4, <2>2, <2>3, <2>4 DEF Follows, Ids, next
<1>5. CASE run.stage # Verify /\ run.stage[1] = "backtest"
  <2> DEFINE r == [run.results[cell] EXCEPT !.backtest = id]
             left == [run EXCEPT !.results = [@ EXCEPT ![cell] = r]]
  <2>1. next = NextCell([run EXCEPT !.results[cell].backtest = id])
    BY <1>5 DEF AfterSuccess
  <2>2. run.results[cell] \in Result
    BY <1>1, <1>5
  <2>3. r.research = run.results[cell].research /\ r.backtest = id
    BY <2>2 DEF Result
  <2>4. next = NextCell(left)
    BY <2>1
  <2> HIDE DEF r, next
  <2>5. left.results = [run.results EXCEPT ![cell] = r] /\ left.copy = run.copy /\ left.tainted = run.tainted
    BY DEF Run
  <2>6. \A c \in Cell : left.results[c] = IF c = cell THEN r ELSE run.results[c]
    BY <1>1, <2>5
  <2>7. /\ NextCell(left).copy = left.copy /\ NextCell(left).tainted = left.tainted
        /\ NextCell(left).results = left.results /\ NextCell(left).at \in {"begin", "matrix"}
    BY DEF NextCell, Run
  <2>8. /\ next.copy = run.copy /\ next.tainted = run.tainted /\ next.at \in {"begin", "matrix"}
        /\ \A c \in Cell : next.results[c] = IF c = cell THEN r ELSE run.results[c]
    BY <2>4, <2>5, <2>6, <2>7
  <2> HIDE DEF left, cell
  <2>9. \A c \in Cell : Ids(next.results[c]) \subseteq Ids(run.results[c]) \cup {id}
    BY <2>3, <2>8 DEF Ids
  <2> QED BY <1>5, <2>8, <2>9 DEF Follows, next
<1> QED BY <1>1, <1>2, <1>3, <1>4, <1>5, StageShape

--------------------------------------------------------------------------------
(* The copy a run has is the file, unless it was overtaken.                *)
CopyKept ==
    \A p \in Proc : proc[p].at \notin {"idle", "load", "sketch", "reject"} /\ p \notin overtaken =>
        proc[p].copy = ledger

(* What the steps of a run that reuses or writes do to its copy.           *)
LEMMA Stages ==
    ASSUME IInv, NEW p \in Proc
    PROVE  /\ proc[p] \in Run
           /\ Reuse(p) => /\ proc'[p].copy = proc[p].copy /\ proc'[p].at # "operate"
                          /\ proc'[p] = AfterSuccess(proc[p], RecordOf(proc[p]).output)
           /\ Predictions(p) => proc'[p].copy = proc[p].copy
           /\ Finish(p) => proc'[p].copy = Finished(proc[p]) /\ proc'[p].at # "finish"
<1>1. proc[p] \in Run /\ RunSound(made, alias, proc[p])
    BY DEF IInv, TypeOK, Sound
<1>2. At(p, "begin") \/ At(p, "finish") =>
         (proc[p].stage # Verify => Head(proc[p].todo) \in Cell)
    BY <1>1, HeadTyped DEF At, RunSound, RunPlaced, Run
<1>3. ASSUME Reuse(p)
      PROVE  /\ proc'[p] = AfterSuccess(proc[p], RecordOf(proc[p]).output)
             /\ Follows(proc[p], proc'[p], IF proc[p].stage[1] \in {"research", "backtest"}
                                           THEN {RecordOf(proc[p]).output} ELSE {})
    BY <1>1, <1>2, <1>3, AfterSuccessFollows DEF Reuse, IInv, TypeOK
<1>4. ASSUME Predictions(p) PROVE proc'[p].copy = proc[p].copy
  <2>1. NextCell(proc[p]).copy = proc[p].copy
    BY <1>1, NextCellFollows DEF Follows
  <2> QED BY <1>1, <1>4, <2>1 DEF Predictions, IInv, TypeOK, Run
<1>5. ASSUME Finish(p) PROVE proc'[p].copy = Finished(proc[p]) /\ proc'[p].at # "finish"
  <2> DEFINE copy == Finished(proc[p])
             left == [proc[p] EXCEPT !.copy = copy, !.output = 0, !.status = "none"]
  <2>1. proc'[p] = AfterFinish(proc[p])
    BY <1>5 DEF Finish, IInv, TypeOK
  <2>2. copy \in Ledger
    BY <1>1, <1>5, FinishedSound DEF Finish, At, IInv, TypeOK
  <2>3. \/ proc'[p] = [left EXCEPT !.at = "release"]
        \/ proc'[p] = AfterFailure(left)
        \/ proc'[p] = AfterSuccess(left, proc[p].output)
    BY <2>1 DEF AfterFinish
  <2> HIDE DEF copy
  <2>4. left \in Run /\ left.copy = copy /\ left.stage = proc[p].stage /\ left.todo = proc[p].todo
    BY <1>1, <2>2 DEF Run
  <2> HIDE DEF left
  <2>5. CASE proc'[p] = [left EXCEPT !.at = "release"]
    BY <2>4, <2>5 DEF Run, copy
  <2>6. CASE proc'[p] = AfterFailure(left)
    BY <2>4, <2>6, AfterFailureFollows DEF Follows, copy
  <2>7. CASE proc'[p] = AfterSuccess(left, proc[p].output)
    BY <1>2, <1>5, <2>4, <2>7, AfterSuccessFollows DEF Follows, copy, Finish
  <2> QED BY <2>3, <2>5, <2>6, <2>7
<1> QED BY <1>1, <1>3, <1>4, <1>5 DEF Follows

LEMMA CopyStays ==
    ASSUME CopyKept, NEW p \in Proc, UNCHANGED ledger, proc'[p].copy = proc[p].copy,
           proc[p].at \notin {"idle", "load", "sketch", "reject"}, overtaken' = overtaken,
           \A q \in Proc \ {p} : proc'[q] = proc[q]
    PROVE  CopyKept'
<1>1. ASSUME NEW q \in Proc, proc'[q].at \notin {"idle", "load", "sketch", "reject"}, q \notin overtaken'
      PROVE  proc'[q].copy = ledger'
    BY <1>1 DEF CopyKept
<1> QED BY <1>1 DEF CopyKept

LEMMA CopyLeft ==
    ASSUME CopyKept, NEW p \in Proc, UNCHANGED ledger,
           proc'[p].at \in {"idle", "load", "sketch", "reject"}, overtaken \subseteq overtaken' \cup {p},
           \A q \in Proc \ {p} : proc'[q] = proc[q]
    PROVE  CopyKept'
<1>1. ASSUME NEW q \in Proc, proc'[q].at \notin {"idle", "load", "sketch", "reject"}, q \notin overtaken'
      PROVE  proc'[q].copy = ledger'
    BY <1>1 DEF CopyKept
<1> QED BY <1>1 DEF CopyKept

LEMMA CopyWritten ==
    ASSUME TypeOK, NEW p \in Proc, NEW copy, Write(p, copy), proc'[p].copy = copy,
           \A q \in Proc \ {p} : proc'[q] = proc[q]
    PROVE  CopyKept'
<1>1. ASSUME NEW q \in Proc, proc'[q].at \notin {"idle", "load", "sketch", "reject"}, q \notin overtaken'
      PROVE  proc'[q].copy = ledger'
    BY <1>1 DEF Write
<1> QED BY <1>1 DEF CopyKept

LEMMA StepCopy ==
    ASSUME IInv, CopyKept, [Next]_vars
    PROVE  CopyKept'
<1> USE DEF At
<1>1. \A p \in Proc : proc[p] \in Run /\ Idle \in Run /\ Idle.at = "idle"
    BY IdleSound DEF IInv, TypeOK, Idle
<1>2. ASSUME NEW p \in Proc, Load(p) PROVE CopyKept'
  <2>1. ASSUME NEW q \in Proc, proc'[q].at \notin {"idle", "load", "sketch", "reject"}, q \notin overtaken'
        PROVE  proc'[q].copy = ledger'
    BY <1>1, <1>2, <2>1 DEF Load, CopyKept, IInv, TypeOK, Run
  <2> QED BY <2>1 DEF CopyKept
<1>3. ASSUME NEW p \in Proc, CheckLease(p) \/ Create(p) \/ Packs(p) \/ WriteMatrix(p) \/ Operate(p)
                              \/ ChildFails(p) \/ Raises(p) \/ Incompatible(p) \/ Reuse(p) \/ Predictions(p)
      PROVE  CopyKept'
  <2>1. UNCHANGED <<ledger, overtaken>> /\ \A q \in Proc \ {p} : proc'[q] = proc[q]
    BY <1>3 DEF CheckLease, Create, Lease, Packs, WriteMatrix, Operate, ChildFails, Raises, Incompatible, Reuse,
                Predictions, IInv, TypeOK
  <2>2. proc[p].at \notin {"idle", "load", "sketch", "reject"}
    BY <1>3 DEF CheckLease, Create, Packs, WriteMatrix, Operate, ChildFails, Raises, Incompatible, Reuse, Predictions
  <2>3. proc'[p].copy = proc[p].copy
    <3>1. CASE CheckLease(p) \/ Create(p) \/ WriteMatrix(p)
      BY <1>1, <3>1 DEF CheckLease, Create, Lease, WriteMatrix, IInv, TypeOK, Run
    <3>2. CASE Packs(p)
      BY <1>1, <3>2 DEF Packs, IInv, TypeOK, Run
    <3>3. CASE Operate(p) \/ ChildFails(p)
      BY <1>1, <3>3 DEF Operate, ChildFails, IInv, TypeOK, Run
    <3>4. CASE Raises(p) \/ Incompatible(p)
      BY <1>1, <3>4 DEF Raises, Incompatible, IInv, TypeOK, Run
    <3>5. CASE Reuse(p) \/ Predictions(p)
      BY <3>5, Stages
    <3> QED BY <1>3, <3>1, <3>2, <3>3, <3>4, <3>5
  <2> QED BY <2>1, <2>2, <2>3, CopyStays
<1>4. ASSUME NEW p \in Proc, Refuse(p) PROVE CopyKept'
  <2>1. proc'[p].at = "reject"
    BY <1>1, <1>4 DEF Refuse, IInv, TypeOK, Run
  <2> QED BY <1>4, <2>1, CopyLeft DEF Refuse, IInv, TypeOK
<1>5. ASSUME NEW p \in Proc, Sketch(p) \/ Reject(p) \/ Kill(p) PROVE CopyKept'
  <2>1. /\ UNCHANGED ledger /\ proc'[p] = Idle /\ overtaken' = overtaken \ {p}
        /\ \A q \in Proc \ {p} : proc'[q] = proc[q]
    BY <1>5 DEF Sketch, Reject, Kill, Leave, IInv, TypeOK
  <2> QED BY <1>1, <2>1, CopyLeft
<1>6. ASSUME NEW p \in Proc, Ask(p) PROVE CopyKept'
    BY <1>6 DEF Ask, CopyKept
<1>7. ASSUME NEW p \in Proc, Plan(p) PROVE CopyKept'
  <2>1. PICK anchor : Planned(p, anchor)
    BY <1>7 DEF Plan
  <2>2. proc'[p].at \in {"load", "sketch"} /\ \A q \in Proc \ {p} : proc'[q] = proc[q]
    BY <1>1, <2>1 DEF Planned, IInv, TypeOK, Run
  <2> QED BY <1>7, <2>2, CopyLeft DEF Plan
<1>8. ASSUME NEW p \in Proc, Release(p) PROVE CopyKept'
  <2>1. proc'[p].at \in {"idle", "reject"}
    BY <1>1, <1>8 DEF Release, IInv, TypeOK, Run
  <2> QED BY <1>8, <2>1, CopyLeft DEF Release, IInv, TypeOK
<1>9. ASSUME NEW p \in Proc, Unlink(p) PROVE CopyKept'
  <2>1. CASE lock.owner = {}
    <3>1. /\ UNCHANGED ledger /\ proc'[p] = Idle /\ overtaken' = overtaken \ {p}
          /\ \A q \in Proc \ {p} : proc'[q] = proc[q]
      BY <1>9, <2>1 DEF Unlink, IInv, TypeOK
    <3> QED BY <1>1, <3>1, CopyLeft
  <2>2. CASE lock.owner # {}
    <3>1. /\ UNCHANGED ledger /\ overtaken' = overtaken /\ \A q \in Proc \ {p} : proc'[q] = proc[q]
          /\ proc[p].at = "unlink" /\ proc'[p] = [proc[p] EXCEPT !.at = "create"]
      BY <1>9, <2>2 DEF Unlink, IInv, TypeOK
    <3>2. proc'[p].copy = proc[p].copy
      BY <1>1, <3>1 DEF Run
    <3> QED BY <3>1, <3>2, CopyStays
  <2> QED BY <2>1, <2>2
<1>10. ASSUME NEW p \in Proc, Start(p) PROVE CopyKept'
  <2>1. Write(p, Started(proc[p])) /\ proc'[p].copy = Started(proc[p])
        /\ \A q \in Proc \ {p} : proc'[q] = proc[q]
    BY <1>1, <1>10 DEF Start, IInv, TypeOK, Run
  <2> QED BY <2>1, CopyWritten DEF IInv
<1>11. ASSUME NEW p \in Proc, Finish(p) PROVE CopyKept'
  <2>1. Write(p, Finished(proc[p])) /\ \A q \in Proc \ {p} : proc'[q] = proc[q]
    BY <1>11 DEF Finish, IInv, TypeOK
  <2>2. proc'[p].copy = Finished(proc[p])
    BY <1>11, Stages
  <2> QED BY <2>1, <2>2, CopyWritten DEF IInv
<1>12. CASE Expire \/ UNCHANGED vars \/ \E s \in Stage : Alter(s)
    BY <1>12 DEF Expire, vars, Alter, CopyKept
<1>13. CASE MoveAlias
  <2>1. \A q \in Proc : proc'[q].at = proc[q].at /\ proc'[q].copy = proc[q].copy
    BY <1>1, <1>13 DEF MoveAlias, Run
  <2> QED BY <1>13, <2>1 DEF MoveAlias, CopyKept
<1> QED BY <1>2, <1>3, <1>4, <1>5, <1>6, <1>7, <1>8, <1>9, <1>10, <1>11, <1>12, <1>13 DEF Next, Step

LEMMA Copies == Spec => [](IInv /\ CopyKept)
<1>1. Init => CopyKept
    BY DEF Init, CopyKept, Idle
<1>2. IInv /\ CopyKept /\ [Next]_vars => CopyKept'
    BY StepCopy
<1> QED BY <1>1, <1>2, Invariance, PTL DEF Spec

LEMMA OthersStay ==
    ASSUME TypeOK, NEW q \in Proc,
           Ask(q) \/ Plan(q) \/ Step(q) \/ ChildFails(q) \/ Raises(q) \/ Incompatible(q) \/ Kill(q)
    PROVE  \A p \in Proc \ {q} : proc'[p] = proc[p]
<1>1. CASE Ask(q) \/ Plan(q) \/ ChildFails(q) \/ Raises(q) \/ Incompatible(q) \/ Kill(q)
    BY <1>1 DEF Ask, Plan, Planned, ChildFails, Raises, Incompatible, Kill, Leave, TypeOK
<1>2. CASE Sketch(q) \/ Load(q) \/ CheckLease(q) \/ Unlink(q) \/ Create(q) \/ Refuse(q) \/ Reject(q)
    BY <1>2 DEF Sketch, Load, CheckLease, Unlink, Create, Lease, Refuse, Reject, Leave, TypeOK
<1>3. CASE \/ Reuse(q) \/ Start(q) \/ Operate(q) \/ Finish(q) \/ Packs(q) \/ Predictions(q)
           \/ WriteMatrix(q) \/ Release(q)
    BY <1>3 DEF Reuse, Start, Operate, Finish, Packs, Predictions, WriteMatrix, Release, TypeOK
<1> QED BY <1>1, <1>2, <1>3 DEF Step

LEMMA OnlyStartStarts ==
    ASSUME IInv, [Next]_vars, NEW p \in Proc, proc[p].at = "begin", proc'[p].at = "operate"
    PROVE  Start(p)
<1>1. proc[p] \in Run /\ Idle.at = "idle"
    BY DEF IInv, TypeOK, Idle
<1>2. CASE \E q \in Proc : Ask(q) \/ Plan(q) \/ Step(q) \/ ChildFails(q) \/ Raises(q) \/ Incompatible(q) \/ Kill(q)
  <2>1. PICK q \in Proc : Ask(q) \/ Plan(q) \/ Step(q) \/ ChildFails(q) \/ Raises(q) \/ Incompatible(q) \/ Kill(q)
    BY <1>2
  <2>2. q = p
    BY <2>1, OthersStay DEF IInv
  <2>3. ~ Kill(p) /\ ~ Reuse(p)
    BY <1>1, Stages DEF Kill, Leave, IInv, TypeOK
  <2> QED BY <2>1, <2>2, <2>3
          DEF Step, At, Ask, Plan, Sketch, Load, CheckLease, Unlink, Create, Refuse, Reject, Operate, Finish, Packs,
              Predictions, WriteMatrix, Release, ChildFails, Raises, Incompatible
<1>3. CASE MoveAlias
    BY <1>1, <1>3 DEF MoveAlias, Run
<1>4. CASE Expire \/ UNCHANGED vars \/ \E s \in Stage : Alter(s)
    BY <1>4 DEF Expire, vars, Alter
<1> QED BY <1>2, <1>3, <1>4 DEF Next

(* No stage is executed again whose record is complete, intact and of the  *)
(* same input: a run that was not overtaken decides by the file itself.    *)
THEOREM CompletedReused == Spec => NotRepeated
<1>1. ASSUME IInv, CopyKept, [Next]_vars, NEW p \in Proc, At(p, "begin"), proc'[p].at = "operate"
      PROVE  p \in overtaken \/ ~ Reusable(proc[p], ledger.stages[proc[p].stage])
  <2>1. Start(p)
    BY <1>1, OnlyStartStarts DEF At
  <2>2. p \notin overtaken => proc[p].copy = ledger
    BY <1>1 DEF CopyKept, At
  <2> QED BY <2>1, <2>2 DEF Start, RecordOf
<1>2. IInv /\ CopyKept /\ [Next]_vars =>
        [\A p \in Proc : At(p, "begin") /\ proc'[p].at = "operate" =>
            p \in overtaken \/ ~ Reusable(proc[p], ledger.stages[proc[p].stage])]_vars
    BY <1>1
<1> QED BY <1>2, Copies, PTL DEF Spec, NotRepeated

(* A write of the ledger by a run that was not overtaken loses no attempt. *)
LEMMA StartedRemembers ==
    ASSUME NEW run \in Run PROVE Attempts(run.copy) \subseteq Attempts(Started(run))
<1> DEFINE old == run.copy.stages
           new == Started(run).stages
<1>1. run.copy \in Ledger /\ run.stage \in Stage /\ old \in [Stage -> Record]
    BY DEF Run, Ledger
<1>2. new = [old EXCEPT ![run.stage] = Begun(run)]
    BY DEF Started
<1>3. run.copy.history \subseteq Started(run).history
    BY DEF Started
<1>4. \A s \in Stage \ {run.stage} : new[s] = old[s]
    BY <1>1, <1>2
<1>5. old[run.stage].status # "none" => <<run.stage, old[run.stage].attempt>> \in Started(run).history
    BY DEF Started, RecordOf
<1> HIDE DEF old, new
<1>6. ASSUME NEW s \in Stage, old[s].status # "none" PROVE <<s, old[s].attempt>> \in Attempts(Started(run))
    BY <1>4, <1>5, <1>6 DEF Attempts, new
<1> QED BY <1>3, <1>6 DEF Attempts, old

LEMMA FinishedRemembers ==
    ASSUME NEW run \in Run, run.status \in {"SUCCEEDED", "FAILED"}
    PROVE  Attempts(run.copy) \subseteq Attempts(Finished(run))
<1> DEFINE old == run.copy.stages
           record == [old[run.stage] EXCEPT !.status = run.status, !.output = run.output,
                                            !.hash = IF run.raised THEN Missing ELSE evidence[run.stage]]
           new == Finished(run).stages
<1>1. run.copy \in Ledger /\ run.stage \in Stage /\ old \in [Stage -> Record] /\ old[run.stage] \in Record
    BY DEF Run, Ledger
<1>2. record.status = run.status /\ record.attempt = old[run.stage].attempt
    BY <1>1 DEF Record
<1>3. Finished(run) = [run.copy EXCEPT !.stages = [@ EXCEPT ![run.stage] = record]]
    BY <1>1 DEF Finished
<1> HIDE DEF record
<1>4. new = [old EXCEPT ![run.stage] = record] /\ Finished(run).history = run.copy.history
    BY <1>1, <1>3 DEF Ledger
<1>5. \A s \in Stage : new[s].attempt = old[s].attempt /\ (old[s].status # "none" => new[s].status # "none")
    BY <1>1, <1>2, <1>4
<1> QED BY <1>4, <1>5 DEF Attempts

THEOREM AttemptsKept == Spec => AttemptsRemain
<1>1. ASSUME IInv, CopyKept, Next, ledger' # ledger
      PROVE  \/ Attempts(ledger) \subseteq Attempts(ledger')
             \/ \E p \in overtaken : proc'[p] # proc[p]
  <2>1. PICK p \in Proc : Start(p) \/ Finish(p)
    BY <1>1 DEF Next, Step, Ask, Plan, Sketch, Load, CheckLease, Unlink, Create, Refuse, Reject, Reuse, Operate,
                Packs, Predictions, WriteMatrix, Release, ChildFails, Raises, Incompatible, Kill, Expire,
                MoveAlias, Alter
  <2>2. proc[p] \in Run /\ RunSound(made, alias, proc[p])
    BY <1>1 DEF IInv, TypeOK, Sound
  <2>3. p \notin overtaken => proc[p].copy = ledger
    BY <1>1, <2>1 DEF CopyKept, Start, Finish, At
  <2>4. CASE Start(p)
    <3>1. proc[p].at = "begin" /\ proc'[p].at = "operate" /\ ledger' = Started(proc[p])
      BY <1>1, <2>2, <2>4 DEF Start, Write, At, IInv, TypeOK, Run
    <3>2. proc'[p] # proc[p]
      BY <3>1
    <3> QED BY <2>2, <2>3, <3>1, <3>2, StartedRemembers
  <2>5. CASE Finish(p)
    <3>1. proc[p].at = "finish" /\ proc'[p].at # "finish" /\ ledger' = Finished(proc[p])
      BY <1>1, <2>5, Stages DEF Finish, Write, At
    <3>2. proc'[p] # proc[p]
      BY <3>1
    <3>3. proc[p].status \in {"SUCCEEDED", "FAILED"}
      BY <2>2, <3>1 DEF RunSound, RunHolds
    <3> QED BY <2>2, <2>3, <3>1, <3>2, <3>3, FinishedRemembers
  <2> QED BY <2>1, <2>4, <2>5
<1>2. IInv /\ CopyKept /\ [Next]_vars =>
        [\/ Attempts(ledger) \subseteq Attempts(ledger')
         \/ \E p \in overtaken : proc'[p] # proc[p]]_ledger
    BY <1>1 DEF vars
<1> QED BY <1>2, Copies, PTL DEF Spec, AttemptsRemain

--------------------------------------------------------------------------------
(* What was altered once recorded: the record of the execution has a hash  *)
(* its outputs never have again, because every alteration is a new content *)
(* and every execution is.                                                 *)
Measured(s) == s[1] \in {"research", "backtest"}

(* Of the executions m, the altered ones, the evidence and k mishaps.      *)
RecordIntact(m, alt, ev, k, s, r) ==
    /\ r.hash.edit <= k
    /\ Measured(s) => r.hash.of <= Len(m)
    /\ Measured(s) /\ r.status = "SUCCEEDED" /\ r.output \in alt =>
          r.hash = Missing \/ ev[s] # r.hash

LedgerIntact(m, alt, ev, k, l) == \A s \in Stage : RecordIntact(m, alt, ev, k, s, l.stages[s])

RunIntact(m, alt, ev, k, run) ==
    /\ LedgerIntact(m, alt, ev, k, run.copy)
    /\ run.tainted \subseteq alt
    /\ run.at = "finish" /\ run.status = "SUCCEEDED" => run.output \notin alt
    /\ \A c \in Cell : Ids(run.results[c]) \cap run.tainted = {}

EvidenceIntact(m, alt, ev, k) ==
    /\ alt \subseteq 1 .. Len(m)
    /\ \A s \in Stage :
          /\ ev[s].edit <= k
          /\ Measured(s) /\ ev[s] # Missing => ev[s].of \in 1 .. Len(m) /\ m[ev[s].of].stage = s

Intact ==
    /\ EvidenceIntact(made, altered, evidence, mishaps)
    /\ LedgerIntact(made, altered, evidence, mishaps, ledger)
    /\ \A p \in Proc : RunIntact(made, altered, evidence, mishaps, proc[p])

LEMMA Later ==
    ASSUME NEW m, NEW alt, NEW ev \in [Stage -> Content], NEW k \in Nat, NEW j \in Nat, k <= j
    PROVE  /\ EvidenceIntact(m, alt, ev, k) => EvidenceIntact(m, alt, ev, j)
           /\ \A l \in Ledger : LedgerIntact(m, alt, ev, k, l) => LedgerIntact(m, alt, ev, j, l)
           /\ \A run \in Run : RunIntact(m, alt, ev, k, run) => RunIntact(m, alt, ev, j, run)
<1>1. EvidenceIntact(m, alt, ev, k) => EvidenceIntact(m, alt, ev, j)
  <2>1. \A s \in Stage : ev[s].edit \in Nat
    BY DEF Content
  <2> QED BY <2>1 DEF EvidenceIntact
<1>2. ASSUME NEW l \in Ledger, LedgerIntact(m, alt, ev, k, l) PROVE LedgerIntact(m, alt, ev, j, l)
  <2>1. \A s \in Stage : l.stages[s].hash.edit \in Nat
    BY DEF Ledger, Record, Content
  <2> QED BY <1>2, <2>1 DEF LedgerIntact, RecordIntact
<1>3. ASSUME NEW run \in Run, RunIntact(m, alt, ev, k, run) PROVE RunIntact(m, alt, ev, j, run)
  <2>1. run.copy \in Ledger
    BY DEF Run
  <2> QED BY <1>2, <1>3, <2>1 DEF RunIntact
<1> QED BY <1>1, <1>2, <1>3

(* A step of one run that alters no evidence.                              *)
LEMMA IntactMoves ==
    ASSUME IInv, Intact, NEW p \in Proc, NEW run \in Run,
           RunIntact(made, altered, evidence, mishaps, run),
           proc' = [proc EXCEPT ![p] = run], UNCHANGED <<made, altered, evidence>>,
           mishaps' \in Nat, mishaps <= mishaps',
           ledger' \in Ledger, LedgerIntact(made, altered, evidence, mishaps, ledger')
    PROVE  Intact'
<1>1. /\ evidence \in [Stage -> Content] /\ mishaps \in Nat /\ proc \in [Proc -> Run]
    BY DEF IInv, TypeOK
<1>2. \A q \in Proc : /\ proc'[q] \in Run
                      /\ RunIntact(made, altered, evidence, mishaps, proc'[q])
    BY <1>1 DEF Intact
<1>3. \A q \in Proc : RunIntact(made, altered, evidence, mishaps', proc'[q])
    BY <1>1, <1>2, Later
<1>4. /\ EvidenceIntact(made, altered, evidence, mishaps')
      /\ LedgerIntact(made, altered, evidence, mishaps', ledger')
    BY <1>1, Later DEF Intact
<1> QED BY <1>3, <1>4 DEF Intact

LEMMA Zero ==
    ASSUME IInv, Intact, NEW p \in Proc
    PROVE  0 \notin altered /\ 0 \notin proc[p].tainted /\ proc[p].tainted \subseteq altered
<1>1. 0 \notin altered
    BY DEF Intact, EvidenceIntact
<1> QED BY <1>1 DEF Intact, RunIntact

(* A run that goes on with what it has, and one that ends.                 *)
LEMMA Continues ==
    ASSUME IInv, Intact, NEW p \in Proc, NEW run,
           run.copy = proc[p].copy, run.tainted = proc[p].tainted, run.results = proc[p].results,
           run.at # "finish" \/ run.status = "FAILED"
    PROVE  RunIntact(made, altered, evidence, mishaps, run)
  BY DEF Intact, RunIntact

LEMMA IdleIntact ==
    ASSUME IInv, Intact
    PROVE  /\ LedgerIntact(made, altered, evidence, mishaps, NoLedger)
           /\ RunIntact(made, altered, evidence, mishaps, Idle)
<1>1. mishaps \in Nat /\ made \in Seq(Execution)
    BY DEF IInv, TypeOK
<1>2. \A s \in Stage : NoLedger.stages[s].hash = Missing /\ NoLedger.stages[s].status = "none"
    BY DEF NoLedger, NoRecord
<1>3. Missing.edit = 0 /\ Missing.of = 0
    BY DEF Missing
<1>4. LedgerIntact(made, altered, evidence, mishaps, NoLedger)
    BY <1>1, <1>2, <1>3 DEF LedgerIntact, RecordIntact
<1>5. Idle.copy = NoLedger /\ Idle.tainted = {} /\ Idle.at = "idle"
    BY DEF Idle
<1> QED BY <1>4, <1>5 DEF RunIntact

(* A run that follows, with no execution that was altered.                 *)
LEMMA FollowsIntact ==
    ASSUME IInv, Intact, NEW p \in Proc, NEW left, NEW next, NEW more, Follows(left, next, more),
           left.tainted = proc[p].tainted, left.results = proc[p].results,
           LedgerIntact(made, altered, evidence, mishaps, left.copy),
           more \cap altered = {}
    PROVE  RunIntact(made, altered, evidence, mishaps, next)
<1>1. /\ next.copy = left.copy /\ next.tainted = proc[p].tainted /\ next.at # "finish"
      /\ \A c \in Cell : Ids(next.results[c]) \subseteq Ids(proc[p].results[c]) \cup more \cup {0}
    BY DEF Follows
<1>2. \A c \in Cell : Ids(proc[p].results[c]) \cap proc[p].tainted = {}
    BY DEF Intact, RunIntact
<1>3. \A c \in Cell : Ids(next.results[c]) \cap next.tainted = {}
    BY <1>1, <1>2, Zero
<1> QED BY <1>1, <1>3, Zero DEF RunIntact

LEMMA StartIntact ==
    ASSUME IInv, Intact, NEW p \in Proc, Start(p) PROVE Intact'
<1> DEFINE copy == Started(proc[p])
           run == [proc[p] EXCEPT !.copy = copy, !.at = "operate"]
<1>1. /\ proc[p] \in Run /\ RunSound(made, alias, proc[p]) /\ proc[p].at = "begin"
      /\ mishaps \in Nat /\ made \in Seq(Execution)
    BY DEF IInv, TypeOK, Sound, Start, At
<1>2. copy \in Ledger
    BY <1>1, StartedSound
<1>3. LedgerIntact(made, altered, evidence, mishaps, proc[p].copy)
    BY DEF Intact, RunIntact
<1>4. copy.stages = [proc[p].copy.stages EXCEPT ![proc[p].stage] = Begun(proc[p])]
    BY DEF Started
<1>5. Begun(proc[p]).hash = Missing /\ Begun(proc[p]).status = "RUNNING" /\ Missing.edit = 0 /\ Missing.of = 0
    BY DEF Begun, Missing
<1>6. proc[p].copy.stages \in [Stage -> Record] /\ Len(made) \in Nat
    BY <1>1 DEF Run, Ledger
<1>7. LedgerIntact(made, altered, evidence, mishaps, copy)
  <2>1. ASSUME NEW s \in Stage PROVE RecordIntact(made, altered, evidence, mishaps, s, copy.stages[s])
    <3>1. CASE s = proc[p].stage
      BY <1>1, <1>4, <1>5, <1>6, <3>1 DEF RecordIntact
    <3>2. CASE s # proc[p].stage
      BY <1>3, <1>4, <1>6, <3>2 DEF LedgerIntact
    <3> QED BY <3>1, <3>2
  <2> QED BY <2>1 DEF LedgerIntact
<1>8. proc' = [proc EXCEPT ![p] = run] /\ ledger' = copy
    BY DEF Start, Write, IInv, TypeOK
<1> HIDE DEF copy
<1>9. /\ run \in Run /\ run.copy = copy /\ run.at = "operate" /\ run.tainted = proc[p].tainted
      /\ run.results = proc[p].results
    BY <1>1, <1>2 DEF Run, Inside
<1> HIDE DEF run
<1>10. RunIntact(made, altered, evidence, mishaps, run)
    BY <1>7, <1>9 DEF Intact, RunIntact
<1>11. UNCHANGED <<made, altered, evidence, mishaps>>
    BY DEF Start, files, count
<1>12. mishaps' \in Nat /\ mishaps <= mishaps' /\ ledger' \in Ledger
    BY <1>1, <1>2, <1>8, <1>11
<1>13. LedgerIntact(made, altered, evidence, mishaps, ledger')
    BY <1>7, <1>8
<1> QED BY <1>8, <1>9, <1>10, <1>11, <1>12, <1>13, IntactMoves

LEMMA FinishedIntact ==
    ASSUME IInv, Intact, NEW p \in Proc, proc[p].at = "finish"
    PROVE  /\ Finished(proc[p]) \in Ledger
           /\ LedgerIntact(made, altered, evidence, mishaps, Finished(proc[p]))
<1> DEFINE run == proc[p]
           old == run.copy.stages
           hash == IF run.raised THEN Missing ELSE evidence[run.stage]
           record == [old[run.stage] EXCEPT !.status = run.status, !.output = run.output, !.hash = hash]
           new == Finished(run).stages
<1>1. /\ run \in Run /\ RunSound(made, alias, run) /\ evidence \in [Stage -> Content]
      /\ mishaps \in Nat /\ made \in Seq(Execution)
    BY DEF IInv, TypeOK, Sound
<1>2. Finished(run) \in Ledger
    BY <1>1, FinishedSound
<1>3. /\ LedgerIntact(made, altered, evidence, mishaps, run.copy)
      /\ run.status = "SUCCEEDED" => run.output \notin altered
    BY DEF Intact, RunIntact
<1>4. /\ old \in [Stage -> Record] /\ old[run.stage] \in Record /\ run.stage \in Stage
      /\ run.copy \in Ledger /\ Len(made) \in Nat
    BY <1>1 DEF Run, Ledger
<1>5. hash.edit <= mishaps /\ (Measured(run.stage) => hash.of <= Len(made))
  <2>1. Missing.edit = 0 /\ Missing.of = 0
    BY DEF Missing
  <2>2. /\ evidence[run.stage].edit <= mishaps
        /\ Measured(run.stage) /\ evidence[run.stage] # Missing => evidence[run.stage].of <= Len(made)
    BY <1>4 DEF Intact, EvidenceIntact
  <2> QED BY <1>1, <1>4, <2>1, <2>2
<1> HIDE DEF hash
<1>6. record.status = run.status /\ record.output = run.output /\ record.hash = hash
    BY <1>4 DEF Record
<1>7. Finished(run) = [run.copy EXCEPT !.stages = [@ EXCEPT ![run.stage] = record]]
    BY <1>4 DEF Finished, hash
<1> HIDE DEF record
<1>8. new = [old EXCEPT ![run.stage] = record]
    BY <1>4, <1>7 DEF Ledger
<1>9. ASSUME NEW s \in Stage PROVE RecordIntact(made, altered, evidence, mishaps, s, new[s])
  <2>1. CASE s = run.stage
    <3>1. new[s] = record
      BY <1>4, <1>8, <2>1
    <3> QED BY <1>3, <1>5, <1>6, <2>1, <3>1 DEF RecordIntact
  <2>2. CASE s # run.stage
    BY <1>3, <1>4, <1>8, <2>2 DEF LedgerIntact
  <2> QED BY <2>1, <2>2
<1> QED BY <1>2, <1>9 DEF LedgerIntact

LEMMA FinishIntact ==
    ASSUME IInv, Intact, NEW p \in Proc, Finish(p) PROVE Intact'
<1> DEFINE copy == Finished(proc[p])
           left == [proc[p] EXCEPT !.copy = copy, !.output = 0, !.status = "none"]
           id == proc[p].output
           run == AfterFinish(proc[p])
<1>1. /\ proc[p] \in Run /\ RunSound(made, alias, proc[p]) /\ proc[p].at = "finish" /\ mishaps \in Nat
    BY DEF IInv, TypeOK, Sound, Finish, At
<1>2. copy \in Ledger /\ LedgerIntact(made, altered, evidence, mishaps, copy)
    BY <1>1, FinishedIntact
<1>3. proc' = [proc EXCEPT ![p] = run] /\ ledger' = copy /\ UNCHANGED <<made, altered, evidence, mishaps>>
    BY DEF Finish, Write, files, count
<1>4. /\ proc[p].raised => run = [left EXCEPT !.at = "release"]
      /\ ~ proc[p].raised /\ proc[p].status = "FAILED" => run = AfterFailure(left)
      /\ ~ proc[p].raised /\ proc[p].status # "FAILED" => run = AfterSuccess(left, id)
    BY DEF AfterFinish
<1>5. proc[p].status = "FAILED" \/ id \notin altered
    BY <1>1 DEF Intact, RunIntact, RunSound, RunHolds
<1>6. proc[p].stage # Verify => Head(proc[p].todo) \in Cell
    BY <1>1, HeadTyped DEF RunSound, RunPlaced, Run
<1> HIDE DEF copy, id, run
<1>7. /\ left \in Run /\ left.copy = copy /\ left.stage = proc[p].stage /\ left.todo = proc[p].todo
      /\ left.tainted = proc[p].tainted /\ left.results = proc[p].results
    BY <1>1, <1>2 DEF Run
<1> HIDE DEF left
<1>8. RunIntact(made, altered, evidence, mishaps, run)
  <2>1. CASE proc[p].raised
    <3>1. /\ run.copy = copy /\ run.at = "release" /\ run.tainted = proc[p].tainted
          /\ run.results = proc[p].results
      BY <1>4, <1>7, <2>1 DEF Run
    <3> QED BY <1>2, <3>1 DEF Intact, RunIntact
  <2>2. CASE ~ proc[p].raised /\ proc[p].status = "FAILED"
    <3>1. Follows(left, run, {})
      BY <1>4, <1>7, <2>2, AfterFailureFollows
    <3> QED BY <1>2, <1>7, <3>1, FollowsIntact
  <2>3. CASE ~ proc[p].raised /\ proc[p].status # "FAILED"
    <3> DEFINE more == IF left.stage[1] \in {"research", "backtest"} THEN {id} ELSE {}
    <3>1. Follows(left, run, more)
      BY <1>4, <1>6, <1>7, <2>3, AfterSuccessFollows
    <3>2. more \cap altered = {}
      BY <1>5, <2>3
    <3> HIDE DEF more
    <3> QED BY <1>2, <1>7, <3>1, <3>2, FollowsIntact
  <2> QED BY <2>1, <2>2, <2>3
<1>9. run \in Run
  <2>1. IInv'
    BY FinishKeeps
  <2>2. proc' \in [Proc -> Run] /\ proc'[p] = run
    BY <1>3, <2>1 DEF IInv, TypeOK
  <2> QED BY <2>2
<1>10. mishaps' \in Nat /\ mishaps <= mishaps' /\ ledger' \in Ledger
       /\ LedgerIntact(made, altered, evidence, mishaps, ledger')
    BY <1>1, <1>2, <1>3
<1> QED BY <1>3, <1>8, <1>9, <1>10, IntactMoves

(* The steps that leave the records alone.                                 *)
LEMMA QuietIntact ==
    ASSUME IInv, IInv', Intact, NEW p \in Proc, UNCHANGED <<made, altered, evidence, ledger>>,
           mishaps <= mishaps', \A q \in Proc \ {p} : proc'[q] = proc[q],
           RunIntact(made, altered, evidence, mishaps, proc'[p])
    PROVE  Intact'
<1>1. /\ mishaps' \in Nat /\ mishaps \in Nat /\ ledger' \in Ledger /\ evidence \in [Stage -> Content]
      /\ \A q \in Proc : proc'[q] \in Run
    BY DEF IInv, TypeOK
<1>2. \A q \in Proc : RunIntact(made, altered, evidence, mishaps, proc'[q])
    BY DEF Intact
<1>3. \A q \in Proc : RunIntact(made, altered, evidence, mishaps', proc'[q])
    BY <1>1, <1>2, Later
<1>4. /\ EvidenceIntact(made, altered, evidence, mishaps')
      /\ LedgerIntact(made, altered, evidence, mishaps', ledger')
    BY <1>1, Later DEF Intact
<1> QED BY <1>3, <1>4 DEF Intact

LEMMA StepIntact1 ==
    ASSUME IInv, IInv', Intact, NEW p \in Proc,
           \/ Ask(p) \/ Plan(p) \/ Sketch(p) \/ Load(p) \/ CheckLease(p) \/ Unlink(p) \/ Create(p) \/ Refuse(p)
           \/ Reject(p) \/ Kill(p) \/ Packs(p) \/ WriteMatrix(p) \/ Release(p) \/ Raises(p) \/ Incompatible(p)
           \/ Predictions(p) \/ Reuse(p)
    PROVE  Intact'
<1>1. proc[p] \in Run /\ RunSound(made, alias, proc[p]) /\ mishaps \in Nat /\ Idle \in Run
    BY IdleSound DEF IInv, TypeOK, Sound
<1>2. \A q \in Proc \ {p} : proc'[q] = proc[q]
    BY OthersStay DEF IInv, Step
<1>3. UNCHANGED <<made, altered, evidence, ledger>> /\ mishaps <= mishaps'
  <2>1. UNCHANGED <<made, altered, evidence, ledger>>
    BY DEF Ask, Plan, Sketch, Load, CheckLease, Unlink, Create, Refuse, Reject, Kill, Packs, WriteMatrix, Release,
           Raises, Incompatible, Predictions, Reuse, files
  <2>2. UNCHANGED mishaps \/ Mishap
    BY DEF Ask, Plan, Sketch, Load, CheckLease, Unlink, Create, Refuse, Reject, Kill, Packs, WriteMatrix, Release,
           Raises, Incompatible, Predictions, Reuse, count
  <2> QED BY <1>1, <2>1, <2>2 DEF Mishap
<1>4. ASSUME Ask(p) PROVE RunIntact(made, altered, evidence, mishaps, proc'[p])
    BY <1>4 DEF Ask, Intact
<1>5. ASSUME Plan(p) PROVE RunIntact(made, altered, evidence, mishaps, proc'[p])
  <2>1. PICK anchor : Planned(p, anchor)
    BY <1>5 DEF Plan
  <2>2. /\ proc'[p].copy = Idle.copy /\ proc'[p].tainted = Idle.tainted
        /\ proc'[p].results = Idle.results /\ proc'[p].at # "finish"
    BY <1>1, <2>1 DEF Planned, IInv, TypeOK, Run
  <2> QED BY <2>2, IdleIntact DEF RunIntact
<1>6. ASSUME Load(p) PROVE RunIntact(made, altered, evidence, mishaps, proc'[p])
  <2>1. /\ proc'[p].copy = ledger /\ proc'[p].tainted = altered
        /\ proc'[p].results = proc[p].results /\ proc'[p].at # "finish"
    BY <1>1, <1>6 DEF Load, IInv, TypeOK, Run
  <2>2. proc[p].results = NoResult
    BY <1>1, <1>6 DEF Load, At, RunSound, RunPlaced
  <2>3. \A c \in Cell : Ids(proc'[p].results[c]) = {0}
    BY <2>1, <2>2 DEF NoResult, Ids
  <2> QED BY <2>1, <2>3, Zero DEF Intact, RunIntact
<1>7. ASSUME Sketch(p) \/ Reject(p) \/ Kill(p) PROVE RunIntact(made, altered, evidence, mishaps, proc'[p])
  <2>1. proc'[p] = Idle
    BY <1>7 DEF Sketch, Reject, Kill, Leave, IInv, TypeOK
  <2> QED BY <2>1, IdleIntact
<1>8. ASSUME CheckLease(p) \/ Create(p) \/ Refuse(p) \/ WriteMatrix(p)
      PROVE  RunIntact(made, altered, evidence, mishaps, proc'[p])
  <2>1. /\ proc'[p].copy = proc[p].copy /\ proc'[p].tainted = proc[p].tainted
        /\ proc'[p].results = proc[p].results /\ proc'[p].at # "finish"
    <3>1. PICK at \in {"unlink", "create", "begin", "reject", "release"} : proc'[p] = [proc[p] EXCEPT !.at = at]
      BY <1>8 DEF CheckLease, Create, Lease, Refuse, WriteMatrix, IInv, TypeOK
    <3> QED BY <1>1, <3>1 DEF Run
  <2> QED BY <2>1, Continues
<1>9. ASSUME Unlink(p) \/ Release(p) PROVE RunIntact(made, altered, evidence, mishaps, proc'[p])
  <2>1. \/ proc'[p] = Idle
        \/ /\ proc'[p].copy = proc[p].copy /\ proc'[p].tainted = proc[p].tainted
           /\ proc'[p].results = proc[p].results /\ proc'[p].at # "finish"
    <3>1. \/ proc'[p] = Idle
          \/ \E at \in {"create", "reject"} : proc'[p] = [proc[p] EXCEPT !.at = at]
      BY <1>1, <1>9 DEF Unlink, Release, IInv, TypeOK
    <3> QED BY <1>1, <3>1 DEF Run
  <2> QED BY <2>1, Continues, IdleIntact
<1>10. ASSUME Packs(p) PROVE RunIntact(made, altered, evidence, mishaps, proc'[p])
  <2>1. /\ proc'[p].copy = proc[p].copy /\ proc'[p].tainted = proc[p].tainted
        /\ proc'[p].results = proc[p].results /\ proc'[p].at # "finish"
    BY <1>1, <1>10 DEF Packs, IInv, TypeOK, Run
  <2> QED BY <2>1, Continues
<1>11. ASSUME Raises(p) \/ Incompatible(p) PROVE RunIntact(made, altered, evidence, mishaps, proc'[p])
  <2>1. /\ proc'[p].copy = proc[p].copy /\ proc'[p].tainted = proc[p].tainted
        /\ proc'[p].results = proc[p].results /\ (proc'[p].at # "finish" \/ proc'[p].status = "FAILED")
    <3>1. CASE Raises(p)
      BY <1>1, <3>1 DEF Raises, IInv, TypeOK, Run
    <3>2. CASE Incompatible(p)
      BY <1>1, <3>2 DEF Incompatible, IInv, TypeOK, Run
    <3> QED BY <1>11, <3>1, <3>2
  <2> QED BY <2>1, Continues
<1>12. ASSUME Predictions(p) PROVE RunIntact(made, altered, evidence, mishaps, proc'[p])
  <2>1. \/ proc'[p] = NextCell(proc[p])
        \/ proc'[p] = [proc[p] EXCEPT !.at = "begin", !.stage = <<"backtest", Head(proc[p].todo)>>]
    BY <1>12 DEF Predictions, IInv, TypeOK
  <2>2. CASE proc'[p] = NextCell(proc[p])
    <3>1. Follows(proc[p], proc'[p], {}) /\ LedgerIntact(made, altered, evidence, mishaps, proc[p].copy)
      BY <1>1, <2>2, NextCellFollows DEF Intact, RunIntact
    <3> QED BY <3>1, FollowsIntact
  <2>3. CASE proc'[p] = [proc[p] EXCEPT !.at = "begin", !.stage = <<"backtest", Head(proc[p].todo)>>]
    <3>1. /\ proc'[p].copy = proc[p].copy /\ proc'[p].tainted = proc[p].tainted
          /\ proc'[p].results = proc[p].results /\ proc'[p].at # "finish"
      BY <1>1, <2>3 DEF Run
    <3> QED BY <3>1, Continues
  <2> QED BY <2>1, <2>2, <2>3
<1>13. ASSUME Reuse(p) PROVE RunIntact(made, altered, evidence, mishaps, proc'[p])
  <2> DEFINE r == RecordOf(proc[p])
             more == IF proc[p].stage[1] \in {"research", "backtest"} THEN {r.output} ELSE {}
  <2>1. proc'[p] = AfterSuccess(proc[p], r.output)
    BY <1>13, Stages
  <2>2. r.status = "SUCCEEDED" /\ r.hash # Missing /\ evidence[proc[p].stage] = r.hash
    BY <1>13 DEF Reuse, Reusable, Agrees
  <2>3. LedgerIntact(made, altered, evidence, mishaps, proc[p].copy) /\ proc[p].stage \in Stage
    BY <1>1 DEF Intact, RunIntact, Run
  <2>4. RecordIntact(made, altered, evidence, mishaps, proc[p].stage, r)
    BY <2>3 DEF LedgerIntact, RecordOf
  <2>5. more \cap altered = {}
    BY <2>2, <2>4 DEF RecordIntact, Measured
  <2>6. proc[p].stage # Verify => Head(proc[p].todo) \in Cell
    BY <1>1, <1>13, HeadTyped DEF Reuse, At, RunSound, RunPlaced, Run
  <2> HIDE DEF r
  <2>7. Follows(proc[p], proc'[p], more)
    BY <1>1, <2>1, <2>6, AfterSuccessFollows
  <2> HIDE DEF more
  <2> QED BY <2>3, <2>5, <2>7, FollowsIntact
<1>14. RunIntact(made, altered, evidence, mishaps, proc'[p])
    BY <1>4, <1>5, <1>6, <1>7, <1>8, <1>9, <1>10, <1>11, <1>12, <1>13
<1> QED BY <1>2, <1>3, <1>14, QuietIntact

(* The steps that change the evidence, for any record that was intact.     *)
LEMMA OperateIntact ==
    ASSUME IInv, IInv', Intact, NEW p \in Proc, Operate(p) PROVE Intact'
<1> DEFINE t == proc[p].stage
           id == Len(made) + 1
           content == Saying(t, id, alias)
<1>1. /\ proc[p] \in Run /\ t \in Stage /\ made \in Seq(Execution) /\ Len(made) \in Nat
      /\ evidence \in [Stage -> Content] /\ mishaps \in Nat /\ ledger \in Ledger
  <2>1. proc[p] \in Run /\ made \in Seq(Execution) /\ evidence \in [Stage -> Content]
        /\ mishaps \in Nat /\ ledger \in Ledger
    BY DEF IInv, TypeOK
  <2>2. t \in Stage
    BY <2>1 DEF Run
  <2> QED BY <2>1, <2>2
<1>2. /\ evidence' = [evidence EXCEPT ![t] = content]
      /\ UNCHANGED <<altered, ledger, mishaps>>
    BY DEF Operate, count
<1>3. /\ Len(made') = id /\ made'[id].stage = t
      /\ \A i \in 1 .. Len(made) : made'[i] = made[i]
  <2> DEFINE e == [stage |-> t, recipe |-> InputOf(proc[p]).recipe, dataset |-> alias,
                   of |-> InputOf(proc[p]).of, wild |-> proc[p].wild]
  <2>1. made' = Append(made, e)
    BY DEF Operate
  <2>2. e.stage = t
    OBVIOUS
  <2> HIDE DEF e
  <2>3. made' = Append(made, e) => Len(made') = id /\ made'[id] = e /\ \A i \in 1 .. Len(made) : made'[i] = made[i]
    BY <1>1
  <2> QED BY <2>1, <2>2, <2>3
<1>4. content.edit = 0 /\ (Measured(t) => content.of = id)
    BY StageShape DEF Saying, Measured
<1> HIDE DEF content, t
<1>5. ASSUME NEW s \in Stage, NEW r \in Record, RecordIntact(made, altered, evidence, mishaps, s, r)
      PROVE  RecordIntact(made', altered', evidence', mishaps', s, r)
  <2>1. r.hash.of \in Nat /\ r.hash \in Content
    BY DEF Record, Content
  <2>2. Measured(s) /\ s = t => evidence'[s] # r.hash
    BY <1>1, <1>2, <1>4, <1>5, <2>1 DEF RecordIntact
  <2>3. s # t => evidence'[s] = evidence[s]
    BY <1>1, <1>2
  <2> QED BY <1>1, <1>2, <1>3, <1>5, <2>1, <2>2, <2>3 DEF RecordIntact
<1>6. \A l \in Ledger : LedgerIntact(made, altered, evidence, mishaps, l) =>
                        LedgerIntact(made', altered', evidence', mishaps', l)
    BY <1>5 DEF LedgerIntact, Ledger
<1>7. altered \subseteq 1 .. Len(made)
    BY DEF Intact, EvidenceIntact
<1>8. EvidenceIntact(made', altered', evidence', mishaps')
  <2>1. altered' \subseteq 1 .. Len(made')
    BY <1>1, <1>2, <1>3, <1>7
  <2>2. ASSUME NEW s \in Stage
        PROVE  /\ evidence'[s].edit <= mishaps'
               /\ Measured(s) /\ evidence'[s] # Missing =>
                     evidence'[s].of \in 1 .. Len(made') /\ made'[evidence'[s].of].stage = s
    <3>1. CASE s = t
      BY <1>1, <1>2, <1>3, <1>4, <3>1
    <3>2. CASE s # t
      <4>1. evidence'[s] = evidence[s]
        BY <1>1, <1>2, <3>2
      <4>2. /\ evidence[s].edit <= mishaps
            /\ Measured(s) /\ evidence[s] # Missing => evidence[s].of \in 1 .. Len(made) /\ made[evidence[s].of].stage = s
        BY DEF Intact, EvidenceIntact
      <4> QED BY <1>1, <1>2, <1>3, <4>1, <4>2
    <3> QED BY <3>1, <3>2
  <2> QED BY <2>1, <2>2 DEF EvidenceIntact
<1>9. ASSUME NEW q \in Proc PROVE RunIntact(made', altered', evidence', mishaps', proc'[q])
  <2>1. proc[q].copy \in Ledger /\ RunIntact(made, altered, evidence, mishaps, proc[q])
    BY DEF IInv, TypeOK, Run, Intact
  <2>2. CASE q # p
    <3>1. proc'[q] = proc[q]
      BY <2>2 DEF Operate, IInv, TypeOK
    <3> QED BY <1>2, <1>6, <2>1, <3>1 DEF RunIntact
  <2>3. CASE q = p
    <3>1. /\ proc'[p].copy = proc[p].copy /\ proc'[p].tainted = proc[p].tainted
          /\ proc'[p].results = proc[p].results /\ proc'[p].output = id
      BY <1>1 DEF Operate, IInv, TypeOK, Run
    <3>2. id \notin altered
      BY <1>1, <1>7
    <3> QED BY <1>2, <1>6, <2>1, <2>3, <3>1, <3>2 DEF RunIntact
  <2> QED BY <2>2, <2>3
<1> QED BY <1>1, <1>2, <1>6, <1>8, <1>9 DEF Intact

LEMMA ChildFailsIntact ==
    ASSUME IInv, IInv', Intact, NEW p \in Proc, ChildFails(p) PROVE Intact'
<1> DEFINE t == proc[p].stage
<1>1. /\ proc[p] \in Run /\ t \in Stage /\ evidence \in [Stage -> Content] /\ mishaps \in Nat /\ ledger \in Ledger
    BY DEF IInv, TypeOK, Run
<1>2. /\ evidence' = [evidence EXCEPT ![t] = Missing]
      /\ UNCHANGED <<made, altered, ledger>> /\ mishaps' = mishaps + 1
    BY DEF ChildFails, Mishap
<1> HIDE DEF t
<1>3. \A s \in Stage : evidence'[s] = IF s = t THEN Missing ELSE evidence[s]
    BY <1>1, <1>2
<1>4. Missing.edit = 0
    BY DEF Missing
<1>5. ASSUME NEW s \in Stage, NEW r \in Record, RecordIntact(made, altered, evidence, mishaps, s, r)
      PROVE  RecordIntact(made', altered', evidence', mishaps', s, r)
  <2>1. r.hash.edit \in Nat
    BY DEF Record, Content
  <2> QED BY <1>1, <1>2, <1>3, <1>5, <2>1 DEF RecordIntact
<1>6. \A l \in Ledger : LedgerIntact(made, altered, evidence, mishaps, l) =>
                        LedgerIntact(made', altered', evidence', mishaps', l)
    BY <1>5 DEF LedgerIntact, Ledger
<1>7. EvidenceIntact(made', altered', evidence', mishaps')
  <2>1. \A s \in Stage : evidence[s].edit \in Nat
    BY <1>1 DEF Content
  <2> QED BY <1>1, <1>2, <1>3, <1>4, <2>1 DEF Intact, EvidenceIntact
<1>8. ASSUME NEW q \in Proc PROVE RunIntact(made', altered', evidence', mishaps', proc'[q])
  <2>1. proc[q].copy \in Ledger /\ RunIntact(made, altered, evidence, mishaps, proc[q])
    BY DEF IInv, TypeOK, Run, Intact
  <2>2. CASE q # p
    <3>1. proc'[q] = proc[q]
      BY <2>2 DEF ChildFails, IInv, TypeOK
    <3> QED BY <1>2, <1>6, <2>1, <3>1 DEF RunIntact
  <2>3. CASE q = p
    <3>1. /\ proc'[p].copy = proc[p].copy /\ proc'[p].tainted = proc[p].tainted
          /\ proc'[p].results = proc[p].results /\ proc'[p].status = "FAILED"
      BY <1>1 DEF ChildFails, IInv, TypeOK, Run
    <3> QED BY <1>2, <1>6, <2>1, <2>3, <3>1 DEF RunIntact
  <2> QED BY <2>2, <2>3
<1> QED BY <1>1, <1>2, <1>6, <1>7, <1>8 DEF Intact

LEMMA AlterIntact ==
    ASSUME IInv, IInv', Intact, NEW t \in Stage, Alter(t) PROVE Intact'
<1> DEFINE id == evidence[t].of
<1>1. /\ evidence \in [Stage -> Content] /\ mishaps \in Nat /\ ledger \in Ledger /\ evidence[t] # Missing
      /\ UNCHANGED <<made, ledger, proc>> /\ mishaps' = mishaps + 1
    BY DEF Alter, Mishap, IInv, TypeOK
<1>2. /\ evidence' = [evidence EXCEPT ![t] = [evidence[t] EXCEPT !.edit = mishaps + 1]]
      /\ altered' = IF Measured(t) THEN altered \cup ({id} \ {proc[p].output : p \in Proc}) ELSE altered
    BY <1>1 DEF Alter, Measured
<1>3. /\ \A s \in Stage \ {t} : evidence'[s] = evidence[s]
      /\ evidence'[t].edit = mishaps + 1 /\ evidence'[t].of = id /\ evidence[t].of = id
    BY <1>1, <1>2 DEF Content
<1>4. Measured(t) => id \in 1 .. Len(made) /\ made[id].stage = t
    BY <1>1 DEF Intact, EvidenceIntact
<1>5. /\ altered \subseteq altered' /\ altered' \subseteq altered \cup {id}
      /\ ~ Measured(t) => altered' = altered
      /\ \A q \in Proc : proc[q].output \notin altered => proc[q].output \notin altered'
    BY <1>2
<1> HIDE DEF id
<1>6. ASSUME NEW s \in Stage, NEW r \in Record, RecordIntact(made, altered, evidence, mishaps, s, r),
             RecordSound(made, s, r)
      PROVE  RecordIntact(made', altered', evidence', mishaps', s, r)
  <2>1. r.hash.edit \in Nat /\ r.hash.edit <= mishaps /\ (Measured(s) => r.hash.of <= Len(made))
    BY <1>6 DEF Record, Content, RecordIntact
  <2>2. ASSUME Measured(s), r.status = "SUCCEEDED", r.output \in altered', r.hash # Missing
        PROVE  evidence'[s] # r.hash
    <3>1. CASE s = t
      BY <1>1, <1>3, <2>1, <3>1
    <3>2. CASE s # t
      <4>1. made[r.output].stage = s
        BY <1>6, <2>2 DEF RecordSound, FitsInput, Fits
      <4>2. r.output \in altered
        BY <1>4, <1>5, <2>2, <3>2, <4>1
      <4> QED BY <1>3, <1>6, <2>2, <3>2, <4>2 DEF RecordIntact
    <3> QED BY <3>1, <3>2
  <2> QED BY <1>1, <2>1, <2>2 DEF RecordIntact
<1>7. ASSUME NEW l \in Ledger, LedgerSound(made, l), LedgerIntact(made, altered, evidence, mishaps, l)
      PROVE  LedgerIntact(made', altered', evidence', mishaps', l)
    BY <1>6, <1>7 DEF LedgerIntact, LedgerSound, Ledger
<1>8. EvidenceIntact(made', altered', evidence', mishaps')
  <2>1. \A s \in Stage : evidence[s].edit \in Nat
    BY <1>1 DEF Content
  <2>2. altered' \subseteq 1 .. Len(made')
    BY <1>1, <1>4, <1>5 DEF Intact, EvidenceIntact
  <2>3. ASSUME NEW s \in Stage
        PROVE  /\ evidence'[s].edit <= mishaps'
               /\ Measured(s) /\ evidence'[s] # Missing =>
                     evidence'[s].of \in 1 .. Len(made') /\ made'[evidence'[s].of].stage = s
    <3>1. CASE s = t
      BY <1>1, <1>3, <1>4, <3>1
    <3>2. CASE s # t
      BY <1>1, <1>3, <2>1, <3>2 DEF Intact, EvidenceIntact
    <3> QED BY <3>1, <3>2
  <2> QED BY <2>2, <2>3 DEF EvidenceIntact
<1>9. ASSUME NEW q \in Proc PROVE RunIntact(made', altered', evidence', mishaps', proc'[q])
  <2>1. /\ proc[q].copy \in Ledger /\ RunIntact(made, altered, evidence, mishaps, proc[q])
        /\ LedgerSound(made, proc[q].copy) /\ proc'[q] = proc[q]
    BY <1>1 DEF IInv, TypeOK, Sound, RunSound, Run, Intact
  <2> QED BY <1>5, <1>7, <2>1 DEF RunIntact
<1>10. LedgerIntact(made', altered', evidence', mishaps', ledger')
    BY <1>1, <1>7 DEF Intact, IInv, Sound
<1> QED BY <1>8, <1>9, <1>10 DEF Intact

LEMMA MoveAliasIntact ==
    ASSUME IInv, IInv', Intact, MoveAlias PROVE Intact'
<1>1. /\ mishaps' \in Nat /\ mishaps \in Nat /\ mishaps <= mishaps' /\ ledger' \in Ledger
      /\ evidence \in [Stage -> Content] /\ UNCHANGED <<made, altered, evidence, ledger>>
      /\ \A q \in Proc : proc'[q] \in Run
    BY DEF IInv, TypeOK, MoveAlias, Mishap
<1>2. ASSUME NEW q \in Proc PROVE RunIntact(made, altered, evidence, mishaps, proc'[q])
  <2>1. proc[q] \in Run /\ RunIntact(made, altered, evidence, mishaps, proc[q])
    BY DEF IInv, TypeOK, Intact
  <2>2. proc'[q] = proc[q] \/ proc'[q] = [proc[q] EXCEPT !.wild = TRUE]
    BY DEF MoveAlias
  <2> QED BY <2>1, <2>2 DEF Run, RunIntact
<1>3. \A q \in Proc : RunIntact(made, altered, evidence, mishaps', proc'[q])
    BY <1>1, <1>2, Later
<1>4. /\ EvidenceIntact(made, altered, evidence, mishaps')
      /\ LedgerIntact(made, altered, evidence, mishaps', ledger')
    BY <1>1, Later DEF Intact
<1> QED BY <1>1, <1>3, <1>4 DEF Intact

LEMMA ExpireIntact ==
    ASSUME IInv, IInv', Intact, Expire PROVE Intact'
<1>1. /\ mishaps' \in Nat /\ mishaps \in Nat /\ mishaps <= mishaps' /\ ledger \in Ledger
      /\ evidence \in [Stage -> Content] /\ UNCHANGED <<made, altered, evidence, ledger, proc>>
      /\ \A q \in Proc : proc[q] \in Run
    BY DEF IInv, TypeOK, Expire, Mishap, count, files
<1>2. \A q \in Proc : RunIntact(made, altered, evidence, mishaps', proc[q])
    BY <1>1, Later DEF Intact
<1>3. /\ EvidenceIntact(made, altered, evidence, mishaps')
      /\ LedgerIntact(made, altered, evidence, mishaps', ledger)
    BY <1>1, Later DEF Intact
<1> QED BY <1>1, <1>2, <1>3 DEF Intact

LEMMA StepIntact == IInv /\ IInv' /\ Intact /\ [Next]_vars => Intact'
<1> SUFFICES ASSUME IInv, IInv', Intact, [Next]_vars PROVE Intact'
    OBVIOUS
<1>1. ASSUME NEW p \in Proc, Ask(p) \/ Plan(p) \/ Step(p) \/ ChildFails(p) \/ Raises(p) \/ Incompatible(p) \/ Kill(p)
      PROVE  Intact'
    BY <1>1, StepIntact1, StartIntact, FinishIntact, OperateIntact, ChildFailsIntact DEF Step
<1>2. CASE Expire \/ MoveAlias \/ \E s \in Stage : Alter(s)
    BY <1>2, ExpireIntact, MoveAliasIntact, AlterIntact
<1>3. CASE UNCHANGED vars
    BY <1>3 DEF vars, count, Intact
<1> QED BY <1>1, <1>2, <1>3 DEF Next

(* A run reports no result that was altered before it began.               *)
THEOREM IntactResults == Spec => []ReportsIntact
<1>1. Init => Intact
  <2> SUFFICES ASSUME Init PROVE Intact
    OBVIOUS
  <2>1. /\ \A s \in Stage : NoLedger.stages[s].hash = Missing /\ NoLedger.stages[s].status = "none"
        /\ Missing.edit = 0 /\ Missing.of = 0
    BY DEF NoLedger, NoRecord, Missing
  <2>2. Len(made) = 0 /\ mishaps = 0 /\ altered = {} /\ \A s \in Stage : evidence[s] = Missing
    BY DEF Init
  <2>3. LedgerIntact(made, altered, evidence, mishaps, NoLedger)
    BY <2>1, <2>2 DEF LedgerIntact, RecordIntact
  <2>4. EvidenceIntact(made, altered, evidence, mishaps)
    BY <2>1, <2>2 DEF EvidenceIntact
  <2>5. Idle.copy = NoLedger /\ Idle.tainted = {} /\ Idle.at = "idle"
    BY DEF Idle
  <2>6. RunIntact(made, altered, evidence, mishaps, Idle)
    BY <2>3, <2>5 DEF RunIntact
  <2> QED BY <2>3, <2>4, <2>6 DEF Init, Intact
<1>2. IInv /\ IInv' /\ Intact /\ [Next]_vars => Intact'
    BY StepIntact
<1>3. Intact => ReportsIntact
    BY DEF Intact, RunIntact, ReportsIntact, Ids
<1> QED BY <1>1, <1>2, <1>3, Invariance, PTL DEF Spec
================================================================================
