-------------------------- MODULE DailySignal_proofs ---------------------------
(***************************************************************************)
(* Proofs about DailySignal, for any models, processes, datasets and       *)
(* bounds.  Each invariant is preserved action by action.                  *)
(***************************************************************************)
EXTENDS DailySignal, FiniteSetTheorems, TLAPS

USE ModelAssumption, DatasetAssumption, BoundAssumption

LEMMA SignalType ==
    ASSUME NEW m \in Model, NEW d \in Dataset, NEW s \in Session
    PROVE  <<m, d, s>> \in Signal
  BY DEF Signal

(* The reads give every process past them a model, so its signal is one.   *)
Past == {"judge", "register", "notify", "finish"} \cup Names
Chosen == \A p \in Proc : proc[p].at \in Past => proc[p].model \in Model

LEMMA MineType ==
    ASSUME TypeOK, Chosen, NEW p \in Proc,
           proc[p].at \in Past
    PROVE  Mine(p) \in Signal
  BY SignalType DEF TypeOK, Chosen, Mine, ProcState

Finite == IsFiniteSet(Registered)

LEMMA SwitchType ==
    ASSUME NEW r \in ProcState, NEW b \in BOOLEAN
    PROVE  /\ [r EXCEPT !.switched = b] \in ProcState
           /\ [r EXCEPT !.switched = b].model = r.model
           /\ [r EXCEPT !.switched = b].at = r.at
  BY DEF ProcState

LEMMA MovedType ==
    ASSUME NEW r \in ProcState, NEW a \in At
    PROVE  /\ [r EXCEPT !.at = a] \in ProcState
           /\ [r EXCEPT !.at = a].at = a
           /\ [r EXCEPT !.at = a].model = r.model
           /\ [r EXCEPT !.at = a].dataset = r.dataset
           /\ [r EXCEPT !.at = a].date = r.date
           /\ [r EXCEPT !.at = a].switched = r.switched
           /\ [r EXCEPT !.at = a].verdict = r.verdict
  BY DEF ProcState

LEMMA ClosedType ==
    ASSUME NEW r \in ProcState, NEW b \in BOOLEAN
    PROVE  /\ [r EXCEPT !.open = b] \in ProcState
           /\ [r EXCEPT !.open = b].at = r.at
           /\ [r EXCEPT !.open = b].model = r.model
           /\ [r EXCEPT !.open = b].dataset = r.dataset
           /\ [r EXCEPT !.open = b].date = r.date
           /\ [r EXCEPT !.open = b].switched = r.switched
           /\ [r EXCEPT !.open = b].verdict = r.verdict
  BY DEF ProcState

LEMMA JudgedType ==
    ASSUME NEW r \in ProcState, NEW v \in Verdict, NEW x,
           x = [r EXCEPT !.at = "attestation", !.verdict = v, !.sync = FALSE]
    PROVE  x \in ProcState /\ x.model = r.model
<1> DEFINE k == [r EXCEPT !.at = "attestation"]
           l == [k EXCEPT !.verdict = v]
           m == [l EXCEPT !.sync = FALSE]
<1>1. "attestation" \in At
    BY DEF At, Names
<1>2. k \in ProcState /\ k.model = r.model
    BY <1>1, MovedType
<1> HIDE DEF k
<1>3. l \in ProcState /\ l.model = k.model
    BY <1>2 DEF ProcState
<1> HIDE DEF l
<1>4. m \in ProcState /\ m.model = l.model
    BY <1>3 DEF ProcState
<1>5. m = x
    BY DEF k, l
<1> QED BY <1>2, <1>3, <1>4, <1>5

LEMMA InitType == Init => TypeOK /\ Chosen /\ Finite
<1> SUFFICES ASSUME Init PROVE TypeOK /\ Chosen /\ Finite
    OBVIOUS
<1>1. Idle \in ProcState
    BY DEF Idle, ProcState, At, Verdict, Session
<1>2. proc \in [Proc -> ProcState] /\ Chosen
    BY <1>1 DEF Init, Chosen, Idle, Past, Names
<1>3. /\ NoSignal \in [status : {"none", "PASS", "REJECTED", "SUPERSEDED"}, order : Nat]
      /\ NoRun \in [status : {"none", "RUNNING", "PASS", "REJECTED", "FAILED"},
                    signal : Signal \cup {<<>>}]
      /\ NoFiles \in [Names -> Verdict \cup {"torn"}]
    BY DEF NoSignal, NoRun, NoFiles, Verdict
<1>4. Registered = {}
    BY DEF Init, Registered, NoSignal
<1> QED BY <1>2, <1>3, <1>4, FS_EmptySet DEF Init, TypeOK, Registry, Finite

(* A process moves without taking anything new into memory.                *)
LEMMA GotoType ==
    ASSUME TypeOK, Chosen, NEW p \in Proc, NEW a \in At, Goto(p, a),
           a \in Past => proc[p].at \in Past
    PROVE  proc' \in [Proc -> ProcState] /\ Chosen'
<1>1. proc \in [Proc -> ProcState]
    BY DEF TypeOK
<1> QED BY <1>1 DEF Chosen, Goto, ProcState

LEMMA IdleType ==
    ASSUME TypeOK, Chosen, NEW p \in Proc, proc' = [proc EXCEPT ![p] = Idle]
    PROVE  proc' \in [Proc -> ProcState] /\ Chosen'
<1>1. proc \in [Proc -> ProcState]
    BY DEF TypeOK
<1>2. Idle \in ProcState /\ Idle.at = "idle"
    BY DEF Idle, ProcState, At, Verdict, Session
<1> QED BY <1>1, <1>2 DEF Chosen, Past, Names

LEMMA RaiseType ==
    ASSUME TypeOK, Chosen, NEW p \in Proc, Raise(p)
    PROVE  /\ proc' \in [Proc -> ProcState] /\ Chosen'
           /\ proc'[p].at = "fail"
<1>1. proc \in [Proc -> ProcState] /\ proc[p].run \in 0 .. MaxRuns
    BY DEF TypeOK, ProcState
<1>2. proc'[p] = [at |-> "fail", run |-> proc[p].run, date |-> 1, sync |-> FALSE, dataset |-> 1,
                  model |-> NoModel, verdict |-> "none", switched |-> FALSE, open |-> FALSE]
    BY <1>1 DEF Raise, Idle
<1>3. proc'[p] \in ProcState /\ proc'[p].at = "fail"
    BY <1>1, <1>2 DEF ProcState, At, Verdict, Session
<1> QED BY <1>1, <1>3 DEF Raise, Chosen, Past, Names

(* What the three steps of the directory do to the process that takes one: *)
(* only its place changes, along the order of the files.                   *)
LEMMA WriterMoves ==
    ASSUME TypeOK, NEW p \in Proc, WriteJson(p) \/ Open(p) \/ Close(p)
    PROVE  /\ proc[p].at \in Names /\ proc' \in [Proc -> ProcState]
           /\ \A q \in Proc \ {p} : proc'[q] = proc[q]
           /\ proc'[p].model = proc[p].model /\ proc'[p].dataset = proc[p].dataset
           /\ proc'[p].date = proc[p].date /\ proc'[p].switched = proc[p].switched
           /\ proc'[p].verdict = proc[p].verdict
           /\ Open(p) => proc'[p].at = "scores" /\ proc'[p].open
           /\ ~Open(p) => proc'[p].at = After(proc[p].at)
<1>1. proc \in [Proc -> ProcState] /\ proc[p] \in ProcState
    BY DEF TypeOK
<1>2. proc[p].at \in Names
    BY DEF WriteJson, Open, Close, Names
<1>3. After(proc[p].at) \in At
    BY <1>2 DEF After, Names, At
<1>4. CASE WriteJson(p)
    <2>1. proc'[p] = [proc[p] EXCEPT !.at = After(proc[p].at)]
        BY <1>1, <1>4 DEF WriteJson, Goto
    <2>2. ~Open(p)
        BY <1>4 DEF WriteJson, Open
    <2>3. /\ proc'[p] \in ProcState /\ proc'[p].at = After(proc[p].at)
          /\ proc'[p].model = proc[p].model /\ proc'[p].dataset = proc[p].dataset
          /\ proc'[p].date = proc[p].date /\ proc'[p].switched = proc[p].switched
          /\ proc'[p].verdict = proc[p].verdict
        BY <1>1, <1>3, <2>1 DEF ProcState
    <2>4. proc' \in [Proc -> ProcState] /\ \A q \in Proc \ {p} : proc'[q] = proc[q]
        BY <1>1, <1>4, <2>3 DEF WriteJson, Goto
    <2> QED BY <1>2, <2>2, <2>3, <2>4
<1>5. CASE Open(p)
    <2>1. proc'[p] = [proc[p] EXCEPT !.open = TRUE] /\ proc[p].at = "scores"
        BY <1>1, <1>5 DEF Open
    <2>2. /\ proc'[p] \in ProcState /\ proc'[p].at = "scores" /\ proc'[p].open
          /\ proc'[p].model = proc[p].model /\ proc'[p].dataset = proc[p].dataset
          /\ proc'[p].date = proc[p].date /\ proc'[p].switched = proc[p].switched
          /\ proc'[p].verdict = proc[p].verdict
        BY <1>1, <2>1 DEF ProcState
    <2>3. proc' \in [Proc -> ProcState] /\ \A q \in Proc \ {p} : proc'[q] = proc[q]
        BY <1>1, <1>5, <2>2 DEF Open
    <2> QED BY <1>2, <1>5, <2>2, <2>3
<1>6. CASE Close(p)
    <2>1. /\ proc'[p] = [proc[p] EXCEPT !.at = After("scores"), !.open = FALSE]
          /\ proc[p].at = "scores" /\ ~Open(p)
        BY <1>1, <1>6 DEF Close, Open
    <2>2. /\ proc'[p] \in ProcState /\ proc'[p].at = After("scores")
          /\ proc'[p].model = proc[p].model /\ proc'[p].dataset = proc[p].dataset
          /\ proc'[p].date = proc[p].date /\ proc'[p].switched = proc[p].switched
          /\ proc'[p].verdict = proc[p].verdict
        <3> DEFINE k == [proc[p] EXCEPT !.at = After("scores")]
        <3>0. k \in ProcState
            BY <1>1, <1>3, <2>1, MovedType
        <3>1. /\ k.at = After("scores")
              /\ k.model = proc[p].model /\ k.dataset = proc[p].dataset /\ k.date = proc[p].date
              /\ k.switched = proc[p].switched /\ k.verdict = proc[p].verdict
            BY <1>1, <1>3, <2>1, MovedType
        <3>2. proc'[p] = [k EXCEPT !.open = FALSE]
            BY <2>1
        <3> HIDE DEF k
        <3>3. /\ proc'[p] \in ProcState /\ proc'[p].at = k.at /\ proc'[p].model = k.model
              /\ proc'[p].dataset = k.dataset /\ proc'[p].date = k.date
              /\ proc'[p].switched = k.switched /\ proc'[p].verdict = k.verdict
            BY <3>0, <3>2, ClosedType
        <3> QED BY <3>1, <3>3
    <2>3. proc' \in [Proc -> ProcState] /\ \A q \in Proc \ {p} : proc'[q] = proc[q]
        BY <1>1, <1>6, <2>2 DEF Close
    <2> QED BY <1>2, <2>1, <2>2, <2>3
<1> QED BY <1>4, <1>5, <1>6

(* A signal that is registered is one more row, with the next order.       *)
LEMMA InsertType ==
    ASSUME TypeOK, Finite, NEW s \in Signal, NEW v \in Verdict, Insert(s, v)
    PROVE  /\ signal' \in [Signal -> [status : {"none", "PASS", "REJECTED", "SUPERSEDED"},
                                      order : Nat]]
           /\ Registered' = Registered \cup {s}
           /\ Finite'
<1>1. Cardinality(Registered) \in Nat
    BY FS_CardinalityType DEF Finite
<1>2. signal \in [Signal -> [status : {"none", "PASS", "REJECTED", "SUPERSEDED"}, order : Nat]]
    BY DEF TypeOK
<1>3. Row(v) \in [status : {"none", "PASS", "REJECTED", "SUPERSEDED"}, order : Nat]
      /\ Row(v).status # "none"
    BY <1>1 DEF Row
<1>4. signal' \in [Signal -> [status : {"none", "PASS", "REJECTED", "SUPERSEDED"}, order : Nat]]
    BY <1>2, <1>3 DEF Insert
<1>5. \A t \in Signal : signal'[t].status = "none" <=> t # s /\ signal[t].status = "none"
    BY <1>2, <1>3 DEF Insert, Passing
<1>6. Registered' = Registered \cup {s}
    BY <1>5 DEF Registered
<1> QED BY <1>4, <1>6, FS_AddElement DEF Finite

LEMMA StepType ==
    TypeOK /\ Chosen /\ Finite /\ [Next]_vars
        => TypeOK' /\ Chosen' /\ Finite'
<1> DEFINE Good == TypeOK' /\ Chosen' /\ Finite'
<1> SUFFICES ASSUME TypeOK, Chosen, Finite, [Next]_vars PROVE Good
    OBVIOUS
<1>t. /\ proc \in [Proc -> ProcState]
      /\ run \in [1 .. MaxRuns -> [status : {"none", "RUNNING", "PASS", "REJECTED", "FAILED"},
                                   signal : Signal \cup {<<>>}]]
      /\ dataset \in Dataset
    BY DEF TypeOK
<1>1. CASE UNCHANGED vars
    BY <1>1 DEF vars, disk, tables, market, counters, TypeOK, Chosen, Finite, Registered
<1>2. ASSUME NEW p \in Proc, Start(p) PROVE Good
    <2>1. Cardinality(Started) + 1 \in 1 .. MaxRuns
        <3>1. Started \subseteq 1 .. MaxRuns /\ IsFiniteSet(1 .. MaxRuns)
            BY FS_Interval DEF Started
        <3>2. Cardinality(Started) \in Nat
            BY <3>1, FS_Subset, FS_CardinalityType
        <3> QED BY <1>2, <3>2 DEF Start
    <2>2. PICK date \in Asked, sync \in BOOLEAN :
             /\ run' = [run EXCEPT ![Cardinality(Started) + 1].status = "RUNNING"]
             /\ proc' = [proc EXCEPT ![p] =
                    [Idle EXCEPT !.at = IF sync THEN "sync" ELSE "read",
                                 !.run = Cardinality(Started) + 1, !.date = date, !.sync = sync]]
        BY <1>2 DEF Start
    <2>3. proc'[p] \in ProcState /\ proc'[p].at \in {"sync", "read"}
        <3>1. proc'[p] = [at |-> IF sync THEN "sync" ELSE "read",
                          run |-> Cardinality(Started) + 1, date |-> date, sync |-> sync,
                          dataset |-> 1, model |-> NoModel, verdict |-> "none", switched |-> FALSE,
                          open |-> FALSE]
            BY <1>t, <2>2 DEF Idle
        <3>2. date \in Session /\ Cardinality(Started) + 1 \in 0 .. MaxRuns
            BY <2>1
        <3> QED BY <3>1, <3>2 DEF ProcState, At, Verdict
    <2>4. proc' \in [Proc -> ProcState] /\ Chosen'
        BY <1>t, <2>2, <2>3 DEF Chosen, Past, Names
    <2>5. run' \in [1 .. MaxRuns ->
            [status : {"none", "RUNNING", "PASS", "REJECTED", "FAILED"}, signal : Signal \cup {<<>>}]]
        BY <1>t, <2>1, <2>2
    <2> QED BY <1>2, <2>4, <2>5 DEF Start, TypeOK, disk, market, counters, Finite, Registered
<1>3. ASSUME NEW p \in Proc, Sync(p) PROVE Good
    <2>1. proc' \in [Proc -> ProcState] /\ Chosen'
        BY <1>3, GotoType, RaiseType DEF Sync, At, Past, Names
    <2>2. proc[p].date \in Session
        BY <1>t DEF ProcState
    <2>3. dataset' \in Dataset /\ synced' \in 0 .. LastSession
        BY <1>3, <2>2 DEF Sync, Synced, NotSynced, market, TypeOK, Session
    <2> QED BY <1>3, <2>1, <2>3 DEF Sync, TypeOK, disk, tables, counters, Finite, Registered
<1>4. ASSUME NEW p \in Proc, Read(p) PROVE Good
    <2>1. proc' \in [Proc -> ProcState] /\ Chosen'
        <3>1. CASE Raise(p)
            BY <3>1, RaiseType
        <3>2. CASE \E m \in Deployed : proc' = [proc EXCEPT ![p] =
                                  [@ EXCEPT !.at = "judge", !.model = m, !.dataset = dataset]]
            <4>1. PICK m \in Model : proc' = [proc EXCEPT ![p] =
                                  [@ EXCEPT !.at = "judge", !.model = m, !.dataset = dataset]]
                BY <3>2 DEF Deployed
            <4>2. proc'[p] = [proc[p] EXCEPT !.at = "judge", !.model = m, !.dataset = dataset]
                BY <1>t, <4>1
            <4>3. proc[p] \in ProcState /\ dataset \in Dataset
                BY <1>t
            <4>4. proc'[p] \in ProcState
                BY <4>2, <4>3 DEF ProcState, At
            <4>5. proc'[p].model \in Model
                BY <4>2, <4>3 DEF ProcState
            <4> QED BY <1>t, <4>1, <4>4, <4>5 DEF Chosen
        <3> QED BY <1>4, <3>1, <3>2 DEF Read
    <2> QED BY <1>4, <2>1 DEF Read, TypeOK, disk, tables, market, counters, Finite, Registered
<1>5. ASSUME NEW p \in Proc, Judge(p) PROVE Good
    <2>1. proc' \in [Proc -> ProcState] /\ Chosen'
        <3>1. CASE Raise(p)
            BY <3>1, RaiseType
        <3>2. CASE \E v \in {"REJECT"} \cup {w \in {"PASS"} : Acceptable(p)} :
                      proc' = [proc EXCEPT ![p] = [@ EXCEPT !.at = "attestation", !.verdict = v, !.sync = FALSE]]
            <4>1. PICK v \in {"PASS", "REJECT"} :
                      proc' = [proc EXCEPT ![p] = [@ EXCEPT !.at = "attestation", !.verdict = v, !.sync = FALSE]]
                BY <3>2
            <4>2. proc[p].model \in Model
                BY <1>5 DEF Judge, Chosen, Past
            <4>3. proc'[p] = [proc[p] EXCEPT !.at = "attestation", !.verdict = v, !.sync = FALSE]
                BY <1>t, <4>1
            <4>4. proc[p] \in ProcState /\ v \in Verdict
                BY <1>t DEF Verdict
            <4>5. proc'[p] \in ProcState /\ proc'[p].model = proc[p].model
                <5> DEFINE r == proc[p]  x == proc'[p]
                <5>1. r \in ProcState /\ v \in Verdict
                    BY <4>4
                <5>2. x = [r EXCEPT !.at = "attestation", !.verdict = v, !.sync = FALSE]
                    BY <4>3
                <5> HIDE DEF r, x
                <5>3. x \in ProcState /\ x.model = r.model
                    BY <5>1, <5>2, JudgedType, Zenon
                <5> QED BY <5>3 DEF r, x
            <4>6. proc'[p].model \in Model
                BY <4>2, <4>5
            <4> QED BY <1>t, <4>1, <4>5, <4>6 DEF Chosen
        <3> QED BY <1>5, <3>1, <3>2 DEF Judge
    <2> QED BY <1>5, <2>1 DEF Judge, TypeOK, disk, tables, market, counters, Finite, Registered
<1>6. ASSUME NEW p \in Proc, WriteJson(p) \/ Open(p) \/ Close(p) PROVE Good
    <2>1. /\ proc[p].at \in Past /\ proc' \in [Proc -> ProcState]
          /\ \A q \in Proc : proc'[q].model = proc[q].model
          /\ \A q \in Proc : proc'[q].at \in Past => proc[q].at \in Past
        BY <1>6, WriterMoves DEF Past
    <2>2. Chosen'
        BY <2>1 DEF Chosen
    <2>3. Mine(p) \in Signal /\ proc[p].verdict \in Verdict
        BY <1>t, <2>1, MineType DEF ProcState
    <2>4. files \in [Signal -> [Names -> Verdict \cup {"torn"}]]
        BY DEF TypeOK
    <2>5. \A f \in Names, v \in Verdict \cup {"torn"} :
              Put(Mine(p), f, v) => files' \in [Signal -> [Names -> Verdict \cup {"torn"}]]
        BY <2>3, <2>4 DEF Put
    <2>6. files' \in [Signal -> [Names -> Verdict \cup {"torn"}]]
        <3>1. CASE WriteJson(p)
            <4>1. proc[p].at \in Names /\ Put(Mine(p), proc[p].at, proc[p].verdict)
                BY <3>1 DEF WriteJson
            <4> QED BY <2>3, <2>5, <4>1
        <3>2. CASE Open(p)
            <4>1. "scores" \in Names /\ Put(Mine(p), "scores", "torn")
                BY <3>2 DEF Open, Names
            <4> QED BY <2>5, <4>1
        <3>3. CASE Close(p)
            <4>1. "scores" \in Names
                BY DEF Names
            <4>2. \/ Put(Mine(p), "scores", "torn")
                  \/ Put(Mine(p), "scores", proc[p].verdict)
                BY <3>3 DEF Close
            <4> QED BY <2>3, <2>5, <4>1, <4>2
        <3> QED BY <1>6, <3>1, <3>2, <3>3
    <2>7. decided' \in [Signal -> SUBSET Verdict]
        <3>1. decided' = decided \/
                decided' = [decided EXCEPT ![Mine(p)] = @ \cup {proc[p].verdict}]
            BY <1>6 DEF WriteJson, Open, Close
        <3>2. decided \in [Signal -> SUBSET Verdict]
            BY DEF TypeOK
        <3>3. CASE decided' = [decided EXCEPT ![Mine(p)] = @ \cup {proc[p].verdict}]
            BY <2>3, <3>2, <3>3
        <3> QED BY <3>1, <3>2, <3>3
    <2>8. shared' \subseteq Signal /\ rewritten' \subseteq Signal
        BY <1>6, <2>3 DEF WriteJson, Open, Close, TypeOK
    <2>9. UNCHANGED <<tables, sent, market, rollback, counters>>
        BY <1>6 DEF WriteJson, Open, Close
    <2> QED BY <2>1, <2>2, <2>6, <2>7, <2>8, <2>9 DEF TypeOK, disk, tables, market, counters, Finite, Registered
<1>8. ASSUME NEW p \in Proc, Register(p) PROVE Good
    <2>1. proc' \in [Proc -> ProcState] /\ Chosen'
        BY <1>8, GotoType DEF Register, At, Past
    <2>2. Mine(p) \in Signal /\ proc[p].verdict \in Verdict
        BY <1>8, <1>t, MineType DEF Register, ProcState, Past
    <2>3. /\ signal' \in [Signal -> [status : {"none", "PASS", "REJECTED", "SUPERSEDED"}, order : Nat]]
          /\ Finite'
        BY <1>8, <2>2, InsertType DEF Register
    <2> QED BY <1>8, <2>1, <2>3 DEF Register, TypeOK, disk, market, counters
<1>9. ASSUME NEW p \in Proc, Replay(p) PROVE Good
    <2>1. proc' \in [Proc -> ProcState] /\ Chosen'
        BY <1>9, GotoType DEF Replay, At, Past
    <2> QED BY <1>9, <2>1 DEF Replay, TypeOK, disk, tables, market, counters, Finite, Registered
<1>10. ASSUME NEW p \in Proc, RefuseSignal(p) PROVE Good
    <2>1. proc' \in [Proc -> ProcState] /\ Chosen'
        BY <1>10, RaiseType DEF RefuseSignal
    <2> QED BY <1>10, <2>1 DEF RefuseSignal, TypeOK, disk, tables, market, counters, Finite, Registered
<1>11. ASSUME NEW p \in Proc, Notify(p) PROVE Good
    <2>1. proc' \in [Proc -> ProcState] /\ Chosen'
        BY <1>11, GotoType, RaiseType DEF Notify, At, Past
    <2>2. Mine(p) \in Signal /\ proc[p].verdict \in Verdict
        BY <1>11, <1>t, MineType DEF Notify, ProcState, Past
    <2>3. sent' \subseteq Signal \X Verdict
        BY <1>11, <2>2 DEF Notify, TypeOK
    <2> QED BY <1>11, <2>1, <2>3 DEF Notify, TypeOK, disk, tables, market, counters, Finite, Registered
<1>12. ASSUME NEW p \in Proc, Finish(p) PROVE Good
    <2>1. proc' \in [Proc -> ProcState] /\ Chosen'
        BY <1>12, IdleType DEF Finish
    <2>2. Mine(p) \in Signal
        BY <1>12, MineType DEF Finish, Past
    <2>3. run' \in [1 .. MaxRuns ->
            [status : {"none", "RUNNING", "PASS", "REJECTED", "FAILED"}, signal : Signal \cup {<<>>}]]
        BY <1>12, <1>t, <2>2 DEF Finish
    <2> QED BY <1>12, <2>1, <2>3 DEF Finish, TypeOK, disk, market, counters, Finite, Registered
<1>13. ASSUME NEW p \in Proc, Fail(p) PROVE Good
    <2>1. proc' \in [Proc -> ProcState] /\ Chosen'
        BY <1>13, IdleType DEF Fail
    <2>2. run' \in [1 .. MaxRuns ->
            [status : {"none", "RUNNING", "PASS", "REJECTED", "FAILED"}, signal : Signal \cup {<<>>}]]
        BY <1>13, <1>t DEF Fail
    <2> QED BY <1>13, <2>1, <2>2 DEF Fail, TypeOK, disk, market, counters, Finite, Registered
<1>14. ASSUME NEW p \in Proc, Kill(p) PROVE Good
    <2>1. proc' \in [Proc -> ProcState] /\ Chosen'
        BY <1>14, IdleType DEF Kill
    <2> QED BY <1>14, <2>1 DEF Kill, TypeOK, disk, tables, market, counters, Finite, Registered
<1>15. ASSUME NEW m \in Model, Refit(m) PROVE Good
    BY <1>15 DEF Refit, TypeOK, Chosen, disk, market, counters, Finite, Registered
<1>16. ASSUME NEW m \in Model, Activate(m), rollback' \in [Operator -> Model \cup {NoModel}]
       PROVE  Good
    <2>1. proc' \in [Proc -> ProcState] /\ Chosen'
        <3>1. ASSUME NEW p \in Proc
              PROVE  /\ proc'[p] \in ProcState
                     /\ proc'[p].at = proc[p].at /\ proc'[p].model = proc[p].model
            <4>1. proc[p] \in ProcState /\ (proc[p].switched \/ proc[p].model # NoModel) \in BOOLEAN
                BY <1>t
            <4>2. proc'[p] = [proc[p] EXCEPT !.switched = proc[p].switched \/ proc[p].model # NoModel]
                BY <1>16 DEF Activate
            <4> QED BY <4>1, <4>2, SwitchType
        <3>4. DOMAIN proc' = Proc /\ proc' = [p \in Proc |-> proc'[p]]
            BY <1>16 DEF Activate
        <3> QED BY <3>1, <3>4 DEF Chosen
    <2>2. deployment' \in [Model -> {"none", "STAGED", "DEPLOYED", "RETIRED"}]
        BY <1>16 DEF Activate, TypeOK
    <2> QED BY <1>16, <2>1, <2>2 DEF Activate, TypeOK, disk, market, Finite, Registered
<1>17. ASSUME NEW m \in Model, Deploy(m) PROVE Good
    BY <1>16, <1>17 DEF Deploy, TypeOK
<1>18. ASSUME NEW o \in Operator, ChooseRollback(o) PROVE Good
    BY <1>18 DEF ChooseRollback, TypeOK, Chosen, disk, tables, market, counters, Finite, Registered
<1>19. ASSUME NEW o \in Operator, Rollback(o) PROVE Good
    <2>1. rollback[o] \in Model /\ rollback' \in [Operator -> Model \cup {NoModel}]
        BY <1>19 DEF Rollback, TypeOK
    <2> QED BY <1>16, <1>19, <2>1 DEF Rollback
<1>20. ASSUME NEW o \in Operator, GiveUp(o) PROVE Good
    BY <1>20 DEF GiveUp, TypeOK, Chosen, disk, tables, market, counters, Finite, Registered
<1>21. CASE SyncElsewhere
    <2>1. dataset' \in Dataset /\ synced' \in 0 .. LastSession
        BY <1>21 DEF SyncElsewhere, Synced, NotSynced, TypeOK, Session
    <2> QED BY <1>21, <2>1 DEF SyncElsewhere, TypeOK, Chosen, disk, tables, Finite, Registered
<1> QED
    BY <1>1, <1>2, <1>3, <1>4, <1>5, <1>6, <1>8, <1>9, <1>10, <1>11, <1>12, <1>13, <1>14,
       <1>15, <1>17, <1>18, <1>19, <1>20, <1>21 DEF Next, Step

LEMMA Typed == Spec => [](TypeOK /\ Chosen /\ Finite)
  BY InitType, StepType, PTL DEF Spec

(* Every reachable state is well typed, for any models, processes,         *)
(* datasets and bounds: no sequence of runs, kills and rollbacks takes a   *)
(* row or a process out of the states the code knows.                      *)
THEOREM TypeCorrect == Spec => []TypeOK
  BY Typed, PTL

--------------------------------------------------------------------------------
(* The steps of the processes leave the deployments alone, and those of    *)
(* the operators leave everything else alone.                              *)
LEMMA ProcessStep ==
    ASSUME NEW p \in Proc, Step(p) \/ Kill(p)
    PROVE  UNCHANGED <<deployment, rollback, counters>>
  BY DEF Step, Kill, Start, Sync, Read, Judge, WriteJson, Open, Close, Register, Replay,
         RefuseSignal, Notify, Finish, Fail, tables, market

LEMMA ActivateOne ==
    ASSUME TypeOK, NEW m \in Model, Activate(m)
    PROVE  Deployed' = {m}
  BY DEF Activate, Deployed, TypeOK

LEMMA OneDeployedStep == TypeOK /\ OneDeployed /\ [Next]_vars => OneDeployed'
<1> SUFFICES ASSUME TypeOK, OneDeployed, [Next]_vars PROVE OneDeployed'
    OBVIOUS
<1>1. CASE UNCHANGED deployment
    BY <1>1 DEF OneDeployed, Deployed
<1>2. ASSUME NEW m \in Model, Activate(m) PROVE OneDeployed'
    BY <1>2, ActivateOne DEF OneDeployed
<1>3. ASSUME NEW m \in Model, Refit(m) PROVE OneDeployed'
    <2>1. Deployed' = Deployed
        BY <1>3 DEF Refit, Deployed, TypeOK
    <2> QED BY <2>1 DEF OneDeployed
<1>4. ASSUME NEW o \in Operator, ChooseRollback(o) \/ Rollback(o) \/ GiveUp(o) PROVE OneDeployed'
    BY <1>1, <1>2, <1>4 DEF ChooseRollback, Rollback, GiveUp, TypeOK, tables
<1>5. CASE SyncElsewhere \/ UNCHANGED vars
    BY <1>1, <1>5 DEF SyncElsewhere, vars, tables
<1>6. ASSUME NEW p \in Proc, Step(p) \/ Kill(p) PROVE OneDeployed'
    BY <1>1, <1>6, ProcessStep
<1> QED BY <1>2, <1>3, <1>4, <1>5, <1>6 DEF Next, Deploy

(* However deployments, rollbacks, inferences and kills interleave, at     *)
(* most one model is DEPLOYED.                                             *)
THEOREM OneModelLive == Spec => []OneDeployed
<1>1. Init => OneDeployed
    BY DEF Init, Registry, OneDeployed, Deployed
<1> QED BY <1>1, OneDeployedStep, Typed, PTL DEF Spec

--------------------------------------------------------------------------------
(* What a rollback has chosen is never taken back to STAGED.               *)
RollbackChosen ==
    \A o \in Operator : rollback[o] # NoModel => deployment[rollback[o]] \in {"RETIRED", "DEPLOYED"}

LEMMA ActivateKeeps ==
    ASSUME TypeOK, RollbackChosen, NEW m \in Model, Activate(m), NEW o \in Operator,
           rollback[o] # NoModel
    PROVE  deployment'[rollback[o]] \in {"RETIRED", "DEPLOYED"}
<1>1. rollback[o] \in Model
    BY DEF TypeOK
<1> QED BY <1>1 DEF Activate, RollbackChosen

LEMMA RollbackStep ==
    TypeOK /\ RollbackChosen /\ [Next]_vars => RollbackChosen'
<1> SUFFICES ASSUME TypeOK, RollbackChosen, [Next]_vars PROVE RollbackChosen'
    OBVIOUS
<1>1. CASE UNCHANGED <<deployment, rollback>>
    BY <1>1 DEF RollbackChosen
<1>2. ASSUME NEW m \in Model, Refit(m) PROVE RollbackChosen'
    BY <1>2 DEF Refit, RollbackChosen, TypeOK
<1>3. ASSUME NEW m \in Model, Deploy(m) PROVE RollbackChosen'
    BY <1>3, ActivateKeeps DEF Deploy, RollbackChosen
<1>4. ASSUME NEW o \in Operator, ChooseRollback(o) PROVE RollbackChosen'
    BY <1>4 DEF ChooseRollback, RollbackChosen, TypeOK, tables
<1>5. ASSUME NEW o \in Operator, Rollback(o) PROVE RollbackChosen'
    <2>1. rollback[o] \in Model /\ Activate(rollback[o])
        BY <1>5 DEF Rollback, TypeOK
    <2>2. \A q \in Operator : rollback'[q] # NoModel => rollback'[q] = rollback[q]
        BY <1>5 DEF Rollback, TypeOK
    <2> QED BY <2>1, <2>2, ActivateKeeps DEF RollbackChosen
<1>6. ASSUME NEW o \in Operator, GiveUp(o) PROVE RollbackChosen'
    BY <1>6 DEF GiveUp, RollbackChosen, TypeOK, tables
<1>7. CASE SyncElsewhere \/ UNCHANGED vars
    BY <1>1, <1>7 DEF SyncElsewhere, vars, tables
<1>8. ASSUME NEW p \in Proc, Step(p) \/ Kill(p) PROVE RollbackChosen'
    BY <1>1, <1>8, ProcessStep
<1> QED BY <1>2, <1>3, <1>4, <1>5, <1>6, <1>7, <1>8 DEF Next

LEMMA RollbackAction ==
    ASSUME TypeOK, RollbackChosen, [Next]_vars, NEW o \in Operator,
           switches' # switches, rollback'[o] # rollback[o]
    PROVE  deployment[rollback[o]] = "RETIRED"
<1>1. \A p \in Proc : ~(Step(p) \/ Kill(p))
    BY ProcessStep DEF counters
<1>2. ~SyncElsewhere /\ ~UNCHANGED vars
    BY DEF SyncElsewhere, vars
<1>3. \A m \in Model : ~Refit(m) /\ ~Deploy(m)
    BY DEF Refit, Deploy
<1>4. \A q \in Operator : ~ChooseRollback(q) /\ ~GiveUp(q)
    BY DEF ChooseRollback, GiveUp, counters
<1>5. PICK q \in Operator : Rollback(q)
    BY <1>1, <1>2, <1>3, <1>4 DEF Next
<1>6. q = o
    BY <1>5 DEF Rollback, TypeOK
<1> QED BY <1>5, <1>6 DEF Rollback, Activate, Activatable, RollbackChosen

(* A rollback activates a model that is RETIRED at that moment: what has   *)
(* changed between its check and the transaction of deploy is never in the *)
(* way of that.                                                            *)
THEOREM RollbacksAreRollbacks == Spec => RollbackOfRetired
<1>1. Init => RollbackChosen
    BY DEF Init, RollbackChosen
<1>2. TypeOK /\ RollbackChosen /\ [Next]_vars =>
          [\A o \in Operator : switches' # switches /\ rollback'[o] # rollback[o]
               => deployment[rollback[o]] = "RETIRED"]_vars
    BY RollbackAction
<1> QED BY <1>1, <1>2, RollbackStep, Typed, PTL DEF Spec, RollbackOfRetired

--------------------------------------------------------------------------------
(* A process past its reads holds a model that is DEPLOYED or was switched *)
(* away from after the read.                                               *)
Live == \A p \in Proc : proc[p].at \in Past
            => deployment[proc[p].model] = "DEPLOYED" \/ proc[p].switched

(* The states a step gives the process that takes it.                      *)
LEMMA StepOf ==
    ASSUME TypeOK, NEW p \in Proc, Step(p) \/ Kill(p), NEW q \in Proc
    PROVE  /\ q # p => proc'[q] = proc[q]
           /\ q = p /\ proc'[p].at \in Past /\ proc[p].at \in Past =>
                  /\ proc'[p].model = proc[p].model /\ proc'[p].dataset = proc[p].dataset
                  /\ proc'[p].date = proc[p].date /\ proc'[p].switched = proc[p].switched
                  /\ proc'[p].verdict = proc[p].verdict \/ proc[p].at = "judge"
           /\ q = p /\ proc'[p].at \in Past /\ proc[p].at \notin Past =>
                  Read(p) /\ proc'[p].at = "judge" /\ proc'[p].model \in Deployed
<1>1. proc \in [Proc -> ProcState] /\ Idle.at = "idle"
    BY DEF TypeOK, Idle
<1>r. ASSUME Raise(p)
      PROVE  proc'[p].at \notin Past /\ (q # p => proc'[q] = proc[q])
    <2>1. proc'[p] = [Idle EXCEPT !.at = "fail", !.run = proc[p].run]
        BY <1>1, <1>r DEF Raise
    <2>2. proc'[p].at = "fail"
        BY <2>1 DEF Idle
    <2> QED BY <1>1, <1>r, <2>2 DEF Raise, Past, Names
<1>2. CASE Start(p)
    <2>1. PICK date \in Asked, sync \in BOOLEAN : proc' = [proc EXCEPT ![p] =
                [Idle EXCEPT !.at = IF sync THEN "sync" ELSE "read",
                             !.run = Cardinality(Started) + 1, !.date = date, !.sync = sync]]
        BY <1>2 DEF Start
    <2>2. proc'[p] = [Idle EXCEPT !.at = IF sync THEN "sync" ELSE "read",
                             !.run = Cardinality(Started) + 1, !.date = date, !.sync = sync]
        BY <1>1, <2>1
    <2>3. proc'[p].at \in {"sync", "read"}
        BY <2>2 DEF Idle
    <2>4. q # p => proc'[q] = proc[q]
        BY <1>1, <2>1
    <2> QED BY <2>3, <2>4 DEF Past, Names
<1>3. CASE Sync(p)
    BY <1>1, <1>3, <1>r DEF Sync, Goto, Past, Names, ProcState
<1>4. CASE Read(p)
    <2>1. CASE Raise(p)
        BY <1>1, <1>r, <2>1
    <2>2. CASE \E m \in Deployed : proc' = [proc EXCEPT ![p] =
                              [@ EXCEPT !.at = "judge", !.model = m, !.dataset = dataset]]
        <3>1. PICK m \in Deployed : proc' = [proc EXCEPT ![p] =
                              [@ EXCEPT !.at = "judge", !.model = m, !.dataset = dataset]]
            BY <2>2
        <3>2. proc[p] \in ProcState
            BY <1>1
        <3>3. proc'[p] = [proc[p] EXCEPT !.at = "judge", !.model = m, !.dataset = dataset]
            BY <1>1, <3>1
        <3>4. proc'[p].at = "judge" /\ proc'[p].model = m
            BY <3>2, <3>3 DEF ProcState
        <3> QED BY <1>1, <1>4, <3>1, <3>4 DEF Past, Names, Read
    <2> QED BY <1>4, <2>1, <2>2 DEF Read
<1>5. CASE Judge(p)
    <2>1. CASE Raise(p)
        BY <1>1, <1>r, <2>1
    <2>2. CASE \E v \in {"REJECT"} \cup {w \in {"PASS"} : Acceptable(p)} :
                  proc' = [proc EXCEPT ![p] = [@ EXCEPT !.at = "attestation", !.verdict = v, !.sync = FALSE]]
        <3>1. PICK v \in {"PASS", "REJECT"} :
                  proc' = [proc EXCEPT ![p] = [@ EXCEPT !.at = "attestation", !.verdict = v, !.sync = FALSE]]
            BY <2>2
        <3>2. proc[p] \in ProcState
            BY <1>1
        <3>3. proc'[p] = [proc[p] EXCEPT !.at = "attestation", !.verdict = v, !.sync = FALSE]
            BY <1>1, <3>1
        <3>4. /\ proc'[p].model = proc[p].model /\ proc'[p].dataset = proc[p].dataset
              /\ proc'[p].date = proc[p].date /\ proc'[p].switched = proc[p].switched
            BY <3>2, <3>3 DEF ProcState
        <3> QED BY <1>1, <1>5, <3>1, <3>4 DEF Past, Judge
    <2> QED BY <1>5, <2>1, <2>2 DEF Judge
<1>6. CASE WriteJson(p) \/ Open(p) \/ Close(p)
    BY <1>6, WriterMoves DEF Past
<1>7. CASE Register(p) \/ Replay(p) \/ RefuseSignal(p)
    BY <1>1, <1>7, <1>r DEF Register, Replay, RefuseSignal, Goto, Past, ProcState
<1>8. CASE Notify(p)
    BY <1>1, <1>8, <1>r DEF Notify, Goto, Past, ProcState
<1>9. CASE Finish(p) \/ Fail(p) \/ Kill(p)
    BY <1>1, <1>9 DEF Finish, Fail, Kill, Past, Names
<1> QED BY <1>2, <1>3, <1>4, <1>5, <1>6, <1>7, <1>8, <1>9 DEF Step

(* An activation leaves every process where it is, and marks those that    *)
(* hold a model.                                                           *)
LEMMA ActivateOf ==
    ASSUME TypeOK, NEW m \in Model, Activate(m), NEW p \in Proc
    PROVE  /\ proc'[p].at = proc[p].at /\ proc'[p].model = proc[p].model
           /\ proc'[p].dataset = proc[p].dataset /\ proc'[p].date = proc[p].date
           /\ proc'[p].verdict = proc[p].verdict
           /\ proc[p].model \in Model => proc'[p].switched
<1>1. proc[p] \in ProcState
    BY DEF TypeOK
<1>2. proc'[p] = [proc[p] EXCEPT !.switched = proc[p].switched \/ proc[p].model # NoModel]
    BY DEF Activate
<1>3. /\ proc'[p].at = proc[p].at /\ proc'[p].model = proc[p].model
      /\ proc'[p].dataset = proc[p].dataset /\ proc'[p].date = proc[p].date
      /\ proc'[p].verdict = proc[p].verdict
    BY <1>1, <1>2 DEF ProcState
<1>4. proc'[p].switched = (proc[p].switched \/ proc[p].model # NoModel)
    BY <1>1, <1>2 DEF ProcState
<1> QED BY <1>3, <1>4

(* The steps that are not a process's.                                     *)
LEMMA Others ==
    ASSUME TypeOK, [Next]_vars
    PROVE  \/ \E p \in Proc : Step(p) \/ Kill(p)
           \/ \E m \in Model : Activate(m)
           \/ UNCHANGED <<proc, signal, run, disk, sent>> /\ Deployed \subseteq Deployed'
<1>1. ASSUME NEW o \in Operator, ChooseRollback(o) \/ GiveUp(o)
      PROVE  UNCHANGED <<proc, deployment, signal, run, disk, sent>>
    BY <1>1 DEF ChooseRollback, GiveUp, tables
<1>2. ASSUME NEW o \in Operator, Rollback(o) PROVE \E m \in Model : Activate(m)
    BY <1>2 DEF Rollback, TypeOK
<1>3. ASSUME NEW m \in Model, Refit(m)
      PROVE  UNCHANGED <<proc, signal, run, disk, sent>> /\ Deployed \subseteq Deployed'
    BY <1>3 DEF Refit, Deployed, TypeOK
<1>4. CASE SyncElsewhere \/ UNCHANGED vars
    BY <1>4 DEF SyncElsewhere, vars, tables, Deployed
<1> QED BY <1>1, <1>2, <1>3, <1>4 DEF Next, Deploy, Deployed

LEMMA LiveStep == TypeOK /\ Chosen /\ Live /\ [Next]_vars => Live'
<1> SUFFICES ASSUME TypeOK, Chosen, Live, [Next]_vars, NEW q \in Proc, proc'[q].at \in Past
             PROVE  deployment'[proc'[q].model] = "DEPLOYED" \/ proc'[q].switched
    BY DEF Live
<1>1. ASSUME NEW p \in Proc, Step(p) \/ Kill(p)
      PROVE  deployment'[proc'[q].model] = "DEPLOYED" \/ proc'[q].switched
    <2>1. deployment' = deployment
        BY <1>1, ProcessStep
    <2> QED BY <1>1, <2>1, StepOf DEF Live, Deployed
<1>2. ASSUME NEW m \in Model, Activate(m)
      PROVE  proc'[q].switched
    <2>1. proc[q].at \in Past
        BY <1>2, ActivateOf
    <2>2. proc[q].model \in Model
        BY <2>1 DEF Chosen, Past
    <2> QED BY <1>2, <2>2, ActivateOf
<1>3. CASE UNCHANGED proc /\ Deployed \subseteq Deployed'
    <2>1. proc[q].model \in Model
        BY <1>3 DEF Chosen, Past
    <2> QED BY <1>3, <2>1 DEF Live, Deployed
<1> QED BY <1>1, <1>2, <1>3, Others

(* Signals are only registered for a model that is DEPLOYED, or was when   *)
(* the process read it, however deployments interleave with inferences.    *)
THEOREM SignalsAreOfLiveModels == Spec => SignalsOfLiveModel
<1>1. Init => Live
    BY DEF Init, Live, Idle, Past, Names
<1>2. Live =>
          [\A p \in Proc : signal' # signal /\ proc[p].at = "register" /\ proc'[p] # proc[p]
             => deployment[proc[p].model] = "DEPLOYED" \/ proc[p].switched]_vars
    BY DEF Live, Past
<1> QED BY <1>1, <1>2, LiveStep, Typed, PTL DEF Spec, SignalsOfLiveModel

--------------------------------------------------------------------------------
(* What is announced is registered: the process announces its own signal,  *)
(* and no row is ever taken away.                                          *)
Announcing == \A p \in Proc : proc[p].at \in {"notify", "finish"} => Mine(p) \in Registered

LEMMA RegisteredGrows ==
    ASSUME TypeOK, Chosen, Finite, [Next]_vars
    PROVE  Registered \subseteq Registered'
<1>1. ASSUME NEW p \in Proc, Register(p) PROVE Registered \subseteq Registered'
    <2>1. Mine(p) \in Signal /\ proc[p].verdict \in Verdict
        BY <1>1, MineType DEF Register, TypeOK, ProcState, Past
    <2> QED BY <1>1, <2>1, InsertType DEF Register
<1>2. ASSUME NEW p \in Proc, Step(p) \/ Kill(p), ~Register(p) PROVE signal' = signal
    BY <1>2 DEF Step, Kill, Start, Sync, Read, Judge, WriteJson, Open, Close, Replay,
                RefuseSignal, Notify, Finish, Fail, tables
<1>3. ASSUME NEW m \in Model, Activate(m) PROVE signal' = signal
    BY <1>3 DEF Activate
<1>4. signal' = signal => Registered = Registered'
    BY DEF Registered
<1> QED BY <1>1, <1>2, <1>3, <1>4, Others

LEMMA MineKept ==
    ASSUME TypeOK, NEW p \in Proc, Step(p) \/ Kill(p), NEW q \in Proc,
           proc'[q].at \in Past, q # p \/ proc[q].at \in Past
    PROVE  Mine(q)' = Mine(q)
  BY StepOf DEF Mine

LEMMA AnnouncingStep ==
    TypeOK /\ Chosen /\ Finite /\ Announcing /\ [Next]_vars => Announcing'
<1> SUFFICES ASSUME TypeOK, Chosen, Finite, Announcing, [Next]_vars, NEW q \in Proc,
                    proc'[q].at \in {"notify", "finish"}
             PROVE  Mine(q)' \in Registered'
    BY DEF Announcing
<1>1. ASSUME NEW p \in Proc, Step(p) \/ Kill(p) PROVE Mine(q)' \in Registered'
    <2>1. CASE q # p
        BY <1>1, <2>1, StepOf, MineKept, RegisteredGrows DEF Announcing, Past
    <2>2. CASE q = p /\ Register(p)
        <3>1. Mine(p) \in Signal /\ proc[p].verdict \in Verdict
            BY <2>2, MineType DEF Register, TypeOK, ProcState, Past
        <3>2. Mine(p) \in Registered'
            BY <2>2, <3>1, InsertType DEF Register
        <3> QED BY <1>1, <2>2, <3>2, MineKept DEF Register, Past
    <2>3. CASE q = p /\ Replay(p)
        <3>1. Mine(p) \in Registered
            BY <2>3 DEF Replay, SameScores
        <3> QED BY <1>1, <2>3, <3>1, MineKept, RegisteredGrows DEF Replay, Past
    <2>4. CASE q = p /\ Notify(p)
        BY <1>1, <2>4, MineKept, RegisteredGrows DEF Notify, Announcing, Past
    <2>5. CASE q = p /\ ~Register(p) /\ ~Replay(p) /\ ~Notify(p)
        <3>1. proc[p].at \notin Past => FALSE
            BY <1>1, <2>5, StepOf DEF Past
        <3>2. ~(WriteJson(p) \/ Open(p) \/ Close(p))
            BY <2>5, WriterMoves DEF After, Names
        <3>r. ~Raise(p)
            BY <2>5, RaiseType
        <3>3. ~(Finish(p) \/ Fail(p) \/ Kill(p))
            BY <2>5 DEF Finish, Fail, Kill, Idle, TypeOK
        <3>4. ~Judge(p)
            <4>1. proc \in [Proc -> ProcState]
                BY DEF TypeOK
            <4>3. ASSUME NEW v, proc' = [proc EXCEPT ![p] = [@ EXCEPT !.at = "attestation", !.verdict = v,
                                                                   !.sync = FALSE]]
                  PROVE  proc'[p].at = "attestation"
                BY <4>1, <4>3 DEF ProcState
            <4> QED BY <2>5, <3>r, <4>3 DEF Judge
        <3>6. ~RefuseSignal(p)
            BY <3>r DEF RefuseSignal
        <3>5. ~(Start(p) \/ Sync(p) \/ Read(p))
            BY <3>1 DEF Start, Sync, Read, Past, Names
        <3> QED BY <1>1, <2>5, <3>2, <3>3, <3>4, <3>5, <3>6 DEF Step
    <2> QED BY <2>1, <2>2, <2>3, <2>4, <2>5
<1>2. ASSUME NEW m \in Model, Activate(m) PROVE Mine(q)' \in Registered'
    <2>1. proc[q].at \in {"notify", "finish"} /\ Mine(q)' = Mine(q)
        BY <1>2, ActivateOf DEF Mine
    <2> QED BY <2>1, RegisteredGrows DEF Announcing
<1>3. CASE UNCHANGED <<proc, signal>>
    BY <1>3 DEF Announcing, Mine, Registered
<1> QED BY <1>1, <1>2, <1>3, Others

LEMMA AnnouncedStep ==
    TypeOK /\ Chosen /\ Finite /\ Announcing /\ AnnouncedIsRegistered /\ [Next]_vars
        => AnnouncedIsRegistered'
<1> SUFFICES ASSUME TypeOK, Chosen, Finite, Announcing, AnnouncedIsRegistered, [Next]_vars
             PROVE  AnnouncedIsRegistered'
    OBVIOUS
<1>1. Registered \subseteq Registered'
    BY RegisteredGrows
<1>2. ASSUME NEW p \in Proc, Step(p) \/ Kill(p) PROVE AnnouncedIsRegistered'
    <2>1. CASE UNCHANGED <<sent, run>>
        BY <1>1, <2>1 DEF AnnouncedIsRegistered
    <2>2. CASE Notify(p)
        BY <1>1, <2>2 DEF Notify, tables, AnnouncedIsRegistered, Announcing
    <2>3. CASE Finish(p)
        BY <1>1, <2>3 DEF Finish, AnnouncedIsRegistered, Announcing, TypeOK
    <2>4. CASE Fail(p)
        BY <1>1, <2>4 DEF Fail, AnnouncedIsRegistered, TypeOK
    <2>5. CASE Start(p)
        BY <1>1, <2>5 DEF Start, AnnouncedIsRegistered, TypeOK
    <2>6. CASE Sync(p) \/ Read(p) \/ Judge(p) \/ WriteJson(p) \/ Open(p) \/ Close(p)
              \/ Register(p) \/ Replay(p) \/ RefuseSignal(p) \/ Kill(p)
        BY <2>1, <2>6 DEF Sync, Read, Judge, WriteJson, Open, Close, Register, Replay,
                          RefuseSignal, Kill, tables
    <2> QED BY <1>2, <2>2, <2>3, <2>4, <2>5, <2>6 DEF Step
<1>3. CASE UNCHANGED <<sent, run>>
    BY <1>1, <1>3 DEF AnnouncedIsRegistered
<1>4. ASSUME NEW m \in Model, Activate(m) PROVE UNCHANGED <<sent, run>>
    BY <1>4 DEF Activate
<1> QED BY <1>2, <1>3, <1>4, Others

(* Every message that was sent, and every run that ended PASS, stands for  *)
(* a registered signal, whatever is killed or refused in between.          *)
THEOREM MessagesStandForSignals == Spec => []AnnouncedIsRegistered
<1>1. Init => Announcing /\ AnnouncedIsRegistered
    BY DEF Init, Announcing, AnnouncedIsRegistered, Idle, NoRun
<1> QED BY <1>1, AnnouncingStep, AnnouncedStep, Typed, PTL DEF Spec

--------------------------------------------------------------------------------
(* The PASS signal of a date is the latest: the orders of the rows are at  *)
(* most their number, and the row that is inserted gets the next one.      *)
Ordered == \A s \in Registered : signal[s].order <= Cardinality(Registered)

LEMMA SignalStep ==
    ASSUME TypeOK, Chosen, Finite, [Next]_vars
    PROVE  \/ UNCHANGED signal
           \/ \E s \in Signal \ Registered, v \in Verdict : Insert(s, v)
<1>1. ASSUME NEW p \in Proc, Register(p)
      PROVE  \E s \in Signal \ Registered, v \in Verdict : Insert(s, v)
    <2>1. Mine(p) \in Signal /\ proc[p].verdict \in Verdict
        BY <1>1, MineType DEF Register, TypeOK, ProcState, Past
    <2>2. Mine(p) \notin Registered
        BY <1>1 DEF Register, SameScores
    <2> QED BY <1>1, <2>1, <2>2 DEF Register
<1>2. ASSUME NEW p \in Proc, Step(p) \/ Kill(p), ~Register(p) PROVE UNCHANGED signal
    BY <1>2 DEF Step, Kill, Start, Sync, Read, Judge, WriteJson, Open, Close, Replay,
                RefuseSignal, Notify, Finish, Fail, tables
<1>3. ASSUME NEW m \in Model, Activate(m) PROVE UNCHANGED signal
    BY <1>3 DEF Activate
<1> QED BY <1>1, <1>2, <1>3, Others

LEMMA InsertLatest ==
    ASSUME TypeOK, Finite, Ordered, OnlyLatestPasses, NEW s \in Signal \ Registered,
           NEW v \in Verdict, Insert(s, v)
    PROVE  Ordered' /\ OnlyLatestPasses'
<1>1. Registered' = Registered \cup {s} /\ Cardinality(Registered) \in Nat
    BY InsertType, FS_CardinalityType DEF Finite
<1>2. Cardinality(Registered') = Cardinality(Registered) + 1
    BY <1>1, FS_AddElement DEF Finite
<1>3. signal'[s].order = Cardinality(Registered) + 1
    BY DEF Insert, Row
<1>4. ASSUME NEW t \in Registered
      PROVE  /\ signal'[t].order = signal[t].order /\ signal[t].order \in Nat
             /\ signal'[t].status = "PASS" => signal[t].status = "PASS" /\ Date(t) # Date(s)
    <2>1. t \in Signal /\ t # s
        BY <1>4 DEF Registered
    <2>2. signal[t] \in [status : {"none", "PASS", "REJECTED", "SUPERSEDED"}, order : Nat]
        BY <2>1 DEF TypeOK
    <2>3. CASE t \in Passing(Date(s))
        BY <2>1, <2>2, <2>3 DEF Insert
    <2>4. CASE t \notin Passing(Date(s))
        BY <2>1, <2>2, <2>4 DEF Insert, Passing
    <2> QED BY <2>3, <2>4
<1>5. Ordered'
    BY <1>1, <1>2, <1>3, <1>4 DEF Ordered
<1>6. ASSUME NEW t \in Registered', NEW u \in Registered', Date(t) = Date(u),
             signal'[t].status = "PASS", t # u
      PROVE  signal'[u].order < signal'[t].order
    <2>1. CASE t = s
        <3>1. u \in Registered
            BY <1>1, <1>6, <2>1
        <3> QED BY <1>1, <1>3, <1>4, <2>1, <3>1 DEF Ordered
    <2>2. CASE t # s
        <3>1. t \in Registered
            BY <1>1, <2>2
        <3>2. u # s
            BY <1>4, <1>6, <3>1
        <3>3. u \in Registered
            BY <1>1, <3>2
        <3> QED BY <1>4, <1>6, <3>1, <3>3 DEF OnlyLatestPasses
    <2> QED BY <2>1, <2>2
<1>7. OnlyLatestPasses'
    BY <1>6 DEF OnlyLatestPasses, Date
<1> QED BY <1>5, <1>7

LEMMA LatestStep ==
    TypeOK /\ Chosen /\ Finite /\ Ordered /\ OnlyLatestPasses /\ [Next]_vars
        => Ordered' /\ OnlyLatestPasses'
<1> SUFFICES ASSUME TypeOK, Chosen, Finite, Ordered, OnlyLatestPasses, [Next]_vars
             PROVE  Ordered' /\ OnlyLatestPasses'
    OBVIOUS
<1>1. CASE UNCHANGED signal
    BY <1>1 DEF Ordered, OnlyLatestPasses, Registered, Date
<1> QED BY <1>1, SignalStep, InsertLatest

(* No older signal of a date ever stands beside or in place of a newer     *)
(* PASS signal, whatever runs again and in whatever order.                 *)
THEOREM LatestSignalPasses == Spec => []OnlyLatestPasses
<1>1. Init => Ordered /\ OnlyLatestPasses
    BY DEF Init, Ordered, OnlyLatestPasses, Registered, NoSignal
<1> QED BY <1>1, LatestStep, Typed, PTL DEF Spec

--------------------------------------------------------------------------------
(* What is on disk of a signal is what some inference decided about it, or *)
(* torn; all files are there once it is registered, and torn scores only   *)
(* after they were overwritten under the row or by two writers; a process  *)
(* that has written some files finds them, and carries its decision.       *)
Sound(s) == files[s]["scores"] # "none" /\ (files[s]["scores"] = "torn" => s \in rewritten)
There(s, f) == files[s][f] # "none"
Decision(p) ==
    /\ proc[p].at \in Past \ {"judge"} => proc[p].verdict # "none"
    /\ proc[p].at \in Past \ {"judge", "attestation"} =>
          proc[p].verdict \in decided[Mine(p)] /\ There(Mine(p), "attestation")
    /\ proc[p].at \in {"health", "manifest", "register"} => Sound(Mine(p))
    /\ proc[p].at \in {"manifest", "register"} => There(Mine(p), "health")
    /\ proc[p].at = "register" => There(Mine(p), "manifest")
OnDisk(s) ==
    /\ \A f \in Names : files[s][f] \in decided[s] \cup {"none", "torn"}
    /\ \A f \in Names : files[s][f] = "torn" => f = "scores"
    /\ s \in Registered => Sound(s) /\ \A f \in Names : There(s, f)
Backed ==
    /\ \A p \in Proc : Decision(p)
    /\ \A s \in Signal : OnDisk(s)
    /\ shared \subseteq rewritten

LEMMA BackedEnough == TypeOK /\ Backed => FilesBackPass
<1> SUFFICES ASSUME TypeOK, Backed, NEW s \in Signal, NEW f \in Names,
                    signal[s].status \in {"PASS", "SUPERSEDED"}, decided[s] = {"PASS"},
                    files[s][f] # "PASS"
             PROVE  files[s][f] = "torn" /\ s \in rewritten
    BY DEF FilesBackPass
<1>1. OnDisk(s) /\ s \in Registered
    BY DEF Backed, Registered
<1>2. files[s][f] \in {"PASS", "none", "torn"} /\ files[s][f] # "none"
    BY <1>1 DEF OnDisk, There
<1>3. f = "scores"
    BY <1>1, <1>2 DEF OnDisk
<1> QED BY <1>1, <1>2, <1>3 DEF OnDisk, Sound

(* A step that touches no file keeps what is known of them, if it keeps    *)
(* the one row that may be new, and the process that takes it.             *)
LEMMA DiskKept ==
    ASSUME TypeOK, Chosen, Backed, NEW p \in Proc, Step(p) \/ Kill(p), UNCHANGED <<disk, signal>>,
           Decision(p)'
    PROVE  Backed'
<1>1. UNCHANGED <<files, shared, decided, rewritten>>
    BY DEF disk
<1>2. \A s \in Signal : OnDisk(s)'
    BY <1>1 DEF Backed, OnDisk, Registered, Sound, There
<1>3. ASSUME NEW q \in Proc PROVE Decision(q)'
    <2>1. q # p => proc'[q] = proc[q]
        BY StepOf
    <2>2. q # p => Decision(q)'
        BY <1>1, <2>1 DEF Backed, Decision, Mine, Sound, There
    <2> QED BY <2>2
<1> QED BY <1>1, <1>2, <1>3 DEF Backed

(* The three steps of the directory, one lemma each for the files: what    *)
(* becomes of the signal that is written; of the others nothing changes.   *)
LEMMA OthersOnDisk ==
    ASSUME TypeOK, Chosen, NEW p \in Proc, WriteJson(p) \/ Open(p) \/ Close(p),
           NEW s \in Signal, s # Mine(p)
    PROVE  /\ files'[s] = files[s] /\ decided'[s] = decided[s]
           /\ s \in rewritten' <=> s \in rewritten
<1>1. Mine(p) \in Signal
    BY WriterMoves, MineType DEF Past
<1>2. /\ files \in [Signal -> [Names -> Verdict \cup {"torn"}]]
      /\ decided \in [Signal -> SUBSET Verdict]
    BY DEF TypeOK
<1>3. files'[s] = files[s]
    BY <1>1, <1>2 DEF WriteJson, Open, Close, Put
<1>4. decided'[s] = decided[s]
    BY <1>1, <1>2 DEF WriteJson, Open, Close
<1>5. s \in rewritten' <=> s \in rewritten
    BY <1>1 DEF WriteJson, Open, Close
<1> QED BY <1>3, <1>4, <1>5

LEMMA MineOnDisk ==
    ASSUME TypeOK, Chosen, Backed, NEW p \in Proc, WriteJson(p) \/ Open(p) \/ Close(p)
    PROVE  LET s == Mine(p)  f == proc[p].at IN
           /\ s \in Signal /\ f \in Names
           /\ \A g \in Names \ {f} : files'[s][g] = files[s][g]
           /\ files'[s][f] # "none"
           /\ decided[s] \subseteq decided'[s]
           /\ ~Open(p) /\ ~Close(p) =>
                  f # "scores" /\ files'[s][f] \in decided'[s] /\ rewritten' = rewritten
                  /\ shared' = shared /\ files'[s][f] # "torn" /\ proc[p].verdict \in decided'[s]
           /\ Open(p) => f = "scores" /\ files'[s][f] = "torn"
           /\ Close(p) => /\ f = "scores" /\ shared' = shared
                          /\ files'[s][f] \in decided'[s] \cup {"torn"}
                          /\ files'[s][f] = "torn" => s \in shared
                          /\ s \in shared => s \in rewritten'
<1> DEFINE s == Mine(p)  f == proc[p].at
<1>1. s \in Signal /\ f \in Names /\ f \in Past
    BY WriterMoves, MineType DEF Past
<1>2. /\ files \in [Signal -> [Names -> Verdict \cup {"torn"}]]
      /\ decided \in [Signal -> SUBSET Verdict] /\ proc[p] \in ProcState
    BY DEF TypeOK
<1>3. /\ proc[p].verdict \in Verdict /\ proc[p].verdict # "none"
      /\ f # "attestation" => proc[p].verdict \in decided[s]
    BY <1>1, <1>2 DEF Backed, Decision, ProcState, Past, Names
<1>4. ASSUME NEW g \in Names, NEW v, Put(s, g, v)
      PROVE  files'[s][g] = v /\ \A h \in Names \ {g} : files'[s][h] = files[s][h]
    BY <1>1, <1>2, <1>4 DEF Put
<1>5. CASE WriteJson(p)
    <2>1. f # "scores" /\ Put(s, f, proc[p].verdict) /\ UNCHANGED <<shared, rewritten>>
        BY <1>5 DEF WriteJson
    <2>2. decided'[s] = decided[s] \cup {proc[p].verdict}
        BY <1>1, <1>2, <1>5 DEF WriteJson
    <2>3. files'[s][f] = proc[p].verdict /\ \A h \in Names \ {f} : files'[s][h] = files[s][h]
        BY <1>1, <1>4, <2>1
    <2>4. ~Open(p) /\ ~Close(p)
        BY <2>1 DEF Open, Close
    <2>5. proc[p].verdict # "torn"
        BY <1>3 DEF Verdict
    <2> QED BY <1>1, <1>3, <2>1, <2>2, <2>3, <2>4, <2>5
<1>6. CASE Open(p)
    <2>1. f = "scores" /\ Put(s, f, "torn") /\ decided' = decided /\ ~Close(p)
        BY <1>6 DEF Open, Close
    <2>2. files'[s][f] = "torn" /\ \A h \in Names \ {f} : files'[s][h] = files[s][h]
        BY <1>1, <1>4, <2>1
    <2> QED BY <1>1, <1>6, <2>1, <2>2
<1>7. CASE Close(p)
    <2>1. /\ f = "scores" /\ decided' = decided /\ shared' = shared /\ ~Open(p)
          /\ Put(s, f, proc[p].verdict) \/ (s \in shared /\ Put(s, f, "torn"))
          /\ s \in shared => rewritten' = rewritten
        BY <1>7 DEF Close, Open
    <2>2. /\ files'[s][f] \in {proc[p].verdict, "torn"}
          /\ files'[s][f] = "torn" => s \in shared
          /\ \A h \in Names \ {f} : files'[s][h] = files[s][h]
        <3>1. CASE Put(s, f, proc[p].verdict)
            <4>1. files'[s][f] = proc[p].verdict /\ \A h \in Names \ {f} : files'[s][h] = files[s][h]
                BY <1>1, <1>4, <3>1
            <4> QED BY <1>3, <4>1 DEF Verdict
        <3>2. CASE s \in shared /\ Put(s, f, "torn")
            <4>1. files'[s][f] = "torn" /\ \A h \in Names \ {f} : files'[s][h] = files[s][h]
                BY <1>1, <1>4, <3>2
            <4> QED BY <3>2, <4>1
        <3> QED BY <2>1, <3>1, <3>2
    <2>3. proc[p].verdict \in decided[s] /\ proc[p].verdict # "none"
        BY <1>3, <2>1
    <2>4. s \in shared => s \in rewritten'
        BY <2>1 DEF Backed
    <2> QED BY <1>1, <1>7, <2>1, <2>2, <2>3, <2>4
<1> QED BY <1>5, <1>6, <1>7

(* Whose scores are overwritten under a row, or beside another writer, is  *)
(* marked; and the mark only goes when one process has written them alone. *)
LEMMA Marked ==
    ASSUME TypeOK, Chosen, Backed, NEW p \in Proc, WriteJson(p) \/ Open(p) \/ Close(p)
    PROVE  /\ shared' \subseteq rewritten'
           /\ Open(p) => /\ Mine(p) \in Registered => Mine(p) \in rewritten'
                         /\ \A q \in Proc \ {p} :
                                proc[q].at \in {"health", "manifest", "register"} /\ Mine(q) = Mine(p)
                                    => Mine(p) \in rewritten'
<1>1. Mine(p) \in Signal /\ shared \subseteq rewritten
    BY MineOnDisk DEF Backed
<1>2. CASE WriteJson(p)
    <2>1. ~Open(p) /\ shared' = shared /\ rewritten' = rewritten
        BY <1>2 DEF WriteJson, Open
    <2> QED BY <1>1, <2>1
<1>3. CASE Open(p)
    <2>1. shared' \subseteq rewritten'
        BY <1>1, <1>3 DEF Open, Writing
    <2>2. Mine(p) \in Registered => Mine(p) \in rewritten'
        BY <1>1, <1>3 DEF Open, Registered
    <2>3. ASSUME NEW q \in Proc \ {p}, Mine(q) = Mine(p),
                 proc[q].at \in {"health", "manifest", "register"}
          PROVE  Mine(p) \in rewritten'
        <3>1. q \in Writing(Mine(p))
            BY <2>3 DEF Writing
        <3> QED BY <1>3, <3>1 DEF Open
    <2> QED BY <2>1, <2>2, <2>3
<1>4. CASE Close(p)
    BY <1>1, <1>4 DEF Close, Open
<1> QED BY <1>2, <1>3, <1>4

(* The step of p keeps what is known of every signal.                      *)
LEMMA DiskWritten ==
    ASSUME TypeOK, Chosen, Backed, NEW p \in Proc, WriteJson(p) \/ Open(p) \/ Close(p),
           NEW s \in Signal
    PROVE  OnDisk(s)'
<1>1. signal' = signal /\ Registered' = Registered
    BY DEF WriteJson, Open, Close, tables, Registered
<1>2. OnDisk(s)
    BY DEF Backed
<1>3. CASE s # Mine(p)
    <2>1. files'[s] = files[s] /\ decided'[s] = decided[s] /\ (s \in rewritten' <=> s \in rewritten)
        BY <1>3, OthersOnDisk
    <2> QED BY <1>1, <1>2, <2>1 DEF OnDisk, Sound, There
<1>4. CASE s = Mine(p)
    <2> DEFINE f == proc[p].at
    <2>1. /\ f \in Names /\ decided[s] \subseteq decided'[s]
          /\ \A g \in Names \ {f} : files'[s][g] = files[s][g]
          /\ files'[s][f] # "none"
        BY <1>4, MineOnDisk
    <2>2. files'[s][f] \in decided'[s] \cup {"torn"} /\ (files'[s][f] = "torn" => f = "scores")
        BY <1>4, MineOnDisk
    <2>3. /\ \A g \in Names : files'[s][g] \in decided'[s] \cup {"none", "torn"}
          /\ \A g \in Names : files'[s][g] = "torn" => g = "scores"
        BY <1>2, <2>1, <2>2 DEF OnDisk
    <2>4. ASSUME s \in Registered PROVE Sound(s)' /\ \A g \in Names : There(s, g)'
        <3>1. \A g \in Names : There(s, g)'
            BY <1>2, <2>1, <2>4 DEF OnDisk, There
        <3>2. "scores" \in Names
            BY DEF Names
        <3>3. CASE Open(p)
            BY <1>4, <2>4, <3>1, <3>2, <3>3, Marked DEF Sound, There
        <3>4. CASE Close(p)
            <4>1. f = "scores" /\ (files'[s][f] = "torn" => s \in rewritten')
                BY <1>4, <3>4, MineOnDisk
            <4>2. files'[s]["scores"] # "none"
                BY <3>1, <3>2 DEF There
            <4>3. files'[s]["scores"] = "torn" => s \in rewritten'
                BY <4>1
            <4> QED BY <3>1, <4>2, <4>3 DEF Sound
        <3>5. CASE ~Open(p) /\ ~Close(p)
            <4>1. f # "scores" /\ rewritten' = rewritten
                BY <1>4, <3>5, MineOnDisk
            <4>2. files'[s]["scores"] = files[s]["scores"]
                BY <2>1, <3>2, <4>1
            <4>3. Sound(s)
                BY <1>2, <2>4 DEF OnDisk
            <4>4. Sound(s)'
                BY <4>1, <4>2, <4>3 DEF Sound
            <4> QED BY <3>1, <4>4
        <3> QED BY <3>1, <3>3, <3>4, <3>5
    <2> QED BY <1>1, <2>3, <2>4 DEF OnDisk
<1> QED BY <1>3, <1>4

(* ... and what every other process relies on.                             *)
LEMMA OthersRely ==
    ASSUME TypeOK, Chosen, Backed, NEW p \in Proc, WriteJson(p) \/ Open(p) \/ Close(p),
           NEW q \in Proc, q # p
    PROVE  Decision(q)'
<1> DEFINE s == Mine(q)  f == proc[p].at
<1>1. proc'[q] = proc[q] /\ Mine(q)' = s
    BY WriterMoves DEF Mine
<1>2. Decision(q)
    BY DEF Backed
<1>3. CASE proc[q].at \notin Past
    BY <1>1, <1>3 DEF Decision, Past, Names
<1>4. CASE proc[q].at \in Past /\ s # Mine(p)
    <2>1. s \in Signal
        BY <1>4, MineType
    <2>2. files'[s] = files[s] /\ decided'[s] = decided[s] /\ (s \in rewritten' <=> s \in rewritten)
        BY <1>4, <2>1, OthersOnDisk
    <2> HIDE DEF s
    <2> QED BY <1>1, <1>2, <2>2 DEF Decision, Sound, There, s
<1>5. CASE proc[q].at \in Past /\ s = Mine(p)
    <2>1. /\ f \in Names /\ decided[s] \subseteq decided'[s]
          /\ \A g \in Names \ {f} : files'[s][g] = files[s][g]
          /\ files'[s][f] # "none"
        BY <1>5, MineOnDisk
    <2>2. \A g \in Names : There(s, g) => files'[s][g] # "none"
        BY <2>1 DEF There
    <2>3. ASSUME proc[q].at \in {"health", "manifest", "register"}
          PROVE  files'[s]["scores"] # "none" /\ (files'[s]["scores"] = "torn" => s \in rewritten')
        <3>1. "scores" \in Names /\ Sound(s)
            BY <1>2, <2>3 DEF Decision, Names
        <3>2. files'[s]["scores"] # "none"
            BY <2>2, <3>1 DEF Sound, There
        <3>3. CASE Open(p)
            BY <1>5, <2>3, <3>2, <3>3, Marked
        <3>4. CASE Close(p)
            <4>1. f = "scores" /\ (files'[s][f] = "torn" => s \in rewritten')
                BY <1>5, <3>4, MineOnDisk
            <4> QED BY <3>2, <4>1
        <3>5. CASE ~Open(p) /\ ~Close(p)
            <4>1. f # "scores" /\ rewritten' = rewritten
                BY <1>5, <3>5, MineOnDisk
            <4>2. files'[s]["scores"] = files[s]["scores"]
                BY <2>1, <3>1, <4>1
            <4> QED BY <3>1, <4>1, <4>2 DEF Sound
        <3> QED BY <3>3, <3>4, <3>5
    <2>4. {"attestation", "health", "manifest"} \subseteq Names
        BY DEF Names
    <2> QED BY <1>1, <1>2, <2>1, <2>2, <2>3, <2>4 DEF Decision, Sound, There
<1> QED BY <1>3, <1>4, <1>5

(* ... and what p itself has written by then.                              *)
LEMMA WriterRelies ==
    ASSUME TypeOK, Chosen, Backed, NEW p \in Proc, WriteJson(p) \/ Open(p) \/ Close(p)
    PROVE  Decision(p)'
<1> DEFINE s == Mine(p)  f == proc[p].at
<1>1. /\ proc'[p].verdict = proc[p].verdict /\ Mine(p)' = s /\ f \in Names
      /\ Open(p) => proc'[p].at = "scores"
      /\ ~Open(p) => proc'[p].at = After(f)
    BY WriterMoves DEF Mine
<1>2. Decision(p) /\ f \in Past
    BY <1>1 DEF Backed, Past
<1>3. /\ decided[s] \subseteq decided'[s]
      /\ \A g \in Names \ {f} : files'[s][g] = files[s][g]
      /\ files'[s][f] # "none"
    BY MineOnDisk
<1>4. proc[p].verdict # "none"
    BY <1>1, <1>2 DEF Decision, Names
<1>5. proc[p].verdict \in decided'[s] /\ files'[s]["attestation"] # "none"
    <2>1. CASE f = "attestation"
        <3>1. WriteJson(p)
            BY <2>1 DEF Open, Close
        <3> QED BY <1>3, <2>1, <3>1, MineOnDisk
    <2>2. CASE f # "attestation"
        <3>1. "attestation" \in Names /\ f \in Past \ {"judge", "attestation"}
            BY <1>1, <1>2, <2>2 DEF Names
        <3>2. proc[p].verdict \in decided[s] /\ There(s, "attestation")
            BY <1>2, <3>1 DEF Decision
        <3> QED BY <1>3, <2>2, <3>1, <3>2 DEF There
    <2> QED BY <2>1, <2>2
<1>6. CASE f = "attestation"
    <2>1. ~Open(p) /\ After(f) = "scores"
        BY <1>6 DEF Open, After
    <2> QED BY <1>1, <1>4, <1>5, <2>1 DEF Decision, There
<1>7. CASE Open(p)
    BY <1>1, <1>4, <1>5, <1>7 DEF Decision, There
<1>8. CASE Close(p)
    <2>1. ~Open(p) /\ f = "scores" /\ After(f) = "health"
        BY <1>8 DEF Open, Close, After
    <2>2. files'[s][f] = "torn" => s \in rewritten'
        BY <1>8, MineOnDisk
    <2> QED BY <1>1, <1>3, <1>4, <1>5, <2>1, <2>2 DEF Decision, There, Sound
<1>9. CASE WriteJson(p) /\ f # "attestation"
    <2>1. /\ ~Open(p) /\ ~Close(p) /\ f \in {"health", "manifest"}
          /\ After("health") = "manifest" /\ After("manifest") = "register"
        BY <1>1, <1>9 DEF Open, Close, WriteJson, After, Names
    <2>2. rewritten' = rewritten /\ Sound(s) /\ files'[s]["scores"] = files[s]["scores"]
        BY <1>2, <1>3, <2>1, MineOnDisk DEF Decision, Names
    <2>3. f = "manifest" => files'[s]["health"] # "none"
        BY <1>2, <1>3 DEF Decision, Names, There
    <2> QED BY <1>1, <1>3, <1>4, <1>5, <2>1, <2>2, <2>3 DEF Decision, There, Sound
<1> QED BY <1>6, <1>7, <1>8, <1>9

LEMMA BackedStep ==
    TypeOK /\ Chosen /\ Finite /\ Backed /\ [Next]_vars => Backed'
<1> SUFFICES ASSUME TypeOK, Chosen, Finite, Backed, [Next]_vars PROVE Backed'
    OBVIOUS
<1>t. proc \in [Proc -> ProcState]
    BY DEF TypeOK
<1>r. ASSUME NEW p \in Proc, Raise(p) PROVE Decision(p)'
    BY <1>r, RaiseType DEF Decision, Past, Names
<1>2. ASSUME NEW p \in Proc, Start(p) \/ Sync(p) \/ Read(p) PROVE Backed'
    <2>1. proc[p].at \notin Past
        BY <1>2 DEF Start, Sync, Read, Past, Names
    <2>2. Decision(p)'
        BY <1>2, <2>1, StepOf DEF Step, Decision, Past, Names
    <2> QED BY <1>2, <2>2, DiskKept DEF Step, Start, Sync, Read, tables
<1>3. ASSUME NEW p \in Proc, Judge(p) PROVE Backed'
    <2>1. CASE Raise(p)
        BY <1>3, <1>r, <2>1, DiskKept DEF Step, Judge, tables
    <2>2. CASE \E v \in {"REJECT"} \cup {w \in {"PASS"} : Acceptable(p)} :
                  proc' = [proc EXCEPT ![p] = [@ EXCEPT !.at = "attestation", !.verdict = v, !.sync = FALSE]]
        <3>1. PICK v \in {"PASS", "REJECT"} :
                  proc' = [proc EXCEPT ![p] = [@ EXCEPT !.at = "attestation", !.verdict = v, !.sync = FALSE]]
            BY <2>2
        <3>2. proc[p] \in ProcState
            BY <1>t
        <3>3. proc'[p] = [proc[p] EXCEPT !.at = "attestation", !.verdict = v, !.sync = FALSE]
            BY <1>t, <3>1
        <3>4. proc'[p].at = "attestation" /\ proc'[p].verdict = v
            BY <3>2, <3>3 DEF ProcState
        <3>5. Decision(p)'
            BY <3>4 DEF Decision
        <3> QED BY <1>3, <3>5, DiskKept DEF Step, Judge, tables
    <2> QED BY <1>3, <2>1, <2>2 DEF Judge
<1>4. ASSUME NEW p \in Proc, RefuseSignal(p) \/ Finish(p) \/ Fail(p) \/ Kill(p) PROVE Backed'
    <2>1. Decision(p)'
        <3>1. CASE RefuseSignal(p)
            BY <1>r, <3>1 DEF RefuseSignal
        <3>2. CASE ~RefuseSignal(p)
            <4>1. proc'[p].at = "idle"
                BY <1>t, <1>4, <3>2 DEF Finish, Fail, Kill, Idle
            <4> QED BY <4>1 DEF Decision, Past, Names
        <3> QED BY <3>1, <3>2
    <2> QED BY <1>4, <2>1, DiskKept DEF Step, RefuseSignal, Finish, Fail, Kill, tables
<1>5. ASSUME NEW p \in Proc, Replay(p) \/ (Notify(p) /\ ~Raise(p)) PROVE Backed'
    <2>1. /\ proc'[p].at \in {"notify", "finish"} /\ proc[p].at \in {"register", "notify"}
          /\ proc'[p].verdict = proc[p].verdict /\ Mine(p)' = Mine(p)
        BY <1>t, <1>5 DEF Replay, Notify, Goto, Mine, ProcState
    <2>2. UNCHANGED <<disk, signal>>
        BY <1>5 DEF Replay, Notify, tables
    <2>3. Decision(p)'
        BY <2>1, <2>2 DEF Backed, Decision, Past, Names, There, disk
    <2> QED BY <1>5, <2>2, <2>3, DiskKept DEF Step
<1>6. ASSUME NEW p \in Proc, Notify(p), Raise(p) PROVE Backed'
    BY <1>6, <1>r, DiskKept DEF Step, Notify, tables
<1>7. ASSUME NEW p \in Proc, Register(p) PROVE Backed'
    <2>1. /\ proc'[p].at \in {"notify", "finish"} /\ proc[p].at = "register"
          /\ proc'[p].verdict = proc[p].verdict /\ Mine(p)' = Mine(p)
        BY <1>t, <1>7 DEF Register, Goto, Mine, ProcState
    <2>2. Mine(p) \in Signal /\ proc[p].verdict \in Verdict
        BY <1>t, <2>1, MineType DEF ProcState, Past
    <2>3. Registered' = Registered \cup {Mine(p)}
        BY <1>7, <2>2, InsertType DEF Register
    <2>4. UNCHANGED <<files, shared, decided, rewritten>> /\ Decision(p)
        BY <1>7 DEF Register, Backed, disk
    <2>5. Sound(Mine(p)) /\ \A f \in Names : There(Mine(p), f)
        BY <2>1, <2>4 DEF Decision, Sound, There, Past, Names
    <2>6. \A s \in Signal : OnDisk(s)'
        BY <2>3, <2>4, <2>5 DEF Backed, OnDisk, Sound, There
    <2>7. ASSUME NEW q \in Proc PROVE Decision(q)'
        <3>1. CASE q = p
            BY <2>1, <2>4, <3>1 DEF Decision, Past, Names, There
        <3>2. CASE q # p
            <4>1. proc'[q] = proc[q] /\ Decision(q)
                BY <1>7, <3>2, StepOf DEF Step, Backed
            <4> QED BY <2>4, <4>1 DEF Decision, Mine, Sound, There
        <3> QED BY <3>1, <3>2
    <2> QED BY <2>4, <2>6, <2>7 DEF Backed
<1>8. ASSUME NEW p \in Proc, WriteJson(p) \/ Open(p) \/ Close(p) PROVE Backed'
    BY <1>8, DiskWritten, OthersRely, WriterRelies, Marked DEF Backed
<1>9. ASSUME NEW m \in Model, Activate(m) PROVE Backed'
    <2>1. UNCHANGED <<files, shared, decided, rewritten, signal>>
        BY <1>9 DEF Activate, disk
    <2>2. ASSUME NEW p \in Proc PROVE Decision(p)'
        <3>1. /\ proc'[p].at = proc[p].at /\ proc'[p].verdict = proc[p].verdict /\ Mine(p)' = Mine(p)
              /\ Decision(p)
            BY <1>9, ActivateOf DEF Mine, Backed
        <3> QED BY <2>1, <3>1 DEF Decision, Sound, There
    <2> QED BY <2>1, <2>2 DEF Backed, OnDisk, Registered, Sound, There
<1>10. CASE UNCHANGED <<proc, signal, run, disk, sent>>
    <2>1. UNCHANGED <<files, shared, decided, rewritten, signal, proc>>
        BY <1>10 DEF disk
    <2>2. ASSUME NEW s \in Signal PROVE OnDisk(s)'
        BY <2>1 DEF Backed, OnDisk, Registered, Sound, There
    <2>3. ASSUME NEW p \in Proc PROVE Decision(p)'
        BY <2>1 DEF Backed, Decision, Mine, Sound, There
    <2>4. shared' \subseteq rewritten'
        BY <2>1 DEF Backed
    <2> QED BY <2>2, <2>3, <2>4 DEF Backed
<1>11. ASSUME NEW p \in Proc, Step(p) \/ Kill(p) PROVE Backed'
    <2>1. CASE Start(p) \/ Sync(p) \/ Read(p) \/ Judge(p)
        BY <1>2, <1>3, <2>1
    <2>2. CASE WriteJson(p) \/ Open(p) \/ Close(p) \/ Register(p)
        BY <1>7, <1>8, <2>2
    <2>3. CASE RefuseSignal(p) \/ Finish(p) \/ Fail(p) \/ Kill(p)
        BY <1>4, <2>3
    <2>4. CASE Replay(p) \/ Notify(p)
        BY <1>5, <1>6, <2>4
    <2> QED BY <1>11, <2>1, <2>2, <2>3, <2>4 DEF Step
<1> QED BY <1>9, <1>10, <1>11, Others

(* Unless a date was decided both ways, a PASS row stands for a directory  *)
(* with all its files, wherever the processes were killed, between two     *)
(* files or inside one: its JSON files say PASS, and its scores too unless *)
(* they were overwritten under the row or by two processes at once.        *)
THEOREM FilesBackSignals == Spec => []FilesBackPass
<1>1. Init => Backed
    BY DEF Init, Backed, Decision, OnDisk, Idle, Past, Names, Registered, NoSignal, NoFiles
<1> QED BY <1>1, BackedStep, BackedEnough, Typed, PTL DEF Spec
================================================================================
