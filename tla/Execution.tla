------------------------------- MODULE Execution -------------------------------
(***************************************************************************)
(* The execution backends of the control plane: control_plane/execution.py. *)
(* LocalExecutionBackend runs a request where it is submitted;             *)
(* FakeWorkerExecutionBackend has it run by a worker that a queue delivers *)
(* it to.  Both read a record from the store, decide, and put a record     *)
(* made from the one they read: calls of several threads interleave        *)
(* between any two accesses to the store, above all while a handler runs.  *)
(* A call can be interrupted: KeyboardInterrupt and its kind are not       *)
(* caught, and nothing is put.                                             *)
(***************************************************************************)
EXTENDS Naturals, FiniteSets

CONSTANTS
    Request,            \* business identities of one project
    Thread,
    Backend,            \* a subset of {"local", "worker"}: what shares the store
    MaxConcurrency,     \* ProjectQuota.max_concurrency
    MaxCalls,           \* bound: calls that are made, redeliveries apart
    MaxFailures,        \* bound: handlers that raise
    MaxInterrupts       \* bound: calls that are interrupted

ASSUME ExecutionAssumption ==
    /\ Request # {} /\ Backend \subseteq {"local", "worker"}
    /\ MaxConcurrency \in Nat \ {0}
    /\ {MaxCalls, MaxFailures, MaxInterrupts} \subseteq Nat

VARIABLES
    record,     \* [Request -> ExecutionRecord]: the store
    call,       \* [Thread -> the call it is in]
    queued,     \* requests of which the queue has an unanswered delivery
    calls, failures, interrupts,
    outcomes,   \* history: [Request -> executions whose handler returned]
    begun,      \* history: [Request -> executions that were put as RUNNING]
    disturbed   \* history: requests with overlapping calls, or an outcome that was lost

counters == <<calls, failures, interrupts>>
history == <<outcomes, begun, disturbed>>
vars == <<record, call, queued, counters, history>>

Active == {"QUEUED", "RUNNING"}
Terminal == {"SUCCEEDED", "CANCELLED"}
Status == {"none", "FAILED"} \cup Active \cup Terminal
Record == [status : Status, attempts : Nat]
NoRecord == [status |-> "none", attempts |-> 0]

At == {"idle", "get", "submit", "quota", "put", "run", "begin",
       "handler", "succeeded", "failed", "cancel"}
Call == [at : At, operation : {"submit", "deliver", "cancel", "resume"},
         backend : {"local", "worker"}, request : Request, seen : Record]
Idle == [at |-> "idle", operation |-> "submit", backend |-> "worker",
         request |-> CHOOSE r \in Request : TRUE, seen |-> NoRecord]

Init ==
    /\ record = [r \in Request |-> NoRecord]
    /\ call = [t \in Thread |-> Idle]
    /\ queued = {}
    /\ calls = 0 /\ failures = 0 /\ interrupts = 0
    /\ outcomes = [r \in Request |-> 0] /\ begun = [r \in Request |-> 0]
    /\ disturbed = {}

--------------------------------------------------------------------------------
Mine(t) == call[t].request
Goto(t, at) == call' = [call EXCEPT ![t].at = at]
Holding(t, at, seen) == call' = [call EXCEPT ![t].at = at, ![t].seen = seen]
Return(t) == call' = [call EXCEPT ![t] = Idle]

(* A delivery that returns is answered; one that raises, or is             *)
(* interrupted, is delivered again.                                        *)
Answer(t) ==
    /\ Return(t)
    /\ queued' = IF call[t].operation = "deliver" THEN queued \ {Mine(t)} ELSE queued
Raise(t) ==
    /\ Return(t)
    /\ queued' = IF call[t].operation = "deliver" THEN queued \cup {Mine(t)} ELSE queued

PutStatus(t, status) ==
    record' = [record EXCEPT ![Mine(t)] = [call[t].seen EXCEPT !.status = status]]

(* A call that starts on a request while another one is under way on it.   *)
Overlap(r) == IF \E u \in Thread : call[u].at # "idle" /\ Mine(u) = r THEN {r} ELSE {}

Enter(t, operation, backend, r) ==
    /\ call[t].at = "idle"
    /\ call' = [call EXCEPT ![t] =
           [Idle EXCEPT !.at = IF operation = "submit" THEN "submit" ELSE "get",
                        !.operation = operation, !.backend = backend, !.request = r]]
    /\ disturbed' = disturbed \cup Overlap(r)
    /\ UNCHANGED <<record, queued, failures, interrupts, outcomes, begun>>

(* submit, cancel and resume of either backend; deliver for a request that *)
(* nothing was submitted for, or a second time.                            *)
Start(t) ==
    /\ calls < MaxCalls /\ calls' = calls + 1
    /\ \E b \in Backend, r \in Request, operation \in {"submit", "cancel", "resume", "deliver"} :
          (operation = "deliver" => b = "worker") /\ Enter(t, operation, b, r)

Delivering(r) == \E u \in Thread : call[u].operation = "deliver" /\ Mine(u) = r

(* The queue delivers what has no answer yet.                              *)
Redeliver(t, r) ==
    /\ r \in queued /\ ~Delivering(r)
    /\ Enter(t, "deliver", "worker", r)
    /\ UNCHANGED calls

--------------------------------------------------------------------------------
DeliversAgain(operation, status) == \* mutant: a delivery runs what has succeeded
    \/ operation = "deliver" /\ status = "CANCELLED"
    \/ operation = "cancel" /\ status \in Terminal
    \/ operation = "resume" /\ status \notin {"CANCELLED", "FAILED"}

RefusesRunning(operation, status) == \* mutant: RUNNING is taken for somebody else's work
    \/ operation = "deliver" /\ status \in Terminal \cup {"RUNNING"}
    \/ operation = "cancel" /\ status \in Terminal
    \/ operation = "resume" /\ status \notin {"CANCELLED", "FAILED"}

CancelsSuccess(operation, status) == \* mutant: cancel does not look at SUCCEEDED
    \/ operation = "deliver" /\ status \in Terminal
    \/ operation = "cancel" /\ status = "CANCELLED"
    \/ operation = "resume" /\ status \notin {"CANCELLED", "FAILED"}

(* The record is returned as it is.                                        *)
Settled(operation, status) ==
    \/ operation = "deliver" /\ status \in Terminal
    \/ operation = "cancel" /\ status \in Terminal
    \/ operation = "resume" /\ status \notin {"CANCELLED", "FAILED"}

Continuation(operation) == CASE operation = "deliver" -> "begin"
                      [] operation = "cancel" -> "cancel"
                      [] operation = "resume" -> "quota"

Proceed(t, found) ==
    IF Settled(call[t].operation, found.status) THEN Answer(t)
    ELSE Holding(t, Continuation(call[t].operation), found) /\ UNCHANGED queued

(* The first store.get of deliver, cancel and resume.  What is not known   *)
(* is submitted first; only the local cancel records it as CANCELLED.      *)
Get(t) ==
    LET found == record[Mine(t)] IN
    /\ call[t].at = "get"
    /\ \/ found.status # "none" /\ Proceed(t, found)
       \/ /\ found.status = "none"
          /\ Goto(t, IF call[t].operation = "cancel" /\ call[t].backend = "local"
                     THEN "cancel" ELSE "submit")
          /\ UNCHANGED queued
    /\ UNCHANGED <<record, counters, history>>

(* store.get in submit.  deliver and cancel go on with what it returns.    *)
Submit(t) ==
    LET found == record[Mine(t)] IN
    /\ call[t].at = "submit"
    /\ \/ /\ found.status # "none"
          /\ IF call[t].operation \in {"submit", "resume"} THEN Answer(t) ELSE Proceed(t, found)
       \/ found.status = "none" /\ Goto(t, "quota") /\ UNCHANGED queued
    /\ UNCHANGED <<record, counters, history>>

(* quota.validate, in submit and in resume; it raises.                     *)
ActiveCount == Cardinality({r \in Request : record[r].status \in Active})

Quota(t) ==
    /\ call[t].at = "quota"
    /\ \/ ActiveCount < MaxConcurrency /\ Goto(t, "put") /\ UNCHANGED queued
       \/ ActiveCount >= MaxConcurrency /\ Raise(t)
    /\ UNCHANGED <<record, counters, history>>

(* The record is put as QUEUED, and handed to the queue by the worker      *)
(* backend.                                                                *)
Enqueue(t) ==
    /\ call[t].at = "put"
    /\ PutStatus(t, "QUEUED")
    /\ IF call[t].operation \in {"submit", "resume"}
       THEN /\ IF call[t].backend = "local" THEN Goto(t, "run") ELSE Return(t)
            /\ queued' = IF call[t].backend = "worker" THEN queued \cup {Mine(t)} ELSE queued
       ELSE /\ Holding(t, Continuation(call[t].operation), [call[t].seen EXCEPT !.status = "QUEUED"])
            /\ UNCHANGED queued
    /\ UNCHANGED <<counters, history>>

(* The store.get of LocalExecutionBackend._run.                            *)
Run(t) ==
    /\ call[t].at = "run"
    /\ Holding(t, "begin", record[Mine(t)])
    /\ UNCHANGED <<record, queued, counters, history>>

Begin(t) ==
    LET running == [status |-> "RUNNING", attempts |-> call[t].seen.attempts + 1] IN
    /\ call[t].at = "begin"
    /\ record' = [record EXCEPT ![Mine(t)] = running]
    /\ Holding(t, "handler", running)
    /\ begun' = [begun EXCEPT ![Mine(t)] = @ + 1]
    /\ UNCHANGED <<queued, counters, outcomes, disturbed>>

Handle(t) ==
    /\ call[t].at = "handler"
    /\ \/ /\ Goto(t, "succeeded")
          /\ outcomes' = [outcomes EXCEPT ![Mine(t)] = @ + 1]
          /\ UNCHANGED failures
       \/ /\ failures < MaxFailures /\ failures' = failures + 1
          /\ Goto(t, "failed")
          /\ UNCHANGED outcomes
    /\ UNCHANGED <<record, queued, calls, interrupts, begun, disturbed>>

Succeed(t) ==
    /\ call[t].at = "succeeded"
    /\ PutStatus(t, "SUCCEEDED")
    /\ Answer(t)
    /\ UNCHANGED <<counters, history>>

Fail(t) ==
    /\ call[t].at = "failed"
    /\ PutStatus(t, "FAILED")
    /\ Raise(t)
    /\ UNCHANGED <<counters, history>>

Cancel(t) ==
    /\ call[t].at = "cancel"
    /\ PutStatus(t, "CANCELLED")
    /\ Answer(t)
    /\ UNCHANGED <<counters, history>>

(* The handler has returned, and its outcome is lost.                      *)
LostOutcome(t) == IF call[t].at = "succeeded" THEN {Mine(t)} ELSE {}

Interrupt(t) ==
    /\ call[t].at # "idle"
    /\ interrupts < MaxInterrupts /\ interrupts' = interrupts + 1
    /\ Raise(t)
    /\ disturbed' = disturbed \cup LostOutcome(t)
    /\ UNCHANGED <<record, calls, failures, outcomes, begun>>

Step(t) ==
    \/ Get(t) \/ Submit(t) \/ Quota(t) \/ Enqueue(t) \/ Run(t)
    \/ Begin(t) \/ Handle(t) \/ Succeed(t) \/ Fail(t) \/ Cancel(t)

Next ==
    \/ \E t \in Thread : Start(t) \/ Step(t) \/ Interrupt(t)
    \/ \E t \in Thread, r \in Request : Redeliver(t, r)

(* Threads go on with the call they are in, and the queue delivers again   *)
(* what was not answered.                                                  *)
Fairness ==
    /\ \A t \in Thread : WF_vars(Step(t))
    /\ \A r \in Request : WF_vars(\E t \in Thread : Redeliver(t, r))

Spec == Init /\ [][Next]_vars /\ Fairness

--------------------------------------------------------------------------------
(* The variables keep their types.                                         *)
TypeOK ==
    /\ record \in [Request -> Record] /\ call \in [Thread -> Call]
    /\ queued \subseteq Request /\ disturbed \subseteq Request
    /\ calls \in 0 .. MaxCalls /\ failures \in 0 .. MaxFailures
    /\ interrupts \in 0 .. MaxInterrupts
    /\ outcomes \in [Request -> Nat] /\ begun \in [Request -> Nat]

(* "A duplicate worker delivery returns the existing terminal record       *)
(* instead of executing the scientific run again", and a retry counts on:  *)
(* however often a request is submitted, delivered, cancelled and resumed, *)
(* on either backend, one execution at most has an outcome, and attempts   *)
(* counts the executions; unless calls overlap or an outcome was lost.     *)
RunsOnce ==
    \A r \in Request \ disturbed :
        outcomes[r] <= 1 /\ record[r].attempts = begun[r]

(* SUCCEEDED is final, and only resume takes a request out of CANCELLED:   *)
(* no delivery that comes late, no cancel and no submission of the same    *)
(* request does; unless calls overlap.                                     *)
TerminalStands ==
    [][\A r \in Request \ disturbed' :
          record[r].status \in Terminal /\ record'[r] # record[r] =>
              /\ record[r].status = "CANCELLED"
              /\ \E t \in Thread : Mine(t) = r /\ call[t].operation = "resume"]_vars

(* What was submitted and handed to the queue ends SUCCEEDED or CANCELLED, *)
(* whatever overlaps, fails or is interrupted: an interrupted delivery     *)
(* leaves the record RUNNING, and the next one takes it over.              *)
DeliveredSettles ==
    \A r \in Request :
        r \in queued /\ record[r].status # "none" ~> record[r].status \in Terminal
================================================================================
