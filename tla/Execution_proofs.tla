---------------------------- MODULE Execution_proofs ---------------------------
(***************************************************************************)
(* Proofs about Execution, for any requests, threads, backends and bounds: *)
(* the types, that a request has one outcome at most and that a terminal   *)
(* record stands.                                                          *)
(***************************************************************************)
EXTENDS Execution, TLAPS

USE ExecutionAssumption

Busy(t) == call[t].at # "idle"

(* What a call knows of its record while no other call is on the request.  *)
Holds == {"quota", "put", "begin", "cancel", "handler", "succeeded", "failed"}
Pending == {"run", "begin", "cancel", "handler", "succeeded", "failed"}

Sees(t) ==
    /\ call[t].at \in Holds => call[t].seen = record[Mine(t)]
    /\ call[t].at \in {"quota", "put"} =>
          \/ record[Mine(t)].status = "none"
          \/ record[Mine(t)].status \in {"CANCELLED", "FAILED"} /\ call[t].operation = "resume"
    /\ call[t].at \in Pending => record[Mine(t)].status \notin Terminal
    /\ call[t].at = "submit" => call[t].seen = NoRecord
    /\ call[t].at = "get" => call[t].seen = NoRecord

(* A request has no outcome, or one that is recorded or about to be.       *)
Counted(r) ==
    /\ outcomes[r] \in {0, 1}
    /\ outcomes[r] = 1 => \/ record[r].status = "SUCCEEDED"
                          \/ \E t \in Thread : call[t].at = "succeeded" /\ Mine(t) = r
    /\ record[r].attempts = begun[r]
    /\ record[r].status = "none" => record[r] = NoRecord

Undisturbed ==
    /\ \A t \in Thread : call[t].at = "get" => call[t].operation # "submit"
    /\ \A t, u \in Thread : Busy(t) /\ Busy(u) /\ Mine(t) = Mine(u) /\ Mine(t) \notin disturbed => t = u
    /\ \A t \in Thread : Busy(t) /\ Mine(t) \notin disturbed => Sees(t)
    /\ \A r \in Request \ disturbed : Counted(r)

--------------------------------------------------------------------------------
LEMMA IdleCall ==
    /\ Idle \in Call /\ Idle.at = "idle" /\ Idle.operation = "submit" /\ Idle.seen = NoRecord
<1>1. (CHOOSE r \in Request : TRUE) \in Request
    OBVIOUS
<1>2. NoRecord \in Record
    BY DEF NoRecord, Record, Status
<1> QED BY <1>1, <1>2 DEF Idle, Call, At

LEMMA InitTypes == Init => TypeOK /\ Undisturbed
<1> SUFFICES ASSUME Init PROVE TypeOK /\ Undisturbed
    OBVIOUS
<1>1. NoRecord \in Record /\ NoRecord.attempts = 0
    BY DEF NoRecord, Record, Status
<1>2. /\ record \in [Request -> Record] /\ call \in [Thread -> Call]
      /\ outcomes \in [Request -> Nat] /\ begun \in [Request -> Nat]
    BY <1>1, IdleCall DEF Init
<1>3. /\ queued = {} /\ disturbed = {}
      /\ calls \in 0 .. MaxCalls /\ failures \in 0 .. MaxFailures /\ interrupts \in 0 .. MaxInterrupts
    BY DEF Init
<1>4. \A t \in Thread : ~Busy(t)
    BY IdleCall DEF Init, Busy
<1>5. \A r \in Request : Counted(r)
    BY <1>1 DEF Init, Counted
<1> QED BY <1>2, <1>3, <1>4, <1>5 DEF TypeOK, Undisturbed, Busy

--------------------------------------------------------------------------------
(* What Goto, Holding and Return make of a call.                           *)
LEMMA GotoCall ==
    ASSUME TypeOK, NEW t \in Thread, NEW at \in At, Goto(t, at)
    PROVE  /\ call' = [call EXCEPT ![t] = call'[t]] /\ call'[t] \in Call
           /\ call'[t].at = at /\ call'[t].operation = call[t].operation
           /\ call'[t].request = call[t].request /\ call'[t].seen = call[t].seen
<1>1. call \in [Thread -> Call]
    BY DEF TypeOK
<1>2. call' = [call EXCEPT ![t] = call'[t]] /\ call'[t] = [call[t] EXCEPT !.at = at]
    BY <1>1 DEF Goto
<1>3. call[t] \in Call
    BY <1>1
<1> QED BY <1>2, <1>3 DEF Call

LEMMA HoldingCall ==
    ASSUME TypeOK, NEW t \in Thread, NEW at \in At, NEW seen \in Record, Holding(t, at, seen)
    PROVE  /\ call' = [call EXCEPT ![t] = call'[t]] /\ call'[t] \in Call
           /\ call'[t].at = at /\ call'[t].operation = call[t].operation
           /\ call'[t].request = call[t].request /\ call'[t].seen = seen
<1>1. call \in [Thread -> Call]
    BY DEF TypeOK
<1>2. call' = [call EXCEPT ![t] = call'[t]] /\ call'[t] = [call[t] EXCEPT !.at = at, !.seen = seen]
    BY <1>1 DEF Holding
<1>3. call[t] \in Call
    BY <1>1
<1> QED BY <1>2, <1>3 DEF Call

LEMMA ReturnCall ==
    ASSUME TypeOK, NEW t \in Thread, Return(t)
    PROVE  /\ call' = [call EXCEPT ![t] = call'[t]] /\ call'[t] \in Call
           /\ call'[t].at = "idle"
<1>1. call \in [Thread -> Call]
    BY DEF TypeOK
<1> QED BY <1>1, IdleCall DEF Return

(* A step of the call of t: what it leaves alone, and what remains to be   *)
(* shown about its own request.                                            *)
LEMMA OwnRequest ==
    ASSUME TypeOK, TypeOK', Undisturbed, NEW t \in Thread, Busy(t),
           NEW mine \in Request, mine = Mine(t),
           call' = [call EXCEPT ![t] = call'[t]],
           Busy(t)' => Mine(t)' = mine, call'[t].at # "get",
           \A r \in Request : r # mine =>
               record'[r] = record[r] /\ outcomes'[r] = outcomes[r] /\ begun'[r] = begun[r],
           disturbed \subseteq disturbed',
           mine \notin disturbed' => (Busy(t)' => Sees(t)') /\ Counted(mine)'
    PROVE  Undisturbed'
<1>1. call \in [Thread -> Call]
    BY DEF TypeOK
<1>2. \A u \in Thread : u # t => call'[u] = call[u]
    BY <1>1
<1>3. \A u, v \in Thread :
          Busy(u)' /\ Busy(v)' /\ Mine(u)' = Mine(v)' /\ Mine(u)' \notin disturbed' => u = v
    BY <1>2 DEF Undisturbed, Busy, Mine
<1>4. ASSUME NEW u \in Thread, Busy(u)', Mine(u)' \notin disturbed' PROVE Sees(u)'
    <2>1. CASE u = t
        BY <1>4, <2>1
    <2>2. CASE u # t
        <3>1. /\ call'[u] = call[u] /\ Busy(u) /\ Mine(u) \notin disturbed /\ Sees(u)
              /\ Mine(u) # Mine(t)
            BY <1>2, <1>4, <2>2 DEF Undisturbed, Busy, Mine
        <3>2. Mine(u) \in Request
            <4>1. call[u] \in Call
                BY <1>1
            <4> QED BY <4>1 DEF Mine, Call
        <3>3. record'[Mine(u)] = record[Mine(u)]
            BY <3>1, <3>2
        <3> QED BY <3>1, <3>3 DEF Sees, Mine
    <2> QED BY <2>1, <2>2
<1>5. ASSUME NEW r \in Request \ disturbed' PROVE Counted(r)'
    <2>1. CASE r = mine
        BY <1>5, <2>1
    <2>2. CASE r # mine
        <3>1. Counted(r) /\ record'[r] = record[r] /\ outcomes'[r] = outcomes[r] /\ begun'[r] = begun[r]
            BY <1>5, <2>2 DEF Undisturbed
        <3>2. ASSUME NEW u \in Thread, call[u].at = "succeeded", Mine(u) = r
              PROVE  call'[u].at = "succeeded" /\ Mine(u)' = r
            BY <1>2, <2>2, <3>2 DEF Mine
        <3> QED BY <3>1, <3>2 DEF Counted
    <2> QED BY <2>1, <2>2
<1>6. \A u \in Thread : call'[u].at = "get" => call'[u].operation # "submit"
    BY <1>2 DEF Undisturbed
<1> QED BY <1>3, <1>4, <1>5, <1>6 DEF Undisturbed
--------------------------------------------------------------------------------
(* One action after another: the types, and then the request of the call.  *)
LEMMA CallOf ==
    ASSUME TypeOK, NEW t \in Thread
    PROVE  /\ call[t] \in Call /\ Mine(t) \in Request
           /\ record[Mine(t)] \in Record /\ call[t].seen \in Record
           /\ call[t].operation \in {"submit", "deliver", "cancel", "resume"}
<1>1. call \in [Thread -> Call] /\ record \in [Request -> Record]
    BY DEF TypeOK
<1>2. call[t] \in Call
    BY <1>1
<1> QED BY <1>1, <1>2 DEF Mine, Call

LEMMA CallTypes ==
    ASSUME TypeOK, NEW t \in Thread, call' = [call EXCEPT ![t] = call'[t]], call'[t] \in Call
    PROVE  call' \in [Thread -> Call]
  BY DEF TypeOK

(* A call that returns leaves the request as it counts it.                 *)
LEMMA AnswerQueue ==
    ASSUME TypeOK, NEW t \in Thread, Answer(t) \/ Raise(t)
    PROVE  Return(t) /\ queued' \subseteq Request
  BY CallOf DEF Answer, Raise, TypeOK

(* Proceed returns, or goes on with a record that is not terminal, or that *)
(* resume takes up again.                                                  *)
LEMMA ProceedCall ==
    ASSUME TypeOK, NEW t \in Thread, NEW found \in Record, Proceed(t, found),
           call[t].operation \in {"deliver", "cancel", "resume"}
    PROVE  /\ queued' \subseteq Request
           /\ call' = [call EXCEPT ![t] = call'[t]] /\ call'[t] \in Call
           /\ \/ call'[t].at = "idle"
              \/ /\ call'[t].seen = found
                 /\ call'[t].request = call[t].request /\ call'[t].operation = call[t].operation
                 /\ \/ call'[t].at \in {"begin", "cancel"} /\ found.status \notin Terminal
                    \/ /\ call'[t].at = "quota" /\ call[t].operation = "resume"
                       /\ found.status \in {"CANCELLED", "FAILED"}
<1>1. CASE Settled(call[t].operation, found.status)
    <2>1. Answer(t)
        BY <1>1 DEF Proceed
    <2> QED BY <2>1, AnswerQueue, ReturnCall
<1>2. CASE ~Settled(call[t].operation, found.status)
    <2>1. Holding(t, Continuation(call[t].operation), found) /\ UNCHANGED queued
        BY <1>2 DEF Proceed
    <2>2. Continuation(call[t].operation) \in {"begin", "cancel", "quota"}
        BY DEF Continuation
    <2>3. Continuation(call[t].operation) \in At
        BY <2>2 DEF At
    <2>4. /\ Continuation(call[t].operation) \in {"begin", "cancel"} => found.status \notin Terminal
          /\ Continuation(call[t].operation) = "quota" =>
                call[t].operation = "resume" /\ found.status \in {"CANCELLED", "FAILED"}
        BY <1>2 DEF Settled, Continuation
    <2> QED BY <2>1, <2>2, <2>3, <2>4, HoldingCall DEF TypeOK
<1> QED BY <1>1, <1>2

(* The part of OwnRequest that a step which only moves its call shares.    *)
LEMMA Moves ==
    ASSUME TypeOK, Undisturbed, NEW t \in Thread, Busy(t),
           NEW mine \in Request, mine = Mine(t),
           UNCHANGED <<record, calls, failures, interrupts, outcomes, begun, disturbed>>,
           queued' \subseteq Request,
           call' = [call EXCEPT ![t] = call'[t]], call'[t] \in Call,
           Busy(t)' => Mine(t)' = mine, call'[t].at # "get", call[t].at # "succeeded",
           mine \notin disturbed => (Busy(t)' => Sees(t)')
    PROVE  TypeOK' /\ Undisturbed'
<1>1. TypeOK'
    BY CallTypes DEF TypeOK
<1>2. ASSUME mine \notin disturbed PROVE Counted(mine)'
    <2>1. Counted(mine)
        BY <1>2 DEF Undisturbed
    <2>2. call \in [Thread -> Call]
        BY DEF TypeOK
    <2>3. ASSUME NEW u \in Thread, call[u].at = "succeeded", Mine(u) = mine
          PROVE  call'[u].at = "succeeded" /\ Mine(u)' = mine
        BY <2>2, <2>3 DEF Mine
    <2> QED BY <2>1, <2>3 DEF Counted
<1> QED BY <1>1, <1>2, OwnRequest

LEMMA GetStep == ASSUME TypeOK, Undisturbed, NEW t \in Thread, Get(t) PROVE TypeOK' /\ Undisturbed'
<1>1. PICK mine \in Request : mine = Mine(t)
    BY CallOf
<1>2. /\ UNCHANGED <<record, calls, failures, interrupts, outcomes, begun, disturbed>>
      /\ Busy(t) /\ call[t].at = "get"
    BY DEF Get, counters, history, Busy
<1>3. mine \notin disturbed => Sees(t) /\ Counted(mine)
    BY <1>1, <1>2 DEF Undisturbed
<1>4. CASE record[mine].status # "none" /\ Proceed(t, record[mine])
    <2>1. call[t].operation \in {"deliver", "cancel", "resume"} /\ record[mine] \in Record
        BY <1>1, <1>2, CallOf DEF Undisturbed
    <2>2. /\ queued' \subseteq Request /\ call'[t].at \in {"idle", "begin", "cancel", "quota"}
          /\ call' = [call EXCEPT ![t] = call'[t]] /\ call'[t] \in Call
          /\ Busy(t)' => Mine(t)' = mine
        BY <1>1, <1>4, <2>1, ProceedCall DEF Busy, Mine
    <2>3. Busy(t)' => Sees(t)'
        BY <1>1, <1>2, <1>4, <2>1, ProceedCall DEF Busy, Mine, Sees, Holds, Pending
    <2> QED BY <1>1, <1>2, <2>2, <2>3, Moves
<1>5. CASE record[mine].status = "none" /\ (Goto(t, "cancel") \/ Goto(t, "submit")) /\ UNCHANGED queued
    <2>1. PICK at \in {"cancel", "submit"} : Goto(t, at)
        BY <1>5
    <2>2. at \in At
        BY DEF At
    <2>3. /\ queued' \subseteq Request /\ call'[t].at = at
          /\ call' = [call EXCEPT ![t] = call'[t]] /\ call'[t] \in Call
          /\ Mine(t)' = mine /\ call'[t].seen = call[t].seen
        BY <1>1, <1>5, <2>1, <2>2, GotoCall DEF Mine, TypeOK
    <2>4. mine \notin disturbed => Sees(t)'
        BY <1>1, <1>2, <1>3, <1>5, <2>3 DEF Sees, Holds, Pending, Counted, Mine, Terminal, NoRecord
    <2> QED BY <1>1, <1>2, <2>3, <2>4, Moves
<1> QED BY <1>1, <1>4, <1>5 DEF Get

LEMMA SubmitStep == ASSUME TypeOK, Undisturbed, NEW t \in Thread, Submit(t) PROVE TypeOK' /\ Undisturbed'
<1>1. PICK mine \in Request : mine = Mine(t)
    BY CallOf
<1>2. /\ UNCHANGED <<record, calls, failures, interrupts, outcomes, begun, disturbed>>
      /\ Busy(t) /\ call[t].at = "submit"
    BY DEF Submit, counters, history, Busy
<1>3. mine \notin disturbed => Sees(t) /\ Counted(mine)
    BY <1>1, <1>2 DEF Undisturbed
<1>4. CASE Answer(t)
    <2>1. /\ queued' \subseteq Request /\ call'[t].at = "idle"
          /\ call' = [call EXCEPT ![t] = call'[t]] /\ call'[t] \in Call
        BY <1>4, AnswerQueue, ReturnCall
    <2> QED BY <1>1, <1>2, <2>1, Moves DEF Busy
<1>5. CASE call[t].operation \notin {"submit", "resume"} /\ Proceed(t, record[mine])
    <2>1. call[t].operation \in {"deliver", "cancel"} /\ record[mine] \in Record
        BY <1>1, <1>5, CallOf
    <2>2. /\ queued' \subseteq Request /\ call'[t].at \in {"idle", "begin", "cancel", "quota"}
          /\ call' = [call EXCEPT ![t] = call'[t]] /\ call'[t] \in Call
          /\ Busy(t)' => Mine(t)' = mine
        BY <1>1, <1>5, <2>1, ProceedCall DEF Busy, Mine
    <2>3. Busy(t)' => Sees(t)'
        BY <1>1, <1>2, <1>5, <2>1, ProceedCall DEF Busy, Mine, Sees, Holds, Pending
    <2> QED BY <1>1, <1>2, <2>2, <2>3, Moves
<1>6. CASE record[mine].status = "none" /\ Goto(t, "quota") /\ UNCHANGED queued
    <2>1. "quota" \in At
        BY DEF At
    <2>2. /\ queued' \subseteq Request /\ call'[t].at = "quota"
          /\ call' = [call EXCEPT ![t] = call'[t]] /\ call'[t] \in Call
          /\ Mine(t)' = mine /\ call'[t].seen = call[t].seen
        BY <1>1, <1>6, <2>1, GotoCall DEF Mine, TypeOK
    <2>3. mine \notin disturbed => Sees(t)'
        BY <1>1, <1>2, <1>3, <1>6, <2>2 DEF Sees, Holds, Pending, Counted, Mine
    <2> QED BY <1>1, <1>2, <2>2, <2>3, Moves
<1> QED BY <1>1, <1>4, <1>5, <1>6 DEF Submit

LEMMA QuotaStep == ASSUME TypeOK, Undisturbed, NEW t \in Thread, Quota(t) PROVE TypeOK' /\ Undisturbed'
<1>1. PICK mine \in Request : mine = Mine(t)
    BY CallOf
<1>2. /\ UNCHANGED <<record, calls, failures, interrupts, outcomes, begun, disturbed>>
      /\ Busy(t) /\ call[t].at = "quota"
    BY DEF Quota, counters, history, Busy
<1>3. mine \notin disturbed => Sees(t)
    BY <1>1, <1>2 DEF Undisturbed
<1>4. CASE Raise(t)
    <2>1. /\ queued' \subseteq Request /\ call'[t].at = "idle"
          /\ call' = [call EXCEPT ![t] = call'[t]] /\ call'[t] \in Call
        BY <1>4, AnswerQueue, ReturnCall
    <2> QED BY <1>1, <1>2, <2>1, Moves DEF Busy
<1>5. CASE Goto(t, "put") /\ UNCHANGED queued
    <2>1. "put" \in At
        BY DEF At
    <2>2. /\ queued' \subseteq Request /\ call'[t].at = "put"
          /\ call' = [call EXCEPT ![t] = call'[t]] /\ call'[t] \in Call
          /\ Mine(t)' = mine /\ call'[t].seen = call[t].seen
          /\ call'[t].operation = call[t].operation
        BY <1>1, <1>5, <2>1, GotoCall DEF Mine, TypeOK
    <2>3. mine \notin disturbed => Sees(t)'
        BY <1>1, <1>2, <1>3, <2>2 DEF Sees, Holds, Pending, Mine
    <2> QED BY <1>1, <1>2, <2>2, <2>3, Moves
<1> QED BY <1>4, <1>5 DEF Quota

LEMMA RunStep == ASSUME TypeOK, Undisturbed, NEW t \in Thread, Run(t) PROVE TypeOK' /\ Undisturbed'
<1>1. PICK mine \in Request : mine = Mine(t)
    BY CallOf
<1>2. /\ UNCHANGED <<record, calls, failures, interrupts, outcomes, begun, disturbed, queued>>
      /\ Busy(t) /\ call[t].at = "run" /\ Holding(t, "begin", record[mine])
    BY <1>1 DEF Run, counters, history, Busy
<1>3. mine \notin disturbed => Sees(t)
    BY <1>1, <1>2 DEF Undisturbed
<1>4. "begin" \in At /\ record[mine] \in Record
    BY <1>1, CallOf DEF At
<1>5. /\ queued' \subseteq Request /\ call'[t].at = "begin"
      /\ call' = [call EXCEPT ![t] = call'[t]] /\ call'[t] \in Call
      /\ Mine(t)' = mine /\ call'[t].seen = record[mine]
    BY <1>1, <1>2, <1>4, HoldingCall DEF Mine, TypeOK
<1>6. mine \notin disturbed => Sees(t)'
    BY <1>1, <1>2, <1>3, <1>5 DEF Sees, Holds, Pending, Mine
<1> QED BY <1>1, <1>2, <1>5, <1>6, Moves

(* The steps that put a record.                                            *)
LEMMA PutRecord ==
    ASSUME TypeOK, NEW t \in Thread, NEW mine \in Request, mine = Mine(t),
           NEW status \in Status, PutStatus(t, status)
    PROVE  /\ record' \in [Request -> Record]
           /\ record'[mine] = [call[t].seen EXCEPT !.status = status] /\ record'[mine] \in Record
           /\ record'[mine].status = status /\ record'[mine].attempts = call[t].seen.attempts
           /\ \A r \in Request : r # mine => record'[r] = record[r]
<1>1. record \in [Request -> Record] /\ call[t].seen \in Record
    BY CallOf DEF TypeOK
<1>2. [call[t].seen EXCEPT !.status = status] \in Record
    BY <1>1 DEF Record
<1>3. record' = [record EXCEPT ![mine] = [call[t].seen EXCEPT !.status = status]]
    BY DEF PutStatus
<1>4. /\ [call[t].seen EXCEPT !.status = status].status = status
      /\ [call[t].seen EXCEPT !.status = status].attempts = call[t].seen.attempts
    BY <1>1 DEF Record
<1> QED BY <1>1, <1>2, <1>3, <1>4

LEMMA EnqueueStep == ASSUME TypeOK, Undisturbed, NEW t \in Thread, Enqueue(t) PROVE TypeOK' /\ Undisturbed'
<1>1. PICK mine \in Request : mine = Mine(t)
    BY CallOf
<1>2. /\ UNCHANGED <<calls, failures, interrupts, outcomes, begun, disturbed>>
      /\ Busy(t) /\ call[t].at = "put" /\ PutStatus(t, "QUEUED") /\ "QUEUED" \in Status
    BY DEF Enqueue, counters, history, Busy, Status, Active
<1>3. mine \notin disturbed => Sees(t) /\ Counted(mine)
    BY <1>1, <1>2 DEF Undisturbed
<1>4. /\ record' \in [Request -> Record] /\ record'[mine] \in Record
      /\ record'[mine] = [call[t].seen EXCEPT !.status = "QUEUED"]
      /\ record'[mine].status = "QUEUED" /\ record'[mine].attempts = call[t].seen.attempts
      /\ \A r \in Request : r # mine => record'[r] = record[r]
    BY <1>1, <1>2, PutRecord
<1>5. /\ queued' \subseteq Request /\ call'[t].at \in {"idle", "run", "begin", "cancel"}
      /\ call' = [call EXCEPT ![t] = call'[t]] /\ call'[t] \in Call
      /\ Busy(t)' => Mine(t)' = mine
      /\ call'[t].at \in {"begin", "cancel"} => call'[t].seen = record'[mine]
    <2>1. CASE call[t].operation \in {"submit", "resume"}
        <3>1. queued' \subseteq Request
            BY <1>1, <2>1 DEF Enqueue, TypeOK
        <3>2. CASE Goto(t, "run")
            <4>1. "run" \in At
                BY DEF At
            <4> QED BY <1>1, <3>1, <3>2, <4>1, GotoCall DEF Mine
        <3>3. CASE Return(t)
            BY <3>1, <3>3, ReturnCall DEF Busy
        <3> QED BY <2>1, <3>2, <3>3 DEF Enqueue
    <2>2. CASE call[t].operation \notin {"submit", "resume"}
        <3>1. call[t].operation \in {"deliver", "cancel"}
            BY <2>2, CallOf
        <3>2. /\ Continuation(call[t].operation) \in {"begin", "cancel"}
              /\ Continuation(call[t].operation) \in At
            BY <3>1 DEF Continuation, At
        <3>3. /\ Holding(t, Continuation(call[t].operation), record'[mine]) /\ UNCHANGED queued
            BY <1>4, <2>2 DEF Enqueue
        <3>4. \A x \in Record : x = record'[mine] => Holding(t, Continuation(call[t].operation), x)
            BY <3>3
        <3> QED BY <1>1, <1>4, <3>2, <3>3, <3>4, HoldingCall DEF Mine, TypeOK
    <2> QED BY <2>1, <2>2
<1>6. TypeOK'
    BY <1>2, <1>4, <1>5, CallTypes DEF TypeOK
<1>7. ASSUME mine \notin disturbed PROVE (Busy(t)' => Sees(t)') /\ Counted(mine)'
    <2>1. call[t].seen = record[mine] /\ record[mine].status # "SUCCEEDED"
        BY <1>1, <1>2, <1>3, <1>7 DEF Sees, Holds, Terminal
    <2>2. \A u \in Thread : call[u].at = "succeeded" /\ Mine(u) = mine => FALSE
        BY <1>1, <1>2, <1>7 DEF Undisturbed, Busy
    <2>3. outcomes[mine] = 0
        BY <1>3, <1>7, <2>1, <2>2 DEF Counted
    <2>4. Counted(mine)'
        BY <1>2, <1>3, <1>4, <1>7, <2>1, <2>3 DEF Counted
    <2>5. Busy(t)' => Sees(t)'
        BY <1>4, <1>5 DEF Sees, Holds, Pending, Terminal
    <2> QED BY <2>4, <2>5
<1> QED BY <1>1, <1>2, <1>4, <1>5, <1>6, <1>7, OwnRequest
LEMMA BeginStep == ASSUME TypeOK, Undisturbed, NEW t \in Thread, Begin(t) PROVE TypeOK' /\ Undisturbed'
<1>1. PICK mine \in Request : mine = Mine(t)
    BY CallOf
<1>2. PICK running : /\ running = [status |-> "RUNNING", attempts |-> call[t].seen.attempts + 1]
                     /\ record' = [record EXCEPT ![mine] = running]
                     /\ Holding(t, "handler", running)
    BY <1>1 DEF Begin
<1>3. /\ UNCHANGED <<queued, calls, failures, interrupts, outcomes, disturbed>>
      /\ begun' = [begun EXCEPT ![mine] = @ + 1] /\ call[t].at = "begin" /\ Busy(t)
    BY <1>1 DEF Begin, counters, Busy
<1>4. mine \notin disturbed => Sees(t) /\ Counted(mine)
    BY <1>1, <1>3 DEF Undisturbed
<1>5. /\ running \in Record /\ running.status = "RUNNING"
      /\ running.attempts = call[t].seen.attempts + 1 /\ call[t].seen.attempts \in Nat
    BY <1>2, CallOf DEF Record, Status, Active
<1>6. /\ record' \in [Request -> Record] /\ record'[mine] = running
      /\ \A r \in Request : r # mine => record'[r] = record[r]
    BY <1>2, <1>5 DEF TypeOK
<1>7. /\ begun' \in [Request -> Nat] /\ begun'[mine] = begun[mine] + 1
      /\ \A r \in Request : r # mine => begun'[r] = begun[r]
    BY <1>3 DEF TypeOK
<1>8. "handler" \in At
    BY DEF At
<1>9. /\ call' = [call EXCEPT ![t] = call'[t]] /\ call'[t] \in Call
      /\ Mine(t)' = mine /\ call'[t].at = "handler" /\ call'[t].seen = running
    BY <1>1, <1>2, <1>5, <1>8, HoldingCall DEF Mine
<1>10. TypeOK'
    BY <1>3, <1>6, <1>7, <1>9, CallTypes DEF TypeOK
<1>11. ASSUME mine \notin disturbed PROVE Sees(t)' /\ Counted(mine)'
    <2>1. call[t].seen = record[mine] /\ record[mine].status # "SUCCEEDED"
        BY <1>1, <1>3, <1>4, <1>11 DEF Sees, Holds, Pending, Terminal
    <2>2. \A u \in Thread : call[u].at = "succeeded" /\ Mine(u) = mine => FALSE
        BY <1>1, <1>3, <1>11 DEF Undisturbed, Busy
    <2>3. outcomes[mine] = 0 /\ record[mine].attempts = begun[mine]
        BY <1>4, <1>11, <2>1, <2>2 DEF Counted
    <2>4. Counted(mine)'
        BY <1>3, <1>5, <1>6, <1>7, <2>1, <2>3 DEF Counted
    <2>5. Sees(t)'
        BY <1>5, <1>6, <1>9 DEF Sees, Holds, Pending, Terminal
    <2> QED BY <2>4, <2>5
<1> QED BY <1>1, <1>3, <1>6, <1>7, <1>9, <1>10, <1>11, OwnRequest

LEMMA HandleStep == ASSUME TypeOK, Undisturbed, NEW t \in Thread, Handle(t) PROVE TypeOK' /\ Undisturbed'
<1>1. PICK mine \in Request : mine = Mine(t)
    BY CallOf
<1>2. /\ UNCHANGED <<record, queued, calls, interrupts, begun, disturbed>>
      /\ call[t].at = "handler" /\ Busy(t)
    BY DEF Handle, Busy
<1>3. mine \notin disturbed => Sees(t) /\ Counted(mine)
    BY <1>1, <1>2 DEF Undisturbed
<1>4. PICK at \in {"succeeded", "failed"} :
          /\ Goto(t, at)
          /\ at = "succeeded" => outcomes' = [outcomes EXCEPT ![mine] = @ + 1]
          /\ at = "failed" => outcomes' = outcomes
    BY <1>1 DEF Handle
<1>5. /\ outcomes' \in [Request -> Nat]
      /\ at = "succeeded" => outcomes'[mine] = outcomes[mine] + 1
      /\ at = "failed" => outcomes'[mine] = outcomes[mine]
      /\ \A r \in Request : r # mine => outcomes'[r] = outcomes[r]
    BY <1>4 DEF TypeOK
<1>6. at \in At
    BY DEF At
<1>7. /\ call' = [call EXCEPT ![t] = call'[t]] /\ call'[t] \in Call
      /\ Mine(t)' = mine /\ call'[t].at = at /\ call'[t].seen = call[t].seen
    BY <1>1, <1>4, <1>6, GotoCall DEF Mine
<1>8. failures' \in 0 .. MaxFailures
    BY DEF Handle, TypeOK
<1>9. TypeOK'
    BY <1>2, <1>5, <1>7, <1>8, CallTypes DEF TypeOK
<1>10. ASSUME mine \notin disturbed PROVE Sees(t)' /\ Counted(mine)'
    <2>1. record[mine].status \notin Terminal /\ call[t].seen = record[mine]
        BY <1>1, <1>2, <1>3, <1>10 DEF Sees, Holds, Pending
    <2>2. \A u \in Thread : call[u].at = "succeeded" /\ Mine(u) = mine => FALSE
        BY <1>1, <1>2, <1>10 DEF Undisturbed, Busy
    <2>3. outcomes[mine] = 0
        BY <1>3, <1>10, <2>1, <2>2 DEF Counted, Terminal
    <2>4. Counted(mine)'
        BY <1>2, <1>3, <1>5, <1>7, <1>10, <2>3 DEF Counted
    <2>5. Sees(t)'
        BY <1>2, <1>7, <2>1 DEF Sees, Holds, Pending
    <2> QED BY <2>4, <2>5
<1> QED BY <1>1, <1>2, <1>5, <1>7, <1>9, <1>10, OwnRequest

(* Succeed, Fail and Cancel put a status and return.                       *)
LEMMA LastStep ==
    ASSUME TypeOK, Undisturbed, NEW t \in Thread, Succeed(t) \/ Fail(t) \/ Cancel(t)
    PROVE  TypeOK' /\ Undisturbed'
<1>1. PICK mine \in Request : mine = Mine(t)
    BY CallOf
<1>2. /\ UNCHANGED <<calls, failures, interrupts, outcomes, begun, disturbed>>
      /\ call[t].at \in {"succeeded", "failed", "cancel"} /\ Busy(t)
    BY DEF Succeed, Fail, Cancel, counters, history, Busy
<1>3. mine \notin disturbed => Sees(t) /\ Counted(mine)
    BY <1>1, <1>2 DEF Undisturbed
<1>4. PICK status \in {"SUCCEEDED", "FAILED", "CANCELLED"} :
          /\ PutStatus(t, status) /\ (Answer(t) \/ Raise(t))
          /\ call[t].at = "succeeded" => status = "SUCCEEDED"
    BY <1>2 DEF Succeed, Fail, Cancel
<1>5. status \in Status /\ status # "none"
    BY DEF Status, Terminal
<1>6. /\ record' \in [Request -> Record] /\ record'[mine] \in Record
      /\ record'[mine].status = status /\ record'[mine].attempts = call[t].seen.attempts
      /\ \A r \in Request : r # mine => record'[r] = record[r]
    BY <1>1, <1>4, <1>5, PutRecord
<1>7. /\ queued' \subseteq Request /\ call'[t].at = "idle"
      /\ call' = [call EXCEPT ![t] = call'[t]] /\ call'[t] \in Call
    BY <1>4, AnswerQueue, ReturnCall
<1>8. TypeOK'
    BY <1>2, <1>6, <1>7, CallTypes DEF TypeOK
<1>9. ASSUME mine \notin disturbed PROVE Counted(mine)'
    <2>1. record[mine].status \notin Terminal /\ call[t].seen = record[mine]
        BY <1>1, <1>2, <1>3, <1>9 DEF Sees, Holds, Pending
    <2>2. \A u \in Thread : call[u].at = "succeeded" /\ Mine(u) = mine => u = t
        BY <1>1, <1>2, <1>9 DEF Undisturbed, Busy
    <2>3. outcomes[mine] = 1 => status = "SUCCEEDED"
        BY <1>3, <1>4, <1>9, <2>1, <2>2 DEF Counted, Terminal
    <2> QED BY <1>2, <1>3, <1>5, <1>6, <1>9, <2>1, <2>3 DEF Counted
<1> QED BY <1>1, <1>2, <1>6, <1>7, <1>8, <1>9, OwnRequest DEF Busy

LEMMA InterruptStep ==
    ASSUME TypeOK, Undisturbed, NEW t \in Thread, Interrupt(t) PROVE TypeOK' /\ Undisturbed'
<1>1. PICK mine \in Request : mine = Mine(t)
    BY CallOf
<1>2. /\ UNCHANGED <<record, calls, failures, outcomes, begun>> /\ Busy(t) /\ Raise(t)
      /\ disturbed \subseteq disturbed' /\ (call[t].at = "succeeded" => mine \in disturbed')
    BY <1>1 DEF Interrupt, LostOutcome, Busy
<1>3. disturbed' \subseteq Request /\ interrupts' \in 0 .. MaxInterrupts
    BY <1>1 DEF Interrupt, LostOutcome, TypeOK
<1>4. /\ queued' \subseteq Request /\ call'[t].at = "idle"
      /\ call' = [call EXCEPT ![t] = call'[t]] /\ call'[t] \in Call
    BY <1>2, AnswerQueue, ReturnCall
<1>5. TypeOK'
    BY <1>2, <1>3, <1>4, CallTypes DEF TypeOK
<1>6. ASSUME mine \notin disturbed' PROVE Counted(mine)'
    <2>1. Counted(mine) /\ call[t].at # "succeeded"
        BY <1>2, <1>6 DEF Undisturbed
    <2>2. call \in [Thread -> Call]
        BY DEF TypeOK
    <2>3. ASSUME NEW u \in Thread, call[u].at = "succeeded", Mine(u) = mine
          PROVE  call'[u].at = "succeeded" /\ Mine(u)' = mine
        BY <1>4, <2>1, <2>2, <2>3 DEF Mine
    <2> QED BY <1>2, <2>1, <2>3 DEF Counted
<1> QED BY <1>1, <1>2, <1>4, <1>5, <1>6, OwnRequest DEF Busy

(* A call that starts disturbs the request when another one is on it.      *)
LEMMA EnterStep ==
    ASSUME TypeOK, Undisturbed, NEW t \in Thread, NEW r \in Request,
           NEW operation \in {"submit", "deliver", "cancel", "resume"},
           NEW backend \in {"local", "worker"}, Enter(t, operation, backend, r),
           calls' \in 0 .. MaxCalls
    PROVE  TypeOK' /\ Undisturbed'
<1>1. /\ UNCHANGED <<record, queued, failures, interrupts, outcomes, begun>>
      /\ call[t].at = "idle" /\ disturbed' = disturbed \cup Overlap(r)
    BY DEF Enter
<1>2. call \in [Thread -> Call]
    BY DEF TypeOK
<1>3. PICK at \in {"submit", "get"} :
          /\ at = "get" => operation # "submit"
          /\ call' = [call EXCEPT ![t] = [Idle EXCEPT !.at = at, !.operation = operation,
                                                      !.backend = backend, !.request = r]]
    BY DEF Enter
<1>4. /\ call'[t] = [Idle EXCEPT !.at = at, !.operation = operation,
                                 !.backend = backend, !.request = r]
      /\ call' = [call EXCEPT ![t] = call'[t]] /\ \A u \in Thread : u # t => call'[u] = call[u]
    BY <1>2, <1>3
<1>5. at \in At
    BY DEF At
<1>6. /\ call'[t] \in Call /\ call'[t].at = at /\ call'[t].operation = operation
      /\ call'[t].request = r /\ call'[t].seen = NoRecord
    BY <1>4, <1>5, IdleCall DEF Call
<1>7. disturbed' \subseteq Request /\ disturbed \subseteq disturbed'
    BY <1>1 DEF Overlap, TypeOK
<1>8. TypeOK'
    BY <1>1, <1>4, <1>6, <1>7, CallTypes DEF TypeOK
<1>9. \A u \in Thread : call'[u].at = "get" => call'[u].operation # "submit"
    BY <1>3, <1>4, <1>6 DEF Undisturbed
<1>10. ASSUME NEW u \in Thread, Busy(u), Mine(u) = r PROVE r \in disturbed'
    BY <1>1, <1>10 DEF Overlap, Busy
<1>11. \A u, v \in Thread :
          Busy(u)' /\ Busy(v)' /\ Mine(u)' = Mine(v)' /\ Mine(u)' \notin disturbed' => u = v
    <2> SUFFICES ASSUME NEW u \in Thread, NEW v \in Thread, Busy(u)', Busy(v)',
                        Mine(u)' = Mine(v)', Mine(u)' \notin disturbed'
                 PROVE  u = v
        OBVIOUS
    <2>1. Mine(t)' = r
        BY <1>6 DEF Mine
    <2>2. \A x \in Thread : x # t /\ Busy(x)' => Busy(x) /\ Mine(x) = Mine(x)'
        BY <1>4 DEF Busy, Mine
    <2>3. \A x \in Thread : x # t /\ Busy(x)' => Mine(x)' # r \/ r \in disturbed'
        BY <1>10, <2>2
    <2>4. CASE u = t \/ v = t
        BY <2>1, <2>3, <2>4
    <2>5. CASE u # t /\ v # t
        <3>1. Busy(u) /\ Busy(v) /\ Mine(u) = Mine(v) /\ Mine(u) \notin disturbed
            BY <1>7, <2>2, <2>5
        <3> QED BY <3>1 DEF Undisturbed
    <2> QED BY <2>4, <2>5
<1>12. ASSUME NEW u \in Thread, Busy(u)', Mine(u)' \notin disturbed' PROVE Sees(u)'
    <2>1. CASE u = t
        BY <1>6, <2>1 DEF Sees, Holds, Pending
    <2>2. CASE u # t
        <3>1. call'[u] = call[u] /\ Sees(u)
            BY <1>4, <1>7, <1>12, <2>2 DEF Undisturbed, Busy, Mine
        <3> QED BY <1>1, <3>1 DEF Sees, Mine
    <2> QED BY <2>1, <2>2
<1>13. ASSUME NEW s \in Request \ disturbed' PROVE Counted(s)'
    <2>1. Counted(s)
        BY <1>7, <1>13 DEF Undisturbed
    <2>2. ASSUME NEW u \in Thread, call[u].at = "succeeded", Mine(u) = s
          PROVE  call'[u].at = "succeeded" /\ Mine(u)' = s
        BY <1>1, <1>4, <2>2 DEF Mine
    <2> QED BY <1>1, <2>1, <2>2 DEF Counted
<1> QED BY <1>8, <1>9, <1>11, <1>12, <1>13 DEF Undisturbed

--------------------------------------------------------------------------------
LEMMA NextStep == TypeOK /\ Undisturbed /\ [Next]_vars => TypeOK' /\ Undisturbed'
<1> SUFFICES ASSUME TypeOK, Undisturbed, [Next]_vars PROVE TypeOK' /\ Undisturbed'
    OBVIOUS
<1>1. CASE UNCHANGED vars
    <2>1. /\ UNCHANGED <<record, call, queued, calls, failures, interrupts>>
          /\ UNCHANGED <<outcomes, begun, disturbed>>
        BY <1>1 DEF vars, counters, history
    <2> QED BY <2>1 DEF TypeOK, Undisturbed, Busy, Sees, Counted, Mine
<1>2. ASSUME NEW t \in Thread, Start(t) PROVE TypeOK' /\ Undisturbed'
    <2>1. PICK b \in Backend, r \in Request, operation \in {"submit", "cancel", "resume", "deliver"} :
              Enter(t, operation, b, r)
        BY <1>2 DEF Start
    <2>2. calls' \in 0 .. MaxCalls /\ b \in {"local", "worker"}
        BY <1>2 DEF Start, TypeOK, ExecutionAssumption
    <2> QED BY <2>1, <2>2, EnterStep
<1>3. ASSUME NEW t \in Thread, NEW r \in Request, Redeliver(t, r) PROVE TypeOK' /\ Undisturbed'
    <2>1. Enter(t, "deliver", "worker", r) /\ calls' \in 0 .. MaxCalls
        BY <1>3 DEF Redeliver, TypeOK
    <2> QED BY <2>1, EnterStep
<1> QED
    BY <1>1, <1>2, <1>3, GetStep, SubmitStep, QuotaStep, EnqueueStep, RunStep, BeginStep,
       HandleStep, LastStep, InterruptStep DEF Next, Step

(* Every variable keeps its type.                                          *)
THEOREM TypeCorrect == Spec => []TypeOK
<1> QED BY InitTypes, NextStep, PTL DEF Spec

(* A request that is retried and delivered however often has one outcome   *)
(* at most, and attempts counts its executions, unless calls overlap.      *)
THEOREM OneOutcome == Spec => []RunsOnce
<1>1. TypeOK /\ Undisturbed => RunsOnce
    BY DEF TypeOK, Undisturbed, RunsOnce, Counted
<1> QED BY <1>1, InitTypes, NextStep, PTL DEF Spec

(* SUCCEEDED is final, and CANCELLED ends by a resume alone.               *)
THEOREM TerminalIsFinal == Spec => TerminalStands
<1> DEFINE Stands(r) ==
        record[r].status \in Terminal /\ record'[r] # record[r] =>
            /\ record[r].status = "CANCELLED"
            /\ \E t \in Thread : Mine(t) = r /\ call[t].operation = "resume"
<1>1. ASSUME TypeOK, Undisturbed, [Next]_vars, NEW r \in Request \ disturbed' PROVE Stands(r)
    <2>1. ASSUME NEW t \in Thread, Enqueue(t) PROVE Stands(r)
        <3>1. /\ call[t].at = "put" /\ disturbed' = disturbed
              /\ record' = [record EXCEPT ![Mine(t)] = record'[Mine(t)]]
            BY <1>1, <2>1, CallOf DEF Enqueue, history, PutStatus, TypeOK
        <3>2. Mine(t) \notin disturbed => Sees(t)
            BY <1>1, <3>1 DEF Undisturbed, Busy
        <3>3. CASE r = Mine(t)
            BY <1>1, <3>1, <3>2, <3>3 DEF Sees, Terminal
        <3>4. CASE r # Mine(t)
            BY <1>1, <3>1, <3>4 DEF TypeOK
        <3> QED BY <3>3, <3>4
    <2>2. ASSUME NEW t \in Thread, Begin(t) \/ Succeed(t) \/ Fail(t) \/ Cancel(t) PROVE Stands(r)
        <3>1. /\ call[t].at \in {"begin", "succeeded", "failed", "cancel"} /\ disturbed' = disturbed
            BY <2>2 DEF Begin, Succeed, Fail, Cancel, history
        <3>2. record' = [record EXCEPT ![Mine(t)] = record'[Mine(t)]]
            BY <1>1, <2>2, CallOf DEF Begin, Succeed, Fail, Cancel, PutStatus, TypeOK
        <3>3. Mine(t) \notin disturbed => record[Mine(t)].status \notin Terminal
            BY <1>1, <3>1 DEF Undisturbed, Busy, Sees, Pending
        <3>4. CASE r = Mine(t)
            BY <1>1, <3>1, <3>3, <3>4
        <3>5. CASE r # Mine(t)
            BY <1>1, <3>2, <3>5 DEF TypeOK
        <3> QED BY <3>4, <3>5
    <2>3. CASE record' = record
        BY <2>3
    <2>4. CASE UNCHANGED vars
        BY <2>3, <2>4 DEF vars
    <2>5. ASSUME NEW t \in Thread,
                 \/ Start(t) \/ Get(t) \/ Submit(t) \/ Quota(t) \/ Run(t) \/ Handle(t) \/ Interrupt(t)
                 \/ \E s \in Request : Redeliver(t, s)
          PROVE  record' = record
        BY <2>5 DEF Start, Enter, Get, Submit, Quota, Run, Handle, Interrupt, Redeliver
    <2> QED BY <1>1, <2>1, <2>2, <2>3, <2>4, <2>5 DEF Next, Step
<1>2. TypeOK /\ Undisturbed /\ [Next]_vars =>
          [\A r \in Request \ disturbed' : Stands(r)]_vars
    BY <1>1
<1> QED BY <1>2, InitTypes, NextStep, PTL DEF Spec, TerminalStands
================================================================================
