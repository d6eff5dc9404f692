---------------------------- MODULE Delivery_proofs ----------------------------
(***************************************************************************)
(* Proofs about the delivery ledger, for every set of workers and keys and *)
(* every number of attempts.  The inductive invariant relates the row of a *)
(* key to the phase of the one worker that delivers it.                    *)
(***************************************************************************)
EXTENDS Delivery, TLAPS

(***************************************************************************)
(* While nothing disturbed key k, a worker that is active on it owns the   *)
(* live lease of a PENDING row, and the channel took the message exactly   *)
(* when that worker's phase or the row says so.                            *)
(***************************************************************************)
HolderOwnsLease(k) ==
    \A w \in Worker : ActiveOn(w, k) =>
        row[k].status = "PENDING" /\ row[k].lease = "live" /\ row[k].owner = w

AcceptedMatchesPhase(k) ==
    \A w \in Worker : ActiveOn(w, k) =>
        accepted[k] = IF job[w].phase = "taken" THEN 1 ELSE 0

AcceptedMatchesRow(k) ==
    /\ row[k].status = "SENT" => accepted[k] <= 1
    /\ row[k].status # "SENT" /\ (\A w \in Worker : ~ActiveOn(w, k)) => accepted[k] = 0

KeyInv(k) == HolderOwnsLease(k) /\ AcceptedMatchesPhase(k) /\ AcceptedMatchesRow(k)

IInv == TypeOK /\ \A k \in Key : ~disturbed[k] => KeyInv(k)

(* The idle record is no busy record: phase "idle" is not a phase of deliver. *)
LEMMA BusyIsActive == ASSUME NEW j \in {Idle} \cup Busy, j # Idle
                      PROVE  j \in Busy /\ j.phase \in Phase
BY DEF Busy

LEMMA BusyDiffers == \A j \in Busy : j # Idle
BY DEF Busy, Idle, Phase

(* Type correctness: every variable keeps its type under every operation of the ledger. *)
THEOREM TypeCorrect == Spec => []TypeOK
<1>1. Init => TypeOK
  BY DEF Init, TypeOK, Row, Status, Lease
<1>2. TypeOK /\ [Next]_vars => TypeOK'
  <2> SUFFICES ASSUME TypeOK, [Next]_vars PROVE TypeOK'
    OBVIOUS
  <2> USE MaxAttemptsAssumption, BusyDiffers DEF TypeOK, Row, Status, Lease, Active
  <2>1. ASSUME NEW w \in Worker, NEW k \in Key, Reserve(w, k) PROVE TypeOK'
    <3>1. [phase |-> "send", key |-> k, attempt |-> 1, lapsed |-> FALSE] \in Busy
      BY DEF Busy, Phase
    <3> QED BY <2>1, <3>1 DEF Reserve
  <2>2. ASSUME NEW w \in Worker, SendTaken(w) PROVE TypeOK'
    <3>1. job[w] \in Busy
      BY <2>2 DEF SendTaken
    <3>2. [job[w] EXCEPT !.phase = "taken"] \in Busy
      BY <3>1 DEF Busy, Phase
    <3> QED BY <2>2, <3>1, <3>2 DEF SendTaken, Busy
  <2>3. ASSUME NEW w \in Worker, SendRefused(w) PROVE TypeOK'
    <3>1. job[w] \in Busy
      BY <2>3 DEF SendRefused
    <3>2. [job[w] EXCEPT !.phase = "refused"] \in Busy
      BY <3>1 DEF Busy, Phase
    <3> QED BY <2>3, <3>2 DEF SendRefused
  <2>4. ASSUME NEW w \in Worker, SendAnswerLost(w) PROVE TypeOK'
    <3>1. job[w] \in Busy
      BY <2>4 DEF SendAnswerLost
    <3>2. [job[w] EXCEPT !.phase = "refused"] \in Busy
      BY <3>1 DEF Busy, Phase
    <3> QED BY <2>4, <3>1, <3>2 DEF SendAnswerLost, Busy
  <2>5. ASSUME NEW w \in Worker, RecordSent(w) PROVE TypeOK'
    BY <2>5 DEF RecordSent, Recorded
  <2>6. ASSUME NEW w \in Worker, RecordRetry(w) PROVE TypeOK'
    <3>1. job[w] \in Busy /\ job[w].attempt \in 1 .. MaxAttempts
      BY <2>6 DEF RecordRetry, Busy
    <3>2. [job[w] EXCEPT !.phase = "send", !.attempt = @ + 1] \in Busy
      BY <2>6, <3>1 DEF RecordRetry, Busy, Phase
    <3>3. job' = [job EXCEPT ![w] = [job[w] EXCEPT !.phase = "send", !.attempt = @ + 1]]
      BY <2>6 DEF RecordRetry
    <3> QED BY <2>6, <3>2, <3>3 DEF RecordRetry, Recorded
  <2>7. ASSUME NEW w \in Worker, RecordFailed(w) PROVE TypeOK'
    BY <2>7 DEF RecordFailed, Recorded
  <2>8. ASSUME NEW w \in Worker, Crash(w) PROVE TypeOK'
    <3>1. job[w] \in Busy /\ job[w].key \in Key
      BY <2>8 DEF Crash, Busy
    <3>2. disturbed' \in [Key -> BOOLEAN]
      BY <2>8, <3>1 DEF Crash
    <3> QED BY <2>8, <3>2 DEF Crash
  <2>9. ASSUME NEW k \in Key, Expire(k) PROVE TypeOK'
    <3>1. \A w \in Worker : job[w] \in Busy => [job[w] EXCEPT !.lapsed = TRUE] \in Busy
      BY DEF Busy
    <3>2. job' \in [Worker -> {Idle} \cup Busy]
      BY <2>9, <3>1 DEF Expire, ActiveOn
    <3>3. disturbed' \in [Key -> BOOLEAN]
      BY <2>9 DEF Expire
    <3> QED BY <2>9, <3>2, <3>3 DEF Expire
  <2>10. ASSUME NEW k \in Key, Recover(k) PROVE TypeOK'
    BY <2>10 DEF Recover
  <2>11. CASE UNCHANGED vars
    BY <2>11 DEF vars
  <2> QED BY <2>1, <2>2, <2>3, <2>4, <2>5, <2>6, <2>7, <2>8, <2>9, <2>10, <2>11
          DEF Next, WorkerStep
<1> QED BY <1>1, <1>2, PTL DEF Spec

-----------------------------------------------------------------------------
LEMMA InitIInv == Init => IInv
BY DEF Init, IInv, TypeOK, Row, Status, Lease, KeyInv, HolderOwnsLease,
       AcceptedMatchesPhase, AcceptedMatchesRow, ActiveOn, Active

(***************************************************************************)
(* The invariant of a key survives every operation: on another key nothing *)
(* of it changes, and on the key itself the lease decides who may act.     *)
(***************************************************************************)
LEMMA NextIInv == TypeOK' /\ IInv /\ [Next]_vars => IInv'
<1> SUFFICES ASSUME TypeOK', IInv, [Next]_vars, NEW k \in Key, ~disturbed'[k]
             PROVE  KeyInv(k)'
  BY DEF IInv
<1> USE BusyDiffers DEF IInv, TypeOK, KeyInv, HolderOwnsLease, AcceptedMatchesPhase,
        AcceptedMatchesRow, ActiveOn, Active
<1>1. ASSUME NEW w \in Worker, NEW l \in Key, Reserve(w, l) PROVE KeyInv(k)'
  <2>1. ~disturbed[k]
    BY <1>1 DEF Reserve
  <2>2. job'[w] # Idle /\ job'[w].key = l /\ job'[w].phase = "send"
    BY <1>1 DEF Reserve, Idle
  <2>3. \A v \in Worker : v # w => job'[v] = job[v]
    BY <1>1 DEF Reserve
  <2>4. CASE k = l
    <3>1. \A v \in Worker : ~ActiveOn(v, k)
      BY <1>1, <2>1, <2>4 DEF Reserve, Reservable
    <3>2. accepted[k] = 0
      BY <1>1, <2>1, <2>4, <3>1 DEF Reserve, Reservable
    <3> QED BY <1>1, <2>2, <2>3, <2>4, <3>1, <3>2 DEF Reserve
  <2>5. CASE k # l
    <3>1. row'[k] = row[k] /\ accepted'[k] = accepted[k]
      BY <1>1, <2>5 DEF Reserve
    <3>2. \A v \in Worker : ActiveOn(v, k)' <=> ActiveOn(v, k)
      BY <1>1, <2>2, <2>3, <2>5 DEF Reserve
    <3>3. \A v \in Worker : ActiveOn(v, k) => job'[v] = job[v]
      BY <1>1, <2>3 DEF Reserve
    <3> QED BY <2>1, <3>1, <3>2, <3>3
  <2> QED BY <2>4, <2>5
<1>2. ASSUME NEW w \in Worker, SendTaken(w) \/ SendRefused(w) \/ SendAnswerLost(w)
      PROVE  KeyInv(k)'
  <2>1. job[w] \in Busy /\ job[w].key \in Key /\ job[w].phase = "send"
    BY <1>2 DEF SendTaken, SendRefused, SendAnswerLost, Busy
  <2>2. /\ job'[w] # Idle /\ job'[w].key = job[w].key
        /\ job'[w].phase = IF SendTaken(w) THEN "taken" ELSE "refused"
    BY <1>2, <2>1 DEF SendTaken, SendRefused, SendAnswerLost, Busy, Idle
  <2>3. \A v \in Worker : v # w => job'[v] = job[v]
    BY <1>2 DEF SendTaken, SendRefused, SendAnswerLost
  <2>4. row' = row /\ ~disturbed[k]
    BY <1>2, <2>1 DEF SendTaken, SendRefused, SendAnswerLost
  <2>5. CASE job[w].key = k
    <3>1. \A v \in Worker : ActiveOn(v, k) => v = w
      BY <2>1, <2>4, <2>5, <1>2 DEF SendTaken, SendRefused, SendAnswerLost
    <3>2. accepted[k] = 0 /\ row[k].status = "PENDING"
      BY <2>1, <2>4, <2>5
    <3>3. accepted'[k] = IF SendTaken(w) THEN 1 ELSE 0
      BY <1>2, <2>1, <2>5, <3>2 DEF SendTaken, SendRefused, SendAnswerLost
    <3>4. \A v \in Worker : ActiveOn(v, k)' => v = w
      BY <2>3, <3>1
    <3> QED BY <2>1, <2>2, <2>4, <2>5, <3>2, <3>3, <3>4
  <2>6. CASE job[w].key # k
    <3>1. accepted'[k] = accepted[k]
      BY <1>2, <2>1, <2>6 DEF SendTaken, SendRefused, SendAnswerLost
    <3>2. \A v \in Worker : /\ ActiveOn(v, k)' <=> ActiveOn(v, k)
                            /\ ActiveOn(v, k) => job'[v] = job[v]
      BY <2>2, <2>3, <2>6
    <3> QED BY <2>4, <3>1, <3>2
  <2> QED BY <2>5, <2>6
<1>3. ASSUME NEW w \in Worker, RecordSent(w) \/ RecordRetry(w) \/ RecordFailed(w)
      PROVE  KeyInv(k)'
  <2>1. job[w] \in Busy /\ job[w].key \in Key
    BY <1>3 DEF RecordSent, RecordRetry, RecordFailed, Busy
  <2>2. \A v \in Worker : v # w => job'[v] = job[v]
    BY <1>3 DEF RecordSent, RecordRetry, RecordFailed
  <2>3. accepted' = accepted /\ ~disturbed[k]
    BY <1>3 DEF RecordSent, RecordRetry, RecordFailed
  <2>4. CASE job[w].key = k
    <3>1. /\ ActiveOn(w, k) /\ row[k].lease = "live" /\ row[k].owner = w
          /\ \A v \in Worker : ActiveOn(v, k) => v = w
      BY <2>1, <2>3, <2>4, <1>3 DEF RecordSent, RecordRetry, RecordFailed
    <3>2. CASE RecordSent(w)
      <4>1. row'[k].status = "SENT" /\ job'[w] = Idle /\ accepted[k] = 1
        BY <2>1, <2>3, <2>4, <3>1, <3>2 DEF RecordSent, Recorded
      <4> QED BY <2>2, <2>3, <3>1, <4>1
    <3>3. CASE RecordRetry(w)
      <4>1. row'[k] = [status |-> "PENDING", lease |-> row[k].lease, owner |-> row[k].owner]
        BY <2>1, <2>4, <3>3 DEF RecordRetry, Recorded
      <4>2. job'[w] # Idle /\ job'[w].key = k /\ job'[w].phase = "send"
        BY <2>1, <2>4, <3>3 DEF RecordRetry, Busy, Idle
      <4>3. accepted[k] = 0
        BY <2>3, <3>1, <3>3 DEF RecordRetry
      <4> QED BY <2>2, <2>3, <3>1, <4>1, <4>2, <4>3
    <3>4. CASE RecordFailed(w)
      <4>1. row'[k].status = "FAILED" /\ job'[w] = Idle /\ accepted[k] = 0
        BY <2>1, <2>3, <2>4, <3>1, <3>4 DEF RecordFailed, Recorded
      <4> QED BY <2>2, <2>3, <3>1, <4>1
    <3> QED BY <1>3, <3>2, <3>3, <3>4
  <2>5. CASE job[w].key # k
    <3>1. row'[k] = row[k]
      <4>1. RecordSent(w) => row'[k] = row[k]
        BY <2>1, <2>5 DEF RecordSent
      <4>2. RecordRetry(w) => row'[k] = row[k]
        BY <2>1, <2>5 DEF RecordRetry
      <4>3. RecordFailed(w) => row'[k] = row[k]
        BY <2>1, <2>5 DEF RecordFailed
      <4> QED BY <1>3, <4>1, <4>2, <4>3
    <3>2. job'[w] = Idle \/ job'[w].key = job[w].key
      <4>1. RecordSent(w) \/ RecordFailed(w) => job'[w] = Idle
        BY DEF RecordSent, RecordFailed
      <4>2. RecordRetry(w) =>
              job'[w] = [job[w] EXCEPT !.phase = "send", !.attempt = job[w].attempt + 1]
        BY DEF RecordRetry
      <4>3. RecordRetry(w) => job'[w].key = job[w].key
        BY <2>1, <4>2 DEF Busy
      <4> QED BY <1>3, <4>1, <4>3
    <3>3. \A v \in Worker : /\ ActiveOn(v, k)' <=> ActiveOn(v, k)
                            /\ ActiveOn(v, k) => job'[v] = job[v]
      BY <2>2, <2>5, <3>2
    <3> QED BY <2>3, <3>1, <3>3
  <2> QED BY <2>4, <2>5
<1>4. ASSUME NEW w \in Worker, Crash(w) PROVE KeyInv(k)'
  <2>1. job[w] \in Busy /\ job[w].key \in Key /\ job[w].phase \in Phase
    BY <1>4 DEF Crash, Busy
  <2>2. /\ row' = row /\ accepted' = accepted /\ ~disturbed[k]
        /\ job'[w] = Idle /\ \A v \in Worker : v # w => job'[v] = job[v]
    BY <1>4, <2>1 DEF Crash
  <2>3. job[w].key = k => accepted[k] = 0 /\ row[k].status # "SENT"
    BY <1>4, <2>1, <2>2 DEF Crash
  <2> QED BY <2>2, <2>3
<1>5. ASSUME NEW l \in Key, Expire(l) PROVE KeyInv(k)'
  <2>1. accepted' = accepted /\ ~disturbed[k]
    BY <1>5 DEF Expire
  <2>2. CASE k = l
    <3>1. \A w \in Worker : ~ActiveOn(w, k)
      <4>1. \A w \in Worker : ActiveOn(w, k) => row[k].owner = w
        BY <2>1
      <4>2. disturbed' = [disturbed EXCEPT ![k] =
                             @ \/ \E w \in Worker : ActiveOn(w, k) /\ row[k].owner = w]
        BY <1>5, <2>2 DEF Expire
      <4>3. ~(\E w \in Worker : ActiveOn(w, k) /\ row[k].owner = w)
        BY <4>2
      <4> QED BY <4>1, <4>3
    <3>2. \A w \in Worker : job'[w] = job[w]
      BY <1>5, <2>2, <3>1 DEF Expire
    <3>3. row'[k] = [row[k] EXCEPT !.lease = "expired"]
      BY <1>5, <2>2 DEF Expire
    <3>4. row'[k].status = row[k].status
      BY <3>3 DEF Row
    <3> QED BY <2>1, <3>1, <3>2, <3>4
  <2>3. CASE k # l
    <3>1. row'[k] = row[k]
      BY <1>5, <2>3 DEF Expire
    <3>2. \A w \in Worker : job'[w] # job[w] => ActiveOn(w, l) /\ job[w] \in Busy
                                             /\ job'[w].key = job[w].key
      BY <1>5 DEF Expire, Busy
    <3>3. \A w \in Worker : /\ ActiveOn(w, k)' <=> ActiveOn(w, k)
                            /\ ActiveOn(w, k) => job'[w] = job[w]
      BY <2>3, <3>2
    <3> QED BY <2>1, <3>1, <3>3
  <2> QED BY <2>2, <2>3
<1>6. ASSUME NEW l \in Key, Recover(l) PROVE KeyInv(k)'
  <2>1. accepted' = accepted /\ job' = job /\ ~disturbed[k]
    BY <1>6 DEF Recover
  <2>2. CASE k = l
    <3>1. \A w \in Worker : ~ActiveOn(w, k)
      BY <1>6, <2>1, <2>2 DEF Recover
    <3>2. row'[k].status = "FAILED" /\ row[k].status # "SENT"
      BY <1>6, <2>2 DEF Recover
    <3> QED BY <2>1, <3>1, <3>2
  <2>3. CASE k # l
    BY <1>6, <2>1, <2>3 DEF Recover
  <2> QED BY <2>2, <2>3
<1>7. CASE UNCHANGED vars
  BY <1>7 DEF vars
<1> QED BY <1>1, <1>2, <1>3, <1>4, <1>5, <1>6, <1>7 DEF Next, WorkerStep

LEMMA Inductive == Spec => []IInv
<1>1. IInv /\ TypeOK' /\ [Next]_vars => IInv'
  BY NextIInv
<1> QED BY InitIInv, <1>1, TypeCorrect, PTL DEF Spec

(* The channel takes a message at most once unless its delivery was disturbed, for any workers. *)
THEOREM DeliveredOnce == Spec => []OnceUnlessDisturbed
<1>1. IInv => OnceUnlessDisturbed
  <2> SUFFICES ASSUME IInv, NEW k \in Key, ~disturbed[k] PROVE accepted[k] <= 1
    BY DEF OnceUnlessDisturbed
  <2> QED BY DEF IInv, TypeOK, KeyInv, AcceptedMatchesPhase, AcceptedMatchesRow
<1> QED BY Inductive, <1>1, PTL

(* Two undisturbed deliveries never work on the same key at once: each would own its lease. *)
THEOREM SingleSender == Spec => []OneSender
<1>1. IInv => OneSender
  BY DEF IInv, KeyInv, HolderOwnsLease, OneSender
<1> QED BY Inductive, <1>1, PTL

(* No operation takes an undisturbed row out of SENT. *)
THEOREM SentStays == Spec => SentIsFinal
<1>1. IInv /\ TypeOK' /\ [Next]_vars =>
        [\A k \in Key : row[k].status = "SENT" /\ ~disturbed'[k] => row'[k].status = "SENT"]_vars
  <2> SUFFICES ASSUME IInv, TypeOK', Next, NEW k \in Key, row[k].status = "SENT", ~disturbed'[k]
               PROVE  row'[k].status = "SENT"
    OBVIOUS
  <2> USE DEF IInv, TypeOK
  <2>1. ~disturbed[k] => \A w \in Worker : ~ActiveOn(w, k)
    BY DEF KeyInv, HolderOwnsLease
  <2>2. ASSUME NEW w \in Worker, WorkerStep(w) PROVE row'[k].status = "SENT"
    <3>1. job[w] \in Busy /\ job[w].key \in Key
      BY <2>2 DEF WorkerStep, SendTaken, SendRefused, SendAnswerLost, RecordSent, RecordRetry,
                  RecordFailed, Crash, Active, Busy
    <3>2. ~disturbed[k]
      BY <2>2, <3>1 DEF WorkerStep, SendTaken, SendRefused, SendAnswerLost, RecordSent,
                        RecordRetry, RecordFailed, Crash
    <3>3. job[w].key # k
      BY <2>1, <3>1, <3>2, BusyDiffers DEF ActiveOn, Active
    <3> QED BY <2>2, <3>3 DEF WorkerStep, SendTaken, SendRefused, SendAnswerLost, RecordSent,
                              RecordRetry, RecordFailed, Crash
  <2>3. ASSUME NEW w \in Worker, NEW l \in Key, Reserve(w, l) PROVE row'[k].status = "SENT"
    BY <2>3 DEF Reserve, Reservable
  <2>4. ASSUME NEW l \in Key, Expire(l) PROVE row'[k].status = "SENT"
    BY <2>4 DEF Expire, Row
  <2>5. ASSUME NEW l \in Key, Recover(l) PROVE row'[k].status = "SENT"
    BY <2>5 DEF Recover
  <2> QED BY <2>2, <2>3, <2>4, <2>5 DEF Next
<1> QED BY Inductive, TypeCorrect, <1>1, PTL DEF Spec, SentIsFinal
=============================================================================
