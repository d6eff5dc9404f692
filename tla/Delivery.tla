------------------------------- MODULE Delivery -------------------------------
(***************************************************************************)
(* The notification delivery ledger: the `deliveries` table of the         *)
(* operations database (ops/ops_state.py) and the service that sends a     *)
(* message under a lease of that table (ops/delivery_ledger.py).           *)
(*                                                                         *)
(* Every statement block of OpsState.transaction() is one SQLite           *)
(* BEGIN IMMEDIATE transaction, hence one atomic action; sending on the    *)
(* channel, and the sleep between two attempts, happen outside of any      *)
(* transaction, so other workers, the operator and the clock interleave.   *)
(***************************************************************************)
EXTENDS Naturals

CONSTANTS
    Worker,        \* processes (or threads) that call DeliveryService.deliver
    Key,           \* idempotency keys of the messages
    MaxAttempts,   \* max(1, len(retry_delays))
    MaxCalls       \* bound: accepted reservations of one worker

ASSUME MaxAttemptsAssumption == MaxAttempts \in Nat \ {0}
ASSUME MaxCallsAssumption == MaxCalls \in Nat

VARIABLES
    row,        \* the table: one row per key, status "NONE" when absent
    job,        \* what each worker is doing inside deliver
    calls,      \* reservations each worker obtained (for the bound)
    accepted,   \* history: how often the channel took the message of a key
    disturbed   \* history: keys whose delivery outlived its lease, lost its
                \* process after the send, or lost the channel's answer

vars == <<row, job, calls, accepted, disturbed>>

Status == {"NONE", "PENDING", "FAILED", "SENT"}
Lease  == {"none", "live", "expired"}
Phase  == {"send", "taken", "refused"}

Idle == [phase |-> "idle"]
Busy == [phase : Phase, key : Key, attempt : 1 .. MaxAttempts, lapsed : BOOLEAN]
Nobody == "nobody"

(***************************************************************************)
(* lease_owner is written by the code and read by no statement of it: the  *)
(* column is kept because the history of a lapse needs to know whose lease *)
(* ran out.                                                                *)
(***************************************************************************)
Row == [status : Status, lease : Lease, owner : Worker \cup {Nobody}]

TypeOK ==
    /\ row \in [Key -> Row]
    /\ job \in [Worker -> {Idle} \cup Busy]
    /\ calls \in [Worker -> Nat]
    /\ accepted \in [Key -> Nat]
    /\ disturbed \in [Key -> BOOLEAN]

Active(w)     == job[w] # Idle
ActiveOn(w, k) == Active(w) /\ job[w].key = k

-----------------------------------------------------------------------------
Init ==
    /\ row = [k \in Key |-> [status |-> "NONE", lease |-> "none", owner |-> Nobody]]
    /\ job = [w \in Worker |-> Idle]
    /\ calls = [w \in Worker |-> 0]
    /\ accepted = [k \in Key |-> 0]
    /\ disturbed = [k \in Key |-> FALSE]

(***************************************************************************)
(* reserve_delivery: refused for a SENT row and for a PENDING row whose    *)
(* lease has not expired; a PENDING row without a lease can be taken.      *)
(***************************************************************************)
ReservableWhenSent(k) == \* mutant: a SENT row is not refused
    row[k].status = "PENDING" => row[k].lease # "live"

ReservableNeverExpired(k) == \* mutant: an expired lease is not taken over
    row[k].status \in {"NONE", "FAILED"}

Reservable(k) ==
    \/ row[k].status \in {"NONE", "FAILED"}
    \/ row[k].status = "PENDING" /\ row[k].lease # "live"

Reserve(w, k) ==
    /\ job[w] = Idle
    /\ calls[w] < MaxCalls
    /\ Reservable(k)
    /\ row' = [row EXCEPT ![k] = [status |-> "PENDING", lease |-> "live", owner |-> w]]
    /\ job' = [job EXCEPT ![w] = [phase |-> "send", key |-> k, attempt |-> 1, lapsed |-> FALSE]]
    /\ calls' = [calls EXCEPT ![w] = @ + 1]
    /\ UNCHANGED <<accepted, disturbed>>

(***************************************************************************)
(* notifier.send, outside of any transaction.  The channel takes the       *)
(* message and answers; or refuses it; or takes it while the answer is     *)
(* lost (a timeout is a NotificationDeliveryError as well).                *)
(***************************************************************************)
SendTaken(w) ==
    /\ Active(w) /\ job[w].phase = "send"
    /\ job' = [job EXCEPT ![w].phase = "taken"]
    /\ accepted' = [accepted EXCEPT ![job[w].key] = @ + 1]
    /\ UNCHANGED <<row, calls, disturbed>>

SendRefused(w) ==
    /\ Active(w) /\ job[w].phase = "send"
    /\ job' = [job EXCEPT ![w].phase = "refused"]
    /\ UNCHANGED <<row, calls, accepted, disturbed>>

SendAnswerLost(w) ==
    /\ Active(w) /\ job[w].phase = "send"
    /\ job' = [job EXCEPT ![w].phase = "refused"]
    /\ accepted' = [accepted EXCEPT ![job[w].key] = @ + 1]
    /\ disturbed' = [disturbed EXCEPT ![job[w].key] = TRUE]
    /\ UNCHANGED <<row, calls>>

(***************************************************************************)
(* record_delivery_attempt: looks at neither the owner nor the status of   *)
(* the row.                                                                *)
(***************************************************************************)
Recorded(r, status, release) ==
    [status |-> status,
     lease  |-> IF release THEN "none" ELSE r.lease,
     owner  |-> IF release THEN Nobody ELSE r.owner]

RecordSent(w) ==
    /\ Active(w) /\ job[w].phase = "taken"
    /\ row' = [row EXCEPT ![job[w].key] = Recorded(@, "SENT", TRUE)]
    /\ job' = [job EXCEPT ![w] = Idle]
    /\ UNCHANGED <<calls, accepted, disturbed>>

RecordRetryReleasing(w) == \* mutant: release_lease left at its default
    /\ Active(w) /\ job[w].phase = "refused"
    /\ job[w].attempt < MaxAttempts
    /\ row' = [row EXCEPT ![job[w].key] = Recorded(@, "PENDING", TRUE)]
    /\ job' = [job EXCEPT ![w].phase = "send", ![w].attempt = @ + 1]
    /\ UNCHANGED <<calls, accepted, disturbed>>

RecordRetry(w) ==
    /\ Active(w) /\ job[w].phase = "refused"
    /\ job[w].attempt < MaxAttempts
    /\ row' = [row EXCEPT ![job[w].key] = Recorded(@, "PENDING", FALSE)]
    /\ job' = [job EXCEPT ![w].phase = "send", ![w].attempt = @ + 1]
    /\ UNCHANGED <<calls, accepted, disturbed>>

RecordFailed(w) ==
    /\ Active(w) /\ job[w].phase = "refused"
    /\ job[w].attempt = MaxAttempts
    /\ row' = [row EXCEPT ![job[w].key] = Recorded(@, "FAILED", TRUE)]
    /\ job' = [job EXCEPT ![w] = Idle]
    /\ UNCHANGED <<calls, accepted, disturbed>>

(***************************************************************************)
(* The process dies, or an exception other than NotificationDeliveryError  *)
(* leaves deliver: the row keeps its status and its lease.                 *)
(***************************************************************************)
Crash(w) ==
    /\ Active(w)
    /\ job' = [job EXCEPT ![w] = Idle]
    /\ disturbed' = [disturbed EXCEPT ![job[w].key] = @ \/ job[w].phase = "taken"]
    /\ UNCHANGED <<row, calls, accepted>>

(***************************************************************************)
(* Time passes lease_expires_at_utc.  deliver never renews the lease: the  *)
(* worker that still works on the key carries on without it.               *)
(***************************************************************************)
Expire(k) ==
    /\ row[k].lease = "live"
    /\ row' = [row EXCEPT ![k].lease = "expired"]
    /\ job' = [w \in Worker |-> IF ActiveOn(w, k) /\ row[k].owner = w
                                THEN [job[w] EXCEPT !.lapsed = TRUE] ELSE job[w]]
    /\ disturbed' = [disturbed EXCEPT ![k] =
                        @ \/ \E w \in Worker : ActiveOn(w, k) /\ row[k].owner = w]
    /\ UNCHANGED <<calls, accepted>>

(***************************************************************************)
(* ops-retry-delivery: the operator releases a FAILED row, or a PENDING    *)
(* row whose lease expired; a PENDING row without a lease is refused.      *)
(***************************************************************************)
RecoverSent(k) == \* mutant: the SENT check is missing
    /\ row[k].status # "NONE"
    /\ row[k].status = "PENDING" => row[k].lease = "expired"
    /\ row' = [row EXCEPT ![k] = [status |-> "FAILED", lease |-> "none", owner |-> Nobody]]
    /\ UNCHANGED <<job, calls, accepted, disturbed>>

Recover(k) ==
    /\ \/ row[k].status = "FAILED"
       \/ row[k].status = "PENDING" /\ row[k].lease = "expired"
    /\ row' = [row EXCEPT ![k] = [status |-> "FAILED", lease |-> "none", owner |-> Nobody]]
    /\ UNCHANGED <<job, calls, accepted, disturbed>>

WorkerStep(w) ==
    \/ SendTaken(w)
    \/ SendRefused(w)
    \/ SendAnswerLost(w)
    \/ RecordSent(w)
    \/ RecordRetry(w)
    \/ RecordFailed(w)
    \/ Crash(w)

Next ==
    \/ \E w \in Worker : WorkerStep(w) \/ \E k \in Key : Reserve(w, k)
    \/ \E k \in Key : Expire(k) \/ Recover(k)

Spec == Init /\ [][Next]_vars

(***************************************************************************)
(* The only fairness is the clock's: it passes every lease.  No worker is  *)
(* obliged to take its next step, nobody to call deliver or to retry.      *)
(***************************************************************************)
Fairness == \A k \in Key : WF_vars(Expire(k))

FairSpec == Spec /\ Fairness

-----------------------------------------------------------------------------
(***************************************************************************)
(* The idempotency promise of DeliveryService.deliver: unless a delivery   *)
(* outlives its lease, dies between the send and the record, or loses the  *)
(* answer of the channel, a message reaches the channel at most once,      *)
(* however the workers, the retries and the operator interleave.           *)
(***************************************************************************)
OnceUnlessDisturbed == \A k \in Key : ~disturbed[k] => accepted[k] <= 1

(***************************************************************************)
(* Two undisturbed deliveries of the same key never run at the same time:  *)
(* the lease of reserve_delivery is what keeps the second worker out,      *)
(* through every intermediate record of a retry.                           *)
(***************************************************************************)
OneSender ==
    \A k \in Key : ~disturbed[k] =>
        \A v, w \in Worker : ActiveOn(v, k) /\ ActiveOn(w, k) => v = w

(***************************************************************************)
(* A SENT row stays SENT while nothing disturbed the deliveries of its     *)
(* key: no retry, no operator command and no second worker takes it back.  *)
(***************************************************************************)
SentIsFinal ==
    [][\A k \in Key : row[k].status = "SENT" /\ ~disturbed'[k] => row'[k].status = "SENT"]_vars

(***************************************************************************)
(* A delivery is never stuck: a PENDING row ends SENT or becomes           *)
(* reservable again, even when the worker that reserved it died.           *)
(***************************************************************************)
NeverStuck ==
    \A k \in Key : row[k].status = "PENDING" ~> (row[k].status = "SENT" \/ Reservable(k))

(***************************************************************************)
(* What the ledger's lease test says (test_pending_delivery_lease_prevents *)
(* _concurrent_duplicate): while the lease of a running delivery has not   *)
(* run out, no other worker obtains the same key.  A third delivery can:   *)
(* record_delivery_attempt of a worker whose own lease ran out clears the  *)
(* lease of whoever holds the row now.                                     *)
(***************************************************************************)
LiveLeaseExcludes ==
    \A k \in Key : \A v, w \in Worker :
        /\ ActiveOn(v, k) /\ ~job[v].lapsed
        /\ ActiveOn(w, k) /\ ~job[w].lapsed
        => v = w
=============================================================================
