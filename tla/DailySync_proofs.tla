---------------------------- MODULE DailySync_proofs ----------------------------
(***************************************************************************)
(* Proofs about the planned daily synchronisation, for any plans,          *)
(* processes, sessions, endpoints and bounds.  All hold for any kill       *)
(* points, and all but what is said of what is forgotten for any           *)
(* resumption policy of the operator: that section states its hypothesis   *)
(* (Orderly).                                                              *)
(***************************************************************************)
EXTENDS DailySync, WellFoundedInduction, TLAPS

-----------------------------------------------------------------------------
(* The last date of a set of sessions is a session, or 0 when there is none. *)
LEMMA LastIsSession ==
    ASSUME NEW S \in SUBSET Date
    PROVE  LastOf(S) \in 0 .. LastDate /\ \A e \in S : e <= LastOf(S)
<1> DEFINE Gap == {n \in Nat : \E d \in S \cup {0} : n = LastDate - d}
           R == OpToRel(<, Nat)
<1>1. LastDate \in Nat /\ S \cup {0} \subseteq 0 .. LastDate
  BY DateAssumption DEF Date
<1>2. Gap # {} /\ Gap \subseteq Nat
  <2>1. LastDate \in Gap
    BY <1>1
  <2> QED BY <2>1
<1>3. IsWellFoundedOn(R, Nat)
  BY NatLessThanWellFounded
<1>4. \A x, y \in Nat : y < x => <<y, x>> \in R
  BY DEF OpToRel
<1> HIDE DEF R
<1>5. PICK g \in Gap : \A y \in Gap : ~(<<y, g>> \in R)
  BY <1>2, <1>3, WFMin
<1>6. PICK m \in S \cup {0} : g = LastDate - m
  BY <1>5
<1>7. \A e \in S : e <= m
  <2> SUFFICES ASSUME NEW e \in S, ~(e <= m) PROVE FALSE
    OBVIOUS
  <2>1. LastDate - e \in Gap /\ LastDate - e < g /\ LastDate - e \in Nat /\ g \in Nat
    BY <1>1, <1>6
  <2> QED BY <2>1, <1>4, <1>5
<1>8. \E d \in S \cup {0} : \A e \in S : e <= d
  BY <1>7
<1> HIDE DEF Gap
<1>9. LastOf(S) \in S \cup {0} /\ \A e \in S : e <= LastOf(S)
  BY ONLY <1>8, Zenon DEF LastOf
<1> QED BY <1>1, <1>9, Zenon

-----------------------------------------------------------------------------
(***************************************************************************)
(* Type correctness.  It needs that a process that is not idle works for a *)
(* plan that exists: the steps read plan.json and apply_state.json of      *)
(* proc[i].plan without asking.                                            *)
(***************************************************************************)
Busy(i) == proc[i].at # "idle"
HasPlan == \A i \in Proc : Busy(i) => proc[i].plan \in Plan /\ plan[proc[i].plan].status # "none"
Types == TypeOK /\ HasPlan

(* Plans are only created and closed: no step makes one disappear. *)
PlansStay == \A p \in Plan : plan[p].status # "none" => plan'[p].status # "none"

(* Every process is idle or carries on with the plan it had. *)
PlansKept ==
    \A j \in Proc : proc'[j].at # "idle" => Busy(j) /\ proc'[j].plan = proc[j].plan

LEMMA HasPlanKept ==
    ASSUME Types, PlansStay, PlansKept
    PROVE  HasPlan'
BY DEF Types, HasPlan, PlansStay, PlansKept, Busy

LEMMA NoWorkIsContext == NoWork \in Context
BY DEF NoWork, Context

LEMMA IdleIsRecord == Idle \in ProcRecord
BY NoWorkIsContext DEF Idle, ProcRecord, Point, NoOne

(* A process that moves on to another point keeps its type and its plan. *)
LEMMA MoveTyped ==
    ASSUME Types, NEW i \in Proc, Busy(i), NEW x \in Point, Goto(i, x)
    PROVE  proc' \in [Proc -> ProcRecord] /\ PlansKept
<1>1. proc \in [Proc -> ProcRecord] /\ proc' = [proc EXCEPT ![i] = [proc[i] EXCEPT !.at = x]]
  BY DEF Types, TypeOK, Goto
<1>2. [proc[i] EXCEPT !.at = x] \in ProcRecord /\ [proc[i] EXCEPT !.at = x].plan = proc[i].plan
  BY <1>1 DEF ProcRecord
<1>3. /\ proc' \in [Proc -> ProcRecord] /\ proc'[i].plan = proc[i].plan
      /\ \A j \in Proc \ {i} : proc'[j] = proc[j]
  BY <1>1, <1>2
<1> QED BY <1>3 DEF PlansKept, Busy

(* The sessions up to a plan's target are dates. *)
LEMMA TargetDates ==
    ASSUME Types, NEW p \in Plan
    PROVE  plan[p].target \in Date /\ 1 .. plan[p].target \subseteq Date
<1>1. plan[p].target \in Date
  BY DEF Types, TypeOK, PlanRecord
<1>2. ASSUME NEW e \in Date PROVE 1 .. e \subseteq Date
  BY <1>2, DateAssumption DEF Date
<1> QED BY <1>1, <1>2

LEMMA FinishTyped ==
    ASSUME Types, NEW i \in Proc, Busy(i), NEW s \in Step, NEW c \in Context, Finish(i, s, c)
    PROVE  apply' \in [Plan -> ApplyRecord]
<1> DEFINE p == proc[i].plan
<1>1. p \in Plan /\ apply \in [Plan -> ApplyRecord]
  BY DEF Types, HasPlan, TypeOK
<1>2. apply' = [apply EXCEPT ![p] = [apply[p] EXCEPT !.next = s, !.ctx = c]]
  BY <1>1 DEF Finish
<1>3. [apply[p] EXCEPT !.next = s, !.ctx = c] \in ApplyRecord
  BY <1>1 DEF ApplyRecord
<1> QED BY <1>1, <1>2, <1>3

LEMMA AbortTyped ==
    ASSUME Types, NEW i \in Proc, Busy(i), Abort(i)
    PROVE  apply' \in [Plan -> ApplyRecord] /\ proc' \in [Proc -> ProcRecord] /\ PlansKept
<1> DEFINE p == proc[i].plan
<1>1. p \in Plan /\ proc[i].ctx \in Context /\ apply \in [Plan -> ApplyRecord]
  BY DEF Types, HasPlan, TypeOK, ProcRecord
<1>2. apply' \in [Plan -> ApplyRecord]
  <2>1. apply' = [apply EXCEPT ![p] = [apply[p] EXCEPT !.status = "FAILED", !.ctx = proc[i].ctx]]
    BY <1>1 DEF Abort
  <2>2. [apply[p] EXCEPT !.status = "FAILED", !.ctx = proc[i].ctx] \in ApplyRecord
    BY <1>1 DEF ApplyRecord
  <2> QED BY <1>1, <2>1, <2>2
<1>3. proc' = [proc EXCEPT ![i] = Idle]
  BY DEF Abort
<1>4. proc' \in [Proc -> ProcRecord]
  BY <1>3, IdleIsRecord DEF Types, TypeOK
<1>5. PlansKept
  BY <1>3 DEF PlansKept, Types, TypeOK, Busy, Idle
<1> QED BY <1>2, <1>4, <1>5

LEMMA ContextFields ==
    ASSUME NEW c \in Context
    PROVE  c.dates \in SUBSET Date /\ c.revised \in BOOLEAN /\ c.pit \in BOOLEAN
BY DEF Context

LEMMA HashIsVersion ==
    ASSUME TypeOK, NEW t \in Part
    PROVE  PartitionHash(t) \in Version /\ bronze[t].data \in Version
BY DEF TypeOK, PartitionHash

LEMMA InitTypes == Init => Types
<1> SUFFICES ASSUME Init PROVE Types
  OBVIOUS
<1>1. {0, 1} \subseteq Version /\ 0 \in PitVersion /\ 1 \in Date /\ 0 .. LastDate \subseteq Nat
  BY BoundAssumption, DateAssumption DEF Version, PitVersion, Date
<1>2. remote \in [Part -> Version]
  BY <1>1 DEF Init
<1>3. NoImage \in Image
  BY <1>1 DEF NoImage, Image
<1>4. curated \in [Date -> Image]
  <2>1. \A e \in Endpoint : <<e, 1>> \in Part
    BY <1>1 DEF Part
  <2> DEFINE first == [NoImage EXCEPT !.raw = [e \in Endpoint |-> remote[<<e, 1>>]]]
  <2>2. first \in Image
    BY <1>1, <1>2, <2>1 DEF NoImage, Image
  <2>3. curated = [d \in Date |-> IF d = 1 THEN first ELSE NoImage]
    BY DEF Init
  <2> QED BY <1>3, <2>2, <2>3, Zenon
<1>5. bronze \in [Part -> [data : Version, man : Version]]
  BY <1>1, <1>2 DEF Init
<1>6. active \in [content : [Date -> Image], end : 0 .. LastDate, owner : Plan \cup {NoOne}]
  <2>1. active = [content |-> curated, end |-> 1, owner |-> NoOne]
    BY DEF Init
  <2>2. 1 \in 0 .. LastDate
    BY DateAssumption
  <2> QED BY <1>4, <2>1, <2>2
<1>7. plan \in [Plan -> PlanRecord] /\ stage \in [Plan -> [Part -> StageRecord]]
  BY <1>1 DEF Init, PlanRecord, StageRecord
<1>8. apply \in [Plan -> ApplyRecord]
  BY NoWorkIsContext DEF Init, ApplyRecord, Step
<1>9. proc \in [Proc -> ProcRecord] /\ HasPlan
  BY IdleIsRecord DEF Init, HasPlan, Busy, Idle
<1>10. pit \in [source : PitVersion, built : PitVersion, seen : PitVersion]
       /\ index \in [value : [Date -> Version], through : 0 .. LastDate]
  BY <1>1, DateAssumption DEF Init
<1>11. torn \in SUBSET Part /\ revisions \in 0 .. MaxRevisions /\ kills \in 0 .. MaxKills /\ failures \in 0 .. MaxFailures
  BY BoundAssumption DEF Init
<1> QED BY <1>2, <1>4, <1>5, <1>6, <1>7, <1>8, <1>9, <1>10, <1>11, NoWorkIsContext
        DEF Types, TypeOK, Init

(***************************************************************************)
(* The steps that leave the process where it is, or that only move it and  *)
(* finish a step, need no more than the lemmas above.                      *)
(***************************************************************************)
LEMMA PlanTypes ==
    ASSUME Types
    PROVE  /\ \A t \in Part : Revise(t) => Types'
           /\ \A p \in Plan, d \in Date : CreatePlan(p, d) => Types'
           /\ \A i \in Proc, p \in Plan : Preflight(i, p) => Types'
           /\ \A i \in Proc : Refused(i) \/ Lock(i) \/ Fail(i) \/ Kill(i) => Types'
<1> USE DEF disk, counters
<1>1. ASSUME NEW t \in Part, Revise(t) PROVE Types'
  <2>1. remote[t] + 1 \in Version /\ revisions' \in 0 .. MaxRevisions
    BY <1>1, BoundAssumption DEF Revise, Types, TypeOK, Version
  <2> QED BY <1>1, <2>1 DEF Revise, Types, TypeOK, HasPlan, Busy
<1>2. ASSUME NEW p \in Plan, NEW d \in Date, CreatePlan(p, d) PROVE Types'
  <2>1. PICK event \in BOOLEAN :
          plan' = [plan EXCEPT ![p] = [plan[p] EXCEPT !.status = "PLANNED", !.target = d,
                                               !.fetch = FetchMatrix(d), !.event = event]]
    BY <1>2 DEF CreatePlan, Types, TypeOK
  <2>2. FetchMatrix(d) \subseteq Part
    BY DEF FetchMatrix, Part, Endpoint, Latest
  <2>3. [plan[p] EXCEPT !.status = "PLANNED", !.target = d,
                        !.fetch = FetchMatrix(d), !.event = event] \in PlanRecord
    <3>1. plan[p] \in PlanRecord
      BY DEF Types, TypeOK
    <3> QED BY <2>2, <3>1 DEF PlanRecord
  <2>4. plan' \in [Plan -> PlanRecord] /\ PlansStay /\ PlansKept
    BY <1>2, <2>1, <2>3 DEF CreatePlan, Types, TypeOK, PlansStay, PlansKept, Busy
  <2> QED BY <1>2, <2>4, HasPlanKept DEF CreatePlan, Types, TypeOK
<1>3. ASSUME NEW i \in Proc, NEW p \in Plan, Preflight(i, p) PROVE Types'
  <2>1. proc' = [proc EXCEPT ![i] = [proc[i] EXCEPT !.at = "preflight", !.plan = p]]
    BY <1>3 DEF Preflight, Types, TypeOK
  <2>2. [proc[i] EXCEPT !.at = "preflight", !.plan = p] \in ProcRecord
    <3>1. proc[i] \in ProcRecord /\ "preflight" \in Point
      BY DEF Types, TypeOK, Point
    <3> QED BY <3>1 DEF ProcRecord
  <2>3. proc' \in [Proc -> ProcRecord] /\ proc'[i].plan = p
        /\ \A j \in Proc \ {i} : proc'[j] = proc[j]
    BY <2>1, <2>2 DEF Types, TypeOK, ProcRecord
  <2>4. plan[p].status # "none"
    BY <1>3 DEF Preflight
  <2>5. HasPlan'
    BY <1>3, <2>3, <2>4 DEF Preflight, Types, HasPlan, Busy
  <2>6. apply' \in [Plan -> ApplyRecord]
    <3>1. apply \in [Plan -> ApplyRecord] /\ apply' =
            [apply EXCEPT ![p].status = IF @ = "none" THEN "RUNNING" ELSE @]
      BY <1>3 DEF Preflight, Types, TypeOK
    <3> QED BY <3>1 DEF ApplyRecord
  <2> QED BY <1>3, <2>3, <2>5, <2>6 DEF Preflight, Types, TypeOK
<1>4. ASSUME NEW i \in Proc, Refused(i) PROVE Types'
  <2>1. proc' = [proc EXCEPT ![i] = Idle]
    BY <1>4 DEF Refused
  <2>2. proc' \in [Proc -> ProcRecord] /\ PlansKept
    BY <2>1, IdleIsRecord DEF Types, TypeOK, PlansKept, Busy, Idle
  <2> QED BY <1>4, <2>2, HasPlanKept DEF Refused, Types, TypeOK, PlansStay
<1>5. ASSUME NEW i \in Proc, Lock(i) PROVE Types'
  <2> DEFINE a == ResumeAt(apply[proc[i].plan].next)
             c == apply[proc[i].plan].ctx
  <2>1. proc[i].plan \in Plan /\ Busy(i)
    BY <1>5 DEF Lock, Types, HasPlan, Busy
  <2>2. a \in Point \ {"idle"} /\ c \in Context
    BY <2>1 DEF ResumeAt, BeforePromote, Point, Types, TypeOK, ApplyRecord, Step
  <2> HIDE DEF a, c
  <2>3. proc' = [proc EXCEPT ![i] = [proc[i] EXCEPT !.at = a, !.ctx = c]]
    BY <1>5 DEF Lock, Types, TypeOK, a, c
  <2>4. proc' \in [Proc -> ProcRecord] /\ PlansKept
    <3> DEFINE r == [proc[i] EXCEPT !.at = a, !.ctx = c]
    <3>0. proc \in [Proc -> ProcRecord]
      BY DEF Types, TypeOK
    <3>1. r \in ProcRecord
      BY <2>2, <3>0 DEF ProcRecord
    <3>2. r.plan = proc[i].plan
      BY <3>0 DEF ProcRecord
    <3>3. proc' = [proc EXCEPT ![i] = r]
      BY <2>3
    <3> HIDE DEF r
    <3> QED BY <2>1, <3>0, <3>1, <3>2, <3>3 DEF PlansKept, Busy
  <2> QED BY <1>5, <2>4, HasPlanKept DEF Lock, Types, TypeOK, PlansStay
<1>6. ASSUME NEW i \in Proc, Fail(i) PROVE Types'
  <2>1. Busy(i) /\ Abort(i)
    BY <1>6 DEF Fail, MayFail, Busy
  <2>2. failures' \in 0 .. MaxFailures
    BY <1>6, BoundAssumption DEF Fail, Types, TypeOK
  <2> QED BY <1>6, <2>1, <2>2, AbortTyped, HasPlanKept DEF Fail, Types, TypeOK, PlansStay
<1>7. ASSUME NEW i \in Proc, Kill(i) PROVE Types'
  <2>1. proc' = [proc EXCEPT ![i] = Idle] /\ kills' \in 0 .. MaxKills /\ torn' \in SUBSET Part
    BY <1>7, BoundAssumption DEF Kill, Types, TypeOK
  <2>2. proc' \in [Proc -> ProcRecord] /\ PlansKept
    BY <2>1, IdleIsRecord DEF Types, TypeOK, PlansKept, Busy, Idle
  <2> QED BY <1>7, <2>1, <2>2, HasPlanKept DEF Kill, Types, TypeOK, PlansStay
<1> QED BY <1>1, <1>2, <1>3, <1>4, <1>5, <1>6, <1>7
(* The plan of a busy process, and what the steps read of it, are well typed. *)
LEMMA BusyReads ==
    ASSUME Types, NEW i \in Proc, Busy(i)
    PROVE  /\ proc[i].plan \in Plan /\ plan[proc[i].plan] \in PlanRecord
           /\ stage[proc[i].plan] \in [Part -> StageRecord]
           /\ apply[proc[i].plan] \in ApplyRecord
           /\ proc[i] \in ProcRecord
           /\ proc[i].ctx \in Context /\ proc[i].found \in Context
           /\ proc[i].todo \subseteq Part /\ proc[i].skip \subseteq Part
BY DEF Types, TypeOK, HasPlan, ProcRecord

(* Changing other fields of a process than its point and its plan. *)
LEMMA RecordTyped ==
    ASSUME Types, NEW i \in Proc, Busy(i), NEW r \in ProcRecord,
           r.at # "idle", r.plan = proc[i].plan, proc' = [proc EXCEPT ![i] = r]
    PROVE  proc' \in [Proc -> ProcRecord] /\ PlansKept
BY DEF Types, TypeOK, PlansKept, Busy

(* The steps that finish a step of the ledger and move on. *)
LEMMA FinishMoveTyped ==
    ASSUME Types, NEW i \in Proc, Busy(i), NEW s \in Step, NEW x \in Point,
           Finish(i, s, proc[i].ctx), Goto(i, x),
           UNCHANGED <<remote, disk, plan, stage, counters>>
    PROVE  Types'
<1>1. proc[i].ctx \in Context
  BY BusyReads
<1>2. proc' \in [Proc -> ProcRecord] /\ PlansKept /\ apply' \in [Plan -> ApplyRecord]
  BY <1>1, MoveTyped, FinishTyped
<1> QED BY <1>2, HasPlanKept DEF Types, TypeOK, PlansStay, disk, counters

(* The steps that only move on. *)
LEMMA OnlyMoveTyped ==
    ASSUME Types, NEW i \in Proc, Busy(i), NEW x \in Point, Goto(i, x),
           UNCHANGED <<remote, disk, plan, stage, apply, counters>>
    PROVE  Types'
<1>1. proc' \in [Proc -> ProcRecord] /\ PlansKept
  BY MoveTyped
<1> QED BY <1>1, HasPlanKept DEF Types, TypeOK, PlansStay, disk, counters

(* The steps that give up. *)
LEMMA OnlyAbortTyped ==
    ASSUME Types, NEW i \in Proc, Busy(i), Abort(i),
           UNCHANGED <<remote, disk, plan, stage, counters>>
    PROVE  Types'
<1>1. apply' \in [Plan -> ApplyRecord] /\ proc' \in [Proc -> ProcRecord] /\ PlansKept
  BY AbortTyped
<1> QED BY <1>1, HasPlanKept DEF Types, TypeOK, PlansStay, disk, counters

LEMMA FetchTypes ==
    ASSUME Types, NEW i \in Proc, Fetch(i)
    PROVE  Types'
<1> USE DEF disk, counters
<1>1. ASSUME NEW t \in Part, FetchPartition(i, t) PROVE Types'
  <2> DEFINE p == proc[i].plan
             r == [base |-> PartitionHash(t), ver |-> remote[t], redone |-> FALSE]
  <2>1. Busy(i) /\ p \in Plan
    BY <1>1, BusyReads DEF FetchPartition, NextToFetch, At, Busy
  <2>2. r \in StageRecord
    BY HashIsVersion DEF Types, TypeOK, StageRecord
  <2> HIDE DEF r
  <2>3. stage' = [stage EXCEPT ![p] = [stage[p] EXCEPT ![t] = r]]
    BY <1>1, <2>1 DEF FetchPartition, Types, TypeOK, r
  <2>4. stage' \in [Plan -> [Part -> StageRecord]]
    BY <2>1, <2>2, <2>3 DEF Types, TypeOK
  <2> QED BY <1>1, <2>4 DEF FetchPartition, Types, TypeOK, HasPlan, Busy
<1>2. ASSUME NEW t \in Part, FetchUnavailable(i, t) PROVE Types'
  <2> DEFINE r == [proc[i] EXCEPT !.skip = @ \cup {t}]
  <2>1. Busy(i)
    BY <1>2 DEF FetchUnavailable, NextToFetch, At, Busy
  <2>2. r \in ProcRecord /\ r.plan = proc[i].plan /\ r.at # "idle"
    BY <2>1, BusyReads DEF ProcRecord, Busy
  <2>3. proc' = [proc EXCEPT ![i] = r]
    BY <1>2 DEF FetchUnavailable
  <2>4. proc' \in [Proc -> ProcRecord] /\ PlansKept
    BY <2>1, <2>2, <2>3, RecordTyped
  <2> QED BY <1>2, <2>4, HasPlanKept DEF FetchUnavailable, Types, TypeOK, PlansStay
<1>3. ASSUME FetchRejected(i) PROVE Types'
  <2>1. Busy(i)
    BY <1>3 DEF FetchRejected, At, Busy
  <2> QED BY <1>3, <2>1, OnlyAbortTyped DEF FetchRejected
<1>4. ASSUME FetchDone(i) PROVE Types'
  <2>1. Busy(i) /\ "factor_reconcile" \in Point /\ "factor_reconcile" \in Step
    BY <1>4 DEF FetchDone, At, Busy, Point, Step
  <2> QED BY <1>4, <2>1, FinishMoveTyped DEF FetchDone
<1>5. ASSUME ReconcileFactors(i) PROVE Types'
  <2> DEFINE p == proc[i].plan
             diff == {d \in 1 .. plan[p].target : RemoteHistory(p)[d] # LocalFactor(p, d)}
  <2>1. Busy(i)
    BY <1>5 DEF ReconcileFactors, At, Busy
  <2>2. p \in Plan /\ plan[p] \in PlanRecord /\ plan \in [Plan -> PlanRecord]
    BY <2>1, BusyReads DEF Types, TypeOK
  <2>3. diff \subseteq Date
    BY <2>2, DateAssumption DEF PlanRecord, Date
  <2>4. \A d \in Date : <<Factor, d>> \in Part
    BY EndpointAssumption DEF Part, Endpoint
  <2>5. RemoteHistory(p) \in [Date -> Version]
    <3>1. 0 \in Version /\ remote \in [Part -> Version] /\ plan[p].history \in [Date -> Version]
      BY <2>2, BoundAssumption DEF Version, Types, TypeOK, PlanRecord
    <3> QED BY <2>4, <3>1 DEF RemoteHistory
  <2>6. CaughtUp \in [value : [Date -> Version], through : 0 .. LastDate]
    <3>1. Present \in SUBSET Date
      BY DEF Present
    <3>2. LastOf(Present) \in 0 .. LastDate
      BY <3>1, LastIsSession
    <3>3. \A d \in Date : bronze[<<Factor, d>>].data \in Version /\ index.value[d] \in Version
      BY <2>4 DEF Types, TypeOK
    <3>4. [d \in Date |-> IF d > index.through THEN bronze[<<Factor, d>>].data ELSE index.value[d]]
            \in [Date -> Version]
      BY <3>3
    <3> QED BY <3>2, <3>4 DEF CaughtUp
  <2> HIDE DEF diff
  <2>7. {Factor} \X diff \subseteq Part
    BY <2>3, <2>4
  <2>8. CASE plan[p].event
    <3> DEFINE r == [proc[i] EXCEPT !.todo = {Factor} \X diff, !.at = "stage_repairs"]
    <3>1. plan' = [plan EXCEPT ![p].history = RemoteHistory(p)] /\ index' = CaughtUp
      BY <1>5, <2>8 DEF ReconcileFactors
    <3>2. plan' \in [Plan -> PlanRecord] /\ PlansStay
      BY <2>2, <2>5, <3>1 DEF PlanRecord, PlansStay
    <3>3. proc' = [proc EXCEPT ![i] = r]
      BY <1>5, <2>8 DEF ReconcileFactors, diff, Types, TypeOK
    <3>4. "stage_repairs" \in Point \ {"idle"}
      BY DEF Point
    <3>5. r \in ProcRecord /\ r.plan = proc[i].plan /\ r.at # "idle"
      BY <2>1, <2>7, <3>4, BusyReads DEF ProcRecord
    <3>6. proc' \in [Proc -> ProcRecord] /\ PlansKept
      BY <2>1, <3>3, <3>5, RecordTyped
    <3> QED BY <1>5, <2>6, <3>1, <3>2, <3>6, HasPlanKept DEF ReconcileFactors, Types, TypeOK
  <2>9. CASE ~plan[p].event
    <3> DEFINE r == [proc[i] EXCEPT !.todo = {}, !.at = "save_repairs"]
    <3>1. plan' = plan /\ index' = index
      BY <1>5, <2>9 DEF ReconcileFactors
    <3>2. proc' = [proc EXCEPT ![i] = r]
      BY <1>5, <2>9 DEF ReconcileFactors, Types, TypeOK
    <3>3. "save_repairs" \in Point \ {"idle"}
      BY DEF Point
    <3>4. r \in ProcRecord /\ r.plan = proc[i].plan /\ r.at # "idle"
      BY <2>1, <3>3, BusyReads DEF ProcRecord
    <3>5. proc' \in [Proc -> ProcRecord] /\ PlansKept
      BY <2>1, <3>2, <3>4, RecordTyped
    <3> QED BY <1>5, <3>1, <3>5, HasPlanKept DEF ReconcileFactors, Types, TypeOK, PlansStay
  <2> QED BY <2>8, <2>9
<1>6. ASSUME NEW t \in Part, StageRepair(i, t) PROVE Types'
  <2> DEFINE p == proc[i].plan
             repaired == [base |-> IF Staged(p, t) THEN stage[p][t].base ELSE PartitionHash(t),
                          ver |-> plan[p].history[t[2]],
                          redone |-> Staged(p, t)]
  <2>1. Busy(i)
    BY <1>6 DEF StageRepair, At, Busy
  <2>2. p \in Plan /\ plan[p] \in PlanRecord /\ stage[p] \in [Part -> StageRecord]
    BY <2>1, BusyReads
  <2>3. /\ stage[p][t].base \in Version /\ PartitionHash(t) \in Version
        /\ plan[p].history[t[2]] \in Version /\ Staged(p, t) \in BOOLEAN
    BY <2>2, HashIsVersion DEF Types, StageRecord, PlanRecord, Part, Staged
  <2>4. repaired \in StageRecord
    BY <2>3 DEF StageRecord
  <2>5. stage' = [stage EXCEPT ![p] = [stage[p] EXCEPT ![t] = repaired]]
    BY <1>6, <2>2 DEF StageRepair, Types, TypeOK
  <2> HIDE DEF repaired
  <2>6. stage' \in [Plan -> [Part -> StageRecord]]
    BY <2>2, <2>4, <2>5 DEF Types, TypeOK
  <2> QED BY <1>6, <2>6 DEF StageRepair, Types, TypeOK, HasPlan, Busy
<1>9. ASSUME RepairsStaged(i) PROVE Types'
  <2>1. Busy(i) /\ "save_repairs" \in Point
    BY <1>9 DEF RepairsStaged, At, Busy, Point
  <2> QED BY <1>9, <2>1, OnlyMoveTyped DEF RepairsStaged
<1>7. ASSUME SaveRepairs(i) PROVE Types'
  <2> DEFINE p == proc[i].plan
             r == [proc[i] EXCEPT !.todo = {}, !.at = "end_reconcile"]
  <2>1. Busy(i)
    BY <1>7 DEF SaveRepairs, At, Busy
  <2>2. p \in Plan /\ proc[i].todo \subseteq Part /\ plan \in [Plan -> PlanRecord]
    BY <2>1, BusyReads DEF Types, TypeOK
  <2>3. {t[2] : t \in proc[i].todo} \subseteq Date
    BY <2>2 DEF Part
  <2>4. plan' = [plan EXCEPT ![p].repairs = {t[2] : t \in proc[i].todo}]
    BY <1>7 DEF SaveRepairs
  <2>5. plan' \in [Plan -> PlanRecord] /\ PlansStay
    <3> DEFINE dates == {t[2] : t \in proc[i].todo}
               q == [plan[p] EXCEPT !.repairs = dates]
    <3>1. plan' = [plan EXCEPT ![p] = q] /\ plan[p] \in PlanRecord
      BY <2>2, <2>4
    <3>2. dates \in SUBSET Date
      BY <2>3
    <3> HIDE DEF dates
    <3>3. q \in PlanRecord /\ q.status = plan[p].status
      BY <3>1, <3>2 DEF PlanRecord
    <3> HIDE DEF q
    <3> QED BY <2>2, <3>1, <3>3 DEF PlansStay
  <2>6. proc' = [proc EXCEPT ![i] = r] /\ "end_reconcile" \in Point \ {"idle"}
    BY <1>7 DEF SaveRepairs, Types, TypeOK, Point
  <2>7. r \in ProcRecord /\ r.plan = proc[i].plan /\ r.at # "idle"
    BY <2>1, <2>6, BusyReads DEF ProcRecord
  <2>8. proc' \in [Proc -> ProcRecord] /\ PlansKept
    BY <2>1, <2>6, <2>7, RecordTyped
  <2> QED BY <1>7, <2>5, <2>8, HasPlanKept DEF SaveRepairs, Types, TypeOK
<1>8. ASSUME EndReconcile(i) PROVE Types'
  <2>1. Busy(i) /\ "raw_promote" \in Point /\ "raw_promote" \in Step
    BY <1>8 DEF EndReconcile, At, Busy, Point, Step
  <2> QED BY <1>8, <2>1, FinishMoveTyped DEF EndReconcile
<1> QED BY <1>1, <1>2, <1>3, <1>4, <1>5, <1>6, <1>7, <1>8, <1>9 DEF Fetch
LEMMA PromoteTypes ==
    ASSUME Types, NEW i \in Proc, Promote(i)
    PROVE  Types'
<1> USE DEF disk, counters
<1>1. ASSUME PromoteRefused(i) PROVE Types'
  <2>1. Busy(i)
    BY <1>1 DEF PromoteRefused, At, Busy
  <2> QED BY <1>1, <2>1, OnlyAbortTyped DEF PromoteRefused
<1>2. ASSUME BeginPromote(i) PROVE Types'
  <2> DEFINE p == proc[i].plan
             r == [proc[i] EXCEPT !.found = Summary(p), !.todo = Differing(p), !.at = "write_data"]
  <2>1. Busy(i)
    BY <1>2 DEF BeginPromote, At, Busy
  <2>2. p \in Plan /\ plan[p] \in PlanRecord /\ proc[i] \in ProcRecord
    BY <2>1, BusyReads
  <2>3. Targets(p) \subseteq Part
    <3>1. \A d \in Date : <<Factor, d>> \in Part
      BY EndpointAssumption DEF Part, Endpoint
    <3> QED BY <2>2, <3>1 DEF Targets, Promised, PlanRecord
  <2>4. Differing(p) \subseteq Part /\ Changes(p) \subseteq Part
    BY <2>3 DEF Differing, Changes
  <2>5. Summary(p) \in Context
    <3>1. {t[2] : t \in Changes(p) \cup Differing(p)} \subseteq Date
      BY <2>4 DEF Part
    <3> QED BY <3>1 DEF Summary, Context
  <2>6. proc' = [proc EXCEPT ![i] = r]
    BY <1>2 DEF BeginPromote, Types, TypeOK
  <2>7. "write_data" \in Point \ {"idle"}
    BY DEF Point
  <2>8. r \in ProcRecord /\ r.plan = proc[i].plan /\ r.at # "idle"
    BY <2>2, <2>4, <2>5, <2>7 DEF ProcRecord
  <2>9. proc' \in [Proc -> ProcRecord] /\ PlansKept
    BY <2>1, <2>6, <2>8, RecordTyped
  <2>10. apply' \in [Plan -> ApplyRecord]
    <3>1. \A q \in Plan : [apply[q] EXCEPT !.promotion =
                IF q = p THEN "begun" ELSE IF HalfDone(q) THEN "overtaken" ELSE @] \in ApplyRecord
      <4>1. \A q \in Plan : apply[q] \in ApplyRecord
        BY DEF Types, TypeOK
      <4> QED BY <4>1 DEF ApplyRecord
    <3> QED BY <1>2, <3>1 DEF BeginPromote
  <2> QED BY <1>2, <2>9, <2>10, HasPlanKept DEF BeginPromote, Types, TypeOK, PlansStay
<1>3. ASSUME NEW t \in Part, SkipWrite(i, t) PROVE Types'
  <2> DEFINE r == [proc[i] EXCEPT !.todo = @ \ {t}]
  <2>1. Busy(i)
    BY <1>3 DEF SkipWrite, At, Busy
  <2>2. r \in ProcRecord /\ r.plan = proc[i].plan /\ r.at # "idle"
    BY <2>1, BusyReads DEF ProcRecord, Busy
  <2>3. proc' = [proc EXCEPT ![i] = r]
    BY <1>3 DEF SkipWrite
  <2>4. proc' \in [Proc -> ProcRecord] /\ PlansKept
    BY <2>1, <2>2, <2>3, RecordTyped
  <2> QED BY <1>3, <2>4, HasPlanKept DEF SkipWrite, Types, TypeOK, PlansStay
<1>4. ASSUME NEW t \in Part, WriteData(i, t) PROVE Types'
  <2>1. Busy(i) /\ Goto(i, "write_manifest") /\ "write_manifest" \in Point
    BY <1>4 DEF WriteData, At, Busy, Point
  <2>2. stage[proc[i].plan][t].ver \in Version
    BY <2>1, BusyReads DEF StageRecord
  <2>3. bronze' \in [Part -> [data : Version, man : Version]]
    BY <1>4, <2>2 DEF WriteData, Types, TypeOK
  <2>4. proc' \in [Proc -> ProcRecord] /\ PlansKept
    BY <2>1, MoveTyped
  <2> QED BY <1>4, <2>3, <2>4, HasPlanKept DEF WriteData, Types, TypeOK, PlansStay
<1>5. ASSUME NEW t \in Part, WriteManifest(i, t) PROVE Types'
  <2> DEFINE r == [proc[i] EXCEPT !.todo = @ \ {t}, !.at = "write_data"]
  <2>1. Busy(i) /\ "write_data" \in Point \ {"idle"}
    BY <1>5 DEF WriteManifest, At, Busy, Point
  <2>2. r \in ProcRecord /\ r.plan = proc[i].plan /\ r.at # "idle"
    BY <2>1, BusyReads DEF ProcRecord
  <2>3. proc' = [proc EXCEPT ![i] = r]
    BY <1>5 DEF WriteManifest, Types, TypeOK
  <2>4. proc' \in [Proc -> ProcRecord] /\ PlansKept
    BY <2>1, <2>2, <2>3, RecordTyped
  <2>5. bronze' \in [Part -> [data : Version, man : Version]]
    BY <1>5 DEF WriteManifest, Types, TypeOK
  <2> QED BY <1>5, <2>4, <2>5, HasPlanKept DEF WriteManifest, Types, TypeOK, PlansStay
<1>6. ASSUME WritePending(i) PROVE Types'
  <2> DEFINE merged == [dates |-> proc[i].found.dates \cup pending.dates,
                        revised |-> proc[i].found.revised \/ pending.revised,
                        pit |-> pending.pit]
             r == [proc[i] EXCEPT !.ctx = merged, !.found = NoWork, !.at = "write_index"]
  <2>1. Busy(i) /\ "write_index" \in Point \ {"idle"}
    BY <1>6 DEF WritePending, At, Busy, Point
  <2>2. proc[i].found \in Context /\ pending \in Context /\ proc[i] \in ProcRecord
    BY <2>1, BusyReads DEF Types, TypeOK
  <2>3. merged \in Context
    BY <2>2 DEF Context
  <2>4. pending' = merged /\ proc' = [proc EXCEPT ![i] = r]
    BY <1>6 DEF WritePending, Types, TypeOK
  <2> HIDE DEF merged
  <2>5. r \in ProcRecord /\ r.plan = proc[i].plan /\ r.at # "idle"
    BY <2>1, <2>2, <2>3, NoWorkIsContext DEF ProcRecord
  <2>6. proc' \in [Proc -> ProcRecord] /\ PlansKept
    BY <2>1, <2>4, <2>5, RecordTyped
  <2> QED BY <1>6, <2>3, <2>4, <2>6, HasPlanKept DEF WritePending, Types, TypeOK, PlansStay
<1>7. ASSUME WriteIndex(i) PROVE Types'
  <2>1. Busy(i) /\ Goto(i, "end_promote") /\ "end_promote" \in Point
    BY <1>7 DEF WriteIndex, At, Busy, Point
  <2>2. plan[proc[i].plan] \in PlanRecord
    BY <2>1, BusyReads
  <2>3. index' \in [value : [Date -> Version], through : 0 .. LastDate]
    BY <1>7, <2>2, DateAssumption DEF WriteIndex, Types, TypeOK, PlanRecord, Date
  <2>4. proc' \in [Proc -> ProcRecord] /\ PlansKept
    BY <2>1, MoveTyped
  <2> QED BY <1>7, <2>3, <2>4, HasPlanKept DEF WriteIndex, Types, TypeOK, PlansStay
<1>8. ASSUME EndPromote(i) PROVE Types'
  <2>1. Busy(i) /\ "raw_validate" \in Point /\ "raw_validate" \in Step
    BY <1>8 DEF EndPromote, At, Busy, Point, Step
  <2> QED BY <1>8, <2>1, FinishMoveTyped DEF EndPromote
<1>9. ASSUME ValidateRaw(i) PROVE Types'
  <2>1. Busy(i) /\ "enter_publish" \in Point /\ "extended_sync" \in Step
    BY <1>9 DEF ValidateRaw, At, Busy, Point, Step
  <2> QED BY <1>9, <2>1, FinishMoveTyped DEF ValidateRaw
<1>10. ASSUME ValidationFailed(i) PROVE Types'
  <2>1. Busy(i)
    BY <1>10 DEF ValidationFailed, At, Busy
  <2> QED BY <1>10, <2>1, OnlyAbortTyped DEF ValidationFailed
<1> QED BY <1>1, <1>2, <1>3, <1>4, <1>5, <1>6, <1>7, <1>8, <1>9, <1>10 DEF Promote
LEMMA PublishTypes ==
    ASSUME Types, NEW i \in Proc, Publish(i)
    PROVE  Types'
<1> USE DEF disk, counters
<1>1. ASSUME BehindRefused(i) PROVE Types'
  <2>1. Busy(i)
    BY <1>1 DEF BehindRefused, At, Busy
  <2> QED BY <1>1, <2>1, OnlyAbortTyped DEF BehindRefused
<1>2. ASSUME EnterPublish(i) PROVE Types'
  <2> DEFINE p == proc[i].plan
             x == IF HasReceipt(p) THEN "clear_pending"
                  ELSE IF apply[p].next = "finished" THEN "applied" ELSE apply[p].next
  <2>1. Busy(i)
    BY <1>2 DEF EnterPublish, At, Busy
  <2>2. x \in Point
    BY <2>1, BusyReads DEF ApplyRecord, Step, Point
  <2>3. Goto(i, x)
    BY <1>2 DEF EnterPublish
  <2> QED BY <1>2, <2>1, <2>2, <2>3, OnlyMoveTyped DEF EnterPublish
<1>3. ASSUME ExtendedSync(i) PROVE Types'
  <2>1. /\ Busy(i) /\ Goto(i, "pit_refresh") /\ "pit_refresh" \in Point
        /\ Finish(i, "pit_refresh", proc[i].ctx) /\ "pit_refresh" \in Step
    BY <1>3 DEF ExtendedSync, At, Busy, Point, Step
  <2>2. proc[i].ctx \in Context
    BY <2>1, BusyReads
  <2>3. proc' \in [Proc -> ProcRecord] /\ PlansKept /\ apply' \in [Plan -> ApplyRecord]
    BY <2>1, <2>2, MoveTyped, FinishTyped
  <2>4. pit' \in [source : PitVersion, built : PitVersion, seen : PitVersion]
    BY <1>3 DEF ExtendedSync, Types, TypeOK
  <2> QED BY <1>3, <2>3, <2>4, HasPlanKept DEF ExtendedSync, Types, TypeOK, PlansStay
<1>4. ASSUME PitCurrent(i) PROVE Types'
  <2>1. Busy(i) /\ "pit_pending" \in Point
    BY <1>4 DEF PitCurrent, At, Busy, Point
  <2> QED BY <1>4, <2>1, OnlyMoveTyped DEF PitCurrent
<1>5. ASSUME PitRebuild(i) PROVE Types'
  <2> DEFINE changed == pit.built # pit.source
             c == [NoWork EXCEPT !.revised = changed, !.pit = changed]
             r == [proc[i] EXCEPT !.found = c, !.at = "pit_state"]
  <2>1. Busy(i) /\ "pit_state" \in Point \ {"idle"}
    BY <1>5 DEF PitRebuild, At, Busy, Point
  <2>2. c \in Context
    BY DEF NoWork, Context
  <2> HIDE DEF c
  <2>3. r \in ProcRecord /\ r.plan = proc[i].plan /\ r.at # "idle"
    BY <2>1, <2>2, BusyReads DEF ProcRecord
  <2>4. proc' = [proc EXCEPT ![i] = r]
    BY <1>5 DEF PitRebuild, Types, TypeOK, c
  <2>5. proc' \in [Proc -> ProcRecord] /\ PlansKept
    BY <2>1, <2>3, <2>4, RecordTyped
  <2>6. pit' \in [source : PitVersion, built : PitVersion, seen : PitVersion]
    BY <1>5 DEF PitRebuild, Types, TypeOK
  <2> QED BY <1>5, <2>5, <2>6, HasPlanKept DEF PitRebuild, Types, TypeOK, PlansStay
<1>6. ASSUME PitRecord(i) PROVE Types'
  <2> DEFINE c == [dates |-> proc[i].ctx.dates,
                   revised |-> proc[i].ctx.revised \/ proc[i].found.revised,
                   pit |-> proc[i].ctx.pit \/ proc[i].found.pit]
             r == [proc[i] EXCEPT !.ctx = c, !.found = NoWork, !.at = "pit_pending"]
  <2>1. Busy(i) /\ "pit_pending" \in Point \ {"idle"}
    BY <1>6 DEF PitRecord, At, Busy, Point
  <2>2. proc[i].ctx \in Context /\ proc[i].found \in Context /\ proc[i] \in ProcRecord
    BY <2>1, BusyReads
  <2>3. c \in Context
    BY <2>2 DEF Context
  <2> HIDE DEF c
  <2>4. r \in ProcRecord /\ r.plan = proc[i].plan /\ r.at # "idle"
    BY <2>1, <2>2, <2>3, NoWorkIsContext DEF ProcRecord
  <2>5. proc' = [proc EXCEPT ![i] = r]
    BY <1>6 DEF PitRecord, Types, TypeOK, c
  <2>6. proc' \in [Proc -> ProcRecord] /\ PlansKept
    BY <2>1, <2>4, <2>5, RecordTyped
  <2>7. pit' \in [source : PitVersion, built : PitVersion, seen : PitVersion]
    BY <1>6 DEF PitRecord, Types, TypeOK
  <2> QED BY <1>6, <2>6, <2>7, HasPlanKept DEF PitRecord, Types, TypeOK, PlansStay
<1>7. ASSUME PitPending(i) PROVE Types'
  <2>1. Busy(i) /\ Goto(i, "pit_finish") /\ "pit_finish" \in Point
    BY <1>7 DEF PitPending, At, Busy, Point
  <2>2. proc[i].ctx \in Context
    BY <2>1, BusyReads
  <2>3. proc' \in [Proc -> ProcRecord] /\ PlansKept
    BY <2>1, MoveTyped
  <2> QED BY <1>7, <2>2, <2>3, HasPlanKept DEF PitPending, Types, TypeOK, PlansStay
<1>8. ASSUME PitFinish(i) PROVE Types'
  <2>1. Busy(i) /\ "freshness_gate" \in Point /\ "freshness_gate" \in Step
    BY <1>8 DEF PitFinish, At, Busy, Point, Step
  <2> QED BY <1>8, <2>1, FinishMoveTyped DEF PitFinish
<1>9. ASSUME FreshnessGate(i) PROVE Types'
  <2>1. Busy(i) /\ "qlib_publish" \in Point /\ "qlib_publish" \in Step
    BY <1>9 DEF FreshnessGate, At, Busy, Point, Step
  <2> QED BY <1>9, <2>1, FinishMoveTyped DEF FreshnessGate
<1>10. ASSUME BuildCurated(i) PROVE Types'
  <2> DEFINE c == proc[i].ctx
             x == IF Release(c) \/ Appended # {} \/ c.revised THEN "switch_alias" ELSE "clear_pending"
  <2>1. Busy(i) /\ Goto(i, x) /\ x \in Point
    BY <1>10 DEF BuildCurated, At, Busy, Point
  <2>2. proc' \in [Proc -> ProcRecord] /\ PlansKept
    BY <2>1, MoveTyped
  <2>3. ASSUME NEW d \in Date PROVE Source(d) \in Image
    <3>1. \A e \in Endpoint : bronze[<<e, d>>].data \in Version
      BY DEF Part, Types, TypeOK
    <3> QED BY <3>1 DEF Source, Image, Types, TypeOK
  <2>4. curated' = [d \in Date |-> IF d \in Rebuilt(c) THEN Source(d) ELSE curated[d]]
    BY <1>10 DEF BuildCurated
  <2>5. curated \in [Date -> Image]
    BY DEF Types, TypeOK
  <2>6. curated' \in [Date -> Image]
    BY <2>3, <2>4, <2>5
  <2> QED BY <1>10, <2>2, <2>6, HasPlanKept DEF BuildCurated, Types, TypeOK, PlansStay
<1>11. ASSUME SwitchAlias(i) PROVE Types'
  <2> DEFINE c == proc[i].ctx
             exported(d) == Release(c) \/ c.revised \/ d \in Appended
             image == [d \in Date |-> IF exported(d) THEN curated[d] ELSE active.content[d]]
  <2>1. Busy(i) /\ Goto(i, "clear_pending") /\ "clear_pending" \in Point
    BY <1>11 DEF SwitchAlias, At, Busy, Point
  <2>2. proc[i].plan \in Plan
    BY <2>1, BusyReads
  <2>3. image \in [Date -> Image]
    BY DEF Types, TypeOK
  <2>4. active' = [content |-> image, end |-> LastOf(Present), owner |-> proc[i].plan]
    BY <1>11 DEF SwitchAlias
  <2> HIDE DEF image
  <2>5. LastOf(Present) \in 0 .. LastDate
    <3>1. Present \in SUBSET Date
      BY DEF Present
    <3> QED BY <3>1, LastIsSession
  <2>6. active' \in [content : [Date -> Image], end : 0 .. LastDate, owner : Plan \cup {NoOne}]
    BY <2>2, <2>3, <2>4, <2>5
  <2>7. proc' \in [Proc -> ProcRecord] /\ PlansKept
    BY <2>1, MoveTyped
  <2> QED BY <1>11, <2>6, <2>7, HasPlanKept DEF SwitchAlias, Types, TypeOK, PlansStay
<1>12. ASSUME ClearPending(i) PROVE Types'
  <2>1. Busy(i) /\ Goto(i, "finish_publish") /\ "finish_publish" \in Point
    BY <1>12 DEF ClearPending, At, Busy, Point
  <2>2. proc' \in [Proc -> ProcRecord] /\ PlansKept
    BY <2>1, MoveTyped
  <2> QED BY <1>12, <2>2, NoWorkIsContext, HasPlanKept
          DEF ClearPending, Types, TypeOK, PlansStay
<1>13. ASSUME FinishPublish(i) PROVE Types'
  <2>1. Busy(i) /\ "applied" \in Point /\ "finished" \in Step
    BY <1>13 DEF FinishPublish, At, Busy, Point, Step
  <2> QED BY <1>13, <2>1, FinishMoveTyped DEF FinishPublish
<1>14. ASSUME Applied(i) PROVE Types'
  <2>1. Busy(i) /\ Goto(i, "close_plan") /\ "close_plan" \in Point
    BY <1>14 DEF Applied, At, Busy, Point
  <2>2. proc' \in [Proc -> ProcRecord] /\ PlansKept
    BY <2>1, MoveTyped
  <2>3. apply \in [Plan -> ApplyRecord] /\ apply' = [apply EXCEPT ![proc[i].plan].status = "SUCCEEDED"]
    BY <1>14 DEF Applied, Types, TypeOK
  <2>4. apply' \in [Plan -> ApplyRecord]
    BY <2>3 DEF ApplyRecord
  <2> QED BY <1>14, <2>2, <2>4, HasPlanKept DEF Applied, Types, TypeOK, PlansStay
<1>15. ASSUME ClosePlan(i) PROVE Types'
  <2> DEFINE p == proc[i].plan
  <2>1. /\ p \in Plan /\ plan \in [Plan -> PlanRecord]
        /\ plan' = [plan EXCEPT ![p].status = "APPLIED"]
    BY <1>15, BusyReads DEF ClosePlan, At, Busy, Types, TypeOK
  <2>2. plan' \in [Plan -> PlanRecord]
    <3>1. [plan[p] EXCEPT !.status = "APPLIED"] \in PlanRecord
      BY <2>1 DEF PlanRecord
    <3>2. plan' = [plan EXCEPT ![p] = [plan[p] EXCEPT !.status = "APPLIED"]]
      BY <2>1
    <3> QED BY <2>1, <3>1, <3>2
  <2>3. PlansStay
    BY <2>1 DEF PlansStay, PlanRecord
  <2>4. proc' = [proc EXCEPT ![i] = Idle]
    BY <1>15 DEF ClosePlan
  <2>5. proc' \in [Proc -> ProcRecord] /\ PlansKept
    BY <2>4, IdleIsRecord DEF Types, TypeOK, PlansKept, Busy, Idle
  <2> QED BY <1>15, <2>2, <2>3, <2>5, HasPlanKept DEF ClosePlan, Types, TypeOK
<1> QED BY <1>1, <1>2, <1>3, <1>4, <1>5, <1>6, <1>7, <1>8, <1>9, <1>10, <1>11, <1>12, <1>13,
           <1>14, <1>15 DEF Publish

LEMMA NextTypes == Types /\ [Next]_vars => Types'
<1> SUFFICES ASSUME Types, [Next]_vars PROVE Types'
  OBVIOUS
<1>1. CASE UNCHANGED vars
  BY <1>1 DEF vars, disk, counters, Types, TypeOK, HasPlan, Busy
<1>2. ASSUME NEW i \in Proc, Work(i) PROVE Types'
  BY <1>2, PlanTypes, FetchTypes, PromoteTypes, PublishTypes DEF Work
<1> QED BY <1>1, <1>2, PlanTypes DEF Next

(***************************************************************************)
(* Type correctness: every file and every process keeps its type under     *)
(* every step of apply_plan, every failure and every kill; in particular a *)
(* resumed process continues at a point of the program.                    *)
(***************************************************************************)
THEOREM TypeCorrect == Spec => []TypeOK
<1>1. Types => TypeOK
  BY DEF Types
<1> QED BY <1>1, InitTypes, NextTypes, PTL DEF Spec

-----------------------------------------------------------------------------
(***************************************************************************)
(* Publication.  Only one process is past daily_sync.lock; while it is at  *)
(* a point before the alias is switched, the alias is not its plan's, and  *)
(* from the guard of enter_publish on the alias is not ahead of its plan.  *)
(* A plan that owns the alias has reached qlib_publish in its ledger, so a *)
(* resumed process can only meet its own receipt there.                    *)
(***************************************************************************)
Working(i) == proc[i].at \notin {"idle", "preflight"}

Publishing == {"extended_sync", "pit_refresh", "pit_state", "pit_pending", "pit_finish",
               "freshness_gate", "qlib_publish", "switch_alias"}
Preparing == {"market_fetch", "factor_reconcile", "stage_repairs", "save_repairs",
              "end_reconcile", "raw_promote", "write_data", "write_manifest", "write_index",
              "end_promote", "raw_validate"}

OneWorker == \A i, j \in Proc : Working(i) /\ Working(j) => i = j

Receipted == {"qlib_publish", "finished"}
OwnerReceipted == active.owner \in Plan => apply[active.owner].next \in Receipted

Placed(i) ==
    /\ proc[i].at \in Preparing \cup Publishing => active.owner # proc[i].plan
    /\ proc[i].at \in Publishing => active.end <= plan[proc[i].plan].target
    /\ proc[i].at \in {"qlib_publish", "switch_alias"} => apply[proc[i].plan].next = "qlib_publish"

IInv == Types /\ OneWorker /\ OwnerReceipted /\ \A i \in Proc : Placed(i)

LEMMA InitIInv == Init => IInv
<1> SUFFICES ASSUME Init PROVE IInv
  OBVIOUS
<1>1. \A i \in Proc : proc[i].at = "idle"
  BY DEF Init, Idle
<1>2. active.owner \notin Plan
  BY PlanAssumption DEF Init
<1> QED BY <1>1, <1>2, InitTypes
        DEF IInv, OneWorker, Working, OwnerReceipted, Placed, Preparing, Publishing

(* What the one working process may do without disturbing the invariant. *)
LEMMA WorkKeeps ==
    ASSUME IInv, Types', NEW i \in Proc, Working(i),
           \A j \in Proc \ {i} : proc'[j] = proc[j],
           proc'[i].at = "idle" \/ proc'[i].plan = proc[i].plan,
           \A q \in Plan : plan'[q].target = plan[q].target,
           \A q \in Plan \ {proc[i].plan} : apply'[q].next = apply[q].next,
           active' = active,
           active.owner = proc[i].plan => apply'[proc[i].plan].next \in Receipted,
           Placed(i)'
    PROVE  IInv'
<1>1. OneWorker'
  BY DEF IInv, OneWorker, Working
<1>2. OwnerReceipted'
  BY DEF IInv, OwnerReceipted, Receipted
<1>3. ASSUME NEW j \in Proc \ {i} PROVE Placed(j)'
  <2>1. proc'[j] = proc[j] /\ ~Working(j)
    BY DEF IInv, OneWorker
  <2> QED BY <2>1 DEF Placed, Working, Preparing, Publishing
<1> QED BY <1>1, <1>2, <1>3 DEF IInv

(* Giving up, or being killed, disturbs nothing. *)
LEMMA AbortKeeps ==
    ASSUME IInv, Types', NEW i \in Proc, Working(i), proc' = [proc EXCEPT ![i] = Idle],
           plan' = plan, active' = active, \A q \in Plan : apply'[q].next = apply[q].next
    PROVE  IInv'
<1>1. proc'[i].at = "idle" /\ \A j \in Proc \ {i} : proc'[j] = proc[j]
  BY DEF IInv, Types, TypeOK, Idle
<1>2. Placed(i)'
  BY <1>1 DEF Placed, Preparing, Publishing
<1>3. active.owner = proc[i].plan => apply'[proc[i].plan].next \in Receipted
  <2>1. proc[i].plan \in Plan
    BY BusyReads DEF IInv, Working, Busy
  <2> QED BY <2>1 DEF IInv, OwnerReceipted, Receipted
<1> QED BY <1>1, <1>2, <1>3, WorkKeeps
(* Process i goes on to x with its plan; no other process moves. *)
Advances(i, x) ==
    /\ proc'[i].at = x /\ proc'[i].plan = proc[i].plan
    /\ \A j \in Proc \ {i} : proc'[j] = proc[j]

(* Of the ledgers, only the next step of i's plan may change, to s. *)
Records(i, s) ==
    /\ apply'[proc[i].plan].next = s
    /\ \A q \in Plan \ {proc[i].plan} : apply'[q].next = apply[q].next

SameTargets == \A q \in Plan : plan'[q].target = plan[q].target

Closing == {"clear_pending", "finish_publish", "applied", "close_plan"}

LEMMA AdvanceKeeps ==
    ASSUME IInv, Types', NEW i \in Proc, Working(i), NEW x, NEW s,
           Advances(i, x), Records(i, s), SameTargets, active' = active,
           \/ proc[i].at \in Preparing /\ x \in Preparing \cup {"enter_publish"}
           \/ /\ proc[i].at \in Publishing /\ x \in Publishing
              /\ x \in {"qlib_publish", "switch_alias"} => s = "qlib_publish"
           \/ x \in Closing /\ (s = apply[proc[i].plan].next \/ s \in Receipted)
    PROVE  IInv'
<1> DEFINE p == proc[i].plan
<1>1. p \in Plan
  BY BusyReads DEF IInv, Working, Busy
<1>2. CASE proc[i].at \in Preparing /\ x \in Preparing \cup {"enter_publish"}
  <2>1. active.owner # p
    BY <1>2 DEF IInv, Placed
  <2>2. Placed(i)'
    BY <1>2, <2>1 DEF Placed, Advances, Preparing, Publishing
  <2> QED BY <2>1, <2>2, WorkKeeps DEF Advances, Records, SameTargets
<1>3. CASE /\ proc[i].at \in Publishing /\ x \in Publishing
           /\ x \in {"qlib_publish", "switch_alias"} => s = "qlib_publish"
  <2>1. active.owner # p /\ active.end <= plan[p].target
    BY <1>3 DEF IInv, Placed
  <2>2. Placed(i)'
    BY <1>1, <1>3, <2>1 DEF Placed, Advances, Records, SameTargets
  <2> QED BY <2>1, <2>2, WorkKeeps DEF Advances, Records, SameTargets
<1>4. CASE x \in Closing /\ (s = apply[p].next \/ s \in Receipted)
  <2>1. Placed(i)'
    BY <1>4 DEF Placed, Advances, Closing, Preparing, Publishing
  <2>2. active.owner = p => apply'[p].next \in Receipted
    BY <1>1, <1>4 DEF IInv, OwnerReceipted, Records
  <2> QED BY <2>1, <2>2, WorkKeeps DEF Advances, Records, SameTargets
<1> QED BY <1>2, <1>3, <1>4

LEMMA GotoAdvances ==
    ASSUME Types, NEW i \in Proc, NEW x, Goto(i, x)
    PROVE  Advances(i, x)
BY DEF Types, TypeOK, ProcRecord, Goto, Advances

LEMMA FinishRecords ==
    ASSUME Types, NEW i \in Proc, Busy(i), NEW s, NEW c, Finish(i, s, c)
    PROVE  Records(i, s)
<1> DEFINE p == proc[i].plan
<1>1. p \in Plan /\ apply \in [Plan -> ApplyRecord]
  BY BusyReads DEF Types, TypeOK
<1>2. apply' = [apply EXCEPT ![p] = [apply[p] EXCEPT !.next = s, !.ctx = c]]
  BY <1>1 DEF Finish
<1>3. [apply[p] EXCEPT !.next = s, !.ctx = c].next = s
  BY <1>1 DEF ApplyRecord
<1> QED BY <1>1, <1>2, <1>3 DEF Records

LEMMA SameRecords ==
    ASSUME NEW i \in Proc, apply' = apply
    PROVE  Records(i, apply[proc[i].plan].next)
BY DEF Records

(* The three shapes most steps have. *)
LEMMA OnlyAdvanceKeeps ==
    ASSUME IInv, Types', NEW i \in Proc, Working(i), NEW x, Advances(i, x),
           apply' = apply, SameTargets, active' = active,
           \/ proc[i].at \in Preparing /\ x \in Preparing
           \/ proc[i].at \in Publishing /\ x \in Publishing \ {"qlib_publish", "switch_alias"}
           \/ x \in Closing
    PROVE  IInv'
BY SameRecords, AdvanceKeeps DEF IInv

LEMMA FinishAdvanceKeeps ==
    ASSUME IInv, Types', NEW i \in Proc, Working(i), NEW x, NEW s, NEW c,
           Goto(i, x), Finish(i, s, c), plan' = plan, active' = active,
           \/ proc[i].at \in Preparing /\ x \in Preparing \cup {"enter_publish"}
           \/ /\ proc[i].at \in Publishing /\ x \in Publishing
              /\ x \in {"qlib_publish", "switch_alias"} => s = "qlib_publish"
           \/ x \in Closing /\ s \in Receipted
    PROVE  IInv'
<1>1. Types /\ Busy(i)
  BY DEF IInv, Working, Busy
<1>2. Advances(i, x) /\ Records(i, s) /\ SameTargets
  BY <1>1, GotoAdvances, FinishRecords DEF SameTargets
<1> QED BY <1>2, AdvanceKeeps

LEMMA AbortStepKeeps ==
    ASSUME IInv, Types', NEW i \in Proc, Working(i), Abort(i), plan' = plan, active' = active
    PROVE  IInv'
<1>1. \A q \in Plan : apply'[q].next = apply[q].next
  <2> DEFINE p == proc[i].plan
  <2>1. p \in Plan /\ apply \in [Plan -> ApplyRecord]
    BY BusyReads DEF IInv, Working, Busy, Types, TypeOK
  <2>2. apply' = [apply EXCEPT ![p] = [apply[p] EXCEPT !.status = "FAILED", !.ctx = proc[i].ctx]]
    BY <2>1 DEF Abort
  <2>3. [apply[p] EXCEPT !.status = "FAILED", !.ctx = proc[i].ctx].next = apply[p].next
    BY <2>1 DEF ApplyRecord
  <2> QED BY <2>1, <2>2, <2>3
<1> QED BY <1>1, AbortKeeps DEF Abort
LEMMA FetchKeeps ==
    ASSUME IInv, Types', NEW i \in Proc, Fetch(i)
    PROVE  IInv'
<1> USE DEF disk, counters, At
<1>1. ASSUME NEW t \in Part, FetchPartition(i, t) PROVE IInv'
  <2>1. Working(i) /\ Advances(i, "market_fetch")
    BY <1>1 DEF FetchPartition, NextToFetch, Working, Advances
  <2> QED BY <1>1, <2>1, OnlyAdvanceKeeps DEF FetchPartition, NextToFetch, SameTargets, Preparing
<1>2. ASSUME NEW t \in Part, FetchUnavailable(i, t) PROVE IInv'
  <2>1. Working(i) /\ Advances(i, "market_fetch")
    BY <1>2 DEF FetchUnavailable, NextToFetch, Working, Advances, IInv, Types, TypeOK, ProcRecord
  <2> QED BY <1>2, <2>1, OnlyAdvanceKeeps DEF FetchUnavailable, NextToFetch, SameTargets, Preparing
<1>3. ASSUME FetchRejected(i) PROVE IInv'
  <2>1. Working(i)
    BY <1>3 DEF FetchRejected, Working
  <2> QED BY <1>3, <2>1, AbortStepKeeps DEF FetchRejected
<1>4. ASSUME FetchDone(i) PROVE IInv'
  <2>1. Working(i) /\ Goto(i, "factor_reconcile") /\ Finish(i, "factor_reconcile", proc[i].ctx)
    BY <1>4 DEF FetchDone, Working
  <2> QED BY <1>4, <2>1, FinishAdvanceKeeps DEF FetchDone, Preparing
<1>5. ASSUME ReconcileFactors(i) PROVE IInv'
  <2>1. Working(i)
    BY <1>5 DEF ReconcileFactors, Working
  <2>2. Advances(i, "stage_repairs") \/ Advances(i, "save_repairs")
    BY <1>5 DEF ReconcileFactors, Advances, IInv, Types, TypeOK, ProcRecord
  <2>3. SameTargets
    <3>1. \/ plan' = plan
          \/ plan' = [plan EXCEPT ![proc[i].plan].history = RemoteHistory(proc[i].plan)]
      BY <1>5 DEF ReconcileFactors
    <3>2. plan \in [Plan -> PlanRecord]
      BY DEF IInv, Types, TypeOK
    <3> QED BY <3>1, <3>2 DEF SameTargets, PlanRecord
  <2> QED BY <1>5, <2>1, <2>2, <2>3, OnlyAdvanceKeeps DEF ReconcileFactors, Preparing
<1>6. ASSUME NEW t \in Part, StageRepair(i, t) PROVE IInv'
  <2>1. Working(i) /\ Advances(i, "stage_repairs")
    BY <1>6 DEF StageRepair, Working, Advances
  <2> QED BY <1>6, <2>1, OnlyAdvanceKeeps DEF StageRepair, SameTargets, Preparing
<1>9. ASSUME RepairsStaged(i) PROVE IInv'
  <2>1. Working(i) /\ Advances(i, "save_repairs")
    BY <1>9, GotoAdvances DEF RepairsStaged, Working, IInv
  <2> QED BY <1>9, <2>1, OnlyAdvanceKeeps DEF RepairsStaged, SameTargets, Preparing
<1>7. ASSUME SaveRepairs(i) PROVE IInv'
  <2>1. Working(i)
    BY <1>7 DEF SaveRepairs, Working
  <2>2. Advances(i, "end_reconcile")
    BY <1>7 DEF SaveRepairs, Advances, IInv, Types, TypeOK, ProcRecord
  <2>3. SameTargets
    BY <1>7 DEF SaveRepairs, SameTargets, IInv, Types, TypeOK, PlanRecord
  <2> QED BY <1>7, <2>1, <2>2, <2>3, OnlyAdvanceKeeps DEF SaveRepairs, Preparing
<1>8. ASSUME EndReconcile(i) PROVE IInv'
  <2>1. Working(i) /\ Goto(i, "raw_promote") /\ Finish(i, "raw_promote", proc[i].ctx)
    BY <1>8 DEF EndReconcile, Working
  <2> QED BY <1>8, <2>1, FinishAdvanceKeeps DEF EndReconcile, Preparing
<1> QED BY <1>1, <1>2, <1>3, <1>4, <1>5, <1>6, <1>7, <1>8, <1>9 DEF Fetch

LEMMA PromoteKeeps ==
    ASSUME IInv, Types', NEW i \in Proc, Promote(i)
    PROVE  IInv'
<1> USE DEF disk, counters, At
<1>1. ASSUME PromoteRefused(i) PROVE IInv'
  <2>1. Working(i)
    BY <1>1 DEF PromoteRefused, Working
  <2> QED BY <1>1, <2>1, AbortStepKeeps DEF PromoteRefused
<1>2. ASSUME BeginPromote(i) PROVE IInv'
  <2>1. Working(i)
    BY <1>2 DEF BeginPromote, Working
  <2>2. Advances(i, "write_data")
    BY <1>2 DEF BeginPromote, Advances, IInv, Types, TypeOK, ProcRecord
  <2>3. Records(i, apply[proc[i].plan].next)
    <3>1. proc[i].plan \in Plan /\ \A q \in Plan : apply[q] \in ApplyRecord
      BY <2>1, BusyReads DEF Working, Busy, IInv, Types, TypeOK
    <3>2. \A q \in Plan : apply'[q].next = apply[q].next
      BY <1>2, <3>1 DEF BeginPromote, ApplyRecord
    <3> QED BY <3>1, <3>2 DEF Records
  <2> QED BY <1>2, <2>1, <2>2, <2>3, AdvanceKeeps DEF BeginPromote, SameTargets, Preparing
<1>3. ASSUME NEW t \in Part, SkipWrite(i, t) PROVE IInv'
  <2>1. Working(i)
    BY <1>3 DEF SkipWrite, Working
  <2>2. Advances(i, "write_data")
    BY <1>3 DEF SkipWrite, Advances, IInv, Types, TypeOK, ProcRecord
  <2> QED BY <1>3, <2>1, <2>2, OnlyAdvanceKeeps DEF SkipWrite, SameTargets, Preparing
<1>4. ASSUME NEW t \in Part, WriteData(i, t) PROVE IInv'
  <2>1. Working(i) /\ Advances(i, "write_manifest")
    BY <1>4, GotoAdvances DEF WriteData, Working, IInv
  <2> QED BY <1>4, <2>1, OnlyAdvanceKeeps DEF WriteData, SameTargets, Preparing
<1>5. ASSUME NEW t \in Part, WriteManifest(i, t) PROVE IInv'
  <2>1. Working(i)
    BY <1>5 DEF WriteManifest, Working
  <2>2. Advances(i, "write_data")
    BY <1>5 DEF WriteManifest, Advances, IInv, Types, TypeOK, ProcRecord
  <2> QED BY <1>5, <2>1, <2>2, OnlyAdvanceKeeps DEF WriteManifest, SameTargets, Preparing
<1>6. ASSUME WritePending(i) PROVE IInv'
  <2>1. Working(i)
    BY <1>6 DEF WritePending, Working
  <2>2. Advances(i, "write_index")
    BY <1>6 DEF WritePending, Advances, IInv, Types, TypeOK, ProcRecord
  <2> QED BY <1>6, <2>1, <2>2, OnlyAdvanceKeeps DEF WritePending, SameTargets, Preparing
<1>7. ASSUME WriteIndex(i) PROVE IInv'
  <2>1. Working(i) /\ Advances(i, "end_promote")
    BY <1>7, GotoAdvances DEF WriteIndex, Working, IInv
  <2> QED BY <1>7, <2>1, OnlyAdvanceKeeps DEF WriteIndex, SameTargets, Preparing
<1>8. ASSUME EndPromote(i) PROVE IInv'
  <2>1. Working(i) /\ Goto(i, "raw_validate") /\ Finish(i, "raw_validate", proc[i].ctx)
    BY <1>8 DEF EndPromote, Working
  <2> QED BY <1>8, <2>1, FinishAdvanceKeeps DEF EndPromote, Preparing
<1>9. ASSUME ValidateRaw(i) PROVE IInv'
  <2>1. Working(i) /\ Goto(i, "enter_publish") /\ Finish(i, "extended_sync", proc[i].ctx)
    BY <1>9 DEF ValidateRaw, Working
  <2> QED BY <1>9, <2>1, FinishAdvanceKeeps DEF ValidateRaw, Preparing
<1>10. ASSUME ValidationFailed(i) PROVE IInv'
  <2>1. Working(i)
    BY <1>10 DEF ValidationFailed, Working
  <2> QED BY <1>10, <2>1, AbortStepKeeps DEF ValidationFailed
<1> QED BY <1>1, <1>2, <1>3, <1>4, <1>5, <1>6, <1>7, <1>8, <1>9, <1>10 DEF Promote

LEMMA PublishKeeps ==
    ASSUME IInv, Types', NEW i \in Proc, Publish(i)
    PROVE  IInv'
<1> USE DEF disk, counters, At
<1>1. ASSUME BehindRefused(i) PROVE IInv'
  <2>1. Working(i)
    BY <1>1 DEF BehindRefused, Working
  <2> QED BY <1>1, <2>1, AbortStepKeeps DEF BehindRefused
<1>2. ASSUME EnterPublish(i) PROVE IInv'
  <2> DEFINE p == proc[i].plan
  <2>1. Working(i) /\ p \in Plan /\ apply[p].next \in Step
    BY <1>2, BusyReads DEF EnterPublish, Working, Busy, IInv, ApplyRecord
  <2>2. active.owner # p => active.end <= plan[p].target
    <3>1. active.end \in 0 .. LastDate /\ plan[p].target \in Date
      BY <2>1 DEF IInv, Types, TypeOK, PlanRecord
    <3> QED BY <1>2, <3>1, DateAssumption DEF EnterPublish, BehindAlias, Date
  <2>3. CASE HasReceipt(p)
    <3>1. Advances(i, "clear_pending")
      BY <1>2, <2>3, GotoAdvances DEF EnterPublish, IInv
    <3> QED BY <1>2, <2>1, <3>1, OnlyAdvanceKeeps DEF EnterPublish, SameTargets, Closing
  <2>4. CASE ~HasReceipt(p) /\ apply[p].next = "finished"
    <3>1. Advances(i, "applied")
      BY <1>2, <2>4, GotoAdvances DEF EnterPublish, IInv
    <3> QED BY <1>2, <2>1, <3>1, OnlyAdvanceKeeps DEF EnterPublish, SameTargets, Closing
  <2>5. CASE ~HasReceipt(p) /\ apply[p].next # "finished"
    <3>1. Advances(i, apply[p].next)
      BY <1>2, <2>5, GotoAdvances DEF EnterPublish, IInv
    <3>2. active.owner # p
      BY <2>1, <2>5 DEF IInv, OwnerReceipted, Receipted, HasReceipt
    <3>3. apply' = apply /\ active' = active /\ plan' = plan
      BY <1>2 DEF EnterPublish
    <3>4. Placed(i)'
      BY <2>1, <2>2, <3>1, <3>2, <3>3 DEF Placed, Advances, Step, Publishing
    <3> QED BY <2>1, <3>1, <3>2, <3>3, <3>4, WorkKeeps DEF Advances
  <2> QED BY <2>3, <2>4, <2>5
<1>3. ASSUME ExtendedSync(i) PROVE IInv'
  <2>1. Working(i) /\ Goto(i, "pit_refresh") /\ Finish(i, "pit_refresh", proc[i].ctx)
    BY <1>3 DEF ExtendedSync, Working
  <2> QED BY <1>3, <2>1, FinishAdvanceKeeps DEF ExtendedSync, Publishing
<1>4. ASSUME PitCurrent(i) PROVE IInv'
  <2>1. Working(i) /\ Advances(i, "pit_pending")
    BY <1>4, GotoAdvances DEF PitCurrent, Working, IInv
  <2> QED BY <1>4, <2>1, OnlyAdvanceKeeps DEF PitCurrent, SameTargets, Publishing
<1>5. ASSUME PitRebuild(i) PROVE IInv'
  <2>1. Working(i)
    BY <1>5 DEF PitRebuild, Working
  <2>2. Advances(i, "pit_state")
    <3>1. proc \in [Proc -> ProcRecord]
      BY DEF IInv, Types, TypeOK
    <3> QED BY <1>5, <3>1 DEF PitRebuild, Advances, ProcRecord
  <2> QED BY <1>5, <2>1, <2>2, OnlyAdvanceKeeps DEF PitRebuild, SameTargets, Publishing
<1>6. ASSUME PitRecord(i) PROVE IInv'
  <2>1. Working(i)
    BY <1>6 DEF PitRecord, Working
  <2>2. Advances(i, "pit_pending")
    BY <1>6 DEF PitRecord, Advances, IInv, Types, TypeOK, ProcRecord
  <2> QED BY <1>6, <2>1, <2>2, OnlyAdvanceKeeps DEF PitRecord, SameTargets, Publishing
<1>7. ASSUME PitPending(i) PROVE IInv'
  <2>1. Working(i) /\ Advances(i, "pit_finish")
    BY <1>7, GotoAdvances DEF PitPending, Working, IInv
  <2> QED BY <1>7, <2>1, OnlyAdvanceKeeps DEF PitPending, SameTargets, Publishing
<1>8. ASSUME PitFinish(i) PROVE IInv'
  <2>1. Working(i) /\ Goto(i, "freshness_gate") /\ Finish(i, "freshness_gate", proc[i].ctx)
    BY <1>8 DEF PitFinish, Working
  <2> QED BY <1>8, <2>1, FinishAdvanceKeeps DEF PitFinish, Publishing
<1>9. ASSUME FreshnessGate(i) PROVE IInv'
  <2>1. Working(i) /\ Goto(i, "qlib_publish") /\ Finish(i, "qlib_publish", proc[i].ctx)
    BY <1>9 DEF FreshnessGate, Working
  <2> QED BY <1>9, <2>1, FinishAdvanceKeeps DEF FreshnessGate, Publishing
<1>10. ASSUME BuildCurated(i) PROVE IInv'
  <2> DEFINE p == proc[i].plan
  <2>1. Working(i)
    BY <1>10 DEF BuildCurated, Working
  <2>2. apply[p].next = "qlib_publish"
    BY <1>10 DEF BuildCurated, IInv, Placed
  <2>3. Advances(i, "switch_alias") \/ Advances(i, "clear_pending")
    BY <1>10, GotoAdvances DEF BuildCurated, IInv
  <2>4. Records(i, "qlib_publish")
    BY <1>10, <2>2, SameRecords DEF BuildCurated
  <2> QED BY <1>10, <2>1, <2>2, <2>3, <2>4, AdvanceKeeps
          DEF BuildCurated, SameTargets, Publishing, Closing
<1>11. ASSUME SwitchAlias(i) PROVE IInv'
  <2> DEFINE p == proc[i].plan
  <2>1. Working(i) /\ p \in Plan /\ Advances(i, "clear_pending")
    BY <1>11, BusyReads, GotoAdvances DEF SwitchAlias, Working, Busy, IInv
  <2>2. active'.owner = p /\ apply' = apply
    BY <1>11 DEF SwitchAlias
  <2>3. apply[p].next = "qlib_publish"
    BY <1>11 DEF SwitchAlias, IInv, Placed
  <2>4. OwnerReceipted'
    BY <2>2, <2>3 DEF OwnerReceipted, Receipted
  <2>5. \A j \in Proc \ {i} : proc'[j] = proc[j] /\ ~Working(j)
    BY <2>1 DEF Advances, IInv, OneWorker
  <2>6. OneWorker'
    BY <2>5 DEF OneWorker, Working
  <2>7. \A j \in Proc : Placed(j)'
    BY <2>1, <2>5 DEF Advances, Placed, Working, Preparing, Publishing
  <2> QED BY <2>4, <2>6, <2>7 DEF IInv
<1>12. ASSUME ClearPending(i) PROVE IInv'
  <2>1. Working(i) /\ Advances(i, "finish_publish")
    BY <1>12, GotoAdvances DEF ClearPending, Working, IInv
  <2> QED BY <1>12, <2>1, OnlyAdvanceKeeps DEF ClearPending, SameTargets, Closing
<1>13. ASSUME FinishPublish(i) PROVE IInv'
  <2>1. Working(i) /\ Goto(i, "applied") /\ Finish(i, "finished", proc[i].ctx)
    BY <1>13 DEF FinishPublish, Working
  <2> QED BY <1>13, <2>1, FinishAdvanceKeeps DEF FinishPublish, Closing, Receipted
<1>14. ASSUME Applied(i) PROVE IInv'
  <2> DEFINE p == proc[i].plan
  <2>1. Working(i) /\ p \in Plan /\ Advances(i, "close_plan")
    BY <1>14, BusyReads, GotoAdvances DEF Applied, Working, Busy, IInv
  <2>2. Records(i, apply[p].next)
    <3>1. apply \in [Plan -> ApplyRecord] /\ apply' = [apply EXCEPT ![p].status = "SUCCEEDED"]
      BY <1>14 DEF Applied, IInv, Types, TypeOK
    <3> QED BY <2>1, <3>1 DEF Records, ApplyRecord
  <2> QED BY <1>14, <2>1, <2>2, AdvanceKeeps DEF Applied, SameTargets, Closing
<1>15. ASSUME ClosePlan(i) PROVE IInv'
  <2>1. Working(i)
    BY <1>15 DEF ClosePlan, Working
  <2>2. SameTargets /\ proc' = [proc EXCEPT ![i] = Idle]
    BY <1>15 DEF ClosePlan, SameTargets, IInv, Types, TypeOK, PlanRecord
  <2>3. proc'[i].at = "idle" /\ \A j \in Proc \ {i} : proc'[j] = proc[j]
    BY <2>2 DEF IInv, Types, TypeOK, Idle
  <2>4. Placed(i)'
    BY <2>3 DEF Placed, Preparing, Publishing
  <2>5. active.owner = proc[i].plan => apply'[proc[i].plan].next \in Receipted
    BY <1>15, <2>1, BusyReads DEF ClosePlan, Working, Busy, IInv, OwnerReceipted
  <2> QED BY <1>15, <2>1, <2>2, <2>3, <2>4, <2>5, WorkKeeps DEF ClosePlan, SameTargets
<1> QED BY <1>1, <1>2, <1>3, <1>4, <1>5, <1>6, <1>7, <1>8, <1>9, <1>10, <1>11, <1>12, <1>13, <1>14, <1>15 DEF Publish
(* The provider, the creation of plans and the steps around the lock. *)
LEMMA PlanKeeps ==
    ASSUME IInv, Types'
    PROVE  /\ \A t \in Part : Revise(t) => IInv'
           /\ \A p \in Plan, d \in Date : CreatePlan(p, d) => IInv'
           /\ \A i \in Proc, p \in Plan : Preflight(i, p) => IInv'
           /\ \A i \in Proc : Refused(i) \/ Lock(i) \/ Fail(i) \/ Kill(i) => IInv'
<1> USE DEF disk, counters
<1>1. ASSUME NEW t \in Part, Revise(t) PROVE IInv'
  BY <1>1 DEF Revise, IInv, OneWorker, OwnerReceipted, Placed, Working
<1>2. ASSUME NEW p \in Plan, NEW d \in Date, CreatePlan(p, d) PROVE IInv'
  <2>1. \A q \in Plan : plan[q].status # "none" => plan'[q] = plan[q]
    BY <1>2 DEF CreatePlan, IInv, Types, TypeOK
  <2>2. \A i \in Proc : Working(i) => plan'[proc[i].plan] = plan[proc[i].plan]
    BY <2>1 DEF IInv, Types, HasPlan, Busy, Working
  <2>3. \A i \in Proc : Placed(i)'
    BY <1>2, <2>2 DEF CreatePlan, IInv, Placed, Working, Preparing, Publishing
  <2> QED BY <1>2, <2>3 DEF CreatePlan, IInv, OneWorker, OwnerReceipted, Working
<1>3. ASSUME NEW i \in Proc, NEW p \in Plan, Preflight(i, p) PROVE IInv'
  <2>1. proc' = [proc EXCEPT ![i] = [proc[i] EXCEPT !.at = "preflight", !.plan = p]]
    BY <1>3 DEF Preflight, IInv, Types, TypeOK
  <2>2. proc'[i].at = "preflight" /\ \A j \in Proc \ {i} : proc'[j] = proc[j]
    BY <2>1 DEF IInv, Types, TypeOK, ProcRecord
  <2>3. \A q \in Plan : apply'[q].next = apply[q].next
    BY <1>3 DEF Preflight, IInv, Types, TypeOK, ApplyRecord
  <2>4. OneWorker'
    BY <2>2 DEF IInv, OneWorker, Working
  <2>5. OwnerReceipted'
    BY <1>3, <2>3 DEF Preflight, IInv, OwnerReceipted
  <2>6. \A j \in Proc : Placed(j)'
    <3>1. Placed(i)'
      BY <2>2 DEF Placed, Preparing, Publishing
    <3>2. ASSUME NEW j \in Proc \ {i} PROVE Placed(j)'
      <4>1. Working(j) => proc[j].plan \in Plan
        BY BusyReads DEF IInv, Working, Busy
      <4>2. Placed(j) /\ proc'[j] = proc[j] /\ active' = active /\ plan' = plan
        BY <1>3, <2>2 DEF Preflight, IInv, disk
      <4>3. proc[j].at \in Preparing \cup Publishing => Working(j)
        BY DEF Working, Preparing, Publishing
      <4>4. proc[j].at \in {"qlib_publish", "switch_alias"} => proc[j].at \in Publishing
        BY DEF Publishing
      <4> QED BY <2>3, <4>1, <4>2, <4>3, <4>4 DEF Placed
    <3> QED BY <3>1, <3>2
  <2> QED BY <2>4, <2>5, <2>6 DEF IInv
<1>4. ASSUME NEW i \in Proc, Refused(i) PROVE IInv'
  <2>1. proc'[i].at = "idle" /\ \A j \in Proc \ {i} : proc'[j] = proc[j]
    BY <1>4 DEF Refused, IInv, Types, TypeOK, Idle
  <2>2. OneWorker' /\ \A j \in Proc : Placed(j)'
    BY <1>4, <2>1 DEF Refused, IInv, OneWorker, Working, Placed, Preparing, Publishing
  <2> QED BY <1>4, <2>2 DEF Refused, IInv, OwnerReceipted
<1>5. ASSUME NEW i \in Proc, Lock(i) PROVE IInv'
  <2> DEFINE p == proc[i].plan
             a == ResumeAt(apply[p].next)
             c == apply[p].ctx
  <2>1. p \in Plan
    BY <1>5 DEF Lock, IInv, Types, HasPlan, Busy
  <2>2. proc'[i].at = a /\ proc'[i].plan = p /\ \A j \in Proc \ {i} : proc'[j] = proc[j]
    <3>1. proc' = [proc EXCEPT ![i] = [proc[i] EXCEPT !.at = a, !.ctx = c]]
      BY <1>5 DEF Lock, IInv, Types, TypeOK
    <3> HIDE DEF a, c
    <3> QED BY <3>1 DEF IInv, Types, TypeOK, ProcRecord
  <2>3. \A j \in Proc : ~Working(j)
    BY <1>5 DEF Lock, Locked, Working
  <2>4. OneWorker'
    BY <2>2, <2>3 DEF OneWorker, Working
  <2>5. Placed(i)'
    <3>1. a = "enter_publish" \/ (a \in Preparing /\ active.owner # p)
      <4> DEFINE s == apply[p].next
      <4>1. active.owner = p => s \in Receipted
        BY <2>1 DEF IInv, OwnerReceipted
      <4>2. CASE s \in BeforePromote \cup {"raw_validate"}
        <5>1. a = s
          BY <4>2 DEF ResumeAt
        <5> HIDE DEF a, s
        <5>2. s \notin Receipted /\ s \in Preparing
          BY <4>2 DEF BeforePromote, Preparing, Receipted
        <5> QED BY <4>1, <5>1, <5>2
      <4>3. CASE s \notin BeforePromote \cup {"raw_validate"}
        <5>1. a = "enter_publish"
          BY <4>3 DEF ResumeAt
        <5> QED BY <5>1
      <4> QED BY <4>2, <4>3
    <3> HIDE DEF a
    <3> QED BY <1>5, <2>2, <3>1 DEF Lock, Placed, Preparing, Publishing
  <2>6. ASSUME NEW j \in Proc \ {i} PROVE Placed(j)'
    BY <2>2, <2>3 DEF Placed, Working, Preparing, Publishing
  <2> QED BY <1>5, <2>4, <2>5, <2>6 DEF Lock, IInv, OwnerReceipted
<1>6. ASSUME NEW i \in Proc, Fail(i) PROVE IInv'
  <2>1. Working(i) /\ Abort(i)
    BY <1>6 DEF Fail, MayFail, Working
  <2> QED BY <1>6, <2>1, AbortStepKeeps DEF Fail
<1>7. ASSUME NEW i \in Proc, Kill(i) PROVE IInv'
  <2>1. CASE Working(i)
    BY <1>7, <2>1, AbortKeeps DEF Kill
  <2>2. CASE ~Working(i)
    <3>1. proc'[i].at = "idle" /\ \A j \in Proc \ {i} : proc'[j] = proc[j]
      BY <1>7 DEF Kill, IInv, Types, TypeOK, Idle
    <3>2. OneWorker' /\ \A j \in Proc : Placed(j)'
      BY <1>7, <3>1 DEF Kill, IInv, OneWorker, Working, Placed, Preparing, Publishing
    <3> QED BY <1>7, <3>2 DEF Kill, IInv, OwnerReceipted
  <2> QED BY <2>1, <2>2
<1> QED BY <1>1, <1>2, <1>3, <1>4, <1>5, <1>6, <1>7

LEMMA NextIInv == IInv /\ [Next]_vars => IInv'
<1> SUFFICES ASSUME IInv, [Next]_vars PROVE IInv'
  OBVIOUS
<1>1. Types'
  BY NextTypes DEF IInv
<1>2. CASE UNCHANGED vars
  BY <1>1, <1>2 DEF vars, disk, counters, IInv, OneWorker, OwnerReceipted, Placed, Working
<1>3. ASSUME NEW i \in Proc, Work(i) PROVE IInv'
  BY <1>1, <1>3, PlanKeeps, FetchKeeps, PromoteKeeps, PublishKeeps DEF Work
<1> QED BY <1>1, <1>2, <1>3, PlanKeeps DEF Next

THEOREM IInvHolds == Spec => []IInv
BY InitIInv, NextIInv, PTL DEF Spec

(***************************************************************************)
(* A publication is not repeated: a process about to switch the alias, be  *)
(* it resumed after a failure or a kill, never belongs to the plan that    *)
(* the alias already names (_recover_publish_receipt).                     *)
(***************************************************************************)
THEOREM PublicationNotRepeated == Spec => []PublishedOnce
<1>1. IInv => PublishedOnce
  BY DEF IInv, Placed, PublishedOnce, At, Publishing
<1> QED BY <1>1, IInvHolds, PTL

(* Only SwitchAlias writes the alias. *)
LEMMA AliasWriter ==
    ASSUME [Next]_vars, active' # active
    PROVE  \E i \in Proc : SwitchAlias(i)
<1> USE DEF disk, counters
<1>1. ~UNCHANGED vars
  BY DEF vars
<1>2. \A t \in Part : ~Revise(t)
  BY DEF Revise
<1>3. \A p \in Plan, d \in Date : ~CreatePlan(p, d)
  BY DEF CreatePlan
<1>4. \A i \in Proc, p \in Plan : ~Preflight(i, p)
  BY DEF Preflight
<1>5. \A i \in Proc : ~Fail(i) /\ ~Kill(i) /\ ~Refused(i) /\ ~Lock(i)
  BY DEF Fail, Kill, Refused, Lock
<1>6. \A i \in Proc : ~Fetch(i)
  <2> SUFFICES ASSUME NEW i \in Proc, Fetch(i) PROVE FALSE
    OBVIOUS
  <2>1. \A t \in Part : ~FetchPartition(i, t) /\ ~FetchUnavailable(i, t) /\ ~StageRepair(i, t)
    BY DEF FetchPartition, FetchUnavailable, StageRepair
  <2>2. ~FetchRejected(i) /\ ~FetchDone(i) /\ ~RepairsStaged(i) /\ ~SaveRepairs(i) /\ ~EndReconcile(i)
    BY DEF FetchRejected, FetchDone, RepairsStaged, SaveRepairs, EndReconcile
  <2>3. ~ReconcileFactors(i)
    BY DEF ReconcileFactors
  <2> QED BY <2>1, <2>2, <2>3 DEF Fetch
<1>7. \A i \in Proc : ~Promote(i)
  <2> SUFFICES ASSUME NEW i \in Proc, Promote(i) PROVE FALSE
    OBVIOUS
  <2>1. \A t \in Part : ~SkipWrite(i, t) /\ ~WriteData(i, t) /\ ~WriteManifest(i, t)
    BY DEF SkipWrite, WriteData, WriteManifest
  <2>2. ~PromoteRefused(i) /\ ~BeginPromote(i) /\ ~WritePending(i) /\ ~WriteIndex(i)
    BY DEF PromoteRefused, BeginPromote, WritePending, WriteIndex
  <2>3. ~EndPromote(i) /\ ~ValidateRaw(i) /\ ~ValidationFailed(i)
    BY DEF EndPromote, ValidateRaw, ValidationFailed
  <2> QED BY <2>1, <2>2, <2>3 DEF Promote
<1>8. ASSUME NEW i \in Proc, Publish(i) PROVE SwitchAlias(i)
  <2>1. ~BehindRefused(i) /\ ~EnterPublish(i) /\ ~ExtendedSync(i) /\ ~PitCurrent(i)
    BY DEF BehindRefused, EnterPublish, ExtendedSync, PitCurrent
  <2>2. ~PitRebuild(i) /\ ~PitRecord(i) /\ ~PitPending(i) /\ ~PitFinish(i) /\ ~FreshnessGate(i)
    BY DEF PitRebuild, PitRecord, PitPending, PitFinish, FreshnessGate
  <2>3. ~BuildCurated(i) /\ ~ClearPending(i) /\ ~FinishPublish(i) /\ ~Applied(i) /\ ~ClosePlan(i)
    BY DEF BuildCurated, ClearPending, FinishPublish, Applied, ClosePlan
  <2> QED BY <1>8, <2>1, <2>2, <2>3 DEF Publish
<1> QED BY <1>1, <1>2, <1>3, <1>4, <1>5, <1>6, <1>7, <1>8 DEF Next, Work

(***************************************************************************)
(* The plan that switches the alias is not behind the sessions it already  *)
(* covers, although the guard is evaluated before extended_sync and the    *)
(* alias switched at the end of the publication.                           *)
(***************************************************************************)
LEMMA SwitchPublishes ==
    ASSUME IInv, NEW i \in Proc, SwitchAlias(i)
    PROVE  Alias!Next
<1> DEFINE p == proc[i].plan
           target == [q \in Plan |-> plan[q].target]
<1>1. proc[i].at = "switch_alias" /\ p \in Plan
  BY BusyReads DEF SwitchAlias, At, Busy, IInv
<1>2. active.owner # p /\ active.end <= target[p]
  BY <1>1 DEF IInv, Placed, Publishing
<1>3. active'.owner = p /\ active'.end = LastOf(Present) /\ target' = target
  BY DEF SwitchAlias
<1>4. Present \in SUBSET Date
  BY DEF Present
<1>5. active'.end \in 0 .. LastDate
  BY <1>3, <1>4, LastIsSession
<1>6. active.end \in Nat /\ target[p] \in Nat
  BY <1>1, DateAssumption DEF IInv, Types, TypeOK, PlanRecord, Date
<1>7. ~Alias!Ahead(p)
  BY <1>1, <1>2, <1>6 DEF Alias!Ahead
<1>8. Alias!Publish(p)
  BY <1>2, <1>3, <1>5, <1>7 DEF Alias!Publish
<1> QED BY <1>1, <1>8 DEF Alias!Next

(* Only CreatePlan says which session a plan is for. *)
LEMMA TargetWriter ==
    ASSUME Types, [Next]_vars, \A p \in Plan, d \in Date : ~CreatePlan(p, d), NEW q \in Plan
    PROVE  plan'[q].target = plan[q].target
<1> USE DEF disk, counters
<1>1. plan \in [Plan -> PlanRecord]
  BY DEF Types, TypeOK
<1>2. CASE UNCHANGED vars
  BY <1>2 DEF vars
<1>3. ASSUME NEW t \in Part, Revise(t) PROVE plan' = plan
  BY <1>3 DEF Revise
<1>4. ASSUME NEW i \in Proc, NEW p \in Plan, Preflight(i, p) PROVE plan' = plan
  BY <1>4 DEF Preflight
<1>5. ASSUME NEW i \in Proc, Fail(i) \/ Kill(i) \/ Refused(i) \/ Lock(i) PROVE plan' = plan
  BY <1>5 DEF Fail, Kill, Refused, Lock
<1>6. ASSUME NEW i \in Proc, Fetch(i) PROVE plan'[q].target = plan[q].target
  <2>1. ASSUME NEW t \in Part, FetchPartition(i, t) \/ FetchUnavailable(i, t) \/ StageRepair(i, t)
        PROVE  plan' = plan
    BY <2>1 DEF FetchPartition, FetchUnavailable, StageRepair
  <2>2. ASSUME FetchRejected(i) \/ FetchDone(i) \/ RepairsStaged(i) \/ EndReconcile(i) PROVE plan' = plan
    BY <2>2 DEF FetchRejected, FetchDone, RepairsStaged, EndReconcile
  <2>3. ASSUME SaveRepairs(i) PROVE plan'[q].target = plan[q].target
    BY <1>1, <2>3 DEF SaveRepairs, PlanRecord
  <2>4. ASSUME ReconcileFactors(i) PROVE plan'[q].target = plan[q].target
    <3>1. \/ plan' = plan
          \/ \E h : plan' = [plan EXCEPT ![proc[i].plan].history = h]
      BY <2>4 DEF ReconcileFactors
    <3>2. ASSUME NEW h, plan' = [plan EXCEPT ![proc[i].plan].history = h]
          PROVE  plan'[q].target = plan[q].target
      <4>1. plan[q] \in PlanRecord
        BY <1>1
      <4>2. plan'[q] = plan[q] \/ plan'[q] = [plan[q] EXCEPT !.history = h]
        BY <1>1, <3>2
      <4>3. [plan[q] EXCEPT !.history = h].target = plan[q].target
        BY <4>1 DEF PlanRecord
      <4> QED BY <4>2, <4>3
    <3> QED BY <3>1, <3>2
  <2> QED BY <1>6, <2>1, <2>2, <2>3, <2>4 DEF Fetch
<1>7. ASSUME NEW i \in Proc, Promote(i) PROVE plan' = plan
  <2>1. ASSUME NEW t \in Part, SkipWrite(i, t) \/ WriteData(i, t) \/ WriteManifest(i, t) PROVE plan' = plan
    BY <2>1 DEF SkipWrite, WriteData, WriteManifest
  <2>2. ASSUME PromoteRefused(i) \/ BeginPromote(i) \/ WritePending(i) \/ WriteIndex(i) PROVE plan' = plan
    BY <2>2 DEF PromoteRefused, BeginPromote, WritePending, WriteIndex
  <2>3. ASSUME EndPromote(i) \/ ValidateRaw(i) \/ ValidationFailed(i) PROVE plan' = plan
    BY <2>3 DEF EndPromote, ValidateRaw, ValidationFailed
  <2> QED BY <1>7, <2>1, <2>2, <2>3 DEF Promote
<1>8. ASSUME NEW i \in Proc, Publish(i) PROVE plan'[q].target = plan[q].target
  <2>1. ASSUME BehindRefused(i) \/ EnterPublish(i) \/ ExtendedSync(i) \/ PitCurrent(i) PROVE plan' = plan
    BY <2>1 DEF BehindRefused, EnterPublish, ExtendedSync, PitCurrent
  <2>2. ASSUME PitRebuild(i) \/ PitRecord(i) \/ PitPending(i) \/ PitFinish(i) \/ FreshnessGate(i)
        PROVE  plan' = plan
    BY <2>2 DEF PitRebuild, PitRecord, PitPending, PitFinish, FreshnessGate
  <2>3. ASSUME BuildCurated(i) \/ SwitchAlias(i) \/ ClearPending(i) \/ FinishPublish(i) \/ Applied(i)
        PROVE  plan' = plan
    BY <2>3 DEF BuildCurated, SwitchAlias, ClearPending, FinishPublish, Applied
  <2>4. ASSUME ClosePlan(i) PROVE plan'[q].target = plan[q].target
    BY <1>1, <2>4 DEF ClosePlan, PlanRecord
  <2> QED BY <1>8, <2>1, <2>2, <2>3, <2>4 DEF Publish
<1> QED BY <1>2, <1>3, <1>4, <1>5, <1>6, <1>7, <1>8 DEF Next, Work

(***************************************************************************)
(* The synchronisation implements the module Publication: the initial      *)
(* alias is an initial state of it, a step that switches the alias is a    *)
(* Publish, one that creates a plan is an Aim, and every other step, a     *)
(* failure or a kill included, is a stutter.                               *)
(***************************************************************************)
THEOREM PublicationImplemented == Spec => ImplementsPublication
<1> DEFINE target == [q \in Plan |-> plan[q].target]
<1>1. Init => Alias!Init
  <2> SUFFICES ASSUME Init PROVE Alias!Init
    OBVIOUS
  <2>1. active.owner = NoOne /\ active.end = 1 /\ \A q \in Plan : target[q] = 1
    BY DEF Init
  <2>2. 1 \in 1 .. LastDate /\ 1 \in 0 .. LastDate
    BY DateAssumption
  <2> QED BY <2>1, <2>2 DEF Alias!Init
<1>2. IInv /\ [Next]_vars =>
          [Alias!Next]_<<active.owner, active.end, [p \in Plan |-> plan[p].target]>>
  <2> SUFFICES ASSUME IInv, [Next]_vars
               PROVE  \/ Alias!Next
                      \/ active'.owner = active.owner /\ active'.end = active.end /\ target' = target
    OBVIOUS
  <2>1. CASE active' # active
    BY <2>1, AliasWriter, SwitchPublishes
  <2>2. CASE active' = active /\ \E p \in Plan, d \in Date : CreatePlan(p, d)
    <3>1. PICK p \in Plan, d \in Date : CreatePlan(p, d)
      BY <2>2
    <3>2. plan \in [Plan -> PlanRecord]
      BY DEF IInv, Types, TypeOK
    <3>3. target' = [target EXCEPT ![p] = d]
      BY <3>1, <3>2 DEF CreatePlan, PlanRecord
    <3>4. Alias!Aim(p)
      BY <2>2, <3>3 DEF Alias!Aim, Date
    <3> QED BY <3>4 DEF Alias!Next
  <2>3. CASE active' = active /\ \A p \in Plan, d \in Date : ~CreatePlan(p, d)
    <3>1. \A q \in Plan : plan'[q].target = plan[q].target
      BY <2>3, TargetWriter DEF IInv
    <3> QED BY <2>3, <3>1
  <2> QED BY <2>1, <2>2, <2>3
<1> QED BY <1>1, <1>2, IInvHolds, PTL DEF Spec, ImplementsPublication, Alias!Spec

-----------------------------------------------------------------------------
(***************************************************************************)
(* Only validated data is published.  What a promotion is about to write   *)
(* was validated when it began, and nobody stages for its plan before it   *)
(* ends; so Bronze never holds a required partition that fails the gates,  *)
(* and neither do the curated days and the alias built from it.            *)
(***************************************************************************)
GoodImages(images) == \A d \in Date, e \in Required : images[d].raw[e] \notin BadVersions
GoodBronze == \A e \in Required, d \in Date : bronze[<<e, d>>].data \notin BadVersions
GoodDisk == GoodBronze /\ GoodImages(curated) /\ GoodImages(active.content)

Writing(i) == proc[i].at \in {"write_data", "write_manifest"}
GoodTodo(i) ==
    Writing(i) => \A t \in proc[i].todo :
                      t[1] \in Required => stage[proc[i].plan][t].ver \notin BadVersions

Validated == GoodDisk /\ \A i \in Proc : GoodTodo(i)

LEMMA InitValidated == Init => Validated
<1> SUFFICES ASSUME Init PROVE Validated
  OBVIOUS
<1>1. 0 \notin BadVersions /\ 1 \notin BadVersions
  BY BoundAssumption
<1>2. \A t \in Part : remote[t] \notin BadVersions
  BY <1>1 DEF Init
<1>3. GoodBronze
  BY <1>1, <1>2 DEF Init, GoodBronze, Part, Endpoint
<1>4. GoodImages(curated)
  <2> SUFFICES ASSUME NEW d \in Date, NEW e \in Required PROVE curated[d].raw[e] \notin BadVersions
    BY DEF GoodImages
  <2>1. e \in Endpoint /\ <<e, 1>> \in Part
    BY DateAssumption DEF Part, Endpoint, Date
  <2>2. CASE d = 1
    BY <1>2, <2>1, <2>2 DEF Init, NoImage
  <2>3. CASE d # 1
    BY <1>1, <2>1, <2>3 DEF Init, NoImage
  <2> QED BY <2>2, <2>3
<1>5. active.content = curated /\ \A i \in Proc : ~Writing(i)
  BY DEF Init, Idle, Writing
<1> QED BY <1>3, <1>4, <1>5 DEF Validated, GoodDisk, GoodTodo

(* The one working process moves: the others write nothing. *)
LEMMA WorkStaysGood ==
    ASSUME IInv, NEW i \in Proc, Working(i), \A j \in Proc \ {i} : proc'[j] = proc[j],
           GoodDisk', GoodTodo(i)'
    PROVE  Validated'
<1>1. ASSUME NEW j \in Proc \ {i} PROVE ~Writing(j)'
  BY DEF IInv, OneWorker, Working, Writing
<1> QED BY <1>1 DEF Validated, GoodTodo

(* What a process gets to write is what it already had to write. *)
NothingToWrite(j) ==
    Writing(j)' => /\ Writing(j) /\ proc'[j].plan = proc[j].plan
                   /\ proc'[j].todo \subseteq proc[j].todo

LEMMA QuietStaysGood ==
    ASSUME Validated, UNCHANGED <<bronze, curated, active, stage>>,
           \A j \in Proc : NothingToWrite(j)
    PROVE  Validated'
BY DEF Validated, GoodDisk, GoodBronze, GoodImages, GoodTodo, NothingToWrite

LEMMA GotoQuiet ==
    ASSUME Types, NEW i \in Proc, NEW x \in Point \ {"write_data", "write_manifest"}, Goto(i, x)
    PROVE  \A j \in Proc : NothingToWrite(j)
BY DEF Types, TypeOK, ProcRecord, Goto, NothingToWrite, Writing

LEMMA GiveUpQuiet ==
    ASSUME Types, NEW i \in Proc, proc' = [proc EXCEPT ![i] = Idle]
    PROVE  \A j \in Proc : NothingToWrite(j)
BY DEF Types, TypeOK, Idle, NothingToWrite, Writing

LEMMA StillQuiet ==
    ASSUME proc' = proc
    PROVE  \A j \in Proc : NothingToWrite(j)
BY DEF NothingToWrite, Writing

(* The staging steps: only the plan of the working process, which is not writing. *)
LEMMA FetchStaysGood ==
    ASSUME IInv, Validated, NEW i \in Proc, Fetch(i)
    PROVE  Validated'
<1> USE DEF disk, counters, At
<1>1. Types
  BY DEF IInv
<1>2. ASSUME NEW t \in Part, FetchPartition(i, t) PROVE Validated'
  <2>1. Working(i) /\ proc' = proc /\ ~Writing(i)'
    BY <1>2 DEF FetchPartition, NextToFetch, Working, Writing
  <2>2. GoodDisk'
    BY <1>2 DEF FetchPartition, Validated, GoodDisk, GoodBronze, GoodImages
  <2> QED BY <2>1, <2>2, WorkStaysGood DEF GoodTodo
<1>3. ASSUME NEW t \in Part, FetchUnavailable(i, t) PROVE Validated'
  <2>1. \A j \in Proc : NothingToWrite(j)
    BY <1>1, <1>3 DEF FetchUnavailable, NextToFetch, NothingToWrite, Writing, Types, TypeOK, ProcRecord
  <2> QED BY <1>3, <2>1, QuietStaysGood DEF FetchUnavailable
<1>4. ASSUME FetchRejected(i) PROVE Validated'
  BY <1>1, <1>4, GiveUpQuiet, QuietStaysGood DEF FetchRejected, Abort
<1>5. ASSUME FetchDone(i) PROVE Validated'
  BY <1>1, <1>5, GotoQuiet, QuietStaysGood DEF FetchDone, Point
<1>6. ASSUME ReconcileFactors(i) PROVE Validated'
  <2>1. \A j \in Proc : NothingToWrite(j)
    BY <1>1, <1>6 DEF ReconcileFactors, NothingToWrite, Writing, Types, TypeOK, ProcRecord
  <2> QED BY <1>6, <2>1, QuietStaysGood DEF ReconcileFactors
<1>7. ASSUME NEW t \in Part, StageRepair(i, t) PROVE Validated'
  <2>1. Working(i) /\ proc' = proc /\ ~Writing(i)'
    BY <1>7 DEF StageRepair, Working, Writing
  <2>2. GoodDisk'
    BY <1>7 DEF StageRepair, Validated, GoodDisk, GoodBronze, GoodImages
  <2> QED BY <2>1, <2>2, WorkStaysGood DEF GoodTodo
<1>10. ASSUME RepairsStaged(i) PROVE Validated'
  BY <1>1, <1>10, GotoQuiet, QuietStaysGood DEF RepairsStaged, Point
<1>8. ASSUME SaveRepairs(i) PROVE Validated'
  <2>1. \A j \in Proc : NothingToWrite(j)
    BY <1>1, <1>8 DEF SaveRepairs, NothingToWrite, Writing, Types, TypeOK, ProcRecord
  <2> QED BY <1>8, <2>1, QuietStaysGood DEF SaveRepairs
<1>9. ASSUME EndReconcile(i) PROVE Validated'
  BY <1>1, <1>9, GotoQuiet, QuietStaysGood DEF EndReconcile, Point
<1> QED BY <1>2, <1>3, <1>4, <1>5, <1>6, <1>7, <1>8, <1>9, <1>10 DEF Fetch


(* Promotion: the gate, and then the partitions that passed it. *)
LEMMA PromoteStaysGood ==
    ASSUME IInv, Validated, NEW i \in Proc, Promote(i)
    PROVE  Validated'
<1> USE DEF disk, counters, At
<1>1. Types
  BY DEF IInv
<1>2. ASSUME PromoteRefused(i) PROVE Validated'
  BY <1>1, <1>2, GiveUpQuiet, QuietStaysGood DEF PromoteRefused, Abort
<1>3. ASSUME BeginPromote(i) PROVE Validated'
  <2> DEFINE p == proc[i].plan
  <2>1. Working(i) /\ \A j \in Proc \ {i} : proc'[j] = proc[j]
    BY <1>1, <1>3 DEF BeginPromote, Working, Types, TypeOK
  <2>2. proc'[i].plan = p /\ proc'[i].todo = Differing(p) /\ stage' = stage
    BY <1>1, <1>3 DEF BeginPromote, Types, TypeOK, ProcRecord
  <2>3. ASSUME NEW t \in Targets(p), t[1] \in Required PROVE stage[p][t].ver \notin BadVersions
    <3>1. p \in Plan /\ plan[p] \in PlanRecord
      BY <1>1, <2>1, BusyReads DEF Working, Busy
    <3>2. t \in Part /\ Staged(p, t)
      BY <3>1, EndpointAssumption DEF Targets, Promised, PlanRecord, Part, Endpoint
    <3>3. t = <<t[1], t[2]>> /\ ValidDay(p, t[2])
      BY <1>3, <3>2 DEF BeginPromote, Promotable, Part
    <3> QED BY <2>3, <3>2, <3>3 DEF ValidDay, Overlay
  <2>4. GoodTodo(i)'
    BY <2>2, <2>3 DEF GoodTodo, Differing
  <2>5. GoodDisk'
    BY <1>3 DEF BeginPromote, Validated, GoodDisk, GoodBronze, GoodImages
  <2> QED BY <2>1, <2>4, <2>5, WorkStaysGood
<1>4. ASSUME NEW t \in Part, SkipWrite(i, t) PROVE Validated'
  <2>1. \A j \in Proc : NothingToWrite(j)
    BY <1>1, <1>4 DEF SkipWrite, NothingToWrite, Writing, Types, TypeOK, ProcRecord
  <2> QED BY <1>4, <2>1, QuietStaysGood DEF SkipWrite
<1>5. ASSUME NEW t \in Part, WriteData(i, t) PROVE Validated'
  <2>1. Working(i) /\ Writing(i) /\ stage' = stage
    BY <1>5 DEF WriteData, Working, Writing
  <2>2. /\ \A j \in Proc \ {i} : proc'[j] = proc[j]
        /\ proc'[i].plan = proc[i].plan /\ proc'[i].todo = proc[i].todo
    BY <1>1, <1>5 DEF WriteData, Goto, Types, TypeOK, ProcRecord
  <2>3. GoodTodo(i)'
    BY <2>1, <2>2 DEF Validated, GoodTodo
  <2>4. t[1] \in Required => stage[proc[i].plan][t].ver \notin BadVersions
    BY <1>5, <2>1 DEF WriteData, Validated, GoodTodo
  <2>5. GoodBronze'
    <3> SUFFICES ASSUME NEW e \in Required, NEW d \in Date
                 PROVE  bronze'[<<e, d>>].data \notin BadVersions
      BY DEF GoodBronze
    <3>1. <<e, d>> \in Part /\ bronze[<<e, d>>].data \notin BadVersions
      BY DEF Part, Endpoint, Validated, GoodDisk, GoodBronze
    <3>2. CASE t = <<e, d>>
      BY <1>1, <1>5, <2>4, <3>1, <3>2 DEF WriteData, Types, TypeOK
    <3>3. CASE t # <<e, d>>
      BY <1>1, <1>5, <3>1, <3>3 DEF WriteData, Types, TypeOK
    <3> QED BY <3>2, <3>3
  <2>6. GoodDisk'
    BY <1>5, <2>5 DEF WriteData, Validated, GoodDisk, GoodImages
  <2> QED BY <2>1, <2>2, <2>3, <2>6, WorkStaysGood
<1>6. ASSUME NEW t \in Part, WriteManifest(i, t) PROVE Validated'
  <2>1. Working(i) /\ Writing(i) /\ stage' = stage
    BY <1>6 DEF WriteManifest, Working, Writing
  <2>2. /\ \A j \in Proc \ {i} : proc'[j] = proc[j]
        /\ proc'[i].plan = proc[i].plan /\ proc'[i].todo \subseteq proc[i].todo
    BY <1>1, <1>6 DEF WriteManifest, Types, TypeOK, ProcRecord
  <2>3. GoodTodo(i)'
    BY <2>1, <2>2 DEF Validated, GoodTodo
  <2>4. \A u \in Part : bronze'[u].data = bronze[u].data
    BY <1>1, <1>6 DEF WriteManifest, Types, TypeOK
  <2>5. GoodBronze'
    BY <2>4 DEF Validated, GoodDisk, GoodBronze, Part, Endpoint
  <2>6. GoodDisk'
    BY <1>6, <2>5 DEF WriteManifest, Validated, GoodDisk, GoodImages
  <2> QED BY <2>1, <2>2, <2>3, <2>6, WorkStaysGood
<1>7. ASSUME WritePending(i) PROVE Validated'
  <2>1. \A j \in Proc : NothingToWrite(j)
    BY <1>1, <1>7 DEF WritePending, NothingToWrite, Writing, Types, TypeOK, ProcRecord
  <2> QED BY <1>7, <2>1, QuietStaysGood DEF WritePending
<1>8. ASSUME WriteIndex(i) PROVE Validated'
  BY <1>1, <1>8, GotoQuiet, QuietStaysGood DEF WriteIndex, Point
<1>9. ASSUME EndPromote(i) PROVE Validated'
  BY <1>1, <1>9, GotoQuiet, QuietStaysGood DEF EndPromote, Point
<1>10. ASSUME ValidateRaw(i) PROVE Validated'
  BY <1>1, <1>10, GotoQuiet, QuietStaysGood DEF ValidateRaw, Point
<1>11. ASSUME ValidationFailed(i) PROVE Validated'
  BY <1>1, <1>11, GiveUpQuiet, QuietStaysGood DEF ValidationFailed, Abort
<1> QED BY <1>2, <1>3, <1>4, <1>5, <1>6, <1>7, <1>8, <1>9, <1>10, <1>11 DEF Promote

(* The steps of _extended_and_publish that touch neither the curated days nor the alias. *)
LEMMA LedgerStaysGood ==
    ASSUME Types, Validated, NEW i \in Proc, Publish(i), ~BuildCurated(i), ~SwitchAlias(i)
    PROVE  Validated'
<1> USE DEF disk, counters, At
<1>1. ASSUME BehindRefused(i) PROVE Validated'
  BY <1>1, GiveUpQuiet, QuietStaysGood DEF BehindRefused, Abort
<1>2. ASSUME EnterPublish(i) PROVE Validated'
  <2> DEFINE p == proc[i].plan
             x == IF HasReceipt(p) THEN "clear_pending"
                  ELSE IF apply[p].next = "finished" THEN "applied" ELSE apply[p].next
  <2>1. apply[p].next \in Step
    BY <1>2, BusyReads DEF EnterPublish, Busy, ApplyRecord
  <2>2. x \in Point \ {"write_data", "write_manifest"}
    BY <2>1 DEF Step, Point
  <2>3. Goto(i, x) /\ UNCHANGED <<bronze, curated, active, stage>>
    BY <1>2 DEF EnterPublish
  <2> HIDE DEF x
  <2> QED BY <2>2, <2>3, GotoQuiet, QuietStaysGood
<1>3. ASSUME ExtendedSync(i) PROVE Validated'
  BY <1>3, GotoQuiet, QuietStaysGood DEF ExtendedSync, Point
<1>4. ASSUME PitCurrent(i) PROVE Validated'
  BY <1>4, GotoQuiet, QuietStaysGood DEF PitCurrent, Point
<1>5. ASSUME PitRebuild(i) PROVE Validated'
  <2>1. \A j \in Proc : NothingToWrite(j)
    BY <1>5 DEF PitRebuild, NothingToWrite, Writing, Types, TypeOK, ProcRecord
  <2> QED BY <1>5, <2>1, QuietStaysGood DEF PitRebuild
<1>6. ASSUME PitRecord(i) PROVE Validated'
  <2>1. proc'[i].at = "pit_pending" /\ \A j \in Proc \ {i} : proc'[j] = proc[j]
    BY <1>6 DEF PitRecord, Types, TypeOK, ProcRecord
  <2>2. \A j \in Proc : NothingToWrite(j)
    BY <2>1 DEF NothingToWrite, Writing
  <2> QED BY <1>6, <2>2, QuietStaysGood DEF PitRecord
<1>7. ASSUME PitPending(i) PROVE Validated'
  BY <1>7, GotoQuiet, QuietStaysGood DEF PitPending, Point
<1>8. ASSUME PitFinish(i) \/ FreshnessGate(i) PROVE Validated'
  BY <1>8, GotoQuiet, QuietStaysGood DEF PitFinish, FreshnessGate, Point
<1>9. ASSUME ClearPending(i) \/ FinishPublish(i) \/ Applied(i) PROVE Validated'
  BY <1>9, GotoQuiet, QuietStaysGood DEF ClearPending, FinishPublish, Applied, Point
<1>10. ASSUME ClosePlan(i) PROVE Validated'
  BY <1>10, GiveUpQuiet, QuietStaysGood DEF ClosePlan
<1> QED BY <1>1, <1>2, <1>3, <1>4, <1>5, <1>6, <1>7, <1>8, <1>9, <1>10 DEF Publish

(* The curated days are built from Bronze, and the alias from the curated days. *)
LEMMA PublishStaysGood ==
    ASSUME IInv, Validated, NEW i \in Proc, Publish(i)
    PROVE  Validated'
<1>1. ASSUME BuildCurated(i) PROVE Validated'
  <2>1. GoodImages(curated)'
    <3> SUFFICES ASSUME NEW d \in Date, NEW e \in Required PROVE curated'[d].raw[e] \notin BadVersions
      BY DEF GoodImages
    <3>1. curated'[d] = Source(d) \/ curated'[d] = curated[d]
      BY <1>1 DEF BuildCurated
    <3>2. Source(d).raw[e] \notin BadVersions /\ curated[d].raw[e] \notin BadVersions
      BY DEF Source, Endpoint, Validated, GoodDisk, GoodBronze, GoodImages
    <3> QED BY <3>1, <3>2
  <2>2. GoodDisk'
    BY <1>1, <2>1 DEF BuildCurated, Validated, GoodDisk, GoodBronze, GoodImages
  <2>3. PICK x \in {"switch_alias", "clear_pending"} : Goto(i, x)
    BY <1>1 DEF BuildCurated
  <2>4. Working(i) /\ Advances(i, x)
    BY <1>1, <2>3, GotoAdvances DEF BuildCurated, At, Working, IInv
  <2>5. GoodTodo(i)'
    BY <2>4 DEF Advances, GoodTodo, Writing
  <2> QED BY <2>2, <2>4, <2>5, WorkStaysGood DEF Advances
<1>2. ASSUME SwitchAlias(i) PROVE Validated'
  <2>1. GoodImages(active.content)'
    <3> SUFFICES ASSUME NEW d \in Date, NEW e \in Required
                 PROVE  active'.content[d].raw[e] \notin BadVersions
      BY DEF GoodImages
    <3>1. active'.content[d] = curated[d] \/ active'.content[d] = active.content[d]
      BY <1>2 DEF SwitchAlias
    <3> QED BY <3>1 DEF Validated, GoodDisk, GoodImages
  <2>2. GoodDisk'
    BY <1>2, <2>1 DEF SwitchAlias, Validated, GoodDisk, GoodBronze, GoodImages
  <2>3. Working(i) /\ Advances(i, "clear_pending")
    BY <1>2, GotoAdvances DEF SwitchAlias, At, Working, IInv
  <2>4. GoodTodo(i)'
    BY <2>3 DEF Advances, GoodTodo, Writing
  <2> QED BY <2>2, <2>3, <2>4, WorkStaysGood DEF Advances
<1> QED BY <1>1, <1>2, LedgerStaysGood DEF IInv

(* The provider, the creation of plans, the steps around the lock, failures and kills. *)
LEMMA PlanStaysGood ==
    ASSUME Types, Validated
    PROVE  /\ \A t \in Part : Revise(t) => Validated'
           /\ \A p \in Plan, d \in Date : CreatePlan(p, d) => Validated'
           /\ \A i \in Proc, p \in Plan : Preflight(i, p) => Validated'
           /\ \A i \in Proc : Refused(i) \/ Lock(i) \/ Fail(i) \/ Kill(i) => Validated'
<1> USE DEF disk, counters
<1>1. ASSUME NEW t \in Part, Revise(t) PROVE Validated'
  BY <1>1, StillQuiet, QuietStaysGood DEF Revise
<1>2. ASSUME NEW p \in Plan, NEW d \in Date, CreatePlan(p, d) PROVE Validated'
  BY <1>2, StillQuiet, QuietStaysGood DEF CreatePlan
<1>3. ASSUME NEW i \in Proc, NEW p \in Plan, Preflight(i, p) PROVE Validated'
  <2>1. \A j \in Proc : NothingToWrite(j)
    BY <1>3 DEF Preflight, NothingToWrite, Writing, Types, TypeOK, ProcRecord
  <2> QED BY <1>3, <2>1, QuietStaysGood DEF Preflight
<1>4. ASSUME NEW i \in Proc, Refused(i) PROVE Validated'
  BY <1>4, GiveUpQuiet, QuietStaysGood DEF Refused
<1>5. ASSUME NEW i \in Proc, Lock(i) PROVE Validated'
  <2> DEFINE a == ResumeAt(apply[proc[i].plan].next)
             c == apply[proc[i].plan].ctx
  <2>1. a \notin {"write_data", "write_manifest"}
    BY DEF ResumeAt, BeforePromote
  <2>2. proc' = [proc EXCEPT ![i] = [proc[i] EXCEPT !.at = a, !.ctx = c]]
    BY <1>5 DEF Lock, Types, TypeOK
  <2> HIDE DEF a, c
  <2>3. \A j \in Proc : NothingToWrite(j)
    BY <2>1, <2>2 DEF NothingToWrite, Writing, Types, TypeOK, ProcRecord
  <2> QED BY <1>5, <2>3, QuietStaysGood DEF Lock
<1>6. ASSUME NEW i \in Proc, Fail(i) \/ Kill(i) PROVE Validated'
  BY <1>6, GiveUpQuiet, QuietStaysGood DEF Fail, Abort, Kill
<1> QED BY <1>1, <1>2, <1>3, <1>4, <1>5, <1>6

LEMMA NextValidated == IInv /\ Validated /\ [Next]_vars => Validated'
<1> SUFFICES ASSUME IInv, Validated, [Next]_vars PROVE Validated'
  OBVIOUS
<1>1. Types
  BY DEF IInv
<1>2. CASE UNCHANGED vars
  BY <1>2, StillQuiet, QuietStaysGood DEF vars, disk
<1>3. ASSUME NEW i \in Proc, Work(i) PROVE Validated'
  BY <1>1, <1>3, PlanStaysGood, FetchStaysGood, PromoteStaysGood, PublishStaysGood DEF Work
<1> QED BY <1>1, <1>2, <1>3, PlanStaysGood DEF Next

(***************************************************************************)
(* A required partition that fails the gates of its day is never published *)
(* (_promote_staged_raw validates before it writes): although the day is   *)
(* validated before the first write and the writes may be cut short by a   *)
(* kill and resumed, Bronze only ever receives what was validated.         *)
(***************************************************************************)
THEOREM OnlyValidatedPublished == Spec => []OnlyValidated
<1>1. Validated => OnlyValidated
  BY DEF Validated, GoodDisk, GoodImages, OnlyValidated
<1> QED BY <1>1, InitValidated, NextValidated, IInvHolds, PTL DEF Spec

-----------------------------------------------------------------------------
(***************************************************************************)
(* Staging and promotion.  The ledger says whether a plan is still being   *)
(* opened (fetched and reconciled); most steps are calm: they touch        *)
(* neither Bronze, nor the index, nor what is staged, and begin no repair  *)
(* and no write.                                                           *)
(***************************************************************************)
Opening == {"market_fetch", "factor_reconcile"}
OpeningPoints == Opening \cup {"stage_repairs", "save_repairs", "end_reconcile"}
WritePoints == {"write_data", "write_manifest", "write_index"}
Ledger(i) ==
    Working(i) => (proc[i].at \in OpeningPoints <=> apply[proc[i].plan].next \in Opening)
Ledgers == \A i \in Proc : Ledger(i)

(* Where giving up leaves a data file without its manifest: only a kill does. *)
Inside == {"write_manifest"}

SameOpening == \A q \in Plan : apply'[q].next \in Opening <=> apply[q].next \in Opening
SamePromotion == \A q \in Plan : apply'[q].promotion = apply[q].promotion

Calm(i) ==
    /\ Busy(i) /\ UNCHANGED <<remote, bronze, stage, plan, index>>
    /\ SameOpening /\ SamePromotion
    /\ \A j \in Proc \ {i} : proc'[j] = proc[j]
    /\ \/ proc'[i].at = "idle"
       \/ /\ proc'[i].plan = proc[i].plan
          /\ proc'[i].at \notin (OpeningPoints \ Opening) \cup WritePoints
    /\ Ledger(i)'
    /\ torn \subseteq torn'
    /\ proc[i].at \in Inside => \A t \in Part : Torn(t) => t \in torn'

LEMMA BusyLedger ==
    ASSUME IInv, Ledgers, NEW i \in Proc, Working(i)
    PROVE  /\ Busy(i) /\ Types /\ proc[i].plan \in Plan /\ apply[proc[i].plan] \in ApplyRecord
           /\ proc[i].at \in OpeningPoints <=> apply[proc[i].plan].next \in Opening
BY BusyReads DEF IInv, Ledgers, Ledger, Working, Busy

LEMMA AbortCalm ==
    ASSUME Types, NEW i \in Proc, Busy(i), proc[i].at \notin Inside, Abort(i),
           UNCHANGED <<remote, bronze, stage, plan, index, torn>>
    PROVE  Calm(i)
<1>1. SameOpening /\ SamePromotion
  <2> DEFINE p == proc[i].plan
             r == [apply[p] EXCEPT !.status = "FAILED", !.ctx = proc[i].ctx]
  <2>1. p \in Plan /\ apply \in [Plan -> ApplyRecord]
    BY BusyReads DEF Types, TypeOK
  <2>2. apply' = [apply EXCEPT ![p] = r]
    BY <2>1 DEF Abort
  <2>3. r.next = apply[p].next /\ r.promotion = apply[p].promotion
    BY <2>1 DEF ApplyRecord
  <2> HIDE DEF r
  <2>4. \A q \in Plan : apply'[q].next = apply[q].next /\ apply'[q].promotion = apply[q].promotion
    BY <2>1, <2>2, <2>3
  <2> QED BY <2>4 DEF SameOpening, SamePromotion
<1>2. proc'[i].at = "idle" /\ \A j \in Proc \ {i} : proc'[j] = proc[j]
  BY DEF Abort, Idle, Types, TypeOK
<1> QED BY <1>1, <1>2 DEF Calm, Ledger, Working

(* Moving on, with the ledger as it is. *)
LEMMA GotoCalm ==
    ASSUME IInv, Ledgers, NEW i \in Proc, Working(i), proc[i].at \notin Inside,
           NEW x, Advances(i, x), x \notin (OpeningPoints \ Opening) \cup WritePoints,
           x \in OpeningPoints <=> proc[i].at \in OpeningPoints,
           UNCHANGED <<remote, bronze, stage, plan, index, apply, torn>>
    PROVE  Calm(i)
<1>1. Ledger(i)'
  BY BusyLedger DEF Ledger, Advances
<1> QED BY <1>1, BusyLedger DEF Calm, Advances, SameOpening, SamePromotion

LEMMA FinishFields ==
    ASSUME Types, NEW i \in Proc, Busy(i), NEW s, NEW c, Finish(i, s, c)
    PROVE  SamePromotion
<1> DEFINE p == proc[i].plan
<1>1. p \in Plan /\ apply \in [Plan -> ApplyRecord]
  BY BusyReads DEF Types, TypeOK
<1>2. apply' = [apply EXCEPT ![p] = [apply[p] EXCEPT !.next = s, !.ctx = c]]
  BY <1>1 DEF Finish
<1>3. [apply[p] EXCEPT !.next = s, !.ctx = c].promotion = apply[p].promotion
  BY <1>1 DEF ApplyRecord
<1> QED BY <1>1, <1>2, <1>3 DEF SamePromotion

(* Finishing a step of the ledger on the same side of the promotion. *)
LEMMA FinishCalm ==
    ASSUME IInv, Ledgers, NEW i \in Proc, Working(i), proc[i].at \notin Inside,
           NEW s, NEW x, NEW c, Goto(i, x), Finish(i, s, c),
           x \notin (OpeningPoints \ Opening) \cup WritePoints,
           x \in OpeningPoints <=> proc[i].at \in OpeningPoints,
           s \in Opening <=> proc[i].at \in OpeningPoints,
           UNCHANGED <<remote, bronze, stage, plan, index, torn>>
    PROVE  Calm(i)
<1>1. Advances(i, x) /\ Records(i, s) /\ SamePromotion
  BY BusyLedger, GotoAdvances, FinishRecords, FinishFields
<1>2. SameOpening
  BY <1>1, BusyLedger DEF SameOpening, Records
<1>3. Ledger(i)'
  BY <1>1 DEF Ledger, Advances, Records
<1> QED BY <1>1, <1>2, <1>3, BusyLedger DEF Calm, Advances

LEMMA FetchCalm ==
    ASSUME IInv, Ledgers, NEW i \in Proc,
           \/ \E t \in Part : FetchUnavailable(i, t)
           \/ FetchRejected(i) \/ FetchDone(i)
    PROVE  Calm(i)
<1> USE DEF disk, counters, At
<1>1. ASSUME NEW t \in Part, FetchUnavailable(i, t) PROVE Calm(i)
  <2>1. proc[i].at = "market_fetch" /\ Working(i)
    BY <1>1 DEF FetchUnavailable, NextToFetch, Working
  <2>2. Advances(i, "market_fetch")
    BY <1>1, <2>1 DEF FetchUnavailable, Advances, IInv, Types, TypeOK, ProcRecord
  <2> QED BY <1>1, <2>1, <2>2, GotoCalm DEF FetchUnavailable, Inside, Opening, OpeningPoints, WritePoints
<1>2. ASSUME FetchRejected(i) PROVE Calm(i)
  BY <1>2, AbortCalm DEF FetchRejected, Busy, Inside, IInv
<1>3. ASSUME FetchDone(i) PROVE Calm(i)
  <2>1. /\ proc[i].at = "market_fetch" /\ Working(i)
        /\ Goto(i, "factor_reconcile") /\ Finish(i, "factor_reconcile", proc[i].ctx)
    BY <1>3 DEF FetchDone, Working
  <2> QED BY <1>3, <2>1, FinishCalm DEF FetchDone, Inside, Opening, OpeningPoints, WritePoints
<1> QED BY <1>1, <1>2, <1>3

LEMMA PromoteCalm ==
    ASSUME IInv, Ledgers, NEW i \in Proc,
           PromoteRefused(i) \/ EndPromote(i) \/ ValidateRaw(i) \/ ValidationFailed(i)
    PROVE  Calm(i)
<1> USE DEF disk, counters, At
<1>1. ASSUME PromoteRefused(i) PROVE Calm(i)
  BY <1>1, AbortCalm DEF PromoteRefused, Busy, Inside, IInv
<1>2. ASSUME EndPromote(i) PROVE Calm(i)
  <2>1. /\ proc[i].at = "end_promote" /\ Working(i)
        /\ Goto(i, "raw_validate") /\ Finish(i, "raw_validate", proc[i].ctx)
    BY <1>2 DEF EndPromote, Working
  <2> QED BY <1>2, <2>1, FinishCalm DEF EndPromote, Inside, Opening, OpeningPoints, WritePoints
<1>3. ASSUME ValidateRaw(i) PROVE Calm(i)
  <2>1. /\ proc[i].at = "raw_validate" /\ Working(i)
        /\ Goto(i, "enter_publish") /\ Finish(i, "extended_sync", proc[i].ctx)
    BY <1>3 DEF ValidateRaw, Working
  <2> QED BY <1>3, <2>1, FinishCalm DEF ValidateRaw, Inside, Opening, OpeningPoints, WritePoints
<1>4. ASSUME ValidationFailed(i) PROVE Calm(i)
  BY <1>4, AbortCalm DEF ValidationFailed, Busy, Inside, IInv
<1> QED BY <1>1, <1>2, <1>3, <1>4

LEMMA PublishCalm ==
    ASSUME IInv, Ledgers, NEW i \in Proc, Publish(i), ~ClosePlan(i)
    PROVE  Calm(i)
<1> USE DEF disk, counters, At
<1> DEFINE Away(x) == x \notin OpeningPoints \cup WritePoints \cup Inside
<1>g. ASSUME Away(proc[i].at), Working(i), NEW x, Away(x), Advances(i, x),
             UNCHANGED <<remote, bronze, stage, plan, index, apply, torn>>
      PROVE  Calm(i)
  BY <1>g, GotoCalm
<1>f. ASSUME Away(proc[i].at), Working(i), NEW x, Away(x), NEW s, s \notin Opening,
             Goto(i, x), Finish(i, s, proc[i].ctx),
             UNCHANGED <<remote, bronze, stage, plan, index, torn>>
      PROVE  Calm(i)
  BY <1>f, FinishCalm
<1>1. ASSUME BehindRefused(i) PROVE Calm(i)
  BY <1>1, AbortCalm DEF BehindRefused, Busy, Inside, IInv
<1>2. ASSUME EnterPublish(i) PROVE Calm(i)
  <2> DEFINE p == proc[i].plan
             x == IF HasReceipt(p) THEN "clear_pending"
                  ELSE IF apply[p].next = "finished" THEN "applied" ELSE apply[p].next
  <2>1. proc[i].at = "enter_publish" /\ Working(i)
    BY <1>2 DEF EnterPublish, Working
  <2>2. apply[p].next \in Step \ Opening
    BY <2>1, BusyLedger DEF ApplyRecord, OpeningPoints, Opening
  <2>3. Away(x)
    BY <2>2 DEF Step, OpeningPoints, Opening, WritePoints, Inside
  <2>4. Goto(i, x) /\ UNCHANGED <<remote, bronze, stage, plan, index, apply, torn>>
    BY <1>2 DEF EnterPublish
  <2> HIDE DEF x
  <2>5. Advances(i, x)
    BY <2>4, GotoAdvances DEF IInv
  <2>6. Away(proc[i].at)
    BY <2>1 DEF OpeningPoints, Opening, WritePoints, Inside
  <2> QED BY <1>g, <2>1, <2>3, <2>4, <2>5, <2>6
<1>3. ASSUME ExtendedSync(i) PROVE Calm(i)
  BY <1>f, <1>3 DEF ExtendedSync, Working, OpeningPoints, Opening, WritePoints, Inside
<1>4. ASSUME PitCurrent(i) PROVE Calm(i)
  BY <1>g, <1>4, GotoAdvances DEF PitCurrent, Working, OpeningPoints, Opening, WritePoints, Inside, IInv
<1>5. ASSUME PitRebuild(i) PROVE Calm(i)
  <2>1. Advances(i, "pit_state")
    BY <1>5 DEF PitRebuild, Advances, IInv, Types, TypeOK, ProcRecord
  <2> QED BY <1>g, <1>5, <2>1 DEF PitRebuild, Working, OpeningPoints, Opening, WritePoints, Inside
<1>6. ASSUME PitRecord(i) PROVE Calm(i)
  <2>1. Advances(i, "pit_pending")
    BY <1>6 DEF PitRecord, Advances, IInv, Types, TypeOK, ProcRecord
  <2> QED BY <1>g, <1>6, <2>1 DEF PitRecord, Working, OpeningPoints, Opening, WritePoints, Inside
<1>7. ASSUME PitPending(i) PROVE Calm(i)
  BY <1>g, <1>7, GotoAdvances DEF PitPending, Working, OpeningPoints, Opening, WritePoints, Inside, IInv
<1>8. ASSUME PitFinish(i) PROVE Calm(i)
  BY <1>f, <1>8 DEF PitFinish, Working, OpeningPoints, Opening, WritePoints, Inside
<1>9. ASSUME FreshnessGate(i) PROVE Calm(i)
  BY <1>f, <1>9 DEF FreshnessGate, Working, OpeningPoints, Opening, WritePoints, Inside
<1>10. ASSUME BuildCurated(i) PROVE Calm(i)
  <2>1. PICK x \in {"switch_alias", "clear_pending"} : Goto(i, x)
    BY <1>10 DEF BuildCurated
  <2>2. Advances(i, x)
    BY <2>1, GotoAdvances DEF IInv
  <2>3. Away(x)
    BY DEF OpeningPoints, Opening, WritePoints, Inside
  <2> QED BY <1>g, <1>10, <2>2, <2>3 DEF BuildCurated, Working, OpeningPoints, Opening, WritePoints, Inside
<1>11. ASSUME SwitchAlias(i) PROVE Calm(i)
  BY <1>g, <1>11, GotoAdvances DEF SwitchAlias, Working, OpeningPoints, Opening, WritePoints, Inside, IInv
<1>12. ASSUME ClearPending(i) PROVE Calm(i)
  BY <1>g, <1>12, GotoAdvances DEF ClearPending, Working, OpeningPoints, Opening, WritePoints, Inside, IInv
<1>13. ASSUME FinishPublish(i) PROVE Calm(i)
  BY <1>f, <1>13 DEF FinishPublish, Working, OpeningPoints, Opening, WritePoints, Inside
<1>14. ASSUME Applied(i) PROVE Calm(i)
  <2> DEFINE p == proc[i].plan
             r == [apply[p] EXCEPT !.status = "SUCCEEDED"]
  <2>1. Working(i) /\ proc[i].at = "applied" /\ Advances(i, "close_plan")
    BY <1>14, GotoAdvances DEF Applied, Working, IInv
  <2>2. p \in Plan /\ apply \in [Plan -> ApplyRecord]
    BY <2>1, BusyReads DEF IInv, Types, TypeOK, Working, Busy
  <2>3. apply' = [apply EXCEPT ![p] = r]
    BY <1>14, <2>2 DEF Applied
  <2>4. r.next = apply[p].next /\ r.promotion = apply[p].promotion
    BY <2>2 DEF ApplyRecord
  <2> HIDE DEF r
  <2>5. \A q \in Plan : apply'[q].next = apply[q].next /\ apply'[q].promotion = apply[q].promotion
    BY <2>2, <2>3, <2>4
  <2>6. apply[p].next \notin Opening
    BY <2>1, BusyLedger DEF OpeningPoints, Opening
  <2>7. Ledger(i)'
    BY <2>1, <2>2, <2>5, <2>6 DEF Ledger, Advances, OpeningPoints, Opening
  <2> QED BY <1>14, <2>1, <2>5, <2>7, BusyLedger
          DEF Calm, Applied, Advances, SameOpening, SamePromotion, OpeningPoints, Opening, WritePoints, Inside
<1> HIDE DEF Away
<1> QED BY <1>1, <1>2, <1>3, <1>4, <1>5, <1>6, <1>7, <1>8, <1>9, <1>10, <1>11, <1>12, <1>13, <1>14
        DEF Publish

LEMMA LockCalm ==
    ASSUME IInv, Ledgers, NEW i \in Proc, Refused(i) \/ Lock(i) \/ Fail(i) \/ Kill(i)
    PROVE  Calm(i)
<1> USE DEF disk, counters
<1>1. ASSUME proc' = [proc EXCEPT ![i] = Idle], Busy(i), torn \subseteq torn',
             proc[i].at \in Inside => \A t \in Part : Torn(t) => t \in torn',
             UNCHANGED <<remote, bronze, stage, plan, index, apply>>
      PROVE  Calm(i)
  <2>1. proc'[i].at = "idle" /\ \A j \in Proc \ {i} : proc'[j] = proc[j]
    BY <1>1 DEF Idle, IInv, Types, TypeOK
  <2> QED BY <1>1, <2>1 DEF Calm, Ledger, Working, SameOpening, SamePromotion
<1>2. ASSUME Refused(i) PROVE Calm(i)
  BY <1>1, <1>2 DEF Refused, Busy, Inside
<1>3. ASSUME Lock(i) PROVE Calm(i)
  <2> DEFINE p == proc[i].plan
             a == ResumeAt(apply[p].next)
             c == apply[p].ctx
  <2>1. Busy(i) /\ proc[i].at = "preflight"
    BY <1>3 DEF Lock, Busy
  <2>2. p \in Plan /\ apply[p].next \in Step /\ proc[i] \in ProcRecord
    BY <2>1, BusyReads DEF IInv, ApplyRecord
  <2>3. /\ a \in OpeningPoints <=> apply[p].next \in Opening
        /\ a \notin (OpeningPoints \ Opening) \cup WritePoints
    BY <2>2 DEF ResumeAt, BeforePromote, Step, Opening, OpeningPoints, WritePoints
  <2> HIDE DEF a, c
  <2>4. proc' = [proc EXCEPT ![i] = [proc[i] EXCEPT !.at = a, !.ctx = c]]
    BY <1>3 DEF Lock, IInv, Types, TypeOK, a, c
  <2>5. Advances(i, a)
    BY <2>2, <2>4 DEF Advances, IInv, Types, TypeOK, ProcRecord
  <2>6. Ledger(i)'
    BY <1>3, <2>3, <2>5 DEF Lock, Ledger, Advances
  <2> QED BY <1>3, <2>1, <2>3, <2>5, <2>6
          DEF Calm, Lock, Advances, SameOpening, SamePromotion, Inside
<1>4. ASSUME Fail(i) PROVE Calm(i)
  BY <1>4, AbortCalm DEF Fail, MayFail, Busy, Inside, IInv
<1>5. ASSUME Kill(i) PROVE Calm(i)
  <2>1. Busy(i)
    BY <1>5, KillAssumption DEF Kill, Busy
  <2> QED BY <1>1, <1>5, <2>1 DEF Kill, At, Inside
<1> QED BY <1>2, <1>3, <1>4, <1>5

-----------------------------------------------------------------------------
(***************************************************************************)
(* Bronze does not go back.  Nothing is newer than the provider, so what   *)
(* is fetched is at least as new as what it is to replace; only a repair   *)
(* from a kept history may be older.  While a plan writes, each partition  *)
(* it has left still has the content it was staged against, or the one     *)
(* staged.                                                                 *)
(***************************************************************************)
Versions ==
    /\ \A t \in Part : /\ bronze[t].data <= remote[t] /\ bronze[t].man <= remote[t]
                       /\ bronze[t].man # 0 => bronze[t].data # 0
    /\ \A p \in Plan, t \in Part : stage[p][t].ver <= remote[t]
    /\ \A p \in Plan, d \in Date : plan[p].history[d] <= remote[<<Factor, d>>]
Origins ==
    \A p \in Plan, t \in Part :
        Staged(p, t) /\ stage[p][t].ver < stage[p][t].base =>
            t[1] = Factor /\ stage[p][t].ver = plan[p].history[t[2]]
Alone == \A i, j \in Proc : Busy(i) /\ Busy(j) /\ i # j => proc[i].plan # proc[j].plan
StillPlanned(i) == Busy(i) => plan[proc[i].plan].status = "PLANNED"
Repairing(i) ==
    proc[i].at \in {"stage_repairs", "save_repairs"} => proc[i].todo \subseteq {Factor} \X Date
Unmoved(p, t) == Staged(p, t) /\ PartitionHash(t) \in {stage[p][t].base, stage[p][t].ver}
BasesKept(i) ==
    Writing(i) => /\ apply[proc[i].plan].promotion = "begun"
                  /\ \A t \in proc[i].todo : Unmoved(proc[i].plan, t)

Overtaking ==
    /\ Versions /\ Origins /\ Alone /\ Ledgers
    /\ \A i \in Proc : StillPlanned(i) /\ Repairing(i) /\ BasesKept(i)

LEMMA VersionsKept ==
    ASSUME Types, Types', Versions, Origins, UNCHANGED <<bronze, stage>>,
           \A p \in Plan : plan'[p].history = plan[p].history,
           \A t \in Part : remote[t] <= remote'[t]
    PROVE  Versions' /\ Origins'
<1>1. \A t \in Part : /\ remote[t] \in Nat /\ remote'[t] \in Nat
                      /\ bronze[t].data \in Nat /\ bronze[t].man \in Nat
                      /\ \A p \in Plan : stage[p][t].ver \in Nat
  BY BoundAssumption DEF Types, TypeOK, Version, StageRecord
<1>2. \A p \in Plan, d \in Date : plan[p].history[d] \in Nat /\ <<Factor, d>> \in Part
  BY BoundAssumption, EndpointAssumption DEF Types, TypeOK, Version, PlanRecord, Part, Endpoint
<1>3. Origins'
  BY DEF Origins, Staged
<1>4. \A t \in Part : /\ bronze'[t].data <= remote'[t] /\ bronze'[t].man <= remote'[t]
                      /\ bronze'[t].man # 0 => bronze'[t].data # 0
  BY <1>1 DEF Versions
<1>5. \A p \in Plan, t \in Part : stage'[p][t].ver <= remote'[t]
  BY <1>1 DEF Versions
<1>6. \A p \in Plan, d \in Date : plan'[p].history[d] <= remote'[<<Factor, d>>]
  BY <1>1, <1>2 DEF Versions
<1> QED BY <1>3, <1>4, <1>5, <1>6 DEF Versions

(* The working process goes on with its plan: nobody else works. *)
LEMMA WorkerKeeps ==
    ASSUME IInv, Overtaking, NEW i \in Proc, Working(i),
           \A j \in Proc \ {i} : proc'[j] = proc[j], proc'[i].plan = proc[i].plan,
           \A q \in Plan : plan'[q].status = plan[q].status,
           Ledger(i)', Repairing(i)', BasesKept(i)', Versions', Origins'
    PROVE  Overtaking'
<1>1. \A j \in Proc \ {i} : ~Working(j) /\ ~Working(j)'
  BY DEF IInv, OneWorker, Working
<1>2. \A j \in Proc : Ledger(j)' /\ Repairing(j)' /\ BasesKept(j)'
  BY <1>1 DEF Ledger, Repairing, BasesKept, Working, Writing
<1>3. \A j \in Proc : Busy(j)' => Busy(j) /\ proc'[j].plan = proc[j].plan
  BY DEF Working, Busy
<1>4. Alone'
  BY <1>3 DEF Overtaking, Alone
<1>5. \A j \in Proc : StillPlanned(j)'
  <2> SUFFICES ASSUME NEW j \in Proc, Busy(j)' PROVE plan'[proc'[j].plan].status = "PLANNED"
    BY DEF StillPlanned
  <2>1. Busy(j) /\ proc'[j].plan = proc[j].plan
    BY <1>3
  <2>2. proc[j].plan \in Plan
    BY <2>1 DEF IInv, Types, HasPlan
  <2> QED BY <2>1, <2>2 DEF Overtaking, StillPlanned
<1> QED BY <1>2, <1>4, <1>5 DEF Overtaking, Ledgers

LEMMA CalmKeeps ==
    ASSUME IInv, Types', Overtaking, NEW i \in Proc, Calm(i)
    PROVE  Overtaking'
<1>1. /\ Busy(i) /\ UNCHANGED <<remote, bronze, stage, plan, index>> /\ SameOpening /\ SamePromotion
      /\ \A j \in Proc \ {i} : proc'[j] = proc[j]
      /\ Busy(i)' => proc'[i].plan = proc[i].plan
      /\ ~Writing(i)' /\ proc'[i].at \notin {"stage_repairs", "save_repairs"} /\ Ledger(i)'
  BY DEF Calm, Busy, Writing, WritePoints, OpeningPoints, Opening
<1>2. \A j \in Proc : Busy(j)' => Busy(j) /\ proc'[j].plan = proc[j].plan
  BY <1>1 DEF Busy
<1>3. \A j \in Proc : Busy(j) => proc[j].plan \in Plan
  BY DEF IInv, Types, HasPlan
<1>4. Versions' /\ Origins'
  <2>1. \A t \in Part : remote[t] <= remote'[t]
    BY <1>1, BoundAssumption DEF IInv, Types, TypeOK, Version
  <2> QED BY <1>1, <2>1, VersionsKept DEF IInv, Overtaking
<1>5. Alone'
  BY <1>2 DEF Overtaking, Alone
<1>6. ASSUME NEW j \in Proc PROVE Ledger(j)' /\ StillPlanned(j)' /\ Repairing(j)' /\ BasesKept(j)'
  <2>1. StillPlanned(j)'
    BY <1>1, <1>2, <1>3 DEF Overtaking, StillPlanned
  <2>2. CASE j = i
    BY <1>1, <2>1, <2>2 DEF Repairing, BasesKept
  <2>3. CASE j # i
    <3>1. proc'[j] = proc[j] /\ Ledger(j) /\ Repairing(j) /\ BasesKept(j)
      BY <1>1, <2>3 DEF Overtaking, Ledgers
    <3>2. Ledger(j)'
      BY <1>1, <1>3, <3>1 DEF Ledger, Working, Busy, SameOpening
    <3>3. Repairing(j)'
      BY <3>1 DEF Repairing
    <3>4. BasesKept(j)'
      <4>1. \A p \in Plan, t \in Part : Unmoved(p, t)' = Unmoved(p, t)
        BY <1>1 DEF Unmoved, Staged, PartitionHash
      <4>2. proc[j].todo \subseteq Part
        BY DEF IInv, Types, TypeOK, ProcRecord
      <4> QED BY <1>1, <1>3, <3>1, <4>1, <4>2 DEF BasesKept, Writing, Busy, SamePromotion
    <3> QED BY <2>1, <3>2, <3>3, <3>4
  <2> QED BY <2>2, <2>3
<1> QED BY <1>4, <1>5, <1>6 DEF Overtaking, Ledgers


(* The provider, the plans, and the way to the lock. *)
LEMMA AroundKeeps ==
    ASSUME IInv, Types', Overtaking
    PROVE  /\ UNCHANGED vars => Overtaking'
           /\ \A t \in Part : Revise(t) => Overtaking'
           /\ \A p \in Plan, d \in Date : CreatePlan(p, d) => Overtaking'
           /\ \A i \in Proc, p \in Plan : Preflight(i, p) => Overtaking'
           /\ \A i \in Proc : ClosePlan(i) => Overtaking'
<1> USE DEF disk, counters
<1>t. \A t \in Part : remote[t] \in Nat /\ remote[t] <= remote[t]
  BY BoundAssumption DEF IInv, Types, TypeOK, Version
<1>b. \A j \in Proc : Busy(j) => proc[j].plan \in Plan /\ plan[proc[j].plan].status # "none"
  BY DEF IInv, Types, HasPlan
<1>s. ASSUME UNCHANGED <<bronze, stage, proc>>, Versions', Origins', SameOpening, SamePromotion,
             \A j \in Proc : Busy(j) => plan'[proc[j].plan].status = plan[proc[j].plan].status
      PROVE  Overtaking'
  <2>1. \A j \in Proc : Ledger(j)'
    BY <1>s, <1>b DEF Overtaking, Ledgers, Ledger, SameOpening, Working, Busy
  <2>2. \A p \in Plan, t \in Part : Unmoved(p, t)' = Unmoved(p, t)
    BY <1>s DEF Unmoved, Staged, PartitionHash
  <2>3. \A j \in Proc : BasesKept(j)'
    <3>1. \A j \in Proc : proc[j].todo \subseteq Part
      BY DEF IInv, Types, TypeOK, ProcRecord
    <3> QED BY <1>s, <1>b, <2>2, <3>1 DEF Overtaking, BasesKept, Writing, Busy, SamePromotion
  <2>4. \A j \in Proc : StillPlanned(j)' /\ Repairing(j)'
    BY <1>s DEF Overtaking, StillPlanned, Repairing, Busy
  <2>5. Alone'
    BY <1>s DEF Overtaking, Alone, Busy
  <2> QED BY <1>s, <2>1, <2>3, <2>4, <2>5 DEF Overtaking, Ledgers
<1>1. ASSUME UNCHANGED vars PROVE Overtaking'
  <2>1. UNCHANGED <<remote, bronze, stage, plan, proc, apply>>
    BY <1>1 DEF vars
  <2>2. Versions' /\ Origins'
    BY <1>t, <2>1, VersionsKept DEF IInv, Overtaking
  <2> QED BY <1>s, <2>1, <2>2 DEF SameOpening, SamePromotion
<1>2. ASSUME NEW t \in Part, Revise(t) PROVE Overtaking'
  <2>1. UNCHANGED <<bronze, stage, plan, proc, apply>> /\ \A u \in Part : remote[u] <= remote'[u]
    BY <1>2, <1>t DEF Revise, IInv, Types, TypeOK
  <2>2. Versions' /\ Origins'
    BY <2>1, VersionsKept DEF IInv, Overtaking
  <2> QED BY <1>s, <2>1, <2>2 DEF SameOpening, SamePromotion
<1>3. ASSUME NEW p \in Plan, NEW d \in Date, CreatePlan(p, d) PROVE Overtaking'
  <2>1. UNCHANGED <<remote, bronze, stage, proc, apply>>
    BY <1>3 DEF CreatePlan
  <2>2. \A q \in Plan : /\ plan'[q].history = plan[q].history
                        /\ plan[q].status # "none" => plan'[q].status = plan[q].status
    <3>1. PICK event \in BOOLEAN :
            plan' = [plan EXCEPT ![p] = [plan[p] EXCEPT !.status = "PLANNED", !.target = d,
                                                 !.fetch = FetchMatrix(d), !.event = event]]
      BY <1>3 DEF CreatePlan, IInv, Types, TypeOK
    <3>2. plan[p].status = "none" /\ plan[p] \in PlanRecord /\ plan \in [Plan -> PlanRecord]
      BY <1>3 DEF CreatePlan, IInv, Types, TypeOK
    <3> QED BY <3>1, <3>2 DEF PlanRecord
  <2>3. Versions' /\ Origins'
    BY <1>t, <2>1, <2>2, VersionsKept DEF IInv, Overtaking
  <2> QED BY <1>s, <1>b, <2>1, <2>2, <2>3 DEF SameOpening, SamePromotion
<1>4. ASSUME NEW i \in Proc, NEW p \in Plan, Preflight(i, p) PROVE Overtaking'
  <2>1. /\ UNCHANGED <<remote, bronze, stage, plan>> /\ plan[p].status = "PLANNED"
        /\ \A j \in Proc : proc[j].plan # NoOne => plan[proc[j].plan].target # plan[p].target
    BY <1>4 DEF Preflight
  <2>2. SameOpening /\ SamePromotion
    <3>1. apply' = [apply EXCEPT ![p].status = IF @ = "none" THEN "RUNNING" ELSE @]
      BY <1>4 DEF Preflight
    <3>2. apply \in [Plan -> ApplyRecord]
      BY DEF IInv, Types, TypeOK
    <3> QED BY <3>1, <3>2 DEF SameOpening, SamePromotion, ApplyRecord
  <2>3. /\ proc'[i].at = "preflight" /\ proc'[i].plan = p
        /\ \A j \in Proc \ {i} : proc'[j] = proc[j]
    BY <1>4 DEF Preflight, IInv, Types, TypeOK, ProcRecord
  <2>4. Versions' /\ Origins'
    BY <1>t, <2>1, VersionsKept DEF IInv, Overtaking
  <2>5. \A j \in Proc \ {i} : Busy(j) => proc[j].plan # p
    BY <1>b, <2>1, PlanAssumption
  <2>6. Alone'
    BY <2>3, <2>5 DEF Overtaking, Alone, Busy
  <2>7. ASSUME NEW j \in Proc \ {i} PROVE Ledger(j)' /\ StillPlanned(j)' /\ Repairing(j)' /\ BasesKept(j)'
    <3>1. proc'[j] = proc[j] /\ Ledger(j) /\ StillPlanned(j) /\ Repairing(j) /\ BasesKept(j)
      BY <2>3 DEF Overtaking, Ledgers
    <3>2. Ledger(j)'
      BY <1>b, <2>2, <3>1 DEF Ledger, Working, Busy, SameOpening
    <3>3. \A q \in Plan, t \in Part : Unmoved(q, t)' = Unmoved(q, t)
      BY <2>1 DEF Unmoved, Staged, PartitionHash
    <3>4. proc[j].todo \subseteq Part
      BY DEF IInv, Types, TypeOK, ProcRecord
    <3>5. BasesKept(j)'
      BY <1>b, <2>2, <3>1, <3>3, <3>4 DEF BasesKept, Writing, Busy, SamePromotion
    <3> QED BY <2>1, <3>1, <3>2, <3>5 DEF StillPlanned, Repairing, Busy
  <2>8. Ledger(i)' /\ StillPlanned(i)' /\ Repairing(i)' /\ BasesKept(i)'
    BY <2>1, <2>3 DEF Ledger, StillPlanned, Repairing, BasesKept, Working, Writing
  <2> QED BY <2>4, <2>6, <2>7, <2>8 DEF Overtaking, Ledgers
<1>5. ASSUME NEW i \in Proc, ClosePlan(i) PROVE Overtaking'
  <2> DEFINE p == proc[i].plan
  <2>1. UNCHANGED <<remote, bronze, stage, apply>> /\ Busy(i)
    BY <1>5 DEF ClosePlan, At, Busy
  <2>2. proc'[i].at = "idle" /\ \A j \in Proc \ {i} : proc'[j] = proc[j]
    BY <1>5 DEF ClosePlan, Idle, IInv, Types, TypeOK
  <2>3. \A q \in Plan : /\ plan'[q].history = plan[q].history
                        /\ q # p => plan'[q].status = plan[q].status
    <3>1. plan' = [plan EXCEPT ![p].status = "APPLIED"] /\ plan \in [Plan -> PlanRecord]
      BY <1>5 DEF ClosePlan, IInv, Types, TypeOK
    <3> QED BY <3>1 DEF PlanRecord
  <2>4. Versions' /\ Origins'
    BY <1>t, <2>1, <2>3, VersionsKept DEF IInv, Overtaking
  <2>5. Alone'
    BY <2>2 DEF Overtaking, Alone, Busy
  <2>6. ASSUME NEW j \in Proc \ {i} PROVE Ledger(j)' /\ StillPlanned(j)' /\ Repairing(j)' /\ BasesKept(j)'
    <3>1. proc'[j] = proc[j] /\ Ledger(j) /\ StillPlanned(j) /\ Repairing(j) /\ BasesKept(j)
      BY <2>2 DEF Overtaking, Ledgers
    <3>2. Busy(j) => proc[j].plan # p
      BY <2>1 DEF Overtaking, Alone
    <3>3. \A q \in Plan, t \in Part : Unmoved(q, t)' = Unmoved(q, t)
      BY <2>1 DEF Unmoved, Staged, PartitionHash
    <3>4. proc[j].todo \subseteq Part
      BY DEF IInv, Types, TypeOK, ProcRecord
    <3>5. BasesKept(j)'
      BY <1>b, <2>1, <3>1, <3>3, <3>4 DEF BasesKept, Writing, Busy
    <3>6. StillPlanned(j)'
      BY <1>b, <2>3, <3>1, <3>2 DEF StillPlanned, Busy
    <3> QED BY <2>1, <3>1, <3>5, <3>6 DEF Ledger, Repairing, Working
  <2>7. Ledger(i)' /\ StillPlanned(i)' /\ Repairing(i)' /\ BasesKept(i)'
    BY <2>2 DEF Ledger, StillPlanned, Repairing, BasesKept, Working, Writing, Busy
  <2> QED BY <2>4, <2>5, <2>6, <2>7 DEF Overtaking, Ledgers
<1> QED BY <1>1, <1>2, <1>3, <1>4, <1>5

LEMMA VersionNumbers ==
    ASSUME Types
    PROVE  /\ \A t \in Part : /\ remote[t] \in Nat /\ bronze[t].data \in Nat /\ bronze[t].man \in Nat
                              /\ PartitionHash(t) \in Nat
           /\ \A p \in Plan, t \in Part : stage[p][t].ver \in Nat /\ stage[p][t].base \in Nat
           /\ \A p \in Plan, d \in Date : plan[p].history[d] \in Nat
           /\ \A d \in Date : <<Factor, d>> \in Part /\ index.value[d] \in Nat
BY BoundAssumption, EndpointAssumption
   DEF Types, TypeOK, Version, StageRecord, PlanRecord, Part, Endpoint, PartitionHash

(* What is fetched is not older than what it replaces. *)
LEMMA FetchedIsNewer ==
    ASSUME IInv, Types', Overtaking, NEW i \in Proc, NEW t \in Part, FetchPartition(i, t)
    PROVE  Versions' /\ Origins'
<1> USE DEF disk, counters
<1> DEFINE p == proc[i].plan
           r == [base |-> PartitionHash(t), ver |-> remote[t], redone |-> FALSE]
<1>1. proc[i].at = "market_fetch" /\ p \in Plan
  BY BusyReads DEF FetchPartition, NextToFetch, At, Busy, IInv
<1>2. UNCHANGED <<remote, bronze, plan>> /\ stage' = [stage EXCEPT ![p][t] = r]
  BY DEF FetchPartition
<1>3. PartitionHash(t) <= remote[t]
  BY DEF Overtaking, Versions, PartitionHash
<1>4. r.base = PartitionHash(t) /\ r.ver = remote[t]
  OBVIOUS
<1> HIDE DEF r
<1>5. \A q \in Plan, u \in Part :
          stage'[q][u] = IF q = p /\ u = t THEN r ELSE stage[q][u]
  BY <1>1, <1>2 DEF IInv, Types, TypeOK
<1>6. ~(remote[t] < PartitionHash(t)) /\ remote[t] <= remote[t]
  BY <1>3, VersionNumbers DEF IInv
<1>7. Origins'
  BY <1>2, <1>4, <1>5, <1>6 DEF Overtaking, Origins, Staged
<1>8. \A q \in Plan, u \in Part : stage'[q][u].ver <= remote'[u]
  BY <1>2, <1>4, <1>5, <1>6 DEF Overtaking, Versions
<1> QED BY <1>2, <1>7, <1>8 DEF Overtaking, Versions

(* The history that is kept is the provider's, when it is fetched. *)
LEMMA HistoryIsRemote ==
    ASSUME IInv, Types', Overtaking, NEW i \in Proc, ReconcileFactors(i)
    PROVE  /\ Versions' /\ Origins'
           /\ \A q \in Plan : plan'[q].status = plan[q].status
           /\ \A q \in Plan : plan'[q] = plan[q] \/ q = proc[i].plan
           /\ \A q \in Plan, d \in Date : plan[q].history[d] # 0 => plan'[q].history[d] = plan[q].history[d]
<1> USE DEF disk, counters
<1> DEFINE p == proc[i].plan
<1>1. p \in Plan /\ plan \in [Plan -> PlanRecord]
  BY BusyReads DEF ReconcileFactors, At, Busy, IInv, Types, TypeOK
<1>2. UNCHANGED <<remote, bronze, stage>>
  BY DEF ReconcileFactors
<1>3. CASE plan' = plan
  <2>1. \A t \in Part : remote[t] <= remote'[t]
    BY <1>2, VersionNumbers DEF IInv
  <2> QED BY <1>2, <1>3, <2>1, VersionsKept DEF IInv, Overtaking
<1>4. CASE plan' = [plan EXCEPT ![p].history = RemoteHistory(p)]
  <2>1. /\ plan'[p].history = RemoteHistory(p) /\ plan'[p].status = plan[p].status
        /\ \A q \in Plan \ {p} : plan'[q] = plan[q]
    BY <1>1, <1>4 DEF PlanRecord
  <2>2. \A d \in Date : /\ RemoteHistory(p)[d] <= remote[<<Factor, d>>]
                        /\ plan[p].history[d] # 0 => RemoteHistory(p)[d] = plan[p].history[d]
    BY <1>1, VersionNumbers DEF RemoteHistory, Overtaking, Versions, IInv
  <2>3. \A q \in Plan, d \in Date : plan[q].history[d] # 0 => plan'[q].history[d] = plan[q].history[d]
    BY <2>1, <2>2
  <2>4. Versions'
    BY <1>1, <1>2, <2>1, <2>2 DEF Overtaking, Versions
  <2>5. Origins'
    <3> SUFFICES ASSUME NEW q \in Plan, NEW t \in Part, Staged(q, t), stage[q][t].ver < stage[q][t].base
                 PROVE  t[1] = Factor /\ stage[q][t].ver = plan'[q].history[t[2]]
      BY <1>2 DEF Origins, Staged
    <3>1. t[1] = Factor /\ stage[q][t].ver = plan[q].history[t[2]]
      BY DEF Overtaking, Origins
    <3>2. t[2] \in Date /\ stage[q][t].ver # 0
      BY DEF Part, Staged
    <3> QED BY <2>3, <3>1, <3>2
  <2> QED BY <2>1, <2>3, <2>4, <2>5
<1> QED BY <1>3, <1>4 DEF ReconcileFactors

(* A repair is staged over the base that was recorded first. *)
LEMMA RepairedFromHistory ==
    ASSUME IInv, Types', Overtaking, NEW i \in Proc, NEW t \in Part, StageRepair(i, t)
    PROVE  /\ Versions' /\ Origins'
           /\ proc[i].plan \in Plan /\ t \in proc[i].todo
           /\ t[1] = Factor /\ t[2] \in Date /\ t = <<Factor, t[2]>>
           /\ \A q \in Plan, u \in Part : q # proc[i].plan \/ u # t => stage'[q][u] = stage[q][u]
           /\ \A q \in Plan \ {proc[i].plan} : stage'[q] = stage[q]
           /\ stage'[proc[i].plan][t].ver = plan[proc[i].plan].history[t[2]]
           /\ Staged(proc[i].plan, t) => stage'[proc[i].plan][t].base = stage[proc[i].plan][t].base
<1> USE DEF disk, counters
<1> DEFINE p == proc[i].plan
           repaired == [base |-> IF Staged(p, t) THEN stage[p][t].base ELSE PartitionHash(t),
                        ver |-> plan[p].history[t[2]],
                        redone |-> Staged(p, t)]
<1>1. p \in Plan /\ proc[i].todo \subseteq {Factor} \X Date /\ t \in proc[i].todo
  BY BusyReads DEF StageRepair, Unrepaired, At, Busy, IInv, Overtaking, Repairing
<1>2. UNCHANGED <<remote, bronze, plan>> /\ stage' = [stage EXCEPT ![p][t] = repaired]
  BY DEF StageRepair
<1>3. /\ repaired.ver = plan[p].history[t[2]]
      /\ Staged(p, t) => repaired.base = stage[p][t].base
  OBVIOUS
<1> HIDE DEF repaired
<1>4. /\ \A q \in Plan, u \in Part : stage'[q][u] = IF q = p /\ u = t THEN repaired ELSE stage[q][u]
      /\ \A q \in Plan \ {p} : stage'[q] = stage[q]
  BY <1>1, <1>2 DEF IInv, Types, TypeOK
<1>5. t[1] = Factor /\ t[2] \in Date /\ t = <<Factor, t[2]>>
  BY <1>1
<1>6. stage'[p][t].ver = plan[p].history[t[2]]
  BY <1>1, <1>3, <1>4
<1>7. Versions'
  <2>1. stage'[p][t].ver <= remote[t]
    BY <1>1, <1>5, <1>6 DEF Overtaking, Versions
  <2>2. \A q \in Plan, u \in Part : stage'[q][u].ver <= remote[u]
    BY <1>4, <2>1 DEF Overtaking, Versions
  <2> QED BY <1>2, <2>2 DEF Overtaking, Versions
<1>8. Origins'
  <2> SUFFICES ASSUME NEW q \in Plan, NEW u \in Part, Staged(q, u)', stage'[q][u].ver < stage'[q][u].base
               PROVE  u[1] = Factor /\ stage'[q][u].ver = plan[q].history[u[2]]
    BY <1>2 DEF Origins
  <2>1. CASE q = p /\ u = t
    BY <1>5, <1>6, <2>1
  <2>2. CASE stage'[q][u] = stage[q][u]
    BY <2>2 DEF Overtaking, Origins, Staged
  <2> QED BY <1>4, <2>1, <2>2
<1> QED BY <1>1, <1>3, <1>4, <1>5, <1>6, <1>7, <1>8

(* Staging: nothing is being written. *)
LEMMA OpeningKeeps ==
    ASSUME IInv, Types', Overtaking, NEW i \in Proc
    PROVE  /\ \A t \in Part : FetchPartition(i, t) => Overtaking'
           /\ ReconcileFactors(i) => Overtaking'
           /\ \A t \in Part : StageRepair(i, t) => Overtaking'
           /\ RepairsStaged(i) => Overtaking'
           /\ SaveRepairs(i) => Overtaking'
           /\ EndReconcile(i) => Overtaking'
<1> USE DEF disk, counters, At
<1>p. proc \in [Proc -> ProcRecord] /\ plan \in [Plan -> PlanRecord] /\ Types
  BY DEF IInv, Types, TypeOK
<1>v. \A t \in Part : remote[t] <= remote[t]
  BY VersionNumbers DEF IInv
<1>1. ASSUME NEW t \in Part, FetchPartition(i, t) PROVE Overtaking'
  <2>1. proc[i].at = "market_fetch" /\ Working(i) /\ UNCHANGED <<remote, bronze, plan, apply, proc>>
    BY <1>1 DEF FetchPartition, NextToFetch, Working
  <2>2. Ledger(i)' /\ Repairing(i)' /\ BasesKept(i)'
    BY <2>1 DEF Overtaking, Ledgers, Ledger, Repairing, BasesKept, Working, Writing
  <2> QED BY <1>1, <2>1, <2>2, FetchedIsNewer, WorkerKeeps
<1>2. ASSUME ReconcileFactors(i) PROVE Overtaking'
  <2> DEFINE p == proc[i].plan
             diff == {d \in 1 .. plan[p].target : RemoteHistory(p)[d] # LocalFactor(p, d)}
  <2>1. proc[i].at = "factor_reconcile" /\ Working(i) /\ apply' = apply
    BY <1>2 DEF ReconcileFactors, Working
  <2>2. diff \subseteq Date
    <3>1. plan[p].target \in Date
      BY <1>p, <2>1, BusyReads DEF Working, Busy, PlanRecord
    <3> QED BY <3>1, DateAssumption DEF Date
  <2>3. \/ proc' = [proc EXCEPT ![i].todo = {Factor} \X diff, ![i].at = "stage_repairs"]
        \/ proc' = [proc EXCEPT ![i].todo = {}, ![i].at = "save_repairs"]
    BY <1>2 DEF ReconcileFactors
  <2> HIDE DEF diff
  <2>4. /\ proc'[i].at \in {"stage_repairs", "save_repairs"} /\ proc'[i].plan = p
        /\ proc'[i].todo \subseteq {Factor} \X Date
        /\ \A j \in Proc \ {i} : proc'[j] = proc[j]
    BY <1>p, <2>2, <2>3 DEF ProcRecord
  <2>5. Ledger(i)' /\ Repairing(i)' /\ BasesKept(i)'
    BY <2>1, <2>4 DEF Overtaking, Ledgers, Ledger, Repairing, BasesKept, Working, Writing, OpeningPoints, Opening
  <2> QED BY <1>2, <2>1, <2>4, <2>5, HistoryIsRemote, WorkerKeeps
<1>3. ASSUME NEW t \in Part, StageRepair(i, t) PROVE Overtaking'
  <2>1. proc[i].at = "stage_repairs" /\ Working(i) /\ UNCHANGED <<apply, plan, proc>>
    BY <1>3 DEF StageRepair, Working
  <2>2. Ledger(i)' /\ Repairing(i)' /\ BasesKept(i)'
    BY <2>1 DEF Overtaking, Ledgers, Ledger, Repairing, BasesKept, Working, Writing
  <2> QED BY <1>3, <2>1, <2>2, RepairedFromHistory, WorkerKeeps
<1>6. ASSUME RepairsStaged(i) PROVE Overtaking'
  <2>1. proc[i].at = "stage_repairs" /\ Working(i) /\ UNCHANGED <<remote, bronze, stage, apply, plan>>
    BY <1>6 DEF RepairsStaged, Working
  <2>2. /\ proc'[i].at = "save_repairs" /\ proc'[i].plan = proc[i].plan /\ proc'[i].todo = proc[i].todo
        /\ \A j \in Proc \ {i} : proc'[j] = proc[j]
    BY <1>6, <1>p DEF RepairsStaged, Goto, ProcRecord
  <2>3. Ledger(i)' /\ Repairing(i)' /\ BasesKept(i)'
    BY <2>1, <2>2 DEF Overtaking, Ledgers, Ledger, Repairing, BasesKept, Working, Writing, OpeningPoints, Opening
  <2>4. Versions' /\ Origins'
    BY <1>p, <1>v, <2>1, VersionsKept DEF Overtaking
  <2> QED BY <2>1, <2>2, <2>3, <2>4, WorkerKeeps
<1>4. ASSUME SaveRepairs(i) PROVE Overtaking'
  <2>1. proc[i].at = "save_repairs" /\ Working(i) /\ UNCHANGED <<remote, bronze, stage, apply>>
    BY <1>4 DEF SaveRepairs, Working
  <2>2. /\ proc'[i].at = "end_reconcile" /\ proc'[i].plan = proc[i].plan
        /\ \A j \in Proc \ {i} : proc'[j] = proc[j]
    BY <1>4, <1>p DEF SaveRepairs, ProcRecord
  <2>3. \A q \in Plan : plan'[q].history = plan[q].history /\ plan'[q].status = plan[q].status
    BY <1>4, <1>p DEF SaveRepairs, PlanRecord
  <2>4. Ledger(i)' /\ Repairing(i)' /\ BasesKept(i)'
    BY <2>1, <2>2 DEF Overtaking, Ledgers, Ledger, Repairing, BasesKept, Working, Writing, OpeningPoints, Opening
  <2>5. Versions' /\ Origins'
    BY <1>p, <1>v, <2>1, <2>3, VersionsKept DEF Overtaking
  <2> QED BY <2>1, <2>2, <2>3, <2>4, <2>5, WorkerKeeps
<1>5. ASSUME EndReconcile(i) PROVE Overtaking'
  <2>1. proc[i].at = "end_reconcile" /\ Working(i) /\ UNCHANGED <<remote, bronze, stage, plan>>
    BY <1>5 DEF EndReconcile, Working
  <2>2. Advances(i, "raw_promote") /\ Records(i, "raw_promote")
    BY <1>5, <1>p, <2>1, GotoAdvances, FinishRecords DEF EndReconcile, Working, Busy
  <2>3. Ledger(i)' /\ Repairing(i)' /\ BasesKept(i)'
    BY <2>2 DEF Ledger, Repairing, BasesKept, Writing, OpeningPoints, Opening, Advances, Records
  <2>4. Versions' /\ Origins'
    BY <1>p, <1>v, <2>1, VersionsKept DEF Overtaking
  <2> QED BY <2>1, <2>2, <2>3, <2>4, WorkerKeeps DEF Advances
<1> QED BY <1>1, <1>2, <1>3, <1>4, <1>5, <1>6

(* What a write does to a partition of Bronze. *)
LEMMA WriteDataBronze ==
    ASSUME IInv, Overtaking, NEW i \in Proc, NEW t \in Part, WriteData(i, t)
    PROVE  /\ proc[i].plan \in Plan /\ Unmoved(proc[i].plan, t) /\ HalfDone(proc[i].plan)
           /\ PartitionHash(t) = stage[proc[i].plan][t].base
           /\ bronze'[t].data = stage[proc[i].plan][t].ver /\ bronze'[t].man = bronze[t].man
           /\ \A u \in Part \ {t} : bronze'[u] = bronze[u]
           /\ UNCHANGED <<remote, index, plan, stage, apply>>
<1>1. proc[i].at = "write_data" /\ t \in proc[i].todo /\ Busy(i) /\ Writing(i)
  BY DEF WriteData, At, Busy, Writing
<1>2. /\ proc[i].plan \in Plan /\ Unmoved(proc[i].plan, t)
      /\ apply[proc[i].plan].promotion = "begun" /\ plan[proc[i].plan].status = "PLANNED"
  BY <1>1, BusyReads DEF IInv, Overtaking, BasesKept, StillPlanned
<1>3. bronze' = [bronze EXCEPT ![t].data = stage[proc[i].plan][t].ver]
  BY DEF WriteData
<1>4. bronze \in [Part -> [data : Version, man : Version]]
  BY DEF IInv, Types, TypeOK
<1>5. /\ bronze'[t].data = stage[proc[i].plan][t].ver /\ bronze'[t].man = bronze[t].man
      /\ \A u \in Part \ {t} : bronze'[u] = bronze[u]
  BY <1>3, <1>4
<1> QED BY <1>2, <1>5 DEF WriteData, Unmoved, HalfDone

LEMMA WriteManifestBronze ==
    ASSUME IInv, NEW i \in Proc, NEW t \in Part, WriteManifest(i, t)
    PROVE  /\ \A u \in Part : bronze'[u].data = bronze[u].data
           /\ bronze'[t].man = bronze[t].data /\ \A u \in Part \ {t} : bronze'[u] = bronze[u]
BY DEF WriteManifest, IInv, Types, TypeOK

(* Writing: every partition left is what it was when the writing began. *)
LEMMA WritingKeeps ==
    ASSUME IInv, Types', Overtaking, NEW i \in Proc
    PROVE  /\ BeginPromote(i) => Overtaking'
           /\ \A t \in Part : SkipWrite(i, t) \/ WriteData(i, t) \/ WriteManifest(i, t) => Overtaking'
           /\ WritePending(i) => Overtaking'
           /\ WriteIndex(i) => Overtaking'
<1> USE DEF disk, counters, At
<1>p. proc \in [Proc -> ProcRecord] /\ apply \in [Plan -> ApplyRecord] /\ Types
  BY DEF IInv, Types, TypeOK
<1>v. \A t \in Part : remote[t] <= remote[t]
  BY VersionNumbers DEF IInv
<1>s. ASSUME UNCHANGED <<remote, bronze, stage, plan>> PROVE Versions' /\ Origins'
  BY <1>p, <1>s, <1>v, VersionsKept DEF Overtaking
<1>u. ASSUME UNCHANGED <<bronze, stage>> PROVE \A p \in Plan, t \in Part : Unmoved(p, t)' = Unmoved(p, t)
  BY <1>u DEF Unmoved, Staged, PartitionHash
<1>1. ASSUME BeginPromote(i) PROVE Overtaking'
  <2> DEFINE p == proc[i].plan
  <2>1. /\ proc[i].at = "raw_promote" /\ Working(i) /\ UNCHANGED <<remote, bronze, stage, plan>>
        /\ p \in Plan /\ Promotable(p)
    BY <1>1, BusyLedger DEF BeginPromote, Working, Overtaking
  <2>2. /\ proc'[i].at = "write_data" /\ proc'[i].plan = p /\ proc'[i].todo = Differing(p)
        /\ \A j \in Proc \ {i} : proc'[j] = proc[j]
    BY <1>1, <1>p DEF BeginPromote, ProcRecord
  <2>3. apply'[p].promotion = "begun" /\ apply'[p].next = apply[p].next
    BY <1>1, <1>p, <2>1 DEF BeginPromote, ApplyRecord
  <2>4. Ledger(i)'
    BY <2>1, <2>2, <2>3 DEF Overtaking, Ledgers, Ledger, Working, OpeningPoints, Opening
  <2>5. Targets(p) \subseteq Part
    <3>1. plan[p] \in PlanRecord
      BY <2>1 DEF IInv, Types, TypeOK
    <3> QED BY <3>1, VersionNumbers, <1>p DEF Targets, Promised, PlanRecord, Part, Endpoint
  <2>6. \A t \in Differing(p) : Unmoved(p, t)
    BY <2>1 DEF Differing, Targets, Promised, Unmoved, Promotable, BasesHold
  <2>7. BasesKept(i)'
    BY <1>u, <2>1, <2>2, <2>3, <2>5, <2>6 DEF BasesKept, Differing
  <2>8. Repairing(i)'
    BY <2>2 DEF Repairing
  <2> QED BY <1>s, <2>1, <2>2, <2>4, <2>7, <2>8, WorkerKeeps
<1>2. ASSUME NEW t \in Part, SkipWrite(i, t) PROVE Overtaking'
  <2>1. /\ proc[i].at = "write_data" /\ Working(i) /\ UNCHANGED <<remote, bronze, stage, plan, apply>>
        /\ proc[i].plan \in Plan /\ proc[i].todo \subseteq Part
    BY <1>2, <1>p, BusyReads DEF SkipWrite, Working, Busy
  <2>2. /\ proc'[i].at = "write_data" /\ proc'[i].plan = proc[i].plan
        /\ proc'[i].todo \subseteq proc[i].todo
        /\ \A j \in Proc \ {i} : proc'[j] = proc[j]
    BY <1>2, <1>p DEF SkipWrite, ProcRecord
  <2>3. Ledger(i)' /\ Repairing(i)'
    BY <2>1, <2>2 DEF Overtaking, Ledgers, Ledger, Repairing, Working, OpeningPoints, Opening
  <2>4. BasesKept(i)'
    BY <1>u, <2>1, <2>2 DEF Overtaking, BasesKept, Writing
  <2> QED BY <1>s, <2>1, <2>2, <2>3, <2>4, WorkerKeeps
<1>3. ASSUME NEW t \in Part, WriteData(i, t) PROVE Overtaking'
  <2> DEFINE p == proc[i].plan
  <2>1. proc[i].at = "write_data" /\ Working(i) /\ Writing(i) /\ proc[i].todo \subseteq Part
    BY <1>3, <1>p DEF WriteData, Working, Writing, ProcRecord
  <2>2. /\ proc'[i].at = "write_manifest" /\ proc'[i].plan = p /\ proc'[i].todo = proc[i].todo
        /\ \A j \in Proc \ {i} : proc'[j] = proc[j]
    BY <1>3, <1>p DEF WriteData, Goto, ProcRecord
  <2>3. /\ p \in Plan /\ Unmoved(p, t) /\ PartitionHash(t) = stage[p][t].base
        /\ bronze'[t].data = stage[p][t].ver /\ bronze'[t].man = bronze[t].man
        /\ \A u \in Part \ {t} : bronze'[u] = bronze[u]
        /\ UNCHANGED <<remote, index, plan, stage, apply>>
    BY <1>3, WriteDataBronze
  <2>4. Ledger(i)' /\ Repairing(i)'
    BY <2>1, <2>2, <2>3 DEF Overtaking, Ledgers, Ledger, Repairing, Working, OpeningPoints, Opening
  <2>5. Versions'
    <3>1. stage[p][t].ver # 0 /\ stage[p][t].ver <= remote[t]
      BY <2>3 DEF Unmoved, Staged, Overtaking, Versions
    <3>2. \A u \in Part : /\ bronze'[u].data <= remote[u] /\ bronze'[u].man <= remote[u]
                          /\ bronze'[u].man # 0 => bronze'[u].data # 0
      BY <2>3, <3>1 DEF Overtaking, Versions
    <3> QED BY <2>3, <3>2 DEF Overtaking, Versions
  <2>6. Origins'
    BY <2>3 DEF Overtaking, Origins, Staged
  <2>7. BasesKept(i)'
    <3> SUFFICES ASSUME NEW u \in proc[i].todo PROVE Unmoved(p, u)'
      BY <2>1, <2>2, <2>3 DEF Overtaking, BasesKept, Writing
    <3>1. Unmoved(p, u) /\ u \in Part
      BY <2>1 DEF Overtaking, BasesKept
    <3>2. CASE u # t
      BY <2>2, <2>3, <3>1, <3>2 DEF Unmoved, Staged, PartitionHash
    <3>3. CASE u = t
      <4>1. PartitionHash(t)' \in {stage[p][t].base, stage[p][t].ver}
        BY <2>3 DEF PartitionHash, Overtaking, Versions
      <4> QED BY <2>2, <2>3, <3>1, <3>3, <4>1 DEF Unmoved, Staged
    <3> QED BY <3>2, <3>3
  <2> QED BY <2>1, <2>2, <2>3, <2>4, <2>5, <2>6, <2>7, WorkerKeeps
<1>4. ASSUME NEW t \in Part, WriteManifest(i, t) PROVE Overtaking'
  <2> DEFINE p == proc[i].plan
  <2>1. /\ proc[i].at = "write_manifest" /\ Working(i) /\ Writing(i) /\ proc[i].todo \subseteq Part
        /\ UNCHANGED <<remote, stage, plan, apply>> /\ p \in Plan
    BY <1>4, <1>p, BusyReads DEF WriteManifest, Working, Writing, Busy, ProcRecord
  <2>2. /\ proc'[i].at = "write_data" /\ proc'[i].plan = p /\ proc'[i].todo = proc[i].todo \ {t}
        /\ \A j \in Proc \ {i} : proc'[j] = proc[j]
    BY <1>4, <1>p DEF WriteManifest, ProcRecord
  <2>3. /\ \A u \in Part : bronze'[u].data = bronze[u].data
        /\ bronze'[t].man = bronze[t].data /\ \A u \in Part \ {t} : bronze'[u] = bronze[u]
    BY <1>4, WriteManifestBronze
  <2>4. Ledger(i)' /\ Repairing(i)'
    BY <2>1, <2>2 DEF Overtaking, Ledgers, Ledger, Repairing, Working, OpeningPoints, Opening
  <2>5. Versions'
    <3>1. \A u \in Part : /\ bronze'[u].data <= remote[u] /\ bronze'[u].man <= remote[u]
                          /\ bronze'[u].man # 0 => bronze'[u].data # 0
      BY <2>3 DEF Overtaking, Versions
    <3> QED BY <2>1, <3>1 DEF Overtaking, Versions
  <2>6. Origins'
    BY <2>1 DEF Overtaking, Origins, Staged
  <2>7. BasesKept(i)'
    <3> SUFFICES ASSUME NEW u \in proc[i].todo \ {t} PROVE Unmoved(p, u)'
      BY <2>1, <2>2 DEF Overtaking, BasesKept, Writing
    <3>1. Unmoved(p, u) /\ u \in Part \ {t}
      BY <2>1 DEF Overtaking, BasesKept
    <3> QED BY <2>1, <2>2, <2>3, <3>1 DEF Unmoved, Staged, PartitionHash
  <2> QED BY <2>1, <2>2, <2>4, <2>5, <2>6, <2>7, WorkerKeeps
<1>5. ASSUME WritePending(i) PROVE Overtaking'
  <2>1. /\ proc[i].at = "write_data" /\ Working(i) /\ UNCHANGED <<remote, bronze, stage, plan, apply>>
    BY <1>5 DEF WritePending, Working
  <2>2. /\ proc'[i].at = "write_index" /\ proc'[i].plan = proc[i].plan
        /\ \A j \in Proc \ {i} : proc'[j] = proc[j]
    BY <1>5, <1>p DEF WritePending, ProcRecord
  <2>3. Ledger(i)' /\ Repairing(i)' /\ BasesKept(i)'
    BY <2>1, <2>2 DEF Overtaking, Ledgers, Ledger, Repairing, BasesKept, Working, Writing, OpeningPoints, Opening
  <2> QED BY <1>s, <2>1, <2>2, <2>3, WorkerKeeps
<1>6. ASSUME WriteIndex(i) PROVE Overtaking'
  <2>1. /\ proc[i].at = "write_index" /\ Working(i) /\ UNCHANGED <<remote, bronze, stage, plan, apply>>
    BY <1>6 DEF WriteIndex, Working
  <2>2. Advances(i, "end_promote")
    BY <1>6, <1>p, GotoAdvances DEF WriteIndex
  <2>3. Ledger(i)' /\ Repairing(i)' /\ BasesKept(i)'
    BY <2>1, <2>2 DEF Overtaking, Ledgers, Ledger, Repairing, BasesKept, Working, Writing, OpeningPoints, Opening, Advances
  <2> QED BY <1>s, <2>1, <2>2, <2>3, WorkerKeeps DEF Advances
<1> QED BY <1>1, <1>2, <1>3, <1>4, <1>5, <1>6

(* The steps that are not calm. *)
Stages(i) ==
    \/ \E t \in Part : FetchPartition(i, t) \/ StageRepair(i, t)
    \/ ReconcileFactors(i) \/ RepairsStaged(i) \/ SaveRepairs(i) \/ EndReconcile(i)
Writes(i) ==
    \/ BeginPromote(i) \/ WritePending(i) \/ WriteIndex(i)
    \/ \E t \in Part : SkipWrite(i, t) \/ WriteData(i, t) \/ WriteManifest(i, t)
Around ==
    \/ UNCHANGED vars
    \/ \E t \in Part : Revise(t)
    \/ \E p \in Plan, d \in Date : CreatePlan(p, d)
    \/ \E i \in Proc, p \in Plan : Preflight(i, p)
    \/ \E i \in Proc : ClosePlan(i)

LEMMA StepKinds ==
    ASSUME IInv, Ledgers, [Next]_vars
    PROVE  Around \/ \E i \in Proc : Calm(i) \/ Stages(i) \/ Writes(i)
<1>1. ASSUME NEW i \in Proc, Fetch(i) PROVE Calm(i) \/ Stages(i)
  BY <1>1, FetchCalm DEF Fetch, Stages
<1>2. ASSUME NEW i \in Proc, Promote(i) PROVE Calm(i) \/ Writes(i)
  BY <1>2, PromoteCalm DEF Promote, Writes
<1>3. ASSUME NEW i \in Proc, Publish(i) PROVE Calm(i) \/ ClosePlan(i)
  BY <1>3, PublishCalm
<1>4. ASSUME NEW i \in Proc, Refused(i) \/ Lock(i) \/ Fail(i) \/ Kill(i) PROVE Calm(i)
  BY <1>4, LockCalm
<1>5. ASSUME NEW i \in Proc, Work(i) \/ Fail(i) \/ Kill(i)
      PROVE  Calm(i) \/ Stages(i) \/ Writes(i) \/ ClosePlan(i)
  BY <1>1, <1>2, <1>3, <1>4, <1>5 DEF Work
<1> QED BY <1>5 DEF Next, Around

LEMMA InitOvertaking == Init => Overtaking
<1> SUFFICES ASSUME Init PROVE Overtaking
  OBVIOUS
<1>t. Types
  BY InitTypes
<1>1. \A i \in Proc : proc[i].at = "idle"
  BY DEF Init, Idle
<1>2. \A t \in Part : bronze[t].data \in {0, remote[t]} /\ bronze[t].man = bronze[t].data
  BY DEF Init
<1>3. \A p \in Plan, t \in Part : stage[p][t].ver = 0
  BY DEF Init
<1>4. \A p \in Plan, d \in Date : plan[p].history[d] = 0
  BY DEF Init
<1>5. \A t \in Part : 0 <= remote[t] /\ remote[t] <= remote[t]
  BY <1>t, VersionNumbers
<1>6. \A d \in Date : <<Factor, d>> \in Part
  BY <1>t, VersionNumbers
<1>7. Versions
  BY <1>2, <1>3, <1>4, <1>5, <1>6 DEF Versions
<1>8. Origins
  BY <1>3 DEF Origins, Staged
<1>9. \A i \in Proc : Ledger(i) /\ StillPlanned(i) /\ Repairing(i) /\ BasesKept(i)
  BY <1>1 DEF Ledger, StillPlanned, Repairing, BasesKept, Working, Writing, Busy
<1> QED BY <1>1, <1>7, <1>8, <1>9 DEF Overtaking, Ledgers, Alone, Busy

LEMMA NextOvertaking == IInv /\ Overtaking /\ [Next]_vars => Overtaking'
<1> SUFFICES ASSUME IInv, Overtaking, [Next]_vars PROVE Overtaking'
  OBVIOUS
<1>1. Types' /\ Ledgers
  BY NextTypes DEF IInv, Overtaking
<1>2. CASE Around
  BY <1>1, <1>2, AroundKeeps DEF Around
<1>3. ASSUME NEW i \in Proc, Calm(i) PROVE Overtaking'
  BY <1>1, <1>3, CalmKeeps
<1>4. ASSUME NEW i \in Proc, Stages(i) PROVE Overtaking'
  BY <1>1, <1>4, OpeningKeeps DEF Stages
<1>5. ASSUME NEW i \in Proc, Writes(i) PROVE Overtaking'
  BY <1>1, <1>5, WritingKeeps DEF Writes
<1> QED BY <1>1, <1>2, <1>3, <1>4, <1>5, StepKinds

THEOREM OvertakingHolds == Spec => []Overtaking
BY InitOvertaking, NextOvertaking, IInvHolds, PTL DEF Spec

(* Only one action writes the data file of a partition. *)
LEMMA DataWriter ==
    ASSUME IInv, Overtaking, [Next]_vars, NEW t \in Part, bronze'[t].data # bronze[t].data
    PROVE  \E i \in Proc : WriteData(i, t)
<1> USE DEF disk, counters
<1>1. ~Around
  BY DEF Around, vars, Revise, CreatePlan, Preflight, ClosePlan
<1>2. \A i \in Proc : ~Calm(i) /\ ~Stages(i)
  BY DEF Calm, Stages, FetchPartition, ReconcileFactors, StageRepair, RepairsStaged, SaveRepairs, EndReconcile
<1>3. PICK i \in Proc : Writes(i)
  BY <1>1, <1>2, StepKinds DEF Overtaking
<1>4. PICK u \in Part : WriteData(i, u) \/ WriteManifest(i, u)
  BY <1>3 DEF Writes, BeginPromote, WritePending, WriteIndex, SkipWrite
<1>5. ~WriteManifest(i, u)
  BY WriteManifestBronze
<1>6. u = t
  BY <1>4, <1>5, WriteDataBronze
<1> QED BY <1>4, <1>5, <1>6

(* A partition that a write takes back is put back by the plan that writes. *)
LEMMA PutBackWrite ==
    ASSUME IInv, Overtaking, NEW i \in Proc, NEW t \in Part, WriteData(i, t),
           stage[proc[i].plan][t].ver < stage[proc[i].plan][t].base
    PROVE  PutBack(t)' /\ WasPutBack(t)'
<1>1. PICK p \in Plan : /\ p = proc[i].plan /\ Unmoved(p, t) /\ HalfDone(p)
                       /\ bronze'[t].data = stage[p][t].ver
                       /\ UNCHANGED <<plan, stage, apply>>
  BY WriteDataBronze
<1>2. Outdated(p, t)
  BY <1>1 DEF Overtaking, Origins, Outdated, Unmoved, Staged
<1>3. HalfDone(p)' /\ apply'[p].promotion # "none"
  BY <1>1 DEF HalfDone
<1>4. \E q \in Plan : HalfDone(q)' /\ Outdated(q, t)' /\ bronze'[t].data = stage'[q][t].ver
  <2> WITNESS p \in Plan
  <2> QED BY <1>1, <1>2, <1>3 DEF Outdated, Staged
<1>5. \E q \in Plan : apply'[q].promotion # "none" /\ Outdated(q, t)'
  <2> WITNESS p \in Plan
  <2> QED BY <1>1, <1>2, <1>3 DEF Outdated, Staged
<1> QED BY <1>4, <1>5 DEF PutBack, WasPutBack

(***************************************************************************)
(* A partition of Bronze is not replaced by an older version of itself     *)
(* (_verify_base_hashes and write_if_changed), however plans overlap, are  *)
(* killed and resumed: but for a factor that the writing plan puts back    *)
(* from the history it kept, and for a partition whose data file was       *)
(* replaced without its manifest.                                          *)
(***************************************************************************)
THEOREM BronzeNotReplaced == Spec => BronzeMonotone
<1>1. ASSUME IInv, Overtaking, [Next]_vars
      PROVE  [\A t \in Part : bronze'[t].data >= bronze[t].data \/ Torn(t) \/ PutBack(t)']_vars
  <2> SUFFICES ASSUME NEW t \in Part, ~Torn(t), ~(bronze'[t].data >= bronze[t].data)
               PROVE  PutBack(t)'
    OBVIOUS
  <2>1. bronze[t].data \in Nat
    BY <1>1, VersionNumbers DEF IInv
  <2>2. PICK i \in Proc : WriteData(i, t)
    BY <1>1, <2>1, DataWriter
  <2> DEFINE p == proc[i].plan
  <2>3. /\ p \in Plan /\ bronze'[t].data = stage[p][t].ver
        /\ PartitionHash(t) = stage[p][t].base
    BY <1>1, <2>2, WriteDataBronze
  <2>4. PartitionHash(t) = bronze[t].data
    BY DEF Torn, PartitionHash
  <2>5. stage[p][t].ver \in Nat /\ stage[p][t].base \in Nat
    BY <1>1, <2>3, VersionNumbers DEF IInv
  <2>6. stage[p][t].ver < stage[p][t].base
    BY <2>1, <2>3, <2>4, <2>5
  <2> QED BY <1>1, <2>2, <2>6, PutBackWrite
<1> QED BY <1>1, IInvHolds, OvertakingHolds, PTL DEF Spec, BronzeMonotone

-----------------------------------------------------------------------------
(***************************************************************************)
(* The factor index.  What a plan with a factor event will write into the  *)
(* index is foreseen: it is known already (Bronze has it, or one of the    *)
(* exceptions covers it), or the plan has it staged.  What is staged and   *)
(* promised is promoted before the index is written, unless a torn         *)
(* manifest hides it; what is staged and not promised is a repair that the *)
(* plan has forgotten.                                                     *)
(***************************************************************************)
Carried(p, d) == Staged(p, <<Factor, d>>) /\ stage[p][<<Factor, d>>].ver = plan[p].history[d]
Reached(p, d) == Known(<<Factor, d>>, plan[p].history[d])
Foreseen(p, d) == Carried(p, d) \/ Reached(p, d)

Blank(p) ==
    plan[p].status = "none" => apply[p].next \in Opening /\ \A d \in Date : plan[p].history[d] = 0
Beyond(p) == \A d \in Date : d > plan[p].target => plan[p].history[d] = 0
Begun(p) == apply[p].promotion # "none" => apply[p].next \notin Opening
Settled(p) ==
    plan[p].event /\ apply[p].next \notin Opening => \A d \in 1 .. plan[p].target : Foreseen(p, d)
Ready(p) == Blank(p) /\ Beyond(p) /\ Begun(p) /\ Settled(p)

Reconciled(i, p) ==
    /\ proc[i].at = "stage_repairs" =>
          \A d \in 1 .. plan[p].target : <<Factor, d>> \in proc[i].todo \/ Foreseen(p, d)
    /\ proc[i].at \in {"save_repairs", "end_reconcile"} /\ plan[p].event =>
          \A d \in 1 .. plan[p].target : Foreseen(p, d)

Done(p, t) == bronze[t].data = stage[p][t].ver
Promoted(i, p) ==
    /\ Writing(i) => /\ proc[i].todo \subseteq Targets(p)
                     /\ \A t \in Targets(p) : t \in proc[i].todo \/ Done(p, t) \/ t \in torn
    /\ proc[i].at = "write_data" => \A t \in proc[i].todo : ~Done(p, t)
    /\ proc[i].at = "write_manifest" => \A t, u \in proc[i].todo : Done(p, t) /\ Done(p, u) => t = u
    /\ proc[i].at = "write_index" => /\ apply[p].promotion # "none"
                                     /\ \A t \in Targets(p) : Done(p, t) \/ t \in torn
Underway(i) == \A p \in Plan : proc[i].plan = p => Reconciled(i, p) /\ Promoted(i, p)

Untorn ==
    \A t \in Part : Torn(t) =>
        \/ t \in torn
        \/ \E i \in Proc, p \in Plan : /\ proc[i].at = "write_manifest" /\ proc[i].plan = p
                                       /\ t \in proc[i].todo /\ Done(p, t)

Indexed ==
    /\ Untorn /\ IndexNeverAhead
    /\ \A p \in Plan : Ready(p)
    /\ \A i \in Proc : Underway(i)

(* What no step takes back. *)
Steady ==
    /\ torn \subseteq torn'
    /\ \A t \in Part : Excused(t) => Excused(t)'
    /\ \A t \in Part : bronze'[t].data >= bronze[t].data \/ Excused(t)'
    /\ \A p \in Plan, d \in Date : Carried(p, d) => Carried(p, d)'
    /\ \A p \in Plan : apply[p].promotion # "none" => apply'[p].promotion # "none"
    /\ \A t \in Part, v \in Nat : Forgotten(t, v) => Forgotten(t, v)'

LEMMA TornStays ==
    ASSUME IInv, Ledgers, [Next]_vars
    PROVE  torn \subseteq torn'
<1> USE DEF disk, counters
<1>1. Around => torn' = torn
  BY DEF Around, vars, Revise, CreatePlan, Preflight, ClosePlan
<1>2. ASSUME NEW i \in Proc, Calm(i) PROVE torn \subseteq torn'
  BY <1>2 DEF Calm
<1>3. ASSUME NEW i \in Proc, Stages(i) PROVE torn' = torn
  <2>1. ASSUME NEW t \in Part, FetchPartition(i, t) \/ StageRepair(i, t) PROVE torn' = torn
    BY <2>1 DEF FetchPartition, StageRepair
  <2>2. ASSUME ReconcileFactors(i) \/ RepairsStaged(i) PROVE torn' = torn
    BY <2>2 DEF ReconcileFactors, RepairsStaged
  <2>3. ASSUME SaveRepairs(i) \/ EndReconcile(i) PROVE torn' = torn
    BY <2>3 DEF SaveRepairs, EndReconcile
  <2> QED BY <1>3, <2>1, <2>2, <2>3 DEF Stages
<1>4. ASSUME NEW i \in Proc, Writes(i) PROVE torn' = torn
  BY <1>4 DEF Writes, BeginPromote, WritePending, WriteIndex, SkipWrite, WriteData, WriteManifest
<1> QED BY <1>1, <1>2, <1>3, <1>4, StepKinds

LEMMA NotLowered ==
    ASSUME IInv, Overtaking, Untorn, [Next]_vars, NEW t \in Part
    PROVE  bronze'[t].data >= bronze[t].data \/ Excused(t)'
<1>0. torn \subseteq torn'
  BY TornStays DEF Overtaking
<1> SUFFICES ASSUME ~(bronze'[t].data >= bronze[t].data), t \notin torn
             PROVE  WasPutBack(t)'
  BY <1>0 DEF Excused
<1>1. bronze[t].data \in Nat
  BY VersionNumbers DEF IInv
<1>2. PICK i \in Proc : WriteData(i, t)
  BY <1>1, DataWriter
<1>3. ~Torn(t)
  <2>1. proc[i].at = "write_data"
    BY <1>2 DEF WriteData, At
  <2>2. \A j \in Proc : proc[j].at # "write_manifest"
    BY <2>1 DEF IInv, OneWorker, Working
  <2> QED BY <2>2 DEF Untorn
<1>4. PICK p \in Plan : /\ p = proc[i].plan /\ bronze'[t].data = stage[p][t].ver
                        /\ PartitionHash(t) = stage[p][t].base
  BY <1>2, WriteDataBronze
<1>5. PartitionHash(t) = bronze[t].data
  BY <1>3 DEF Torn, PartitionHash
<1>6. stage[p][t].ver \in Nat /\ stage[p][t].base \in Nat
  BY VersionNumbers DEF IInv
<1>7. stage[p][t].ver < stage[p][t].base
  BY <1>1, <1>4, <1>5, <1>6
<1> QED BY <1>2, <1>4, <1>7, PutBackWrite

LEMMA PromotionStays ==
    ASSUME IInv, Overtaking, [Next]_vars, NEW p \in Plan, apply[p].promotion # "none"
    PROVE  apply'[p].promotion # "none"
<1> USE DEF disk, counters
<1>1. apply \in [Plan -> ApplyRecord]
  BY DEF IInv, Types, TypeOK
<1>2. CASE Around
  <2>1. CASE apply' = apply
    BY <2>1
  <2>2. ASSUME NEW i \in Proc, NEW q \in Plan, Preflight(i, q) PROVE apply'[p].promotion # "none"
    <3>1. apply' = [apply EXCEPT ![q] = [apply[q] EXCEPT !.status = IF apply[q].status = "none" THEN "RUNNING"
                                                                    ELSE apply[q].status]]
      BY <1>1, <2>2 DEF Preflight
    <3> QED BY <1>1, <3>1 DEF ApplyRecord
  <2>3. Around => \/ apply' = apply
                  \/ \E i \in Proc, q \in Plan : Preflight(i, q)
    BY DEF Around, vars, Revise, CreatePlan, ClosePlan
  <2> QED BY <1>2, <2>1, <2>2, <2>3
<1>3. ASSUME NEW i \in Proc, Calm(i) PROVE apply'[p].promotion # "none"
  BY <1>3 DEF Calm, SamePromotion
<1>4. ASSUME NEW i \in Proc, Stages(i) PROVE apply'[p].promotion # "none"
  <2>1. CASE EndReconcile(i)
    BY <2>1, FinishFields DEF EndReconcile, At, Busy, SamePromotion, IInv
  <2>2. CASE \E t \in Part : FetchPartition(i, t) \/ StageRepair(i, t)
    BY <2>2 DEF FetchPartition, StageRepair
  <2>3. CASE ReconcileFactors(i) \/ RepairsStaged(i) \/ SaveRepairs(i)
    BY <2>3 DEF ReconcileFactors, RepairsStaged, SaveRepairs
  <2> QED BY <1>4, <2>1, <2>2, <2>3 DEF Stages
<1>5. ASSUME NEW i \in Proc, Writes(i) PROVE apply'[p].promotion # "none"
  <2>1. CASE BeginPromote(i)
    <3>1. apply'[p].promotion \in {"begun", "overtaken", apply[p].promotion}
      BY <1>1, <2>1 DEF BeginPromote, ApplyRecord
    <3> QED BY <3>1
  <2> QED BY <1>5, <2>1 DEF Writes, WritePending, WriteIndex, SkipWrite, WriteData, WriteManifest
<1> QED BY <1>2, <1>3, <1>4, <1>5, StepKinds DEF Overtaking

LEMMA StagedStays ==
    ASSUME IInv, Overtaking, [Next]_vars
    PROVE  /\ \A p \in Plan, t \in Part : Outdated(p, t) => Outdated(p, t)'
           /\ \A p \in Plan, d \in Date : Carried(p, d) => Carried(p, d)'
<1> USE DEF disk, counters
<1> DEFINE Stays == /\ \A p \in Plan, t \in Part : Outdated(p, t) => Outdated(p, t)'
                    /\ \A p \in Plan, d \in Date : Carried(p, d) => Carried(p, d)'
<1>p. plan \in [Plan -> PlanRecord] /\ Types /\ Types'
  BY NextTypes DEF IInv, Types, TypeOK
<1>f. \A d \in Date : <<Factor, d>> \in Part
  BY <1>p, VersionNumbers
<1>1. ASSUME stage' = stage, \A p \in Plan, d \in Date : plan[p].history[d] # 0 =>
                                 plan'[p].history[d] = plan[p].history[d]
      PROVE  Stays
  BY <1>1 DEF Outdated, Carried, Staged
<1>2. ASSUME Around PROVE Stays
  <2>1. ASSUME plan' = plan, stage' = stage PROVE Stays
    BY <1>1, <2>1
  <2>2. ASSUME NEW q \in Plan, NEW d \in Date, CreatePlan(q, d) PROVE Stays
    <3>1. PICK event \in BOOLEAN :
            plan' = [plan EXCEPT ![q] = [plan[q] EXCEPT !.status = "PLANNED", !.target = d,
                                                 !.fetch = FetchMatrix(d), !.event = event]]
      BY <1>p, <2>2 DEF CreatePlan
    <3>2. \A p \in Plan : plan'[p].history = plan[p].history
      BY <1>p, <3>1 DEF PlanRecord
    <3> QED BY <1>1, <2>2, <3>2 DEF CreatePlan
  <2>3. ASSUME NEW i \in Proc, ClosePlan(i) PROVE Stays
    <3>1. \A p \in Plan : plan'[p].history = plan[p].history
      BY <1>p, <2>3 DEF ClosePlan, PlanRecord
    <3> QED BY <1>1, <2>3, <3>1 DEF ClosePlan
  <2> HIDE DEF Stays
  <2> QED BY <1>2, <2>1, <2>2, <2>3 DEF Around, vars, Revise, Preflight
<1>3. ASSUME NEW i \in Proc, Calm(i) PROVE Stays
  BY <1>1, <1>3 DEF Calm
<1>4. ASSUME NEW i \in Proc, NEW u \in Part, FetchPartition(i, u) PROVE Stays
  <2>1. PICK q \in Plan : q = proc[i].plan
    BY <1>4, <1>p, BusyReads DEF FetchPartition, NextToFetch, At, Busy
  <2>2. ~Staged(q, u)
    BY <1>4, <2>1 DEF FetchPartition, NextToFetch, Missing
  <2>3. plan' = plan /\ \A p \in Plan, t \in Part : p # q \/ t # u => stage'[p][t] = stage[p][t]
    BY <1>4, <1>p, <2>1 DEF FetchPartition, Types, TypeOK
  <2>4. \A p \in Plan, t \in Part : Staged(p, t) => stage'[p][t] = stage[p][t]
    BY <2>2, <2>3
  <2> QED BY <1>f, <2>3, <2>4 DEF Outdated, Carried, Staged
<1>5. ASSUME NEW i \in Proc, ReconcileFactors(i) PROVE Stays
  BY <1>1, <1>5, <1>p, HistoryIsRemote DEF ReconcileFactors
<1>6. ASSUME NEW i \in Proc, NEW u \in Part, StageRepair(i, u) PROVE Stays
  <2>1. PICK q \in Plan :
           /\ q = proc[i].plan /\ u[1] = Factor /\ u = <<Factor, u[2]>>
           /\ \A p \in Plan, t \in Part : p # q \/ t # u => stage'[p][t] = stage[p][t]
           /\ stage'[q][u].ver = plan[q].history[u[2]]
           /\ Staged(q, u) => stage'[q][u].base = stage[q][u].base
    BY <1>6, <1>p, RepairedFromHistory
  <2>2. plan' = plan
    BY <1>6 DEF StageRepair
  <2>3. ASSUME NEW p \in Plan, NEW t \in Part, Outdated(p, t) PROVE Outdated(p, t)'
    <3>1. CASE p = q /\ t = u
      <4>1. stage[q][u].ver = plan[q].history[u[2]] /\ Staged(q, u)
        BY <2>3, <3>1 DEF Overtaking, Origins, Outdated
      <4> QED BY <2>1, <2>3, <3>1, <4>1 DEF Outdated, Staged
    <3>2. CASE stage'[p][t] = stage[p][t]
      BY <2>3, <3>2 DEF Outdated, Staged
    <3> QED BY <2>1, <3>1, <3>2
  <2>4. ASSUME NEW p \in Plan, NEW d \in Date, Carried(p, d) PROVE Carried(p, d)'
    <3>1. CASE p = q /\ <<Factor, d>> = u
      <4>1. stage'[q][<<Factor, d>>].ver = plan[q].history[d]
        BY <2>1, <3>1
      <4> QED BY <2>2, <2>4, <3>1, <4>1 DEF Carried, Staged
    <3>2. CASE stage'[p][<<Factor, d>>] = stage[p][<<Factor, d>>]
      BY <2>2, <2>4, <3>2 DEF Carried, Staged
    <3> QED BY <1>f, <2>1, <3>1, <3>2
  <2> QED BY <2>3, <2>4
<1>10. ASSUME NEW i \in Proc, RepairsStaged(i) PROVE Stays
  BY <1>1, <1>10 DEF RepairsStaged
<1>7. ASSUME NEW i \in Proc, SaveRepairs(i) PROVE Stays
  <2>1. \A p \in Plan : plan'[p].history = plan[p].history
    <3>1. proc[i].plan \in Plan
      BY <1>7, <1>p, BusyReads DEF SaveRepairs, At, Busy
    <3> DEFINE r == [plan[proc[i].plan] EXCEPT !.repairs = {t[2] : t \in proc[i].todo}]
    <3>2. plan' = [plan EXCEPT ![proc[i].plan] = r]
      BY <1>7 DEF SaveRepairs
    <3>3. r.history = plan[proc[i].plan].history
      <4>1. plan[proc[i].plan] \in PlanRecord
        BY <1>7, <1>p, BusyReads DEF SaveRepairs, At, Busy
      <4> QED BY <4>1 DEF PlanRecord
    <3> HIDE DEF r
    <3> QED BY <1>p, <3>1, <3>2, <3>3
  <2> QED BY <1>1, <1>7, <2>1 DEF SaveRepairs
<1>8. ASSUME NEW i \in Proc, EndReconcile(i) \/ Writes(i) PROVE Stays
  BY <1>1, <1>8 DEF EndReconcile, Writes, BeginPromote, WritePending, WriteIndex, SkipWrite, WriteData,
                    WriteManifest
<1> HIDE DEF Stays
<1>9. Stays
  BY <1>2, <1>3, <1>4, <1>5, <1>6, <1>7, <1>8, <1>10, StepKinds DEF Stages, Overtaking
<1> QED BY <1>9 DEF Stays

(* What a plan that has begun to promote is made of does not change any more. *)
LEMMA BegunStays ==
    ASSUME IInv, Overtaking, [Next]_vars, \A q \in Plan : Blank(q) /\ Begun(q),
           NEW p \in Plan, apply[p].promotion # "none"
    PROVE  stage'[p] = stage[p] /\ plan'[p].fetch = plan[p].fetch /\ plan'[p].repairs = plan[p].repairs
<1> USE DEF disk, counters
<1> DEFINE Same == /\ stage'[p] = stage[p]
                   /\ plan'[p].fetch = plan[p].fetch /\ plan'[p].repairs = plan[p].repairs
<1>p. plan \in [Plan -> PlanRecord] /\ Types /\ apply[p].next \notin Opening
  BY DEF IInv, Types, TypeOK, Begun
<1>1. ASSUME Around PROVE Same
  <2>1. ASSUME UNCHANGED <<stage, plan>> PROVE Same
    BY <2>1
  <2>2. ASSUME NEW q \in Plan, NEW d \in Date, CreatePlan(q, d) PROVE Same
    <3>1. PICK event \in BOOLEAN :
            plan' = [plan EXCEPT ![q] = [plan[q] EXCEPT !.status = "PLANNED", !.target = d,
                                                 !.fetch = FetchMatrix(d), !.event = event]]
      BY <1>p, <2>2 DEF CreatePlan
    <3>2. q # p
      BY <1>p, <2>2 DEF CreatePlan, Blank
    <3>3. plan'[p] = plan[p]
      BY <1>p, <3>1, <3>2
    <3> QED BY <2>2, <3>3 DEF CreatePlan
  <2>3. ASSUME NEW i \in Proc, ClosePlan(i) PROVE Same
    BY <1>p, <2>3 DEF ClosePlan, PlanRecord
  <2> HIDE DEF Same
  <2> QED BY <1>1, <2>1, <2>2, <2>3 DEF Around, vars, Revise, Preflight
<1>2. ASSUME NEW i \in Proc, Calm(i) PROVE Same
  BY <1>2 DEF Calm
<1>3. ASSUME NEW i \in Proc, Stages(i) PROVE Same
  <2>1. proc[i].at \in OpeningPoints
    <3>1. ASSUME NEW u \in Part, FetchPartition(i, u) \/ StageRepair(i, u)
          PROVE  proc[i].at \in OpeningPoints
      BY <3>1 DEF FetchPartition, NextToFetch, StageRepair, At, OpeningPoints, Opening
    <3>2. ASSUME ReconcileFactors(i) \/ RepairsStaged(i) PROVE proc[i].at \in OpeningPoints
      BY <3>2 DEF ReconcileFactors, RepairsStaged, At, OpeningPoints, Opening
    <3>3. ASSUME SaveRepairs(i) \/ EndReconcile(i) PROVE proc[i].at \in OpeningPoints
      BY <3>3 DEF SaveRepairs, EndReconcile, At, OpeningPoints
    <3> QED BY <1>3, <3>1, <3>2, <3>3 DEF Stages
  <2>2. proc[i].plan \in Plan /\ proc[i].plan # p
    <3> HIDE DEF Same
    <3>1. Working(i)
      BY <2>1 DEF Working, OpeningPoints, Opening
    <3>2. proc[i].plan \in Plan /\ apply[proc[i].plan].next \in Opening
      BY <2>1, <3>1, BusyLedger DEF Overtaking
    <3> QED BY <1>p, <3>2
  <2>3. ASSUME NEW u \in Part, FetchPartition(i, u) \/ StageRepair(i, u) PROVE Same
    BY <1>p, <2>2, <2>3 DEF FetchPartition, StageRepair, Types, TypeOK
  <2>4. ASSUME ReconcileFactors(i) PROVE Same
    BY <1>p, <2>2, <2>4 DEF ReconcileFactors
  <2>5. ASSUME SaveRepairs(i) PROVE Same
    BY <1>p, <2>2, <2>5 DEF SaveRepairs
  <2>6. ASSUME RepairsStaged(i) \/ EndReconcile(i) PROVE Same
    BY <2>6 DEF RepairsStaged, EndReconcile
  <2> HIDE DEF Same
  <2> QED BY <1>3, <2>3, <2>4, <2>5, <2>6 DEF Stages
<1>4. ASSUME NEW i \in Proc, Writes(i) PROVE Same
  BY <1>4 DEF Writes, BeginPromote, WritePending, WriteIndex, SkipWrite, WriteData, WriteManifest
<1> HIDE DEF Same
<1>5. Same
  BY <1>1, <1>2, <1>3, <1>4, StepKinds DEF Overtaking
<1> QED BY <1>5 DEF Same

LEMMA NextSteady ==
    ASSUME IInv, Overtaking, Indexed, [Next]_vars
    PROVE  Steady
<1>1. torn \subseteq torn'
  BY TornStays DEF Overtaking
<1>2. \A p \in Plan : Blank(p) /\ Begun(p)
  BY DEF Indexed, Ready
<1>3. \A t \in Part : WasPutBack(t) => WasPutBack(t)'
  BY PromotionStays, StagedStays DEF WasPutBack
<1>4. ASSUME NEW t \in Part, NEW v \in Nat, Forgotten(t, v) PROVE Forgotten(t, v)'
  <2>1. PICK p \in Plan : apply[p].promotion # "none" /\ Unnamed(p, t) /\ stage[p][t].ver = v
    BY <1>4 DEF Forgotten
  <2>2. /\ stage'[p] = stage[p] /\ plan'[p].fetch = plan[p].fetch /\ plan'[p].repairs = plan[p].repairs
        /\ apply'[p].promotion # "none"
    BY <1>2, <2>1, BegunStays, PromotionStays
  <2> QED BY <2>1, <2>2 DEF Forgotten, Unnamed, Promised, Staged
<1> QED BY <1>1, <1>3, <1>4, NotLowered, PromotionStays, StagedStays DEF Steady, Excused, Indexed

(* What a plan is to write into the index, and the whole of it. *)
SameGoal(p) ==
    /\ plan'[p].target = plan[p].target /\ plan'[p].event = plan[p].event
    /\ plan'[p].history = plan[p].history
    /\ plan'[p].status = "none" <=> plan[p].status = "none"
SamePlan(p) ==
    SameGoal(p) /\ plan'[p].fetch = plan[p].fetch /\ plan'[p].repairs = plan[p].repairs
Resting(i) == proc[i].at \notin (OpeningPoints \ Opening) \cup WritePoints

LEMMA KnownStays ==
    ASSUME Types, Types', Steady, NEW t \in Part, NEW v \in Nat, Known(t, v)
    PROVE  Known(t, v)'
<1>1. bronze[t].data \in Nat /\ bronze'[t].data \in Nat
  BY BoundAssumption DEF Types, TypeOK, Version
<1>2. CASE Excused(t) \/ Forgotten(t, v)
  BY <1>2 DEF Steady, Known
<1>3. CASE v <= bronze[t].data
  <2>1. bronze'[t].data >= bronze[t].data \/ Excused(t)'
    BY DEF Steady
  <2>2. CASE bronze'[t].data >= bronze[t].data
    <3>1. v <= bronze'[t].data
      BY <1>1, <1>3, <2>2
    <3> QED BY <3>1 DEF Known
  <2> QED BY <2>1, <2>2 DEF Known
<1> QED BY <1>2, <1>3 DEF Known

LEMMA ForeseenStays ==
    ASSUME Types, Types', Steady, NEW p \in Plan, NEW d \in Date,
           plan'[p].history = plan[p].history, Foreseen(p, d)
    PROVE  Foreseen(p, d)'
<1>1. CASE Carried(p, d)
  BY <1>1 DEF Steady, Foreseen
<1>2. CASE Reached(p, d)
  <2>1. <<Factor, d>> \in Part /\ plan[p].history[d] \in Nat
    BY VersionNumbers
  <2>2. PICK v \in Nat : v = plan[p].history[d] /\ v = plan'[p].history[d]
    BY <2>1
  <2>3. Known(<<Factor, d>>, v)
    BY <1>2, <2>2 DEF Reached
  <2>4. Known(<<Factor, d>>, v)'
    BY <2>1, <2>3, KnownStays
  <2> QED BY <2>2, <2>4 DEF Foreseen, Reached
<1> QED BY <1>1, <1>2 DEF Foreseen

LEMMA ReadyStays ==
    ASSUME IInv, Types', Steady, NEW p \in Plan, Ready(p), SameGoal(p),
           apply'[p].next \in Opening <=> apply[p].next \in Opening,
           apply'[p].promotion = apply[p].promotion \/ apply[p].next \notin Opening
    PROVE  Ready(p)'
<1>1. Blank(p)'
  BY DEF Ready, Blank, SameGoal
<1>2. Beyond(p)'
  BY DEF Ready, Beyond, SameGoal
<1>3. Begun(p)'
  BY DEF Ready, Begun
<1>4. Settled(p)'
  <2> SUFFICES ASSUME plan[p].event, apply[p].next \notin Opening, NEW d \in 1 .. plan[p].target
               PROVE  Foreseen(p, d)'
    BY DEF Settled, SameGoal
  <2>1. d \in Date
    BY TargetDates DEF IInv
  <2> QED BY <2>1, ForeseenStays DEF Ready, Settled, IInv, SameGoal
<1> QED BY <1>1, <1>2, <1>3, <1>4 DEF Ready

LEMMA RestingUnderway ==
    ASSUME NEW i \in Proc, Resting(i)'
    PROVE  Underway(i)'
BY DEF Resting, Underway, Reconciled, Promoted, Writing, OpeningPoints, Opening, WritePoints

LEMMA UnderwayStays ==
    ASSUME IInv, Types', Steady, NEW i \in Proc, proc'[i] = proc[i], UNCHANGED <<bronze, stage>>,
           \A p \in Plan : proc[i].plan = p => SamePlan(p), Underway(i)
    PROVE  Underway(i)'
<1> SUFFICES ASSUME NEW p \in Plan, proc[i].plan = p
             PROVE  Reconciled(i, p)' /\ Promoted(i, p)'
  BY DEF Underway
<1>1. SamePlan(p) /\ SameGoal(p) /\ Reconciled(i, p) /\ Promoted(i, p)
  BY DEF Underway, SamePlan
<1>2. Targets(p)' = Targets(p) /\ \A t : Done(p, t)' = Done(p, t)
  BY <1>1 DEF Targets, Promised, Done, Staged, SamePlan
<1>3. torn \subseteq torn' /\ (apply[p].promotion # "none" => apply'[p].promotion # "none")
  BY DEF Steady
<1>4. Promoted(i, p)'
  BY <1>1, <1>2, <1>3 DEF Promoted, Writing
<1>5. 1 .. plan[p].target \subseteq Date
  BY TargetDates DEF IInv
<1>6. \A d \in 1 .. plan[p].target : Foreseen(p, d) => Foreseen(p, d)'
  BY <1>1, <1>5, ForeseenStays DEF IInv, SameGoal
<1>7. Reconciled(i, p)'
  BY <1>1, <1>6 DEF Reconciled, SameGoal
<1> QED BY <1>4, <1>7

LEMMA IndexStays ==
    ASSUME IInv, Types', Steady, IndexNeverAhead, UNCHANGED index
    PROVE  IndexNeverAhead'
<1> SUFFICES ASSUME NEW d \in Date PROVE Known(<<Factor, d>>, index.value[d])'
  BY DEF IndexNeverAhead
<1>1. <<Factor, d>> \in Part /\ index.value[d] \in Nat
  BY VersionNumbers DEF IInv
<1>2. PICK v \in Nat : v = index.value[d] /\ v = index'.value[d]
  BY <1>1
<1>3. Known(<<Factor, d>>, v)
  BY <1>2 DEF IndexNeverAhead
<1>4. Known(<<Factor, d>>, v)'
  BY <1>1, <1>3, KnownStays DEF IInv
<1> QED BY <1>2, <1>4

(* A step that neither stages nor writes; a kill that tears is recorded. *)
LEMMA QuietIndexed ==
    ASSUME IInv, Types', Steady, Indexed, UNCHANGED <<bronze, stage, index>>, SameOpening, SamePromotion,
           \A p \in Plan : SamePlan(p) \/ (plan[p].status = "none" /\ Ready(p)'),
           \A j \in Proc : \/ proc'[j] = proc[j]
                           \/ /\ Resting(j)'
                              /\ proc[j].at \in Inside => \A t \in Part : Torn(t) => t \in torn'
    PROVE  Indexed'
<1>1. Untorn'
  <2> SUFFICES ASSUME NEW t \in Part, Torn(t), t \notin torn'
               PROVE  \E j \in Proc, p \in Plan : (/\ proc[j].at = "write_manifest" /\ proc[j].plan = p
                                                   /\ t \in proc[j].todo /\ Done(p, t))'
    BY DEF Untorn, Torn
  <2>1. PICK j \in Proc, p \in Plan : /\ proc[j].at = "write_manifest" /\ proc[j].plan = p
                                      /\ t \in proc[j].todo /\ Done(p, t)
    BY DEF Indexed, Untorn, Steady
  <2>2. proc'[j] = proc[j]
    BY <2>1 DEF Inside
  <2> QED BY <2>1, <2>2 DEF Done
<1>2. IndexNeverAhead'
  BY IndexStays DEF Indexed
<1>3. ASSUME NEW p \in Plan PROVE Ready(p)'
  BY ReadyStays DEF Indexed, SameOpening, SamePromotion, SamePlan
<1>4. ASSUME NEW j \in Proc PROVE Underway(j)'
  <2>1. CASE Resting(j)'
    BY <2>1, RestingUnderway
  <2>2. CASE proc'[j] = proc[j] /\ ~Resting(j)
    <3>1. \A p \in Plan : proc[j].plan = p => SamePlan(p)
      BY <2>2 DEF IInv, Types, HasPlan, Busy, Resting, OpeningPoints, Opening, WritePoints
    <3> QED BY <2>2, <3>1, UnderwayStays DEF Indexed
  <2> QED BY <2>1, <2>2 DEF Resting
<1> QED BY <1>1, <1>2, <1>3, <1>4 DEF Indexed

(* The working process goes on: the others rest. *)
LEMMA WorkerIndexed ==
    ASSUME IInv, NEW i \in Proc, Working(i), \A j \in Proc \ {i} : proc'[j] = proc[j],
           Untorn', IndexNeverAhead', \A p \in Plan : Ready(p)', Underway(i)'
    PROVE  Indexed'
<1>1. ASSUME NEW j \in Proc \ {i} PROVE Resting(j)'
  BY DEF IInv, OneWorker, Working, Resting, OpeningPoints, Opening, WritePoints
<1> QED BY <1>1, RestingUnderway DEF Indexed

(* But while a process is at write_manifest, what is torn was left by a kill. *)
LEMMA TornBefore ==
    ASSUME IInv, Untorn, NEW i \in Proc, Working(i), proc[i].at # "write_manifest"
    PROVE  \A t \in Part : Torn(t) => t \in torn
BY DEF IInv, OneWorker, Working, Untorn

LEMMA UntornElsewhere ==
    ASSUME IInv, Steady, Untorn, NEW i \in Proc, Working(i), proc[i].at # "write_manifest", UNCHANGED bronze
    PROVE  Untorn'
BY TornBefore DEF Untorn, Torn, Steady

LEMMA InitIndexed == Init => Indexed
<1> SUFFICES ASSUME Init PROVE Indexed
  OBVIOUS
<1>t. Types
  BY InitTypes
<1>1. \A i \in Proc : proc[i].at = "idle"
  BY DEF Init, Idle
<1>2. Untorn
  BY DEF Init, Untorn, Torn
<1>3. IndexNeverAhead
  <2> SUFFICES ASSUME NEW d \in Date PROVE index.value[d] <= bronze[<<Factor, d>>].data
    BY DEF IndexNeverAhead, Known
  <2>1. index.value[d] = 0 /\ bronze[<<Factor, d>>].data \in Nat
    BY <1>t, VersionNumbers DEF Init
  <2> QED BY <2>1
<1>4. ASSUME NEW p \in Plan PROVE Ready(p)
  BY DEF Init, Ready, Blank, Beyond, Begun, Settled, Opening
<1>5. \A i \in Proc : Underway(i)
  BY <1>1 DEF Underway, Reconciled, Promoted, Writing
<1> QED BY <1>2, <1>3, <1>4, <1>5 DEF Indexed

LEMMA AroundIndexed ==
    ASSUME IInv, Types', Steady, Indexed, Around
    PROVE  Indexed'
<1> USE DEF disk, counters, SameGoal
<1>p. /\ plan \in [Plan -> PlanRecord] /\ proc \in [Proc -> ProcRecord] /\ apply \in [Plan -> ApplyRecord]
      /\ HasPlan
  BY DEF IInv, Types, TypeOK
<1>1. ASSUME UNCHANGED <<bronze, stage, index, plan, proc, apply>> PROVE Indexed'
  BY <1>1, QuietIndexed DEF SameOpening, SamePromotion, SamePlan
<1>2. ASSUME NEW q \in Plan, NEW d \in Date, CreatePlan(q, d) PROVE Indexed'
  <2>1. UNCHANGED <<bronze, stage, index, proc, apply>> /\ plan[q].status = "none"
    BY <1>2 DEF CreatePlan
  <2>2. PICK event \in BOOLEAN :
          plan' = [plan EXCEPT ![q] = [plan[q] EXCEPT !.status = "PLANNED", !.target = d,
                                               !.fetch = FetchMatrix(d), !.event = event]]
    BY <1>p, <1>2 DEF CreatePlan
  <2>3. \A p \in Plan \ {q} : SamePlan(p)
    BY <1>p, <2>2 DEF SamePlan
  <2>4. plan'[q].status = "PLANNED" /\ plan'[q].history = plan[q].history
    BY <1>p, <2>2 DEF PlanRecord
  <2>5. Ready(q)'
    BY <2>1, <2>4 DEF Indexed, Ready, Blank, Beyond, Begun, Settled
  <2> QED BY <2>1, <2>3, <2>5, QuietIndexed DEF SameOpening, SamePromotion
<1>3. ASSUME NEW i \in Proc, NEW q \in Plan, Preflight(i, q) PROVE Indexed'
  <2>1. UNCHANGED <<bronze, stage, index, plan>> /\ proc[i].at = "idle"
    BY <1>3 DEF Preflight, Idle
  <2>2. proc'[i].at = "preflight" /\ \A j \in Proc \ {i} : proc'[j] = proc[j]
    BY <1>p, <1>3 DEF Preflight, ProcRecord
  <2>3. apply' = [apply EXCEPT ![q].status = IF @ = "none" THEN "RUNNING" ELSE @]
    BY <1>3 DEF Preflight
  <2>4. SameOpening /\ SamePromotion
    BY <1>p, <2>3 DEF SameOpening, SamePromotion, ApplyRecord
  <2>5. proc[i].at \notin Inside /\ Resting(i)'
    BY <2>1, <2>2 DEF Inside, Resting, OpeningPoints, Opening, WritePoints
  <2> QED BY <2>1, <2>2, <2>4, <2>5, QuietIndexed DEF SamePlan
<1>4. ASSUME NEW i \in Proc, ClosePlan(i) PROVE Indexed'
  <2>1. PICK q \in Plan : q = proc[i].plan /\ plan[q].status # "none"
    BY <1>p, <1>4 DEF ClosePlan, At, HasPlan, Busy
  <2>2. UNCHANGED <<bronze, stage, index, apply>> /\ proc[i].at = "close_plan"
    BY <1>4 DEF ClosePlan, At
  <2>3. proc'[i].at = "idle" /\ \A j \in Proc \ {i} : proc'[j] = proc[j]
    BY <1>p, <1>4 DEF ClosePlan, Idle
  <2>4. ASSUME NEW p \in Plan PROVE SamePlan(p)
    BY <1>p, <1>4, <2>1 DEF ClosePlan, SamePlan, PlanRecord
  <2>5. proc[i].at \notin Inside /\ Resting(i)'
    BY <2>2, <2>3 DEF Inside, Resting, OpeningPoints, Opening, WritePoints
  <2> QED BY <2>2, <2>3, <2>4, <2>5, QuietIndexed DEF SameOpening, SamePromotion
<1> QED BY <1>1, <1>2, <1>3, <1>4 DEF Around, vars, Revise

LEMMA CalmIndexed ==
    ASSUME IInv, Types', Steady, Indexed, NEW i \in Proc, Calm(i)
    PROVE  Indexed'
<1>1. proc[i].at \in Inside => \A t \in Part : Torn(t) => t \in torn'
  BY DEF Calm
<1>2. Resting(i)'
  BY DEF Calm, Resting, OpeningPoints, Opening, WritePoints
<1>3. /\ UNCHANGED <<bronze, stage, index, plan>> /\ SameOpening /\ SamePromotion
      /\ \A j \in Proc \ {i} : proc'[j] = proc[j]
  BY DEF Calm
<1> QED BY <1>1, <1>2, <1>3, QuietIndexed DEF SamePlan, SameGoal

(* A step of the worker that changes no plan's goal, and no ledger. *)
LEMMA AllReady ==
    ASSUME IInv, Types', Steady, Indexed, UNCHANGED apply, \A p \in Plan : SameGoal(p)
    PROVE  \A p \in Plan : Ready(p)'
BY ReadyStays DEF Indexed

LEMMA FetchIndexed ==
    ASSUME IInv, Types', Overtaking, Steady, Indexed, NEW i \in Proc, NEW u \in Part, FetchPartition(i, u)
    PROVE  Indexed'
<1> USE DEF disk, counters
<1>1. /\ proc[i].at = "market_fetch" /\ Working(i) /\ UNCHANGED <<bronze, index, plan, apply, proc>>
  BY DEF FetchPartition, NextToFetch, At, Working
<1>2. Untorn' /\ IndexNeverAhead'
  BY <1>1, UntornElsewhere, IndexStays DEF Indexed
<1>3. \A q \in Plan : Ready(q)'
  BY <1>1, AllReady DEF SameGoal
<1>4. Resting(i)'
  BY <1>1 DEF Resting, OpeningPoints, Opening, WritePoints
<1> QED BY <1>1, <1>2, <1>3, <1>4, RestingUnderway, WorkerIndexed

(* Dates whose factor differs are repaired; for the others the index answers. *)
LEMMA ReconcileIndexed ==
    ASSUME IInv, Types', Overtaking, Steady, Indexed, NEW i \in Proc, ReconcileFactors(i)
    PROVE  Indexed'
<1> USE DEF disk, counters
<1>p. plan \in [Plan -> PlanRecord] /\ proc \in [Proc -> ProcRecord]
  BY DEF IInv, Types, TypeOK
<1>1. proc[i].at = "factor_reconcile" /\ Working(i) /\ UNCHANGED <<bronze, stage, apply>>
  BY DEF ReconcileFactors, At, Working
<1>2. PICK p \in Plan : p = proc[i].plan /\ apply[p].next \in Opening /\ plan[p].status # "none"
  BY <1>1, BusyLedger DEF Overtaking, OpeningPoints, Opening, IInv, Types, HasPlan, Busy, Working
<1> DEFINE diff == {d \in 1 .. plan[p].target : RemoteHistory(p)[d] # LocalFactor(p, d)}
<1>3. \/ /\ plan[p].event /\ plan' = [plan EXCEPT ![p].history = RemoteHistory(p)]
         /\ index' = CaughtUp
         /\ proc' = [proc EXCEPT ![i].todo = {Factor} \X diff, ![i].at = "stage_repairs"]
      \/ /\ ~plan[p].event /\ UNCHANGED <<plan, index>>
         /\ proc' = [proc EXCEPT ![i].todo = {}, ![i].at = "save_repairs"]
  BY <1>2 DEF ReconcileFactors
<1>4. /\ \A q \in Plan \ {p} : plan'[q] = plan[q]
      /\ plan'[p].target = plan[p].target /\ plan'[p].event = plan[p].event
      /\ plan'[p].status = plan[p].status
  BY <1>p, <1>2, <1>3 DEF PlanRecord
<1>5. /\ proc'[i].at \in {"stage_repairs", "save_repairs"} /\ proc'[i].plan = p
      /\ \A j \in Proc \ {i} : proc'[j] = proc[j]
  BY <1>p, <1>2, <1>3 DEF ProcRecord
<1>6. Untorn'
  BY <1>1, UntornElsewhere DEF Indexed
<1>7. ASSUME NEW d \in Date, NEW v \in Nat, v = CaughtUp.value[d] PROVE Known(<<Factor, d>>, v)'
  <2>1. <<Factor, d>> \in Part /\ bronze[<<Factor, d>>].data \in Nat
    BY VersionNumbers DEF IInv
  <2>2. Known(<<Factor, d>>, v)
    BY <1>7, <2>1 DEF CaughtUp, Known, Indexed, IndexNeverAhead
  <2> QED BY <2>1, <2>2, KnownStays DEF IInv
<1>8. IndexNeverAhead'
  <2>1. CASE index' = index
    BY <2>1, IndexStays DEF Indexed
  <2>2. CASE index' = CaughtUp
    <3> SUFFICES ASSUME NEW d \in Date PROVE Known(<<Factor, d>>, index.value[d])'
      BY DEF IndexNeverAhead
    <3>1. PICK v \in Nat : v = CaughtUp.value[d] /\ v = index'.value[d]
      BY <2>2, VersionNumbers DEF CaughtUp, IInv
    <3> QED BY <1>7, <3>1
  <2> QED BY <1>3, <2>1, <2>2
<1>9. ASSUME NEW q \in Plan \ {p} PROVE Ready(q)'
  BY <1>1, <1>4, ReadyStays DEF Indexed, SameGoal
<1>10. Ready(p)'
  <2>1. Begun(p)'
    BY <1>1 DEF Indexed, Ready, Begun
  <2>2. Beyond(p)'
    <3>1. CASE plan' = plan
      BY <3>1 DEF Indexed, Ready, Beyond
    <3>2. CASE plan' = [plan EXCEPT ![p].history = RemoteHistory(p)]
      <4>1. plan'[p].history = RemoteHistory(p)
        BY <1>p, <3>2 DEF PlanRecord
      <4>2. \A d \in Date : d > plan[p].target => RemoteHistory(p)[d] = 0
        <5>1. plan[p].target \in Nat
          BY <1>p, DateAssumption DEF PlanRecord, Date
        <5> QED BY <5>1, DateAssumption DEF RemoteHistory, Indexed, Ready, Beyond, Date
      <4> QED BY <1>4, <4>1, <4>2 DEF Beyond
    <3> QED BY <1>3, <3>1, <3>2
  <2>3. Blank(p)' /\ Settled(p)'
    BY <1>1, <1>2, <1>4 DEF Blank, Settled
  <2> QED BY <2>1, <2>2, <2>3 DEF Ready
<1>11. Underway(i)'
  <2>1. CASE ~plan[p].event
    BY <1>3, <1>4, <1>5, <2>1, <1>p DEF Underway, Reconciled, Promoted, Writing, ProcRecord
  <2>2. CASE plan[p].event
    <3>1. /\ proc'[i].at = "stage_repairs" /\ proc'[i].todo = {Factor} \X diff
          /\ plan'[p].history = RemoteHistory(p)
      BY <1>p, <1>3, <2>2 DEF ProcRecord, PlanRecord
    <3>2. ASSUME NEW d \in 1 .. plan[p].target
          PROVE  <<Factor, d>> \in proc'[i].todo \/ Foreseen(p, d)'
      <4>1. d \in Date
        BY TargetDates DEF IInv
      <4>2. CASE d \in diff
        BY <3>1, <4>2
      <4>3. CASE RemoteHistory(p)[d] = LocalFactor(p, d)
        <5>1. CASE Staged(p, <<Factor, d>>)
          <6>1. Carried(p, d)'
            BY <1>1, <3>1, <4>3, <5>1 DEF LocalFactor, Carried, Staged
          <6> QED BY <6>1 DEF Foreseen
        <5>2. CASE ~Staged(p, <<Factor, d>>)
          <6>1. RemoteHistory(p)[d] = CaughtUp.value[d]
            BY <4>3, <5>2 DEF LocalFactor
          <6>2. PICK v \in Nat : v = CaughtUp.value[d] /\ v = plan'[p].history[d]
            BY <3>1, <4>1, <6>1, VersionNumbers DEF CaughtUp, IInv
          <6>3. Known(<<Factor, d>>, v)'
            BY <1>7, <4>1, <6>2
          <6> QED BY <6>2, <6>3 DEF Foreseen, Reached
        <5> QED BY <5>1, <5>2
      <4> QED BY <4>2, <4>3
    <3> HIDE DEF diff
    <3>3. Reconciled(i, p)'
      BY <1>4, <3>1, <3>2 DEF Reconciled
    <3>4. Promoted(i, p)'
      BY <3>1 DEF Promoted, Writing
    <3> QED BY <1>5, <3>3, <3>4 DEF Underway
  <2> QED BY <2>1, <2>2
<1> QED BY <1>1, <1>5, <1>6, <1>8, <1>9, <1>10, <1>11, WorkerIndexed

(* A date to repair is staged with the provider's factor: the others stay foreseen. *)
LEMMA RepairIndexed ==
    ASSUME IInv, Types', Overtaking, Steady, Indexed, NEW i \in Proc, NEW t \in Part, StageRepair(i, t)
    PROVE  Indexed'
<1> USE DEF disk, counters
<1>1. proc[i].at = "stage_repairs" /\ Working(i) /\ UNCHANGED <<bronze, index, plan, apply, proc>>
  BY DEF StageRepair, At, Working
<1>2. PICK p \in Plan : p = proc[i].plan
  BY <1>1 DEF IInv, Types, HasPlan, Busy, Working
<1>3. Untorn' /\ IndexNeverAhead'
  BY <1>1, UntornElsewhere, IndexStays DEF Indexed
<1>4. \A q \in Plan : Ready(q)'
  BY <1>1, AllReady DEF SameGoal
<1>5. ASSUME NEW d \in 1 .. plan[p].target
      PROVE  <<Factor, d>> \in proc[i].todo \/ Foreseen(p, d)'
  <2>1. d \in Date
    BY TargetDates DEF IInv
  <2>2. <<Factor, d>> \in proc[i].todo \/ Foreseen(p, d)
    BY <1>1, <1>2 DEF Indexed, Underway, Reconciled
  <2> QED BY <1>1, <2>1, <2>2, ForeseenStays DEF IInv
<1>6. Underway(i)'
  BY <1>1, <1>2, <1>5 DEF Underway, Reconciled, Promoted, Writing
<1> QED BY <1>1, <1>3, <1>4, <1>6, WorkerIndexed

(* Every date to repair is staged with the provider's factor, or the provider has none. *)
LEMMA RepairedIndexed ==
    ASSUME IInv, Types', Overtaking, Steady, Indexed, NEW i \in Proc, RepairsStaged(i)
    PROVE  Indexed'
<1> USE DEF disk, counters
<1>1. /\ proc[i].at = "stage_repairs" /\ Working(i) /\ UNCHANGED <<bronze, index, stage, plan, apply>>
      /\ Unrepaired(i) = {}
  BY DEF RepairsStaged, At, Working
<1>2. PICK p \in Plan : p = proc[i].plan
  BY <1>1 DEF IInv, Types, HasPlan, Busy, Working
<1>3. /\ proc'[i].at = "save_repairs" /\ proc'[i].plan = p
      /\ \A j \in Proc \ {i} : proc'[j] = proc[j]
  BY <1>2 DEF RepairsStaged, Goto, IInv, Types, TypeOK, ProcRecord
<1>4. Untorn' /\ IndexNeverAhead'
  BY <1>1, UntornElsewhere, IndexStays DEF Indexed
<1>5. \A q \in Plan : Ready(q)'
  BY <1>1, AllReady DEF SameGoal
<1>6. ASSUME NEW d \in 1 .. plan[p].target PROVE Foreseen(p, d)'
  <2> DEFINE t == <<Factor, d>>
  <2>1. d \in Date
    BY TargetDates DEF IInv
  <2>2. plan[p].history[d] \in Nat /\ bronze[t].data \in Nat
    BY <2>1, VersionNumbers DEF IInv
  <2>3. CASE t \in proc[i].todo
    <3>1. stage[p][t].ver = plan[p].history[d]
      BY <1>1, <1>2, <2>3 DEF Unrepaired
    <3>2. ASSUME plan[p].history[d] = 0 PROVE Foreseen(p, d)
      BY <2>2, <3>2 DEF Foreseen, Reached, Known
    <3>3. ASSUME plan[p].history[d] # 0 PROVE Foreseen(p, d)
      BY <3>1, <3>3 DEF Foreseen, Carried, Staged
    <3>4. Foreseen(p, d)
      BY <3>2, <3>3
    <3> QED BY <1>1, <2>1, <3>4, ForeseenStays DEF IInv
  <2>4. t \in proc[i].todo \/ Foreseen(p, d)
    BY <1>1, <1>2 DEF Indexed, Underway, Reconciled
  <2> QED BY <1>1, <2>1, <2>3, <2>4, ForeseenStays DEF IInv
<1>7. Underway(i)'
  BY <1>1, <1>3, <1>6 DEF Underway, Reconciled, Promoted, Writing
<1> QED BY <1>1, <1>3, <1>4, <1>5, <1>7, WorkerIndexed

(* The repairs are saved in the plan, and so promised. *)
LEMMA SaveIndexed ==
    ASSUME IInv, Types', Overtaking, Steady, Indexed, NEW i \in Proc, SaveRepairs(i)
    PROVE  Indexed'
<1> USE DEF disk, counters
<1>p. plan \in [Plan -> PlanRecord] /\ proc \in [Proc -> ProcRecord]
  BY DEF IInv, Types, TypeOK
<1>1. proc[i].at = "save_repairs" /\ Working(i) /\ UNCHANGED <<bronze, index, stage, apply>>
  BY DEF SaveRepairs, At, Working
<1>2. PICK p \in Plan : p = proc[i].plan
  BY <1>1 DEF IInv, Types, HasPlan, Busy, Working
<1>3. \A q \in Plan : SameGoal(q)
  <2> DEFINE r == [plan[p] EXCEPT !.repairs = {t[2] : t \in proc[i].todo}]
  <2>1. plan' = [plan EXCEPT ![p] = r]
    BY <1>2, <1>p DEF SaveRepairs
  <2>2. /\ r.target = plan[p].target /\ r.event = plan[p].event
        /\ r.history = plan[p].history /\ r.status = plan[p].status
    BY <1>p DEF PlanRecord
  <2> HIDE DEF r
  <2> QED BY <1>p, <2>1, <2>2 DEF SameGoal
<1>4. /\ proc'[i].at = "end_reconcile" /\ proc'[i].plan = p
      /\ \A j \in Proc \ {i} : proc'[j] = proc[j]
  BY <1>p, <1>2 DEF SaveRepairs, ProcRecord
<1>5. Untorn' /\ IndexNeverAhead'
  BY <1>1, UntornElsewhere, IndexStays DEF Indexed
<1>6. \A q \in Plan : Ready(q)'
  BY <1>1, <1>3, AllReady
<1>7. ASSUME plan[p].event, NEW d \in 1 .. plan[p].target PROVE Foreseen(p, d)'
  <2>1. d \in Date
    BY TargetDates DEF IInv
  <2>2. Foreseen(p, d)
    BY <1>1, <1>2, <1>7 DEF Indexed, Underway, Reconciled
  <2> QED BY <1>3, <2>1, <2>2, ForeseenStays DEF IInv, SameGoal
<1>8. Underway(i)'
  BY <1>3, <1>4, <1>7 DEF Underway, Reconciled, Promoted, Writing, SameGoal
<1> QED BY <1>1, <1>4, <1>5, <1>6, <1>8, WorkerIndexed

LEMMA EndReconcileIndexed ==
    ASSUME IInv, Types', Overtaking, Steady, Indexed, NEW i \in Proc, EndReconcile(i)
    PROVE  Indexed'
<1> USE DEF disk, counters
<1>1. proc[i].at = "end_reconcile" /\ Working(i) /\ UNCHANGED <<bronze, index, stage, plan>>
  BY DEF EndReconcile, At, Working
<1>2. PICK p \in Plan : p = proc[i].plan /\ plan[p].status # "none"
  BY <1>1 DEF IInv, Types, HasPlan, Busy, Working
<1>3. Advances(i, "raw_promote") /\ Records(i, "raw_promote") /\ SamePromotion
  BY <1>1, GotoAdvances, FinishRecords, FinishFields DEF EndReconcile, Working, Busy, IInv
<1>4. Untorn' /\ IndexNeverAhead'
  BY <1>1, UntornElsewhere, IndexStays DEF Indexed
<1>5. ASSUME NEW q \in Plan \ {p} PROVE Ready(q)'
  BY <1>1, <1>2, <1>3, ReadyStays DEF Indexed, SameGoal, Records, SamePromotion
<1>6. Ready(p)'
  <2>1. apply'[p].next \notin Opening
    BY <1>2, <1>3 DEF Records, Opening
  <2>2. Blank(p)' /\ Beyond(p)' /\ Begun(p)'
    BY <1>1, <1>2, <2>1 DEF Indexed, Ready, Blank, Beyond, Begun
  <2>3. Settled(p)'
    <3> SUFFICES ASSUME plan[p].event, NEW d \in 1 .. plan[p].target
                 PROVE  Foreseen(p, d)'
      BY <1>1 DEF Settled
    <3>1. d \in Date
      BY TargetDates DEF IInv
    <3>2. Foreseen(p, d)
      BY <1>1, <1>2 DEF Indexed, Underway, Reconciled
    <3> QED BY <1>1, <3>1, <3>2, ForeseenStays DEF IInv
  <2> QED BY <2>2, <2>3 DEF Ready
<1>7. Resting(i)'
  BY <1>3 DEF Advances, Resting, OpeningPoints, Opening, WritePoints
<1> QED BY <1>1, <1>3, <1>4, <1>5, <1>6, <1>7, RestingUnderway, WorkerIndexed DEF Advances

LEMMA TargetsAreParts ==
    ASSUME Types, NEW p \in Plan
    PROVE  Targets(p) \subseteq Part
<1>1. plan[p] \in PlanRecord
  BY DEF Types, TypeOK
<1> QED BY <1>1, VersionNumbers DEF Targets, Promised, PlanRecord, Part, Endpoint

LEMMA BeginIndexed ==
    ASSUME IInv, Types', Overtaking, Steady, Indexed, NEW i \in Proc, BeginPromote(i)
    PROVE  Indexed'
<1> USE DEF disk, counters
<1>1. proc[i].at = "raw_promote" /\ Working(i) /\ UNCHANGED <<bronze, index, stage, plan>>
  BY DEF BeginPromote, At, Working
<1>2. PICK p \in Plan : p = proc[i].plan /\ apply[p].next \notin Opening
  BY <1>1, BusyLedger DEF Overtaking, OpeningPoints, Opening
<1>3. /\ proc'[i].at = "write_data" /\ proc'[i].plan = p /\ proc'[i].todo = Differing(p)
      /\ \A j \in Proc \ {i} : proc'[j] = proc[j]
  BY <1>2 DEF BeginPromote, IInv, Types, TypeOK, ProcRecord
<1>4. Untorn' /\ IndexNeverAhead'
  BY <1>1, UntornElsewhere, IndexStays DEF Indexed
<1>5. \A q \in Plan : Ready(q)'
  <2> SUFFICES ASSUME NEW q \in Plan PROVE Ready(q)'
    OBVIOUS
  <2>1. apply \in [Plan -> ApplyRecord]
    BY DEF IInv, Types, TypeOK
  <2>2. /\ apply'[q].next = apply[q].next
        /\ apply'[q].promotion = apply[q].promotion \/ q = p \/ HalfDone(q)
    BY <1>2, <2>1 DEF BeginPromote, ApplyRecord
  <2>3. HalfDone(q) => apply[q].next \notin Opening
    BY DEF HalfDone, Indexed, Ready, Begun
  <2> QED BY <1>1, <1>2, <2>2, <2>3, ReadyStays DEF Indexed, SameGoal
<1>6. Underway(i)'
  BY <1>1, <1>3 DEF Underway, Reconciled, Promoted, Writing, Differing, Targets, Promised, Done, Staged
<1> QED BY <1>1, <1>3, <1>4, <1>5, <1>6, WorkerIndexed

(* What is left to write differs: only behind a manifest that a kill has left is it skipped. *)
LEMMA SkipWriteIndexed ==
    ASSUME IInv, Types', Overtaking, Steady, Indexed, NEW i \in Proc, NEW t \in Part, SkipWrite(i, t)
    PROVE  Indexed'
<1> USE DEF disk, counters
<1>1. /\ proc[i].at = "write_data" /\ Working(i) /\ t \in proc[i].todo
      /\ UNCHANGED <<bronze, index, stage, plan, apply, torn>>
  BY DEF SkipWrite, At, Working
<1>2. PICK p \in Plan : p = proc[i].plan
  BY <1>1 DEF IInv, Types, HasPlan, Busy, Working
<1>3. /\ proc'[i].at = "write_data" /\ proc'[i].plan = p /\ proc'[i].todo = proc[i].todo \ {t}
      /\ \A j \in Proc \ {i} : proc'[j] = proc[j]
  BY <1>1, <1>2 DEF SkipWrite, IInv, Types, TypeOK, ProcRecord
<1>4. Promoted(i, p)
  BY <1>2 DEF Indexed, Underway
<1>5. t \in torn
  <2>1. ~Done(p, t) /\ PartitionHash(t) = stage[p][t].ver
    BY <1>1, <1>2, <1>4 DEF SkipWrite, Promoted
  <2>2. Torn(t)
    BY <2>1 DEF Torn, PartitionHash, Done
  <2> QED BY <1>1, <2>2, TornBefore DEF Indexed
<1>6. Untorn' /\ IndexNeverAhead'
  BY <1>1, UntornElsewhere, IndexStays DEF Indexed
<1>7. \A q \in Plan : Ready(q)'
  BY <1>1, AllReady DEF SameGoal
<1>8. Targets(p)' = Targets(p) /\ \A u : Done(p, u)' = Done(p, u)
  BY <1>1 DEF Targets, Promised, Done, Staged
<1>9. Underway(i)'
  BY <1>1, <1>3, <1>4, <1>5, <1>8 DEF Underway, Reconciled, Promoted, Writing
<1> QED BY <1>1, <1>3, <1>6, <1>7, <1>9, WorkerIndexed

LEMMA WriteDataIndexed ==
    ASSUME IInv, Types', Overtaking, Steady, Indexed, NEW i \in Proc, NEW t \in Part, WriteData(i, t)
    PROVE  Indexed'
<1>1. proc[i].at = "write_data" /\ Working(i) /\ t \in proc[i].todo /\ torn' = torn
  BY DEF WriteData, At, Working, counters
<1>2. PICK p \in Plan : /\ p = proc[i].plan
                        /\ bronze'[t].data = stage[p][t].ver
                        /\ \A u \in Part \ {t} : bronze'[u] = bronze[u]
                        /\ UNCHANGED <<index, plan, stage, apply>>
  BY WriteDataBronze
<1>3. /\ proc'[i].at = "write_manifest" /\ proc'[i].plan = p /\ proc'[i].todo = proc[i].todo
      /\ \A j \in Proc \ {i} : proc'[j] = proc[j]
  BY <1>2 DEF WriteData, Goto, IInv, Types, TypeOK, ProcRecord
<1>4. Done(p, t)' /\ \A u \in Part \ {t} : Done(p, u)' = Done(p, u)
  BY <1>2 DEF Done
<1>5. Untorn'
  <2> SUFFICES ASSUME NEW u \in Part, Torn(u)', u \notin torn
               PROVE  \E j \in Proc, q \in Plan : (/\ proc[j].at = "write_manifest" /\ proc[j].plan = q
                                                   /\ u \in proc[j].todo /\ Done(q, u))'
    BY <1>1 DEF Untorn
  <2>1. u = t
    BY <1>1, <1>2, TornBefore DEF Indexed, Torn
  <2> QED BY <1>1, <1>3, <1>4, <2>1
<1>6. IndexNeverAhead'
  BY <1>2, IndexStays DEF Indexed
<1>7. \A q \in Plan : Ready(q)'
  BY <1>2, AllReady DEF SameGoal
<1>8. Underway(i)'
  <2>1. /\ proc[i].todo \subseteq Targets(p) /\ \A u \in proc[i].todo : ~Done(p, u)
        /\ \A u \in Targets(p) : u \in proc[i].todo \/ Done(p, u) \/ u \in torn
    BY <1>1, <1>2 DEF Indexed, Underway, Promoted, Writing
  <2>2. Targets(p) \subseteq Part
    BY TargetsAreParts DEF IInv
  <2>3. Targets(p)' = Targets(p)
    BY <1>2 DEF Targets, Promised, Staged
  <2>4. \A u \in Targets(p) : u \in proc[i].todo \/ Done(p, u)' \/ u \in torn
    BY <1>1, <1>4, <2>1, <2>2
  <2>5. \A u \in proc[i].todo : Done(p, u)' => u = t
    BY <1>4, <2>1, <2>2
  <2>6. Promoted(i, p)'
    BY <1>1, <1>3, <2>1, <2>3, <2>4, <2>5 DEF Promoted, Writing
  <2> QED BY <1>3, <2>6 DEF Underway, Reconciled
<1> QED BY <1>1, <1>3, <1>5, <1>6, <1>7, <1>8, WorkerIndexed

LEMMA WriteManifestIndexed ==
    ASSUME IInv, Types', Overtaking, Steady, Indexed, NEW i \in Proc, NEW t \in Part, WriteManifest(i, t)
    PROVE  Indexed'
<1>1. /\ proc[i].at = "write_manifest" /\ Working(i) /\ t \in proc[i].todo
      /\ UNCHANGED <<index, plan, stage, apply, torn>>
  BY DEF WriteManifest, At, Working, counters
<1>2. PICK p \in Plan : p = proc[i].plan
  BY <1>1 DEF IInv, Types, HasPlan, Busy, Working
<1>3. /\ \A u \in Part : bronze'[u].data = bronze[u].data
      /\ bronze'[t].man = bronze[t].data /\ \A u \in Part \ {t} : bronze'[u] = bronze[u]
  BY WriteManifestBronze
<1>4. /\ proc'[i].at = "write_data" /\ proc'[i].plan = p /\ proc'[i].todo = proc[i].todo \ {t}
      /\ \A j \in Proc \ {i} : proc'[j] = proc[j]
  BY <1>2 DEF WriteManifest, IInv, Types, TypeOK, ProcRecord
<1>5. /\ Done(p, t) /\ proc[i].todo \subseteq Targets(p)
      /\ \A u, w \in proc[i].todo : Done(p, u) /\ Done(p, w) => u = w
      /\ \A u \in Targets(p) : u \in proc[i].todo \/ Done(p, u) \/ u \in torn
  BY <1>1, <1>2 DEF WriteManifest, Done, Indexed, Underway, Promoted, Writing
<1>6. Untorn'
  <2> SUFFICES ASSUME NEW u \in Part, Torn(u)', u \notin torn PROVE FALSE
    BY <1>1 DEF Untorn
  <2>1. u # t /\ Torn(u)
    BY <1>3 DEF Torn
  <2>2. PICK j \in Proc, q \in Plan : /\ proc[j].at = "write_manifest" /\ proc[j].plan = q
                                      /\ u \in proc[j].todo /\ Done(q, u)
    BY <2>1 DEF Indexed, Untorn
  <2>3. j = i
    BY <1>1, <2>2 DEF IInv, OneWorker, Working
  <2> QED BY <1>1, <1>2, <1>5, <2>1, <2>2, <2>3
<1>7. IndexNeverAhead'
  BY <1>1, IndexStays DEF Indexed
<1>8. \A q \in Plan : Ready(q)'
  BY <1>1, AllReady DEF SameGoal
<1>9. Underway(i)'
  <2>1. Targets(p) \subseteq Part
    BY TargetsAreParts DEF IInv
  <2>2. Targets(p)' = Targets(p)
    BY <1>1 DEF Targets, Promised, Staged
  <2>3. \A u \in Part : Done(p, u)' = Done(p, u)
    BY <1>1, <1>3 DEF Done
  <2>4. \A u \in proc[i].todo \ {t} : ~Done(p, u)
    BY <1>1, <1>5
  <2>5. Promoted(i, p)'
    BY <1>1, <1>4, <1>5, <2>1, <2>2, <2>3, <2>4 DEF Promoted, Writing
  <2> QED BY <1>4, <2>5 DEF Underway, Reconciled
<1> QED BY <1>1, <1>4, <1>6, <1>7, <1>8, <1>9, WorkerIndexed

LEMMA WritePendingIndexed ==
    ASSUME IInv, Types', Overtaking, Steady, Indexed, NEW i \in Proc, WritePending(i)
    PROVE  Indexed'
<1> USE DEF disk, counters
<1>1. /\ proc[i].at = "write_data" /\ Working(i) /\ proc[i].todo = {}
      /\ UNCHANGED <<bronze, index, stage, plan, apply, torn>>
  BY DEF WritePending, At, Working
<1>2. PICK p \in Plan : p = proc[i].plan
  BY <1>1 DEF IInv, Types, HasPlan, Busy, Working
<1>3. /\ proc'[i].at = "write_index" /\ proc'[i].plan = p
      /\ \A j \in Proc \ {i} : proc'[j] = proc[j]
  BY <1>2 DEF WritePending, IInv, Types, TypeOK, ProcRecord
<1>4. Untorn' /\ IndexNeverAhead'
  BY <1>1, UntornElsewhere, IndexStays DEF Indexed
<1>5. \A q \in Plan : Ready(q)'
  BY <1>1, AllReady DEF SameGoal
<1>6. Underway(i)'
  <2>1. \A u \in Targets(p) : Done(p, u) \/ u \in torn
    BY <1>1, <1>2 DEF Indexed, Underway, Promoted, Writing
  <2>2. apply[p].promotion # "none"
    BY <1>1, <1>2 DEF Overtaking, BasesKept, Writing
  <2> QED BY <1>1, <1>3, <2>1, <2>2
          DEF Underway, Reconciled, Promoted, Writing, Targets, Promised, Done, Staged
<1> QED BY <1>1, <1>3, <1>4, <1>5, <1>6, WorkerIndexed

(* The history is written into the index: every date of it is foreseen, and all is promoted. *)
LEMMA WriteIndexIndexed ==
    ASSUME IInv, Types', Overtaking, Steady, Indexed, NEW i \in Proc, WriteIndex(i)
    PROVE  Indexed'
<1> USE DEF disk, counters
<1>1. /\ proc[i].at = "write_index" /\ Working(i) /\ UNCHANGED <<bronze, stage, plan, apply, torn>>
  BY DEF WriteIndex, At, Working
<1>2. PICK p \in Plan : p = proc[i].plan /\ apply[p].next \notin Opening
  BY <1>1, BusyLedger DEF Overtaking, OpeningPoints, Opening
<1>3. Advances(i, "end_promote")
  BY GotoAdvances DEF WriteIndex, IInv
<1>4. ASSUME plan[p].event, NEW d \in Date PROVE Known(<<Factor, d>>, plan[p].history[d])
  <2> DEFINE t == <<Factor, d>>
  <2>1. t \in Part /\ bronze[t].data \in Nat /\ plan[p].history[d] \in Nat
    BY VersionNumbers DEF IInv
  <2>2. CASE d > plan[p].target
    <3>1. plan[p].history[d] = 0
      BY <2>2 DEF Indexed, Ready, Beyond
    <3> QED BY <2>1, <3>1 DEF Known
  <2>3. CASE Carried(p, d)
    <3>1. Promoted(i, p)
      BY <1>2 DEF Indexed, Underway
    <3>2. CASE t \in Promised(p)
      <4>1. t \in Targets(p)
        BY <2>3, <3>2 DEF Carried, Targets
      <4>2. Done(p, t) \/ t \in torn
        BY <1>1, <3>1, <4>1 DEF Promoted
      <4> QED BY <2>1, <2>3, <4>2 DEF Carried, Done, Known, Excused
    <3>3. CASE t \notin Promised(p)
      <4>1. Unnamed(p, t) /\ stage[p][t].ver = plan[p].history[d] /\ apply[p].promotion # "none"
        BY <1>1, <2>3, <3>1, <3>3 DEF Carried, Unnamed, Promoted
      <4> QED BY <4>1 DEF Known, Forgotten
    <3> QED BY <3>2, <3>3
  <2>4. CASE d \in 1 .. plan[p].target /\ Reached(p, d)
    BY <2>4 DEF Reached
  <2>5. d \in 1 .. plan[p].target \/ d > plan[p].target
    BY DateAssumption DEF IInv, Types, TypeOK, PlanRecord, Date
  <2> QED BY <1>2, <1>4, <2>2, <2>3, <2>4, <2>5 DEF Indexed, Ready, Settled, Foreseen
<1>5. IndexNeverAhead'
  <2>1. CASE index' = index
    BY <2>1, IndexStays DEF Indexed
  <2>2. CASE plan[p].event /\ index' = [value |-> plan[p].history, through |-> plan[p].target]
    <3> SUFFICES ASSUME NEW d \in Date PROVE Known(<<Factor, d>>, index.value[d])'
      BY DEF IndexNeverAhead
    <3>1. <<Factor, d>> \in Part /\ plan[p].history[d] \in Nat
      BY VersionNumbers DEF IInv
    <3>2. PICK v \in Nat : v = plan[p].history[d] /\ v = index'.value[d]
      BY <2>2, <3>1
    <3>3. Known(<<Factor, d>>, v)
      BY <1>4, <2>2, <3>2
    <3>4. Known(<<Factor, d>>, v)'
      BY <3>1, <3>3, KnownStays DEF IInv
    <3> QED BY <3>2, <3>4
  <2> QED BY <1>2, <2>1, <2>2 DEF WriteIndex
<1>6. Untorn'
  BY <1>1, UntornElsewhere DEF Indexed
<1>7. \A q \in Plan : Ready(q)'
  BY <1>1, AllReady DEF SameGoal
<1>8. Resting(i)'
  BY <1>3 DEF Advances, Resting, OpeningPoints, Opening, WritePoints
<1> QED BY <1>1, <1>3, <1>5, <1>6, <1>7, <1>8, RestingUnderway, WorkerIndexed DEF Advances

LEMMA NextIndexed ==
    ASSUME IInv, Overtaking, Indexed, [Next]_vars
    PROVE  Indexed'
<1>1. Types'
  BY NextTypes DEF IInv
<1>2. Steady
  BY NextSteady
<1>3. CASE Around
  BY <1>1, <1>2, <1>3, AroundIndexed
<1>4. ASSUME NEW i \in Proc, Calm(i) PROVE Indexed'
  BY <1>1, <1>2, <1>4, CalmIndexed
<1>5. ASSUME NEW i \in Proc, Stages(i) PROVE Indexed'
  BY <1>1, <1>2, <1>5, FetchIndexed, ReconcileIndexed, RepairIndexed, RepairedIndexed, SaveIndexed,
     EndReconcileIndexed
     DEF Stages
<1>6. ASSUME NEW i \in Proc, Writes(i) PROVE Indexed'
  BY <1>1, <1>2, <1>6, BeginIndexed, SkipWriteIndexed, WriteDataIndexed, WriteManifestIndexed,
     WritePendingIndexed, WriteIndexIndexed
     DEF Writes
<1> QED BY <1>3, <1>4, <1>5, <1>6, StepKinds DEF Overtaking

(***************************************************************************)
(* The shared factor index (_reconcile_factors, _promote_staged_raw) never *)
(* holds a factor that Bronze does not have yet, for every number of plans *)
(* and processes that overlap, fail, and are killed and resumed at any     *)
(* point: but for a factor that a plan has put back, a partition that a    *)
(* kill has left without its manifest, and a repair that a plan forgot.    *)
(***************************************************************************)
THEOREM IndexBehindBronze == Spec => []IndexNeverAhead
<1>1. IInv /\ Overtaking /\ Indexed /\ [Next]_vars => Indexed'
  BY NextIndexed
<1>2. Indexed => IndexNeverAhead
  BY DEF Indexed
<1> QED BY <1>1, <1>2, InitIndexed, IInvHolds, OvertakingHolds, PTL DEF Spec

-----------------------------------------------------------------------------
(***************************************************************************)
(* Nothing is forgotten.  A day of Bronze that the curated days or the     *)
(* alias do not have as it is now is owed: the pending ledger names it, or *)
(* a promotion that goes on, or is resumed, will name it there.  Nobody    *)
(* else may take the promotion over meanwhile.                             *)
(***************************************************************************)
PitInside == {"pit_state", "pit_pending", "pit_finish"}
Orderly ==
    /\ PublishOnSync /\ Resumption # "any" /\ KillAt \cap PitInside = {}
    /\ Resumption = "abandon" => KillAt \cap {"write_data", "write_manifest"} = {}

Named(p) == {t[2] : t \in Changes(p)}
Owed(d) ==
    \/ d \in pending.dates
    \/ \E p \in Plan : /\ HalfDone(p) /\ apply[p].next = "raw_promote" /\ d \in Named(p)
                       /\ Resumption = "abandon" => \E i \in Proc : Writing(i) /\ proc[i].plan = p
PitOwed ==
    \/ pending.pit
    \/ \E i \in Proc : \/ proc[i].at = "pit_state" /\ proc[i].found.pit
                       \/ proc[i].at = "pit_pending" /\ proc[i].ctx.pit

RawOwed ==
    \A d \in Present :
        curated[d].raw # Source(d).raw \/ active.content[d].raw # Source(d).raw => Owed(d)
PitsOwed ==
    \A d \in Date :
        \/ curated[d] # NoImage /\ curated[d].pit # pit.built
        \/ active.content[d] # NoImage /\ active.content[d].pit # pit.built
        => PitOwed
Sessions ==
    \A d \in Date : /\ d \notin Present => curated[d] = NoImage /\ active.content[d] = NoImage
                    /\ d > active.end => active.content[d] = NoImage
Books == RawOwed /\ PitsOwed /\ Sessions

(* One plan at most is half promoted, and what its ledger says holds.  It  *)
(* covers the pending ledger, so that a resumed plan, which writes its own *)
(* context there, loses nothing; a receipt stands for a fresh alias.       *)
Covers(c) == pending.dates \subseteq c.dates /\ (pending.pit => c.pit)
Fresh == \A d \in Present : curated[d] = Source(d) /\ active.content[d] = Source(d)
Saving(p) == \E i \in Proc : proc[i].at = "pit_finish" /\ proc[i].plan = p
OneHalfDone == \A p, q \in Plan : HalfDone(p) /\ HalfDone(q) => p = q
Recorded(p) ==
    /\ apply[p].promotion # "none" => plan[p].status # "none" /\ apply[p].next \notin Opening
    /\ apply[p].next \notin BeforePromote => apply[p].promotion # "none"
    /\ Resumption = "finish" => apply[p].promotion # "overtaken"
    /\ HalfDone(p) /\ apply[p].next \notin BeforePromote =>
          /\ Covers(apply[p].ctx) \/ Saving(p)
          /\ apply[p].next = "qlib_publish" /\ active.owner = p => Fresh

(* The working process and its plan.                                       *)
Promoting == {"raw_promote", "write_data", "write_manifest", "write_index", "end_promote"}
Later == {"raw_validate", "enter_publish"} \cup Publishing \cup Closing
Handled(i, p) ==
    /\ apply[p].promotion # "overtaken"
    /\ Resumption = "finish" => \A q \in Plan \ {p} : ~HalfDone(q)
    /\ proc[i].at \in Later \cup (Promoting \ {"raw_promote"}) => apply[p].promotion = "begun"
    /\ proc[i].at \in Promoting => apply[p].next = "raw_promote"
    /\ proc[i].at \in Later => apply[p].next \notin BeforePromote
    /\ Writing(i) => proc[i].todo \subseteq Targets(p) /\ Named(p) \subseteq proc[i].found.dates
    /\ proc[i].at \in {"write_index", "end_promote"} => Named(p) \subseteq pending.dates
    /\ proc[i].at \in {"write_index", "end_promote"} \cup Later => Covers(proc[i].ctx)
    /\ proc[i].at = "switch_alias" =>
          Release(proc[i].ctx) /\ \A d \in Present : curated[d] = Source(d)
    /\ proc[i].at = "clear_pending" => Fresh

Accounted ==
    /\ Books /\ OneHalfDone /\ \A p \in Plan : Recorded(p)
    /\ \A i \in Proc, p \in Plan : Working(i) /\ proc[i].plan = p => Handled(i, p)

(* The worker has begun to promote its plan. *)
Holding(i) == proc[i].at \in Later \cup (Promoting \ {"raw_promote"})

(* What a step may change of the other processes and of the other plans: nothing. *)
OthersStill(i) ==
    /\ \A j \in Proc \ {i} : proc'[j] = proc[j]
    /\ \A q \in Plan \ {proc[i].plan} : apply'[q] = apply[q]
    /\ apply'[proc[i].plan].promotion = apply[proc[i].plan].promotion

LEMMA FinishSaves ==
    ASSUME Types, NEW i \in Proc, Busy(i), NEW s, NEW c, Finish(i, s, c)
    PROVE  /\ apply'[proc[i].plan].next = s /\ apply'[proc[i].plan].ctx = c
           /\ apply'[proc[i].plan].promotion = apply[proc[i].plan].promotion
           /\ \A q \in Plan \ {proc[i].plan} : apply'[q] = apply[q]
<1> DEFINE p == proc[i].plan
           r == [apply[p] EXCEPT !.next = s, !.ctx = c]
<1>1. p \in Plan /\ apply \in [Plan -> ApplyRecord]
  BY DEF Types, HasPlan, TypeOK
<1>2. apply' = [apply EXCEPT ![p] = r]
  BY <1>1 DEF Finish
<1>3. r.next = s /\ r.ctx = c /\ r.promotion = apply[p].promotion
  BY <1>1 DEF ApplyRecord
<1> HIDE DEF r
<1> QED BY <1>1, <1>2, <1>3

LEMMA AbortSaves ==
    ASSUME Types, NEW i \in Proc, Busy(i), Abort(i)
    PROVE  /\ proc'[i] = Idle /\ OthersStill(i)
           /\ apply'[proc[i].plan].next = apply[proc[i].plan].next
           /\ apply'[proc[i].plan].ctx = proc[i].ctx
<1> DEFINE p == proc[i].plan
           r == [apply[p] EXCEPT !.status = "FAILED", !.ctx = proc[i].ctx]
<1>1. p \in Plan /\ apply \in [Plan -> ApplyRecord] /\ proc \in [Proc -> ProcRecord]
  BY DEF Types, HasPlan, TypeOK
<1>2. apply' = [apply EXCEPT ![p] = r] /\ proc' = [proc EXCEPT ![i] = Idle]
  BY <1>1 DEF Abort
<1>3. r.next = apply[p].next /\ r.ctx = proc[i].ctx /\ r.promotion = apply[p].promotion
  BY <1>1 DEF ApplyRecord
<1> HIDE DEF r
<1> QED BY <1>1, <1>2, <1>3 DEF OthersStill

LEMMA GotoSaves ==
    ASSUME Types, NEW i \in Proc, NEW x, Goto(i, x)
    PROVE  /\ proc'[i].at = x /\ proc'[i].plan = proc[i].plan /\ proc'[i].ctx = proc[i].ctx
           /\ proc'[i].todo = proc[i].todo /\ proc'[i].found = proc[i].found
           /\ \A j \in Proc \ {i} : proc'[j] = proc[j]
BY DEF Types, TypeOK, ProcRecord, Goto

(* A worker that has begun is alone, and no other plan is half promoted. *)
LEMMA Holder ==
    ASSUME IInv, Overtaking, Accounted, NEW i \in Proc, Holding(i)
    PROVE  /\ Types /\ Working(i) /\ Busy(i) /\ proc[i].plan \in Plan
           /\ plan[proc[i].plan].status = "PLANNED" /\ HalfDone(proc[i].plan)
           /\ Handled(i, proc[i].plan) /\ Recorded(proc[i].plan)
           /\ \A q \in Plan \ {proc[i].plan} : ~HalfDone(q)
           /\ \A j \in Proc \ {i} : ~Working(j)
<1>1. Working(i) /\ Busy(i)
  BY DEF Holding, Later, Promoting, Publishing, Closing, Working, Busy
<1>2. Types /\ proc[i].plan \in Plan /\ plan[proc[i].plan].status = "PLANNED"
  BY <1>1, BusyReads DEF IInv, Overtaking, StillPlanned
<1>3. Handled(i, proc[i].plan) /\ Recorded(proc[i].plan)
  BY <1>1, <1>2 DEF Accounted
<1>4. HalfDone(proc[i].plan)
  BY <1>2, <1>3 DEF Handled, HalfDone, Holding
<1>5. \A q \in Plan \ {proc[i].plan} : ~HalfDone(q)
  BY <1>2, <1>4 DEF Accounted, OneHalfDone
<1>6. \A j \in Proc \ {i} : ~Working(j)
  BY <1>1 DEF IInv, OneWorker
<1> QED BY <1>1, <1>2, <1>3, <1>4, <1>5, <1>6

(* Then a day is owed in the ledger, or it is one of the days being written. *)
LEMMA HolderOwes ==
    ASSUME IInv, Overtaking, Accounted, NEW i \in Proc, Holding(i), NEW d \in Date, Owed(d)
    PROVE  /\ d \in pending.dates \/ (Writing(i) /\ d \in Named(proc[i].plan))
           /\ proc[i].at \in Later => d \in pending.dates
<1> DEFINE p == proc[i].plan
<1>1. Handled(i, p) /\ \A q \in Plan \ {p} : ~HalfDone(q)
  BY Holder
<1>2. d \in pending.dates \/ (apply[p].next = "raw_promote" /\ d \in Named(p))
  BY <1>1 DEF Owed
<1>3. proc[i].at \in Later => d \in pending.dates
  BY <1>1, <1>2 DEF Handled, BeforePromote
<1>4. proc[i].at \in {"write_index", "end_promote"} => d \in pending.dates
  BY <1>1, <1>2 DEF Handled
<1> QED BY <1>2, <1>3, <1>4 DEF Holding, Promoting, Writing

(* While the worker is outside the fundamentals, they are owed in the ledger. *)
LEMMA PitOwedByLedger ==
    ASSUME IInv, Overtaking, Accounted, NEW i \in Proc, Holding(i),
           proc[i].at \notin {"pit_state", "pit_pending"}, PitOwed
    PROVE  pending.pit
<1>1. \A j \in Proc \ {i} : ~Working(j)
  BY Holder
<1> QED BY <1>1 DEF PitOwed, Working

LEMMA HeldKeeps ==
    ASSUME IInv, Overtaking, Accounted, NEW i \in Proc, NEW p \in Plan, proc[i].plan = p,
           Holding(i), OthersStill(i),
           \A q \in Plan : plan'[q].status \in {plan[q].status, "APPLIED"},
           Books', Recorded(p)',
           Working(i)' => /\ proc'[i].plan = p
                          /\ (\A q \in Plan \ {p} : ~HalfDone(q)') => Handled(i, p)'
    PROVE  Accounted'
<1>1. /\ p \in Plan /\ \A q \in Plan \ {p} : ~HalfDone(q)
      /\ \A j \in Proc \ {i} : ~Working(j)
  BY Holder
<1>2. \A q \in Plan \ {p} : ~HalfDone(q)'
  BY <1>1 DEF HalfDone, OthersStill
<1>3. \A q \in Plan \ {p} : Recorded(q)'
  BY <1>2 DEF Accounted, Recorded, OthersStill
<1>4. \A q \in Plan : Recorded(q)'
  BY <1>3
<1>5. OneHalfDone'
  BY <1>2 DEF OneHalfDone
<1>6. \A j \in Proc \ {i} : ~Working(j)'
  BY <1>1 DEF OthersStill, Working
<1>7. \A j \in Proc, q \in Plan : Working(j)' /\ proc'[j].plan = q => Handled(j, q)'
  BY <1>2, <1>6
<1> QED BY <1>4, <1>5, <1>7 DEF Accounted

(* Sources depend on the data files and the fundamentals only. *)
SameSources ==
    /\ \A t \in Part : bronze'[t].data = bronze[t].data
    /\ pit'.built = pit.built

LEMMA SourcesStay ==
    ASSUME SameSources, EndpointAssumption
    PROVE  /\ \A d \in Date : Source(d)' = Source(d)
           /\ Present' = Present
<1>1. \A d \in Date, e \in Endpoint : <<e, d>> \in Part
  BY DEF Part
<1>2. \A d \in Date : <<Factor, d>> \in Part
  BY <1>1, EndpointAssumption DEF Endpoint
<1>3. \A d \in Date : Source(d)' = Source(d)
  BY <1>1 DEF SameSources, Source
<1>4. Present' = Present
  BY <1>2 DEF SameSources, Present
<1> QED BY <1>3, <1>4

LEMMA BooksStay ==
    ASSUME Books, SameSources, UNCHANGED <<curated, active>>,
           \A d \in Date : Owed(d) => Owed(d)', PitOwed => PitOwed'
    PROVE  Books'
<1>1. (\A d \in Date : Source(d)' = Source(d)) /\ Present' = Present /\ Present \subseteq Date
  BY SourcesStay, EndpointAssumption DEF Present
<1>2. RawOwed'
  BY <1>1 DEF Books, RawOwed
<1>3. PitsOwed'
  BY DEF Books, PitsOwed, SameSources
<1>4. Sessions'
  BY <1>1 DEF Books, Sessions
<1> QED BY <1>2, <1>3, <1>4 DEF Books
(***************************************************************************)
(* After the promotion: the steps that leave the curated days, the alias   *)
(* and the ledger as they are.                                             *)
(***************************************************************************)
LEMMA LaterStep ==
    ASSUME IInv, Overtaking, Accounted, NEW i \in Proc, NEW p \in Plan, proc[i].plan = p,
           proc[i].at \in Later, OthersStill(i), SameSources, UNCHANGED <<curated, active, pending>>,
           \A q \in Plan : plan'[q].status \in {plan[q].status, "APPLIED"},
           PitOwed => PitOwed',
           apply'[p].next \notin BeforePromote,
           \/ apply'[p].next \in {apply[p].next} \cup {"extended_sync", "pit_refresh", "finished"}
           \/ proc[i].at \in Publishing,
           Covers(apply'[p].ctx) \/ (apply'[p].ctx = apply[p].ctx /\ proc[i].at # "pit_finish"),
           Working(i)' => /\ proc'[i].plan = p /\ proc'[i].at \in Later \ {"switch_alias"}
                          /\ Covers(proc'[i].ctx) /\ (proc'[i].at = "clear_pending" => Fresh)
    PROVE  Accounted'
<1>1. Holding(i)
  BY DEF Holding
<1>2. /\ HalfDone(p) /\ Handled(i, p) /\ Recorded(p)
      /\ plan[p].status = "PLANNED" /\ \A j \in Proc \ {i} : ~Working(j)
  BY <1>1, Holder
<1>3. (\A d \in Date : Source(d)' = Source(d)) /\ Present' = Present /\ Present \subseteq Date
  BY SourcesStay, EndpointAssumption DEF Present
<1>4. Books'
  <2>1. \A d \in Date : Owed(d) => Owed(d)'
    BY <1>1, HolderOwes DEF Owed
  <2> QED BY <2>1, BooksStay DEF Accounted
<1>5. Fresh => Fresh'
  BY <1>3 DEF Fresh
<1>6. \A c : Covers(c) => Covers(c)'
  BY DEF Covers
<1>7. Recorded(p)'
  <2>1. apply'[p].promotion = "begun" /\ plan'[p].status \in {"PLANNED", "APPLIED"}
    BY <1>2 DEF HalfDone, OthersStill
  <2>2. apply'[p].next \notin Opening
    BY DEF Opening, BeforePromote
  <2>3. Covers(apply'[p].ctx)
    <3>1. CASE apply'[p].ctx = apply[p].ctx /\ proc[i].at # "pit_finish"
      <4>1. ~Saving(p)
        BY <1>2, <3>1 DEF Saving, Working
      <4>2. apply[p].next \notin BeforePromote
        BY <1>2 DEF Handled
      <4> QED BY <1>2, <3>1, <4>1, <4>2 DEF Recorded
    <3> QED BY <3>1
  <2>4. Covers(apply[p].ctx)'
    BY <2>3 DEF Covers
  <2>5. apply'[p].next = "qlib_publish" /\ active.owner = p => Fresh
    <3>1. CASE proc[i].at \in Publishing
      BY <3>1 DEF IInv, Placed
    <3>2. CASE apply'[p].next = apply[p].next
      BY <1>2, <3>2 DEF Recorded
    <3> QED BY <3>1, <3>2
  <2> QED BY <1>5, <2>1, <2>2, <2>4, <2>5 DEF Recorded
<1>8. Working(i)' => /\ proc'[i].plan = p
                     /\ (\A q \in Plan \ {p} : ~HalfDone(q)') => Handled(i, p)'
  <2> SUFFICES ASSUME Working(i)', \A q \in Plan \ {p} : ~HalfDone(q)' PROVE Handled(i, p)'
    OBVIOUS
  <2>1. /\ proc'[i].at \in Later \ {"switch_alias"}
        /\ Covers(proc'[i].ctx) /\ (proc'[i].at = "clear_pending" => Fresh')
    BY <1>5
  <2>2. Covers(proc[i].ctx)'
    BY <2>1 DEF Covers
  <2>3. proc'[i].at \notin Promoting /\ ~Writing(i)'
    BY <2>1 DEF Later, Publishing, Closing, Promoting, Writing
  <2>4. apply'[p].promotion = "begun"
    BY <1>2 DEF HalfDone, OthersStill
  <2> QED BY <2>1, <2>2, <2>3, <2>4 DEF Handled, Promoting
<1> QED BY <1>1, <1>4, <1>7, <1>8, HeldKeeps

(* The ones that are outside pit_refresh. *)
LEMMA LaterStepOutside ==
    ASSUME IInv, Overtaking, Accounted, NEW i \in Proc, NEW p \in Plan, proc[i].plan = p,
           proc[i].at \in Later \ PitInside, OthersStill(i), SameSources,
           UNCHANGED <<curated, active, pending>>,
           \A q \in Plan : plan'[q].status \in {plan[q].status, "APPLIED"},
           apply'[p].next \notin BeforePromote,
           \/ apply'[p].next \in {apply[p].next} \cup {"extended_sync", "pit_refresh", "finished"}
           \/ proc[i].at \in Publishing,
           apply'[p].ctx \in {proc[i].ctx, apply[p].ctx},
           Working(i)' => /\ proc'[i].plan = p /\ proc'[i].at \in Later \ {"switch_alias"}
                          /\ proc'[i].ctx = proc[i].ctx /\ (proc'[i].at = "clear_pending" => Fresh)
    PROVE  Accounted'
<1>1. Holding(i)
  BY DEF Holding
<1>2. Covers(proc[i].ctx)
  BY <1>1, Holder DEF Handled
<1>3. PitOwed => PitOwed'
  <2>1. PitOwed => pending.pit
    BY <1>1, PitOwedByLedger DEF PitInside
  <2> QED BY <2>1 DEF PitOwed
<1>4. Covers(apply'[p].ctx) \/ (apply'[p].ctx = apply[p].ctx /\ proc[i].at # "pit_finish")
  BY <1>2 DEF PitInside
<1>5. proc[i].at \in Later
  OBVIOUS
<1>6. Working(i)' => /\ proc'[i].plan = p /\ proc'[i].at \in Later \ {"switch_alias"}
                     /\ Covers(proc'[i].ctx) /\ (proc'[i].at = "clear_pending" => Fresh)
  BY <1>2
<1> QED BY <1>3, <1>4, <1>5, <1>6, LaterStep

(* Giving up after the promotion began, or being killed there. *)
LEMMA GivingUpAccounted ==
    ASSUME IInv, Overtaking, Accounted, NEW i \in Proc, NEW p \in Plan, proc[i].plan = p,
           proc[i].at \in Later \ PitInside, UNCHANGED <<disk, plan>>,
           Abort(i) \/ (proc' = [proc EXCEPT ![i] = Idle] /\ apply' = apply)
    PROVE  Accounted'
<1>1. Busy(i) /\ Types /\ Handled(i, p) /\ Holding(i)
  BY Holder DEF Holding
<1>2. /\ proc'[i] = Idle /\ OthersStill(i) /\ apply'[p].next = apply[p].next
      /\ apply'[p].ctx \in {proc[i].ctx, apply[p].ctx}
  <2>1. CASE Abort(i)
    BY <1>1, <2>1, AbortSaves
  <2>2. CASE proc' = [proc EXCEPT ![i] = Idle] /\ apply' = apply
    BY <1>1, <2>2 DEF OthersStill, Types, TypeOK
  <2> QED BY <2>1, <2>2
<1>3. ~Working(i)'
  BY <1>2 DEF Working, Idle
<1>4. apply'[p].next \notin BeforePromote
  BY <1>1, <1>2 DEF Handled
<1>5. SameSources /\ UNCHANGED <<curated, active, pending>>
  BY DEF disk, SameSources
<1> QED BY <1>2, <1>3, <1>4, <1>5, LaterStepOutside
LEMMA LaterStepsAccounted ==
    ASSUME IInv, Overtaking, Accounted, NEW i \in Proc, NEW p \in Plan, proc[i].plan = p
    PROVE  /\ ValidationFailed(i) \/ BehindRefused(i) => Accounted'
           /\ ValidateRaw(i) => Accounted'
           /\ EnterPublish(i) => Accounted'
           /\ ExtendedSync(i) => Accounted'
           /\ FreshnessGate(i) => Accounted'
           /\ FinishPublish(i) => Accounted'
           /\ Applied(i) => Accounted'
           /\ ClosePlan(i) => Accounted'
<1> USE DEF disk, counters, At
<1>p. Types
  BY DEF IInv
<1>o. ASSUME proc[i].at \in Later PROVE Busy(i) /\ Handled(i, p) /\ Recorded(p) /\ HalfDone(p)
  BY <1>o, Holder DEF Holding
<1>f. ASSUME proc[i].at \in Later \ PitInside, NEW x, NEW s, Goto(i, x), Finish(i, s, proc[i].ctx),
             UNCHANGED <<bronze, pit.built, curated, active, pending, plan>>,
             x \in Later \ {"switch_alias", "clear_pending"}, s \notin BeforePromote,
             s \in {"extended_sync", "pit_refresh", "finished"} \/ proc[i].at \in Publishing
      PROVE  Accounted'
  <2>1. Busy(i)
    BY <1>f, <1>o
  <2>2. /\ apply'[p].next = s /\ apply'[p].ctx = proc[i].ctx /\ OthersStill(i)
        /\ proc'[i].at = x /\ proc'[i].plan = p /\ proc'[i].ctx = proc[i].ctx
    BY <1>f, <1>p, <2>1, FinishSaves, GotoSaves DEF OthersStill
  <2>3. SameSources
    BY <1>f DEF SameSources
  <2> QED BY <1>f, <2>2, <2>3, LaterStepOutside
<1>1. ASSUME ValidationFailed(i) \/ BehindRefused(i) PROVE Accounted'
  <2>1. proc[i].at \in Later \ PitInside /\ Abort(i) /\ UNCHANGED <<disk, plan>>
    BY <1>1 DEF ValidationFailed, BehindRefused, Later, PitInside
  <2> QED BY <2>1, GivingUpAccounted
<1>2. ASSUME ValidateRaw(i) PROVE Accounted'
  <2>1. proc[i].at \in Later \ PitInside /\ "enter_publish" \in Later \ {"switch_alias", "clear_pending"}
        /\ "extended_sync" \notin BeforePromote
    BY <1>2 DEF ValidateRaw, Later, PitInside, BeforePromote
  <2> QED BY <1>2, <1>f, <2>1 DEF ValidateRaw
<1>3. ASSUME EnterPublish(i) PROVE Accounted'
  <2> DEFINE x == IF HasReceipt(p) THEN "clear_pending"
                  ELSE IF apply[p].next = "finished" THEN "applied" ELSE apply[p].next
  <2>1. proc[i].at = "enter_publish" /\ proc[i].at \in Later \ PitInside
    BY <1>3 DEF EnterPublish, Later, PitInside
  <2>2. apply[p] \in ApplyRecord /\ apply[p].next \in Step \ BeforePromote
    <3>1. apply[p] \in ApplyRecord
      BY <1>p DEF Types, TypeOK
    <3> QED BY <1>o, <2>1, <3>1 DEF Handled, ApplyRecord
  <2>3. x \in Later \ {"switch_alias"}
    BY <2>2 DEF Step, BeforePromote, Later, Publishing, Closing
  <2>4. x = "clear_pending" => Fresh
    <3>1. apply[p].next # "clear_pending"
      BY <2>2 DEF Step
    <3>2. HasReceipt(p) => Fresh
      BY <1>o, <2>1, <2>2 DEF HasReceipt, Recorded
    <3> QED BY <3>1, <3>2
  <2>5. Goto(i, x) /\ UNCHANGED <<disk, plan, apply>>
    BY <1>3 DEF EnterPublish
  <2> HIDE DEF x
  <2>6. /\ proc'[i].at = x /\ proc'[i].plan = p /\ proc'[i].ctx = proc[i].ctx
        /\ OthersStill(i) /\ SameSources
    BY <1>p, <2>5, GotoSaves DEF OthersStill, SameSources
  <2> QED BY <2>1, <2>2, <2>3, <2>4, <2>5, <2>6, LaterStepOutside
<1>4. ASSUME ExtendedSync(i) PROVE Accounted'
  <2>1. proc[i].at \in Later \ PitInside /\ "pit_refresh" \in Later \ {"switch_alias", "clear_pending"}
        /\ "pit_refresh" \notin BeforePromote
    BY <1>4 DEF ExtendedSync, Later, Publishing, PitInside, BeforePromote
  <2>2. pit'.built = pit.built
    BY <1>4, <1>p DEF ExtendedSync, Types, TypeOK
  <2> QED BY <1>4, <1>f, <2>1, <2>2 DEF ExtendedSync
<1>5. ASSUME FreshnessGate(i) PROVE Accounted'
  <2>1. /\ proc[i].at \in Later \ PitInside /\ proc[i].at \in Publishing
        /\ "qlib_publish" \in Later \ {"switch_alias", "clear_pending"}
        /\ "qlib_publish" \notin BeforePromote
    BY <1>5 DEF FreshnessGate, Later, Publishing, PitInside, BeforePromote
  <2> QED BY <1>5, <1>f, <2>1 DEF FreshnessGate
<1>6. ASSUME FinishPublish(i) PROVE Accounted'
  <2>1. /\ proc[i].at \in Later \ PitInside
        /\ "applied" \in Later \ {"switch_alias", "clear_pending"}
        /\ "finished" \notin BeforePromote
    BY <1>6 DEF FinishPublish, Later, Closing, PitInside, BeforePromote
  <2> QED BY <1>6, <1>f, <2>1 DEF FinishPublish
<1>7. ASSUME Applied(i) PROVE Accounted'
  <2> DEFINE r == [apply[p] EXCEPT !.status = "SUCCEEDED"]
  <2>1. /\ proc[i].at \in Later \ PitInside /\ Goto(i, "close_plan")
        /\ "close_plan" \in Later \ {"switch_alias", "clear_pending"}
    BY <1>7 DEF Applied, Later, Closing, PitInside
  <2>2. apply \in [Plan -> ApplyRecord]
    BY <1>p DEF Types, TypeOK
  <2>3. apply' = [apply EXCEPT ![p] = r]
    BY <1>7, <2>2 DEF Applied
  <2>4. r.next = apply[p].next /\ r.promotion = apply[p].promotion /\ r.ctx = apply[p].ctx
    BY <2>2 DEF ApplyRecord
  <2> HIDE DEF r
  <2>5. /\ proc'[i].at = "close_plan" /\ proc'[i].plan = p /\ proc'[i].ctx = proc[i].ctx
        /\ OthersStill(i) /\ apply'[p].next = apply[p].next /\ apply'[p].ctx = apply[p].ctx
    BY <1>p, <2>1, <2>2, <2>3, <2>4, GotoSaves DEF OthersStill
  <2>6. SameSources /\ UNCHANGED <<curated, active, pending, plan>>
    BY <1>7 DEF Applied, SameSources
  <2>7. apply'[p].next \notin BeforePromote
    BY <1>o, <2>1, <2>5 DEF Handled
  <2> QED BY <2>1, <2>5, <2>6, <2>7, LaterStepOutside
<1>8. ASSUME ClosePlan(i) PROVE Accounted'
  <2>1. proc[i].at \in Later \ PitInside
    BY <1>8 DEF ClosePlan, Later, Closing, PitInside
  <2>2. proc'[i] = Idle /\ ~Working(i)' /\ OthersStill(i)
    BY <1>8, <1>p DEF ClosePlan, OthersStill, Types, TypeOK, Working, Idle
  <2>3. \A q \in Plan : plan'[q].status \in {plan[q].status, "APPLIED"}
    BY <1>8, <1>p DEF ClosePlan, Types, TypeOK, PlanRecord
  <2>4. SameSources /\ UNCHANGED <<curated, active, pending, apply>>
    BY <1>8 DEF ClosePlan, SameSources
  <2>5. apply'[p].next \notin BeforePromote
    BY <1>o, <2>1, <2>4 DEF Handled
  <2> QED BY <2>1, <2>2, <2>3, <2>4, <2>5, LaterStepOutside
<1> QED BY <1>1, <1>2, <1>3, <1>4, <1>5, <1>6, <1>7, <1>8

(* The fundamentals: a rebuild is remembered in memory, and then in the ledger. *)
LEMMA PitStepsAccounted ==
    ASSUME IInv, Overtaking, Accounted, NEW i \in Proc, NEW p \in Plan, proc[i].plan = p
    PROVE  /\ PitCurrent(i) => Accounted'
           /\ PitRecord(i) => Accounted'
           /\ PitFinish(i) => Accounted'
<1> USE DEF disk, counters, At
<1>p. Types /\ proc \in [Proc -> ProcRecord]
  BY DEF IInv, Types, TypeOK
<1>o. ASSUME proc[i].at \in Later
      PROVE  /\ Busy(i) /\ Handled(i, p) /\ Covers(proc[i].ctx)
             /\ apply[p].next \notin BeforePromote
             /\ \A j \in Proc \ {i} : ~Working(j)
  BY <1>o, Holder DEF Holding, Handled
<1>1. ASSUME PitCurrent(i) PROVE Accounted'
  <2>1. proc[i].at \in Later \ PitInside /\ Goto(i, "pit_pending")
        /\ "pit_pending" \in Later \ {"switch_alias", "clear_pending"}
    BY <1>1 DEF PitCurrent, Later, Publishing, PitInside
  <2>2. /\ proc'[i].at = "pit_pending" /\ proc'[i].plan = p /\ proc'[i].ctx = proc[i].ctx
        /\ OthersStill(i) /\ SameSources /\ UNCHANGED <<curated, active, pending, plan, apply>>
    BY <1>1, <1>p, <2>1, GotoSaves DEF PitCurrent, OthersStill, SameSources
  <2> QED BY <1>o, <2>1, <2>2, LaterStepOutside
<1>2. ASSUME PitRecord(i) PROVE Accounted'
  <2> DEFINE c == proc[i].ctx
             merged == [dates |-> c.dates, revised |-> c.revised \/ proc[i].found.revised,
                        pit |-> c.pit \/ proc[i].found.pit]
  <2>1. proc[i].at = "pit_state" /\ proc[i].at \in Later /\ proc[i].at \in Publishing
        /\ "pit_pending" \in Later \ {"switch_alias", "clear_pending"}
    BY <1>2 DEF PitRecord, Later, Publishing
  <2>2. /\ proc'[i].at = "pit_pending" /\ proc'[i].plan = p /\ proc'[i].ctx = merged
        /\ \A j \in Proc \ {i} : proc'[j] = proc[j]
    BY <1>2, <1>p DEF PitRecord, ProcRecord
  <2>3. OthersStill(i) /\ SameSources /\ UNCHANGED <<curated, active, pending, plan, apply>>
    BY <1>2, <1>p, <2>2 DEF PitRecord, OthersStill, SameSources, Types, TypeOK
  <2>4. Covers(merged)
    BY <1>o, <2>1 DEF Covers
  <2>5. PitOwed => PitOwed'
    <3>1. PitOwed => pending.pit \/ proc[i].found.pit
      BY <1>o, <2>1 DEF PitOwed, Working
    <3>2. merged.pit = (c.pit \/ proc[i].found.pit)
      OBVIOUS
    <3> HIDE DEF merged
    <3> QED BY <2>2, <2>3, <3>1, <3>2 DEF PitOwed
  <2> HIDE DEF merged
  <2>6. apply'[p].ctx = apply[p].ctx /\ apply'[p].next = apply[p].next /\ proc[i].at # "pit_finish"
    BY <2>1, <2>3
  <2>7. apply'[p].next \notin BeforePromote
    BY <1>o, <2>1, <2>6
  <2> QED BY <2>1, <2>2, <2>3, <2>4, <2>5, <2>6, <2>7, LaterStep
<1>3. ASSUME PitFinish(i) PROVE Accounted'
  <2>1. /\ proc[i].at = "pit_finish" /\ proc[i].at \in Later /\ proc[i].at \in Publishing
        /\ "freshness_gate" \in Later \ {"switch_alias", "clear_pending"}
        /\ "freshness_gate" \notin BeforePromote
    BY <1>3 DEF PitFinish, Later, Publishing, BeforePromote
  <2>2. Busy(i) /\ Covers(proc[i].ctx)
    BY <1>o, <2>1
  <2>3. /\ apply'[p].next = "freshness_gate" /\ apply'[p].ctx = proc[i].ctx /\ OthersStill(i)
        /\ proc'[i].at = "freshness_gate" /\ proc'[i].plan = p /\ proc'[i].ctx = proc[i].ctx
    BY <1>3, <1>p, <2>2, FinishSaves, GotoSaves DEF PitFinish, OthersStill
  <2>4. SameSources /\ UNCHANGED <<curated, active, pending, plan>>
    BY <1>3 DEF PitFinish, SameSources
  <2>5. PitOwed => PitOwed'
    <3>1. PitOwed => pending.pit
      BY <1>o, <2>1 DEF PitOwed, Working
    <3> QED BY <2>4, <3>1 DEF PitOwed
  <2> QED BY <2>1, <2>2, <2>3, <2>4, <2>5, LaterStep
<1> QED BY <1>1, <1>2, <1>3
(***************************************************************************)
(* The steps of the publication that change what is on disk.  What is left *)
(* to show for each of them is that the books are still right.             *)
(***************************************************************************)
LEMMA PublishingStep ==
    ASSUME IInv, Overtaking, Accounted, NEW i \in Proc, NEW p \in Plan, proc[i].plan = p,
           proc[i].at \in Later, NEW x \in Later, proc'[i].at = x, proc'[i].plan = p,
           \A j \in Proc \ {i} : proc'[j] = proc[j], UNCHANGED <<plan, apply>>,
           Books',
           Covers(apply[p].ctx)' \/ Saving(p)',
           Covers(proc[i].ctx)',
           apply[p].next = "qlib_publish" /\ active'.owner = p => Fresh',
           x = "switch_alias" => Release(proc[i].ctx)' /\ \A d \in Present' : curated'[d] = Source(d)',
           x = "clear_pending" => Fresh'
    PROVE  Accounted'
<1>1. Holding(i)
  BY DEF Holding
<1>2. HalfDone(p) /\ Handled(i, p) /\ plan[p].status = "PLANNED"
  BY <1>1, Holder
<1>3. OthersStill(i)
  BY DEF OthersStill
<1>4. apply[p].promotion = "begun" /\ apply[p].next \notin BeforePromote
  BY <1>2 DEF Handled, HalfDone
<1>5. Recorded(p)'
  BY <1>2, <1>4 DEF Recorded, Opening, BeforePromote
<1>6. x \notin Promoting /\ ~Writing(i)'
  BY DEF Later, Publishing, Closing, Promoting, Writing
<1>7. (\A q \in Plan \ {p} : ~HalfDone(q)') => Handled(i, p)'
  BY <1>4, <1>6 DEF Handled, Promoting
<1> QED BY <1>1, <1>3, <1>5, <1>7, HeldKeeps

LEMMA PitChangesAccounted ==
    ASSUME IInv, Overtaking, Accounted, NEW i \in Proc, NEW p \in Plan, proc[i].plan = p
    PROVE  /\ PitRebuild(i) => Accounted'
           /\ PitPending(i) => Accounted'
<1> USE DEF disk, counters, At
<1>p. Types /\ proc \in [Proc -> ProcRecord]
  BY DEF IInv, Types, TypeOK
<1>o. ASSUME proc[i].at \in Later
      PROVE  /\ Holding(i) /\ Busy(i) /\ Handled(i, p) /\ Covers(proc[i].ctx) /\ HalfDone(p) /\ Recorded(p)
             /\ apply[p].next \notin BeforePromote
             /\ \A j \in Proc \ {i} : ~Working(j)
             /\ \A d \in Date : Owed(d) => d \in pending.dates
  <2>1. Holding(i)
    BY <1>o DEF Holding
  <2> QED BY <1>o, <2>1, Holder, HolderOwes DEF Handled
<1>1. ASSUME PitRebuild(i) PROVE Accounted'
  <2> DEFINE changed == pit.built # pit.source
             found == [NoWork EXCEPT !.revised = changed, !.pit = changed]
  <2>1. proc[i].at = "pit_refresh" /\ proc[i].at \in Publishing /\ proc[i].at \in Later /\ "pit_state" \in Later
    BY <1>1 DEF PitRebuild, Later, Publishing
  <2>2. found.pit = changed
    BY DEF NoWork
  <2>3. /\ proc'[i].at = "pit_state" /\ proc'[i].plan = p /\ proc'[i].ctx = proc[i].ctx
        /\ proc'[i].found = found /\ \A j \in Proc \ {i} : proc'[j] = proc[j]
    BY <1>1, <1>p DEF PitRebuild, ProcRecord
  <2>4. UNCHANGED <<bronze, curated, active, pending, plan, apply>>
        /\ pit'.built = pit.source
    BY <1>1, <1>p DEF PitRebuild, Types, TypeOK
  <2> HIDE DEF found
  <2>5. changed => PitOwed'
    BY <2>2, <2>3 DEF PitOwed
  <2>6. PitOwed => PitOwed'
    <3>1. PitOwed => pending.pit
      BY <1>o, <2>1, PitOwedByLedger
    <3> QED BY <2>4, <3>1 DEF PitOwed
  <2>7. \A d \in Date : Owed(d) => Owed(d)'
    BY <1>o, <2>1, <2>4 DEF Owed
  <2>8. Books'
    <3>1. \A d \in Date : Source(d)'.raw = Source(d).raw
      BY <2>4 DEF Source
    <3>2. Present' = Present /\ Present \subseteq Date
      BY <2>4 DEF Present
    <3>3. RawOwed'
      BY <2>4, <2>7, <3>1, <3>2 DEF Accounted, Books, RawOwed
    <3>4. PitsOwed'
      <4>1. CASE changed
        BY <2>5, <4>1 DEF PitsOwed
      <4>2. CASE ~changed
        BY <2>4, <2>6, <4>2 DEF Accounted, Books, PitsOwed
      <4> QED BY <4>1, <4>2
    <3>5. Sessions'
      BY <2>4, <3>2 DEF Accounted, Books, Sessions
    <3> QED BY <3>3, <3>4, <3>5 DEF Books
  <2>9. Covers(proc[i].ctx)' /\ Covers(apply[p].ctx)'
    <3>1. ~Saving(p)
      BY <1>o, <2>1 DEF Saving, Working
    <3>2. Covers(apply[p].ctx)
      BY <1>o, <2>1, <3>1 DEF Recorded
    <3> QED BY <1>o, <2>1, <2>3, <2>4, <3>2 DEF Covers
  <2>10. active'.owner # p
    BY <2>1, <2>4 DEF IInv, Placed
  <2> QED BY <2>1, <2>3, <2>4, <2>8, <2>9, <2>10, PublishingStep
<1>2. ASSUME PitPending(i) PROVE Accounted'
  <2>1. proc[i].at = "pit_pending" /\ proc[i].at \in Publishing /\ proc[i].at \in Later /\ "pit_finish" \in Later
    BY <1>2 DEF PitPending, Later, Publishing
  <2>2. Goto(i, "pit_finish") /\ pending' = proc[i].ctx /\ UNCHANGED <<bronze, pit, curated, active, plan, apply>>
    BY <1>2 DEF PitPending
  <2>3. /\ proc'[i].at = "pit_finish" /\ proc'[i].plan = p /\ proc'[i].ctx = proc[i].ctx
        /\ \A j \in Proc \ {i} : proc'[j] = proc[j]
    BY <1>p, <2>2, GotoSaves
  <2>4. \A d \in Date : Owed(d) => Owed(d)'
    BY <1>o, <2>1, <2>2 DEF Owed, Covers
  <2>5. PitOwed => PitOwed'
    <3>1. PitOwed => pending.pit \/ proc[i].ctx.pit
      BY <1>o, <2>1 DEF PitOwed, Working
    <3> QED BY <1>o, <2>1, <2>2, <3>1 DEF PitOwed, Covers
  <2>6. Books'
    BY <2>2, <2>4, <2>5, BooksStay DEF Accounted, SameSources
  <2>7. Covers(proc[i].ctx)' /\ Saving(p)'
    BY <2>2, <2>3 DEF Covers, Saving
  <2>8. active'.owner # p
    BY <2>1, <2>2 DEF IInv, Placed
  <2> QED BY <2>1, <2>2, <2>3, <2>6, <2>7, <2>8, PublishingStep
<1> QED BY <1>1, <1>2
(* The image of a session that Bronze has is not empty. *)
LEMMA SourceIsImage ==
    ASSUME Types, NEW d \in Present
    PROVE  d \in Date /\ Source(d).raw # NoImage.raw /\ Source(d) # NoImage
<1>1. d \in Date /\ bronze[<<Factor, d>>].data # 0 /\ Factor \in Endpoint
  BY EndpointAssumption DEF Present, Endpoint
<1>2. Source(d).raw[Factor] = bronze[<<Factor, d>>].data /\ NoImage.raw[Factor] = 0
  BY <1>1 DEF Source, NoImage
<1> QED BY <1>1, <1>2

LEMMA SourcePit ==
    ASSUME NEW d \in Date
    PROVE  Source(d).pit = pit.built
BY DEF Source

LEMMA SameImage ==
    ASSUME NEW a \in Image, NEW d \in Date, a.raw = Source(d).raw, a.pit = pit.built
    PROVE  a = Source(d)
<1>1. a = [raw |-> a.raw, pit |-> a.pit]
  BY DEF Image
<1>2. Source(d).pit = pit.built /\ Source(d) = [raw |-> Source(d).raw, pit |-> Source(d).pit]
  BY DEF Source
<1> QED BY <1>1, <1>2

(* What nobody owes is as Bronze and the fundamentals are. *)
LEMMA NotOwedIsFresh ==
    ASSUME Types, Books, NEW d \in Present, ~Owed(d)
    PROVE  /\ curated[d].raw = Source(d).raw /\ active.content[d].raw = Source(d).raw
           /\ d <= active.end
           /\ ~PitOwed => curated[d] = Source(d) /\ active.content[d] = Source(d)
<1>1. d \in Date /\ Source(d).raw # NoImage.raw
  BY SourceIsImage
<1>2. curated[d].raw = Source(d).raw /\ active.content[d].raw = Source(d).raw
  BY DEF Books, RawOwed
<1>3. curated[d] # NoImage /\ active.content[d] # NoImage
  BY <1>1, <1>2
<1>4. ~(d > active.end)
  BY <1>1, <1>3 DEF Books, Sessions
<1>5. d \in Nat /\ active.end \in Nat
  BY <1>1, DateAssumption DEF Date, Types, TypeOK
<1>6. curated[d] \in Image /\ active.content[d] \in Image
  BY <1>1 DEF Types, TypeOK
<1>7. ASSUME ~PitOwed PROVE curated[d] = Source(d) /\ active.content[d] = Source(d)
  <2>1. curated[d].pit = pit.built /\ active.content[d].pit = pit.built
    BY <1>1, <1>3, <1>7 DEF Books, PitsOwed
  <2> QED BY <1>1, <1>2, <1>6, <2>1, SameImage
<1> QED BY <1>2, <1>4, <1>5, <1>7

LEMMA CuratedRebuilt ==
    ASSUME Orderly, IInv, Overtaking, Accounted, NEW i \in Proc, BuildCurated(i)
    PROVE  /\ \A d \in Present : curated'[d] = Source(d)
           /\ \A d \in Date \ Present : curated'[d] = NoImage
           /\ ~Release(proc[i].ctx) => Fresh /\ Appended = {} /\ ~proc[i].ctx.revised
<1> DEFINE c == proc[i].ctx
<1>1. /\ Types /\ proc[i].at = "qlib_publish" /\ Holding(i) /\ proc[i].at \in Later
  BY DEF BuildCurated, At, Holding, Later, Publishing, IInv
<1>2. Covers(c) /\ Books /\ c \in Context
  BY <1>1, Holder, BusyReads DEF Handled, Accounted
<1>3. \A d \in Date : Owed(d) => d \in c.dates
  BY <1>1, <1>2, HolderOwes DEF Covers
<1>4. PitOwed => c.pit
  BY <1>1, <1>2, PitOwedByLedger DEF Covers
<1>5. Release(c) <=> HasWork(c)
  BY DEF Release, Orderly
<1>6. Present \subseteq Date
  BY DEF Present
<1>7. \A d \in Date : curated'[d] = IF d \in Rebuilt(c) THEN Source(d) ELSE curated[d]
  BY DEF BuildCurated
<1> HIDE DEF c
<1>8. \A d \in Present : curated'[d] = Source(d)
  <2> SUFFICES ASSUME NEW d \in Present, d \notin Rebuilt(c) PROVE curated[d] = Source(d)
    BY <1>6, <1>7
  <2>1. ~c.pit /\ d \notin c.dates
    BY DEF Rebuilt
  <2>2. ~Owed(d) /\ ~PitOwed
    BY <1>3, <1>4, <1>6, <2>1
  <2> QED BY <1>1, <1>2, <2>2, NotOwedIsFresh
<1>9. \A d \in Date \ Present : curated'[d] = NoImage
  <2> SUFFICES ASSUME NEW d \in Date \ Present PROVE curated'[d] = NoImage
    OBVIOUS
  <2>1. d \notin Rebuilt(c)
    BY DEF Rebuilt, Appended
  <2> QED BY <1>2, <1>7, <2>1 DEF Books, Sessions
<1>10. ASSUME ~Release(c) PROVE Fresh /\ Appended = {} /\ ~c.revised
  <2>1. c.dates = {} /\ ~c.revised /\ ~c.pit
    BY <1>5, <1>10 DEF HasWork
  <2>2. ~PitOwed /\ \A d \in Present : ~Owed(d)
    BY <1>3, <1>4, <1>6, <2>1
  <2>3. \A d \in Present : d <= active.end /\ curated[d] = Source(d) /\ active.content[d] = Source(d)
    BY <1>1, <1>2, <2>2, NotOwedIsFresh
  <2>4. \A d \in Present : d \in Nat /\ active.end \in Nat
    BY <1>1, <1>6, DateAssumption DEF Date, Types, TypeOK
  <2>5. Appended = {}
    BY <2>3, <2>4 DEF Appended
  <2> QED BY <2>1, <2>3, <2>5 DEF Fresh
<1> QED BY <1>8, <1>9, <1>10 DEF c

LEMMA BuildAccounted ==
    ASSUME Orderly, IInv, Overtaking, Accounted, NEW i \in Proc, NEW p \in Plan, proc[i].plan = p,
           BuildCurated(i)
    PROVE  Accounted'
<1> USE DEF disk, counters, At
<1> DEFINE c == proc[i].ctx
           x == IF Release(c) \/ Appended # {} \/ c.revised THEN "switch_alias" ELSE "clear_pending"
<1>1. /\ proc[i].at = "qlib_publish" /\ proc[i].at \in Publishing /\ proc[i].at \in Later
      /\ Holding(i) /\ Types
  BY DEF BuildCurated, Holding, Later, Publishing, IInv
<1>2. /\ Covers(c) /\ Handled(i, p) /\ HalfDone(p) /\ Recorded(p) /\ apply[p].next \notin BeforePromote
      /\ \A j \in Proc \ {i} : ~Working(j)
  BY <1>1, Holder DEF Handled
<1>3. Goto(i, x) /\ UNCHANGED <<bronze, pit, index, pending, active, plan, apply>>
  BY DEF BuildCurated
<1>4. x \in Later /\ (x = "switch_alias" => Release(c)) /\ (x = "clear_pending" => Fresh)
  BY CuratedRebuilt DEF Later, Publishing, Closing
<1> HIDE DEF x
<1>5. /\ proc'[i].at = x /\ proc'[i].plan = p /\ proc'[i].ctx = c
      /\ \A j \in Proc \ {i} : proc'[j] = proc[j]
  BY <1>1, <1>3, GotoSaves
<1>6. (\A d \in Date : Source(d)' = Source(d)) /\ Present' = Present /\ Present \subseteq Date
  BY <1>3, SourcesStay, EndpointAssumption DEF Present, SameSources
<1>7. \A d \in Present : curated'[d] = Source(d)
  BY CuratedRebuilt
<1>8. \A d \in Date \ Present : curated'[d] = NoImage
  BY CuratedRebuilt
<1>9. Books'
  <2>1. \A d \in Date : Owed(d) => Owed(d)'
    BY <1>1, <1>3, HolderOwes DEF Owed
  <2>2. PitOwed => PitOwed'
    BY <1>1, <1>3, PitOwedByLedger DEF PitOwed
  <2>3. RawOwed'
    BY <1>3, <1>6, <1>7, <2>1 DEF Accounted, Books, RawOwed
  <2>4. PitsOwed'
    <3>1. \A d \in Present : curated'[d].pit = pit.built
      BY <1>6, <1>7, SourcePit
    <3>2. \A d \in Date : curated'[d] # NoImage => curated'[d].pit = pit'.built
      BY <1>3, <1>8, <3>1
    <3>3. \A d \in Date : active.content[d] # NoImage /\ active.content[d].pit # pit.built => PitOwed'
      BY <2>2 DEF Accounted, Books, PitsOwed
    <3> QED BY <1>3, <3>2, <3>3 DEF PitsOwed
  <2>5. Sessions'
    BY <1>3, <1>6, <1>8 DEF Accounted, Books, Sessions
  <2> QED BY <2>3, <2>4, <2>5 DEF Books
<1>10. Covers(apply[p].ctx)' /\ Covers(proc[i].ctx)'
  <2>1. ~Saving(p)
    BY <1>1, <1>2 DEF Saving, Working
  <2> QED BY <1>2, <1>3, <1>5, <2>1 DEF Recorded, Covers
<1>11. active'.owner # p
  BY <1>1, <1>3 DEF IInv, Placed
<1>12. x = "clear_pending" => Fresh'
  BY <1>3, <1>4, <1>6, <1>7 DEF Fresh
<1>13. x = "switch_alias" => Release(proc[i].ctx)' /\ \A d \in Present' : curated'[d] = Source(d)'
  BY <1>4, <1>5, <1>6, <1>7 DEF Release, HasWork
<1> QED BY <1>1, <1>3, <1>4, <1>5, <1>9, <1>10, <1>11, <1>12, <1>13, PublishingStep

(* The alias is switched to the curated days, which are all as Bronze is. *)
LEMMA SwitchedIsFresh ==
    ASSUME IInv, Overtaking, Accounted, NEW i \in Proc, SwitchAlias(i)
    PROVE  /\ active'.content = curated /\ active'.owner = proc[i].plan
           /\ active'.end = LastOf(Present)
           /\ \A d \in Present : active'.content[d] = Source(d) /\ curated[d] = Source(d)
           /\ SameSources /\ UNCHANGED curated
<1>1. proc[i].at = "switch_alias" /\ Holding(i) /\ Types
  BY DEF SwitchAlias, At, Holding, Later, Publishing, IInv
<1>2. Release(proc[i].ctx) /\ \A d \in Present : curated[d] = Source(d)
  BY <1>1, Holder DEF Handled
<1>3. curated \in [Date -> Image]
  BY <1>1 DEF Types, TypeOK
<1>4. active'.content = [d \in Date |-> curated[d]]
  BY <1>2 DEF SwitchAlias
<1>5. active'.content = curated
  BY <1>3, <1>4
<1> QED BY <1>2, <1>5 DEF SwitchAlias, SameSources

LEMMA SwitchAccounted ==
    ASSUME IInv, Overtaking, Accounted, NEW i \in Proc, NEW p \in Plan, proc[i].plan = p
    PROVE  /\ SwitchAlias(i) => Accounted'
           /\ ClearPending(i) => Accounted'
<1> USE DEF disk, counters, At
<1>p. Types
  BY DEF IInv
<1>1. ASSUME SwitchAlias(i) PROVE Accounted'
  <2>1. proc[i].at = "switch_alias" /\ proc[i].at \in Later /\ Holding(i) /\ "clear_pending" \in Later
    BY <1>1 DEF SwitchAlias, Holding, Later, Publishing, Closing
  <2>2. /\ Covers(proc[i].ctx) /\ HalfDone(p) /\ Recorded(p) /\ apply[p].next \notin BeforePromote
        /\ \A j \in Proc \ {i} : ~Working(j)
    BY <2>1, Holder DEF Handled
  <2>3. Goto(i, "clear_pending") /\ UNCHANGED <<bronze, curated, pit, pending, plan, apply>>
    BY <1>1 DEF SwitchAlias
  <2>4. /\ proc'[i].at = "clear_pending" /\ proc'[i].plan = p /\ proc'[i].ctx = proc[i].ctx
        /\ \A j \in Proc \ {i} : proc'[j] = proc[j]
    BY <1>p, <2>3, GotoSaves
  <2>5. /\ active'.content = curated /\ active'.end = LastOf(Present) /\ SameSources
        /\ \A d \in Present : active'.content[d] = Source(d) /\ curated[d] = Source(d)
    BY <1>1, SwitchedIsFresh
  <2>6. (\A d \in Date : Source(d)' = Source(d)) /\ Present' = Present /\ Present \in SUBSET Date
    BY <2>5, SourcesStay, EndpointAssumption DEF Present
  <2>7. Books'
    <3>1. PitOwed => PitOwed'
      BY <2>1, <2>3, PitOwedByLedger DEF PitOwed
    <3>2. RawOwed'
      BY <2>3, <2>5, <2>6 DEF RawOwed
    <3>3. PitsOwed'
      BY <2>3, <2>5, <3>1 DEF Accounted, Books, PitsOwed
    <3>4. Sessions'
      <4>1. \A d \in Date \ Present : curated[d] = NoImage
        BY DEF Accounted, Books, Sessions
      <4>2. \A d \in Date : d \in Nat /\ LastOf(Present) \in Nat
        BY <2>6, LastIsSession, DateAssumption DEF Date
      <4>3. \A d \in Date : d > LastOf(Present) => d \notin Present
        BY <2>6, <4>2, LastIsSession
      <4> QED BY <2>3, <2>5, <2>6, <4>1, <4>3 DEF Sessions
    <3> QED BY <3>2, <3>3, <3>4 DEF Books
  <2>8. Covers(apply[p].ctx)' /\ Covers(proc[i].ctx)'
    <3>1. ~Saving(p)
      BY <2>1, <2>2 DEF Saving, Working
    <3> QED BY <2>2, <2>3, <2>4, <3>1 DEF Recorded, Covers
  <2>9. Fresh'
    BY <2>3, <2>5, <2>6 DEF Fresh
  <2> QED BY <2>1, <2>3, <2>4, <2>7, <2>8, <2>9, PublishingStep
<1>2. ASSUME ClearPending(i) PROVE Accounted'
  <2>1. proc[i].at = "clear_pending" /\ proc[i].at \in Later /\ Holding(i) /\ "finish_publish" \in Later
    BY <1>2 DEF ClearPending, Holding, Later, Closing
  <2>2. Fresh
    BY <2>1, Holder DEF Handled
  <2>3. Goto(i, "finish_publish") /\ pending' = NoWork /\ UNCHANGED <<bronze, curated, pit, active, plan, apply>>
    BY <1>2 DEF ClearPending
  <2>4. /\ proc'[i].at = "finish_publish" /\ proc'[i].plan = p /\ proc'[i].ctx = proc[i].ctx
        /\ \A j \in Proc \ {i} : proc'[j] = proc[j]
    BY <1>p, <2>3, GotoSaves
  <2>5. SameSources
    BY <2>3 DEF SameSources
  <2>6. (\A d \in Date : Source(d)' = Source(d)) /\ Present' = Present /\ Present \subseteq Date
    BY <2>5, SourcesStay, EndpointAssumption DEF Present
  <2>7. Fresh'
    BY <2>2, <2>3, <2>6 DEF Fresh
  <2>8. Books'
    <3>1. RawOwed'
      BY <2>7 DEF Fresh, RawOwed
    <3>2. Sessions'
      BY <2>3, <2>6 DEF Accounted, Books, Sessions
    <3>3. \A d \in Present : curated[d].pit = pit.built /\ active.content[d].pit = pit.built
      BY <2>2, <2>6, SourcePit DEF Fresh
    <3>4. \A d \in Date \ Present : curated[d] = NoImage /\ active.content[d] = NoImage
      BY DEF Accounted, Books, Sessions
    <3>5. \A d \in Date : /\ curated'[d] # NoImage => curated'[d].pit = pit'.built
                          /\ active'.content[d] # NoImage => active'.content[d].pit = pit'.built
      BY <2>3, <3>3, <3>4
    <3>6. PitsOwed'
      BY <3>5 DEF PitsOwed
    <3> QED BY <3>1, <3>2, <3>6 DEF Books
  <2>9. Covers(apply[p].ctx)' /\ Covers(proc[i].ctx)'
    BY <2>3 DEF Covers, NoWork
  <2> QED BY <2>1, <2>3, <2>4, <2>7, <2>8, <2>9, PublishingStep
<1> QED BY <1>1, <1>2
(***************************************************************************)
(* The steps that leave the days, the alias and the ledger as they are,    *)
(* before a promotion begins or beside it.                                 *)
(***************************************************************************)
Untouched(q) == plan'[q] = plan[q] /\ stage'[q] = stage[q] /\ apply'[q].next = apply[q].next

LEMMA SideStep ==
    ASSUME IInv, Accounted, SameSources, UNCHANGED <<curated, active, pending>>,
           \A q \in Plan : apply'[q].promotion = apply[q].promotion,
           \A q \in Plan : HalfDone(q) => Untouched(q),
           \A q \in Plan : plan[q].status # "none" => plan'[q].status = plan[q].status,
           \A q \in Plan : \/ apply'[q].next = apply[q].next /\ apply'[q].ctx = apply[q].ctx
                           \/ /\ apply'[q].next \in BeforePromote
                              /\ apply[q].promotion # "none" => apply'[q].next \notin Opening,
           \A j \in Proc : proc[j].at \in PitInside => proc'[j] = proc[j],
           Resumption = "abandon" => \A j \in Proc : Writing(j) => proc'[j] = proc[j],
           \A j \in Proc, q \in Plan : Working(j)' /\ proc'[j].plan = q =>
               \/ proc'[j] = proc[j] /\ Untouched(q)
               \/ (\A r \in Plan : HalfDone(r)' => HalfDone(r)) => Handled(j, q)'
    PROVE  Accounted'
<1>1. (\A d \in Date : Source(d)' = Source(d)) /\ Present' = Present /\ Present \subseteq Date
  BY SourcesStay, EndpointAssumption DEF Present
<1>2. Fresh' = Fresh
  BY <1>1 DEF Fresh
<1>3. \A q \in Plan : HalfDone(q)' => HalfDone(q)
  BY DEF HalfDone, Accounted, Recorded
<1>4. \A q \in Plan : HalfDone(q) => HalfDone(q)' /\ Named(q)' = Named(q)
  BY DEF HalfDone, Untouched, Named, Changes, Targets, Promised, Staged
<1>5. \A d \in Date : Owed(d) => Owed(d)'
  <2> SUFFICES ASSUME NEW d \in Date, Owed(d), d \notin pending.dates PROVE Owed(d)'
    BY DEF Owed
  <2>1. PICK p \in Plan : /\ HalfDone(p) /\ apply[p].next = "raw_promote" /\ d \in Named(p)
                          /\ Resumption = "abandon" => \E i \in Proc : Writing(i) /\ proc[i].plan = p
    BY DEF Owed
  <2>2. HalfDone(p)' /\ apply'[p].next = "raw_promote" /\ d \in Named(p)'
    BY <1>4, <2>1 DEF Untouched
  <2>3. Resumption = "abandon" => \E i \in Proc : Writing(i)' /\ proc'[i].plan = p
    BY <2>1 DEF Writing
  <2> QED BY <2>2, <2>3 DEF Owed
<1>6. PitOwed => PitOwed'
  BY DEF PitOwed, PitInside
<1>7. Books'
  BY <1>5, <1>6, BooksStay DEF Accounted
<1>8. OneHalfDone'
  BY <1>3 DEF Accounted, OneHalfDone
<1>9. ASSUME NEW q \in Plan PROVE Recorded(q)'
  <2>1. Recorded(q)
    BY DEF Accounted
  <2>2. apply'[q].promotion # "none" => plan'[q].status # "none"
    BY <2>1 DEF Recorded
  <2>3. CASE apply'[q].next = apply[q].next /\ apply'[q].ctx = apply[q].ctx
    <3>1. Saving(q) => Saving(q)'
      BY DEF Saving, PitInside
    <3>2. Covers(apply[q].ctx) => Covers(apply[q].ctx)'
      BY <2>3 DEF Covers
    <3> QED BY <1>2, <1>3, <2>1, <2>2, <2>3, <3>1, <3>2 DEF Recorded
  <2>4. CASE /\ apply'[q].next \in BeforePromote
             /\ apply[q].promotion # "none" => apply'[q].next \notin Opening
    BY <2>1, <2>2, <2>4 DEF Recorded
  <2> QED BY <2>3, <2>4
<1>10. ASSUME NEW j \in Proc, NEW q \in Plan, Working(j)', proc'[j].plan = q PROVE Handled(j, q)'
  <2>1. CASE proc'[j] = proc[j] /\ Untouched(q)
    <3>1. Handled(j, q)
      BY <1>10, <2>1 DEF Accounted, Working
    <3>2. Targets(q)' = Targets(q) /\ Named(q)' = Named(q)
      BY <2>1 DEF Untouched, Named, Changes, Targets, Promised, Staged
    <3>3. Covers(proc[j].ctx)' = Covers(proc[j].ctx) /\ Release(proc[j].ctx)' = Release(proc[j].ctx)
      BY <2>1 DEF Covers, Release, HasWork
    <3>4. Writing(j)' = Writing(j)
      BY <2>1 DEF Writing
    <3>5. \A d \in Present' : curated[d] = Source(d) => curated'[d] = Source(d)'
      BY <1>1
    <3> QED BY <1>1, <1>2, <1>3, <2>1, <3>1, <3>2, <3>3, <3>4, <3>5 DEF Handled, Untouched
  <2>2. CASE (\A r \in Plan : HalfDone(r)' => HalfDone(r)) => Handled(j, q)'
    BY <1>3, <2>2
  <2> QED BY <1>10, <2>1, <2>2
<1> QED BY <1>7, <1>8, <1>9, <1>10 DEF Accounted

(* Steps beside the workers. *)
LEMMA AroundAccounted ==
    ASSUME IInv, Overtaking, Accounted
    PROVE  /\ UNCHANGED vars => Accounted'
           /\ \A t \in Part : Revise(t) => Accounted'
           /\ \A p \in Plan, d \in Date : CreatePlan(p, d) => Accounted'
           /\ \A i \in Proc, p \in Plan : Preflight(i, p) => Accounted'
           /\ \A i \in Proc : Refused(i) => Accounted'
<1> USE DEF disk, counters
<1>t. Types /\ apply \in [Plan -> ApplyRecord] /\ proc \in [Proc -> ProcRecord] /\ plan \in [Plan -> PlanRecord]
  BY DEF IInv, Types, TypeOK
<1>a. ASSUME UNCHANGED <<disk, stage>>,
             \A q \in Plan : /\ apply'[q].promotion = apply[q].promotion
                             /\ apply'[q].next = apply[q].next /\ apply'[q].ctx = apply[q].ctx,
             \A q \in Plan : plan[q].status # "none" => plan'[q] = plan[q],
             \A j \in Proc : proc'[j] = proc[j] \/ (~Working(j) /\ ~Working(j)')
      PROVE  Accounted'
  <2>1. \A q \in Plan : HalfDone(q) => plan[q].status # "none"
    BY DEF HalfDone, Accounted, Recorded
  <2>2. \A q \in Plan : HalfDone(q) => Untouched(q)
    BY <1>a, <2>1 DEF Untouched
  <2>3. \A j \in Proc : Working(j) => proc'[j] = proc[j]
    BY <1>a
  <2>4. \A j \in Proc : proc[j].at \in PitInside \/ Writing(j) => Working(j)
    BY DEF PitInside, Writing, Working
  <2>5. ASSUME NEW j \in Proc, NEW q \in Plan, Working(j)', proc'[j].plan = q
        PROVE  proc'[j] = proc[j] /\ Untouched(q)
    <3>1. proc'[j] = proc[j]
      BY <1>a, <2>5
    <3>2. plan[q].status # "none"
      BY <1>t, <2>5, <3>1 DEF Types, HasPlan, Working, Busy
    <3> QED BY <1>a, <3>1, <3>2 DEF Untouched
  <2>6. SameSources
    BY <1>a DEF SameSources
  <2> QED BY <1>a, <2>2, <2>3, <2>4, <2>5, <2>6, SideStep
<1>1. ASSUME UNCHANGED vars PROVE Accounted'
  BY <1>1, <1>a DEF vars
<1>2. ASSUME NEW t \in Part, Revise(t) PROVE Accounted'
  BY <1>2, <1>a DEF Revise
<1>3. ASSUME NEW p \in Plan, NEW d \in Date, CreatePlan(p, d) PROVE Accounted'
  <2>1. plan[p].status = "none" /\ \A q \in Plan \ {p} : plan'[q] = plan[q]
    BY <1>3, <1>t DEF CreatePlan
  <2> QED BY <1>3, <1>a, <2>1 DEF CreatePlan
<1>4. ASSUME NEW i \in Proc, NEW p \in Plan, Preflight(i, p) PROVE Accounted'
  <2>1. \A j \in Proc : proc'[j] = proc[j] \/ (~Working(j) /\ ~Working(j)')
    BY <1>4, <1>t DEF Preflight, Working, Idle, ProcRecord
  <2>2. \A q \in Plan : /\ apply'[q].promotion = apply[q].promotion
                        /\ apply'[q].next = apply[q].next /\ apply'[q].ctx = apply[q].ctx
    BY <1>4, <1>t DEF Preflight, ApplyRecord
  <2> QED BY <1>4, <1>a, <2>1, <2>2 DEF Preflight
<1>5. ASSUME NEW i \in Proc, Refused(i) PROVE Accounted'
  <2>1. \A j \in Proc : proc'[j] = proc[j] \/ (~Working(j) /\ ~Working(j)')
    BY <1>5, <1>t DEF Refused, Working, Idle
  <2> QED BY <1>5, <1>a, <2>1 DEF Refused
<1> QED BY <1>1, <1>2, <1>3, <1>4, <1>5

(***************************************************************************)
(* Taking the lock.  A plan that is resumed after its promotion takes its  *)
(* own context from the ledger, which covers what is pending.              *)
(***************************************************************************)
LEMMA LockAccounted ==
    ASSUME Orderly, IInv, Overtaking, Accounted, NEW i \in Proc, Lock(i)
    PROVE  Accounted'
<1> USE DEF disk, counters
<1> DEFINE p == proc[i].plan
           x == ResumeAt(apply[p].next)
<1>1. /\ proc[i].at = "preflight" /\ ~Locked /\ ~Held(p) /\ Busy(i) /\ Types
      /\ UNCHANGED <<disk, plan, stage, apply>>
  BY DEF Lock, Busy, IInv
<1>2. p \in Plan /\ apply[p] \in ApplyRecord /\ plan[p].status = "PLANNED" /\ Recorded(p)
  BY <1>1, BusyReads DEF Overtaking, StillPlanned, Accounted
<1>3. \A j \in Proc : ~Working(j)
  BY <1>1 DEF Locked, Working
<1>4. /\ x \in Opening \cup {"raw_promote", "raw_validate", "enter_publish"}
      /\ x = "raw_promote" => apply[p].next = "raw_promote"
      /\ x \in Later => apply[p].next \notin BeforePromote
  <2>1. apply[p].next \in Step
    BY <1>2 DEF ApplyRecord
  <2> QED BY <2>1 DEF ResumeAt, BeforePromote, Opening, Later, Publishing, Closing, Step
<1> HIDE DEF x
<1>5. /\ proc'[i].at = x /\ proc'[i].plan = p /\ proc'[i].ctx = apply[p].ctx
      /\ \A j \in Proc \ {i} : proc'[j] = proc[j]
  BY <1>1 DEF Lock, Types, TypeOK, ProcRecord, x
<1>6. apply[p].promotion # "overtaken" /\ (Resumption = "finish" => \A q \in Plan \ {p} : ~HalfDone(q))
  BY <1>1, <1>2, ResumptionAssumption DEF Held, Orderly, Recorded
<1>7. ASSUME x \in Later PROVE apply[p].promotion = "begun" /\ Covers(apply[p].ctx)
  <2>1. apply[p].promotion = "begun"
    BY <1>2, <1>4, <1>6, <1>7 DEF Recorded, ApplyRecord
  <2>2. ~Saving(p)
    BY <1>3 DEF Saving, Working
  <2> QED BY <1>2, <1>4, <1>7, <2>1, <2>2 DEF Recorded, HalfDone
<1>8. ASSUME NEW q \in Plan, proc'[i].plan = q, \A r \in Plan : HalfDone(r)' => HalfDone(r)
      PROVE  Handled(i, q)'
  <2>1. q = p
    BY <1>5, <1>8
  <2>2. x \in Later => Covers(proc[i].ctx)'
    BY <1>1, <1>5, <1>7 DEF Covers
  <2>3. ~Writing(i)' /\ x \notin {"write_index", "end_promote", "switch_alias", "clear_pending"}
        /\ x \notin Promoting \ {"raw_promote"}
    BY <1>4, <1>5 DEF Writing, Opening, Promoting
  <2>4. apply'[p].promotion = apply[p].promotion /\ apply'[p].next = apply[p].next
    BY <1>1
  <2> QED BY <1>4, <1>5, <1>6, <1>7, <1>8, <2>1, <2>2, <2>3, <2>4 DEF Handled
<1>9. SameSources /\ \A q \in Plan : Untouched(q)
  BY <1>1 DEF SameSources, Untouched
<1>10. \A j \in Proc : proc[j].at \in PitInside \/ Writing(j) => proc'[j] = proc[j]
  BY <1>3 DEF PitInside, Writing, Working
<1>11. \A j \in Proc, q \in Plan : Working(j)' /\ proc'[j].plan = q =>
           \/ proc'[j] = proc[j] /\ Untouched(q)
           \/ (\A r \in Plan : HalfDone(r)' => HalfDone(r)) => Handled(j, q)'
  BY <1>3, <1>5, <1>8 DEF Working
<1> QED BY <1>1, <1>9, <1>10, <1>11, SideStep
(***************************************************************************)
(* Until its promotion, whatever the worker fetches, stages or repairs, is *)
(* its own: its plan is not half promoted.                                 *)
(***************************************************************************)
LEMMA OpeningStep ==
    ASSUME IInv, Overtaking, Accounted, NEW i \in Proc, NEW p \in Plan, proc[i].plan = p,
           proc[i].at \in OpeningPoints, UNCHANGED <<bronze, curated, pit, active, pending>>,
           \A j \in Proc \ {i} : proc'[j] = proc[j],
           \A q \in Plan \ {p} : plan'[q] = plan[q] /\ stage'[q] = stage[q] /\ apply'[q] = apply[q],
           plan'[p].status = plan[p].status, apply'[p].promotion = apply[p].promotion,
           apply'[p].next \in BeforePromote,
           Working(i)' => /\ proc'[i].plan = p /\ proc'[i].at \in OpeningPoints \cup {"raw_promote"}
                          /\ proc'[i].at = "raw_promote" => apply'[p].next = "raw_promote"
    PROVE  Accounted'
<1>1. Working(i) /\ \A j \in Proc \ {i} : ~Working(j)
  BY DEF IInv, OneWorker, Working, OpeningPoints, Opening
<1>2. Handled(i, p) /\ Recorded(p) /\ apply[p].next \in Opening
  BY <1>1 DEF Accounted, Overtaking, Ledgers, Ledger
<1>3. apply[p].promotion = "none" /\ ~HalfDone(p)
  BY <1>2 DEF Recorded, HalfDone
<1>4. \A q \in Plan : HalfDone(q) => Untouched(q)
  BY <1>3 DEF Untouched
<1>5. \A j \in Proc : proc[j].at \in PitInside \/ Writing(j) => proc'[j] = proc[j]
  BY DEF PitInside, Writing, OpeningPoints, Opening
<1>6. ASSUME NEW q \in Plan, Working(i)', proc'[i].plan = q, \A r \in Plan : HalfDone(r)' => HalfDone(r)
      PROVE  Handled(i, q)'
  <2>1. q = p
    BY <1>6
  <2>2. ~Writing(i)' /\ proc'[i].at \notin Later
        /\ proc'[i].at \notin {"write_index", "end_promote", "switch_alias", "clear_pending"}
        /\ proc'[i].at \notin Promoting \ {"raw_promote"}
    BY <1>6 DEF Writing, OpeningPoints, Opening, Promoting, Later, Publishing, Closing
  <2>3. proc'[i].at \in Promoting => apply'[p].next = "raw_promote"
    BY <1>6, <2>2
  <2>4. Resumption = "finish" => \A r \in Plan \ {p} : ~HalfDone(r)'
    BY <1>2, <1>6 DEF Handled
  <2> QED BY <1>3, <2>1, <2>2, <2>3, <2>4 DEF Handled
<1>7. \A j \in Proc, q \in Plan : Working(j)' /\ proc'[j].plan = q =>
           \/ proc'[j] = proc[j] /\ Untouched(q)
           \/ (\A r \in Plan : HalfDone(r)' => HalfDone(r)) => Handled(j, q)'
  BY <1>1, <1>6 DEF Working
<1>8. SameSources
  BY DEF SameSources
<1> QED BY <1>3, <1>4, <1>5, <1>7, <1>8, SideStep

LEMMA FetchAccounted ==
    ASSUME IInv, Overtaking, Accounted, NEW i \in Proc, NEW p \in Plan, proc[i].plan = p, Fetch(i)
    PROVE  Accounted'
<1> USE DEF disk, counters, At
<1>p. Types /\ proc \in [Proc -> ProcRecord] /\ plan \in [Plan -> PlanRecord]
  BY DEF IInv, Types, TypeOK
<1>n. ASSUME proc[i].at \in OpeningPoints PROVE Busy(i) /\ apply[p].next \in BeforePromote
  BY <1>n DEF Overtaking, Ledgers, Ledger, Working, Busy, OpeningPoints, Opening, BeforePromote
<1>1. ASSUME NEW t \in Part, FetchPartition(i, t) PROVE Accounted'
  <2>1. proc[i].at = "market_fetch" /\ proc[i].at \in OpeningPoints
    BY <1>1 DEF FetchPartition, NextToFetch, OpeningPoints, Opening
  <2>2. \A q \in Plan \ {p} : stage'[q] = stage[q]
    BY <1>1, <1>p DEF FetchPartition, Types, TypeOK
  <2> QED BY <1>1, <1>n, <2>1, <2>2, OpeningStep DEF FetchPartition
<1>2. ASSUME NEW t \in Part, FetchUnavailable(i, t) PROVE Accounted'
  <2>1. proc[i].at = "market_fetch" /\ proc[i].at \in OpeningPoints
    BY <1>2 DEF FetchUnavailable, NextToFetch, OpeningPoints, Opening
  <2>2. /\ proc'[i].at = proc[i].at /\ proc'[i].plan = p
        /\ \A j \in Proc \ {i} : proc'[j] = proc[j]
    BY <1>2, <1>p DEF FetchUnavailable, ProcRecord
  <2> QED BY <1>2, <1>n, <2>1, <2>2, OpeningStep DEF FetchUnavailable
<1>3. ASSUME FetchRejected(i) PROVE Accounted'
  <2>1. proc[i].at \in OpeningPoints
    BY <1>3 DEF FetchRejected, OpeningPoints, Opening
  <2>2. proc'[i] = Idle /\ OthersStill(i) /\ apply'[p].next = apply[p].next
    BY <1>3, <1>n, <1>p, <2>1, AbortSaves DEF FetchRejected
  <2>3. ~Working(i)'
    BY <2>2 DEF Working, Idle
  <2> QED BY <1>3, <1>n, <2>1, <2>2, <2>3, OpeningStep DEF FetchRejected, OthersStill
<1>4. ASSUME FetchDone(i) PROVE Accounted'
  <2>1. proc[i].at \in OpeningPoints /\ "factor_reconcile" \in OpeningPoints
        /\ "factor_reconcile" \in BeforePromote
    BY <1>4 DEF FetchDone, OpeningPoints, Opening, BeforePromote
  <2>2. /\ apply'[p].next = "factor_reconcile" /\ apply'[p].promotion = apply[p].promotion
        /\ \A q \in Plan \ {p} : apply'[q] = apply[q]
    BY <1>4, <1>n, <1>p, <2>1, FinishSaves DEF FetchDone
  <2>3. /\ proc'[i].at = "factor_reconcile" /\ proc'[i].plan = p
        /\ \A j \in Proc \ {i} : proc'[j] = proc[j]
    BY <1>4, <1>p, GotoSaves DEF FetchDone
  <2> QED BY <1>4, <2>1, <2>2, <2>3, OpeningStep DEF FetchDone
<1>5. ASSUME ReconcileFactors(i) PROVE Accounted'
  <2>1. proc[i].at \in OpeningPoints /\ {"stage_repairs", "save_repairs"} \subseteq OpeningPoints
    BY <1>5 DEF ReconcileFactors, OpeningPoints, Opening
  <2>2. /\ proc'[i].at \in {"stage_repairs", "save_repairs"} /\ proc'[i].plan = p
        /\ \A j \in Proc \ {i} : proc'[j] = proc[j]
    BY <1>5, <1>p DEF ReconcileFactors, ProcRecord
  <2>3. plan'[p].status = plan[p].status /\ \A q \in Plan \ {p} : plan'[q] = plan[q]
    BY <1>5, <1>p DEF ReconcileFactors, PlanRecord
  <2>4. UNCHANGED <<bronze, curated, pit, active, pending, stage, apply>>
    BY <1>5 DEF ReconcileFactors
  <2>5. proc'[i].at \in OpeningPoints /\ proc'[i].at # "raw_promote"
    BY <2>1, <2>2
  <2> QED BY <1>n, <2>1, <2>2, <2>3, <2>4, <2>5, OpeningStep
<1>6. ASSUME NEW t \in Part, StageRepair(i, t) PROVE Accounted'
  <2>1. proc[i].at = "stage_repairs" /\ proc[i].at \in OpeningPoints
    BY <1>6 DEF StageRepair, OpeningPoints, Opening
  <2>2. \A q \in Plan \ {p} : stage'[q] = stage[q]
    BY <1>6, <1>p DEF StageRepair, Types, TypeOK
  <2> QED BY <1>6, <1>n, <2>1, <2>2, OpeningStep DEF StageRepair
<1>9. ASSUME RepairsStaged(i) PROVE Accounted'
  <2>1. proc[i].at \in OpeningPoints /\ "save_repairs" \in OpeningPoints
    BY <1>9 DEF RepairsStaged, OpeningPoints, Opening
  <2>2. /\ proc'[i].at = "save_repairs" /\ proc'[i].plan = p
        /\ \A j \in Proc \ {i} : proc'[j] = proc[j]
    BY <1>9, <1>p, GotoSaves DEF RepairsStaged
  <2> QED BY <1>9, <1>n, <2>1, <2>2, OpeningStep DEF RepairsStaged
<1>7. ASSUME SaveRepairs(i) PROVE Accounted'
  <2>1. proc[i].at \in OpeningPoints /\ "end_reconcile" \in OpeningPoints
    BY <1>7 DEF SaveRepairs, OpeningPoints, Opening
  <2>2. /\ proc'[i].at = "end_reconcile" /\ proc'[i].plan = p
        /\ \A j \in Proc \ {i} : proc'[j] = proc[j]
    BY <1>7, <1>p DEF SaveRepairs, ProcRecord
  <2>3. plan'[p].status = plan[p].status /\ \A q \in Plan \ {p} : plan'[q] = plan[q]
    BY <1>7, <1>p DEF SaveRepairs, PlanRecord
  <2> QED BY <1>7, <1>n, <2>1, <2>2, <2>3, OpeningStep DEF SaveRepairs
<1>8. ASSUME EndReconcile(i) PROVE Accounted'
  <2>1. proc[i].at \in OpeningPoints /\ "raw_promote" \in BeforePromote
    BY <1>8 DEF EndReconcile, OpeningPoints, Opening, BeforePromote
  <2>2. /\ apply'[p].next = "raw_promote" /\ apply'[p].promotion = apply[p].promotion
        /\ \A q \in Plan \ {p} : apply'[q] = apply[q]
    BY <1>8, <1>n, <1>p, <2>1, FinishSaves DEF EndReconcile
  <2>3. /\ proc'[i].at = "raw_promote" /\ proc'[i].plan = p
        /\ \A j \in Proc \ {i} : proc'[j] = proc[j]
    BY <1>8, <1>p, GotoSaves DEF EndReconcile
  <2> QED BY <1>8, <2>1, <2>2, <2>3, OpeningStep DEF EndReconcile
<1> QED BY <1>1, <1>2, <1>3, <1>4, <1>5, <1>6, <1>7, <1>8, <1>9 DEF Fetch

(* Giving up, or being killed, anywhere. *)
LEMMA StopAccounted ==
    ASSUME Orderly, IInv, Overtaking, Accounted, NEW i \in Proc, NEW p \in Plan, proc[i].plan = p
    PROVE  PromoteRefused(i) \/ Fail(i) \/ Kill(i) => Accounted'
<1> USE DEF disk, counters, At
<1>p. Types /\ proc \in [Proc -> ProcRecord]
  BY DEF IInv, Types, TypeOK
<1>1. ASSUME proc[i].at \in OpeningPoints \cup {"raw_promote"}, Abort(i), UNCHANGED <<disk, plan, stage>>
      PROVE  Accounted'
  <2>1. Working(i) /\ Busy(i)
    BY <1>1 DEF Working, Busy, OpeningPoints, Opening
  <2>2. proc'[i] = Idle /\ OthersStill(i) /\ apply'[p].next = apply[p].next
    BY <1>1, <1>p, <2>1, AbortSaves
  <2>3. Handled(i, p) /\ Recorded(p)
    BY <2>1 DEF Accounted
  <2>4. /\ apply[p].next \in BeforePromote
        /\ apply[p].promotion # "none" => apply[p].next \notin Opening
    BY <1>1, <2>1, <2>3
       DEF Handled, Promoting, Recorded, Overtaking, Ledgers, Ledger, Opening, BeforePromote
  <2>5. \A q \in Plan : apply'[q].next = apply[q].next /\ apply'[q].promotion = apply[q].promotion
    BY <2>2 DEF OthersStill
  <2>6. SameSources /\ \A q \in Plan : Untouched(q)
    BY <1>1, <2>5 DEF SameSources, Untouched
  <2>7. \A j \in Proc : proc[j].at \in PitInside \/ Writing(j) => proc'[j] = proc[j]
    BY <1>1, <2>2 DEF OthersStill, PitInside, Writing, OpeningPoints, Opening
  <2>8. \A j \in Proc : Working(j)' => proc'[j] = proc[j]
    BY <2>2 DEF OthersStill, Working, Idle
  <2>9. \A q \in Plan : \/ apply'[q].next = apply[q].next /\ apply'[q].ctx = apply[q].ctx
                        \/ /\ apply'[q].next \in BeforePromote
                           /\ apply[q].promotion # "none" => apply'[q].next \notin Opening
    BY <2>2, <2>4 DEF OthersStill
  <2> QED BY <1>1, <2>5, <2>6, <2>7, <2>8, <2>9, SideStep
<1>2. ASSUME PromoteRefused(i) PROVE Accounted'
  BY <1>1, <1>2 DEF PromoteRefused
<1>3. ASSUME Fail(i) PROVE Accounted'
  <2>1. Abort(i) /\ UNCHANGED <<disk, plan, stage>>
        /\ proc[i].at \in OpeningPoints \cup (Later \ PitInside)
    BY <1>3 DEF Fail, MayFail, OpeningPoints, Opening, Later, Publishing, PitInside
  <2> QED BY <1>1, <2>1, GivingUpAccounted
<1>4. ASSUME Kill(i) PROVE Accounted'
  <2>1. proc' = [proc EXCEPT ![i] = Idle] /\ UNCHANGED <<disk, plan, stage, apply>> /\ proc[i].at \in KillAt
    BY <1>4 DEF Kill
  <2>2. proc'[i] = Idle /\ \A j \in Proc \ {i} : proc'[j] = proc[j]
    BY <1>p, <2>1
  <2>3. SameSources /\ \A q \in Plan : Untouched(q)
    BY <2>1 DEF SameSources, Untouched
  <2>4. \A j \in Proc : proc[j].at \in PitInside => proc'[j] = proc[j]
    BY <2>1, <2>2 DEF Orderly
  <2>5. Resumption = "abandon" => \A j \in Proc : Writing(j) => proc'[j] = proc[j]
    BY <2>1, <2>2 DEF Orderly, Writing
  <2>6. \A j \in Proc : Working(j)' => proc'[j] = proc[j]
    BY <2>2 DEF Working, Idle
  <2> QED BY <2>1, <2>3, <2>4, <2>5, <2>6, SideStep
<1> QED BY <1>2, <1>3, <1>4
(***************************************************************************)
(* The promotion itself.  Every day it changes is among the days that it   *)
(* found to change before the first write, and those reach the ledger      *)
(* before raw_promote is recorded.                                         *)
(***************************************************************************)
LEMMA BeginAccounted ==
    ASSUME Orderly, IInv, Overtaking, Accounted, NEW i \in Proc, NEW p \in Plan, proc[i].plan = p,
           BeginPromote(i)
    PROVE  Accounted'
<1> USE DEF disk, counters, At
<1>1. /\ proc[i].at = "raw_promote" /\ Working(i) /\ Busy(i) /\ Types
      /\ UNCHANGED <<bronze, curated, pit, pending, active, plan, stage>>
  BY DEF BeginPromote, Working, Busy, IInv
<1>2. /\ Handled(i, p) /\ plan[p].status = "PLANNED" /\ apply[p].next = "raw_promote"
      /\ \A j \in Proc \ {i} : ~Working(j)
  BY <1>1 DEF Accounted, Handled, Promoting, Overtaking, StillPlanned, IInv, OneWorker
<1>3. /\ proc'[i].at = "write_data" /\ proc'[i].plan = p
      /\ proc'[i].found = Summary(p) /\ proc'[i].todo = Differing(p)
      /\ \A j \in Proc \ {i} : proc'[j] = proc[j]
  BY <1>1 DEF BeginPromote, Types, TypeOK, ProcRecord
<1>4. \A q \in Plan : /\ apply'[q].next = apply[q].next /\ apply'[q].ctx = apply[q].ctx
                      /\ apply'[q].promotion = IF q = p THEN "begun"
                                               ELSE IF HalfDone(q) THEN "overtaken"
                                               ELSE apply[q].promotion
  BY <1>1 DEF BeginPromote, Types, TypeOK, ApplyRecord
<1>5. HalfDone(p)' /\ \A q \in Plan \ {p} : ~HalfDone(q)'
  BY <1>1, <1>2, <1>4 DEF HalfDone
<1>6. OneHalfDone'
  BY <1>5 DEF OneHalfDone
<1>7. \A q \in Plan : Named(q)' = Named(q)
  BY <1>1 DEF Named, Changes, Targets, Promised, Staged
<1>8. \A d \in Date : Owed(d) => Owed(d)'
  <2> SUFFICES ASSUME NEW d \in Date, Owed(d), d \notin pending.dates PROVE Owed(d)'
    BY <1>1 DEF Owed
  <2>1. PICK q \in Plan : /\ HalfDone(q) /\ apply[q].next = "raw_promote" /\ d \in Named(q)
                          /\ Resumption = "abandon" => \E j \in Proc : Writing(j) /\ proc[j].plan = q
    BY DEF Owed
  <2>2. \A j \in Proc : ~Writing(j)
    BY <1>1, <1>2 DEF Writing, Working
  <2>3. Resumption = "finish"
    BY <2>1, <2>2, ResumptionAssumption DEF Orderly
  <2>4. q = p
    BY <1>2, <2>1, <2>3 DEF Handled
  <2>5. Writing(i)'
    BY <1>3 DEF Writing
  <2> QED BY <1>2, <1>3, <1>4, <1>5, <1>7, <2>1, <2>4, <2>5 DEF Owed
<1>9. PitOwed => PitOwed'
  BY <1>1, <1>3 DEF PitOwed
<1>10. Books'
  BY <1>1, <1>8, <1>9, BooksStay DEF Accounted, SameSources
<1>11. ASSUME NEW q \in Plan PROVE Recorded(q)'
  <2>1. Recorded(q)
    BY DEF Accounted
  <2>2. CASE q = p
    BY <1>1, <1>2, <1>4, <2>2 DEF Recorded, Opening, BeforePromote
  <2>3. CASE q # p /\ HalfDone(q)
    <3>1. Resumption # "finish"
      BY <1>2, <2>3 DEF Handled
    <3> QED BY <1>1, <1>4, <1>5, <2>1, <2>3, <3>1 DEF Recorded, HalfDone
  <2>4. CASE q # p /\ ~HalfDone(q)
    BY <1>1, <1>4, <1>5, <2>1, <2>4 DEF Recorded
  <2> QED BY <2>2, <2>3, <2>4
<1>12. Handled(i, p)'
  <2>1. Differing(p) \subseteq Targets(p) /\ Named(p) \subseteq Summary(p).dates
    BY DEF Differing, Summary, Named
  <2>2. Targets(p)' = Targets(p)
    BY <1>1 DEF Targets, Promised, Staged
  <2>3. proc'[i].todo \subseteq Targets(p)' /\ Named(p)' \subseteq proc'[i].found.dates
    BY <1>3, <1>7, <2>1, <2>2
  <2>4. proc'[i].at \notin Later
    BY <1>3 DEF Later, Publishing, Closing
  <2> QED BY <1>2, <1>3, <1>4, <1>5, <2>3, <2>4 DEF Handled
<1>13. \A j \in Proc, q \in Plan : Working(j)' /\ proc'[j].plan = q => Handled(j, q)'
  BY <1>2, <1>3, <1>12 DEF Working
<1> QED BY <1>6, <1>10, <1>11, <1>13 DEF Accounted

(* A step of the promotion after which the worker still has it in hand. *)
LEMMA PromotionStep ==
    ASSUME IInv, Overtaking, Accounted, NEW i \in Proc, NEW p \in Plan, proc[i].plan = p,
           proc[i].at \in Promoting \ {"raw_promote"}, OthersStill(i), UNCHANGED <<plan, stage>>,
           Books', apply'[p].next = apply[p].next,
           proc'[i].plan = p, proc'[i].at \in Promoting \ {"raw_promote"},
           Writing(i)' => proc'[i].todo \subseteq proc[i].todo /\ proc'[i].found = proc[i].found /\ Writing(i),
           ~Writing(i)' => Named(p) \subseteq pending'.dates /\ Covers(proc[i].ctx)'
    PROVE  Accounted'
<1>1. Holding(i)
  BY DEF Holding
<1>2. HalfDone(p) /\ Handled(i, p) /\ plan[p].status = "PLANNED"
  BY <1>1, Holder
<1>3. apply'[p].promotion = "begun" /\ apply'[p].next = "raw_promote"
  BY <1>2 DEF HalfDone, OthersStill, Handled
<1>4. Recorded(p)'
  BY <1>2, <1>3 DEF Recorded, Opening, BeforePromote
<1>5. Targets(p)' = Targets(p) /\ Named(p)' = Named(p)
  BY DEF Named, Changes, Targets, Promised, Staged
<1>6. proc'[i].at \notin Later /\ proc'[i].at \notin {"switch_alias", "clear_pending"}
      /\ (proc'[i].at \in {"write_index", "end_promote"} => ~Writing(i)')
  BY DEF Promoting, Later, Publishing, Closing, Writing
<1>7. (\A q \in Plan \ {p} : ~HalfDone(q)') => Handled(i, p)'
  <2>1. Writing(i)' => proc'[i].todo \subseteq Targets(p)' /\ Named(p)' \subseteq proc'[i].found.dates
    BY <1>2, <1>5 DEF Handled
  <2> QED BY <1>3, <1>5, <1>6, <2>1 DEF Handled
<1>8. \A q \in Plan : plan'[q].status \in {plan[q].status, "APPLIED"}
  OBVIOUS
<1> QED BY <1>1, <1>4, <1>7, <1>8, HeldKeeps

(* What is owed while it writes stays owed as long as it goes on writing. *)
LEMMA WritingOwes ==
    ASSUME IInv, Overtaking, Accounted, NEW i \in Proc, NEW p \in Plan, proc[i].plan = p,
           Writing(i), Writing(i)', proc'[i].plan = p, UNCHANGED <<apply, plan, stage, pending>>
    PROVE  \A d \in Date : Owed(d) \/ d \in Named(p) => Owed(d)'
<1>1. Holding(i)
  BY DEF Holding, Writing, Promoting
<1>2. HalfDone(p) /\ apply[p].next = "raw_promote"
  BY <1>1, Holder DEF Handled, Writing, Promoting
<1>3. HalfDone(p)' /\ Named(p)' = Named(p)
  BY <1>2 DEF HalfDone, Named, Changes, Targets, Promised, Staged
<1>4. \A d \in Date : Owed(d) => d \in pending.dates \/ d \in Named(p)
  BY <1>1, HolderOwes
<1> QED BY <1>2, <1>3, <1>4 DEF Owed

LEMMA WritesAccounted ==
    ASSUME IInv, Overtaking, Accounted, NEW i \in Proc, NEW p \in Plan, proc[i].plan = p
    PROVE  /\ \A t \in Part : SkipWrite(i, t) \/ WriteData(i, t) \/ WriteManifest(i, t) => Accounted'
           /\ WritePending(i) => Accounted'
           /\ WriteIndex(i) => Accounted'
           /\ EndPromote(i) => Accounted'
<1> USE DEF disk, counters, At
<1>p. Types /\ proc \in [Proc -> ProcRecord]
  BY DEF IInv, Types, TypeOK
<1>o. ASSUME proc[i].at \in Promoting \ {"raw_promote"}
      PROVE  /\ Holding(i) /\ Busy(i) /\ Handled(i, p) /\ HalfDone(p)
             /\ PitOwed => pending.pit
             /\ \A d \in Date : Owed(d) => d \in pending.dates \/ (Writing(i) /\ d \in Named(p))
             /\ Writing(i) <=> proc[i].at \in {"write_data", "write_manifest"}
  <2>1. Holding(i) /\ proc[i].at \notin {"pit_state", "pit_pending"}
    BY <1>o DEF Holding, Promoting
  <2> QED BY <2>1, Holder, HolderOwes, PitOwedByLedger DEF Writing
<1>1. ASSUME NEW t \in Part, SkipWrite(i, t) PROVE Accounted'
  <2>1. proc[i].at = "write_data" /\ proc[i].at \in Promoting \ {"raw_promote"}
        /\ UNCHANGED <<bronze, curated, pit, pending, active, plan, stage, apply>>
    BY <1>1 DEF SkipWrite, Promoting
  <2>2. /\ proc'[i].at = "write_data" /\ proc'[i].plan = p /\ proc'[i].todo \subseteq proc[i].todo
        /\ proc'[i].found = proc[i].found /\ OthersStill(i)
    BY <1>1, <1>p DEF SkipWrite, ProcRecord, OthersStill
  <2>3. Writing(i) /\ Writing(i)'
    BY <2>1, <2>2 DEF Writing
  <2>4. PitOwed => PitOwed'
    BY <1>o, <2>1 DEF PitOwed
  <2>5. Books'
    BY <2>1, <2>2, <2>3, <2>4, WritingOwes, BooksStay DEF Accounted, SameSources
  <2> QED BY <2>1, <2>2, <2>3, <2>5, PromotionStep
<1>2. ASSUME NEW t \in Part, WriteData(i, t) PROVE Accounted'
  <2>1. /\ proc[i].at = "write_data" /\ proc[i].at \in Promoting \ {"raw_promote"}
        /\ "write_manifest" \in Promoting \ {"raw_promote"}
        /\ t \in proc[i].todo /\ PartitionHash(t) # stage[p][t].ver /\ Goto(i, "write_manifest")
        /\ UNCHANGED <<curated, pit, pending, active, plan, stage, apply>>
    BY <1>2 DEF WriteData, Promoting
  <2>2. /\ proc'[i].at = "write_manifest" /\ proc'[i].plan = p /\ proc'[i].todo = proc[i].todo
        /\ proc'[i].found = proc[i].found /\ OthersStill(i)
    BY <1>p, <2>1, GotoSaves DEF OthersStill
  <2>3. Writing(i) /\ Writing(i)'
    BY <2>1, <2>2 DEF Writing
  <2>4. /\ PartitionHash(t) = stage[p][t].base /\ Staged(p, t)
        /\ bronze'[t].data = stage[p][t].ver /\ \A u \in Part \ {t} : bronze'[u] = bronze[u]
    BY <1>2, WriteDataBronze DEF Unmoved
  <2>5. t[2] \in Named(p)
    <3>1. t \in Targets(p)
      BY <1>o, <2>1, <2>3 DEF Handled
    <3>2. t \in Changes(p)
      BY <2>1, <2>4, <3>1 DEF Changes
    <3> QED BY <3>2 DEF Named
  <2>6. \A d \in Date : Owed(d) \/ d = t[2] => Owed(d)'
    BY <2>1, <2>2, <2>3, <2>5, WritingOwes
  <2>7. \A d \in Date : d # t[2] => Source(d)' = Source(d)
    <3>1. \A d \in Date, e \in Endpoint : d # t[2] => <<e, d>> \in Part /\ <<e, d>> # t
      BY DEF Part
    <3>2. \A d \in Date, e \in Endpoint : d # t[2] => bronze'[<<e, d>>] = bronze[<<e, d>>]
      BY <2>4, <3>1
    <3> QED BY <2>1, <3>2 DEF Source
  <2>8. Present \subseteq Present' /\ Present' \subseteq Present \cup {t[2]} /\ Present' \subseteq Date
    <3>1. \A d \in Date : <<Factor, d>> \in Part /\ <<Factor, d>>[2] = d
      BY EndpointAssumption DEF Part, Endpoint
    <3>2. bronze'[t].data # 0
      BY <2>4 DEF Staged
    <3>3. \A d \in Date : bronze[<<Factor, d>>].data # 0 => bronze'[<<Factor, d>>].data # 0
      BY <2>4, <3>1, <3>2
    <3>4. \A d \in Date : d # t[2] => bronze'[<<Factor, d>>] = bronze[<<Factor, d>>]
      BY <2>4, <3>1
    <3> QED BY <3>3, <3>4 DEF Present
  <2>9. PitOwed => PitOwed'
    BY <1>o, <2>1 DEF PitOwed
  <2>10. Books'
    <3>1. RawOwed'
      BY <2>1, <2>6, <2>7, <2>8 DEF Accounted, Books, RawOwed
    <3>2. PitsOwed'
      BY <2>1, <2>9 DEF Accounted, Books, PitsOwed
    <3>3. Sessions'
      BY <2>1, <2>8 DEF Accounted, Books, Sessions
    <3> QED BY <3>1, <3>2, <3>3 DEF Books
  <2> QED BY <2>1, <2>2, <2>3, <2>10, PromotionStep
<1>3. ASSUME NEW t \in Part, WriteManifest(i, t) PROVE Accounted'
  <2>1. proc[i].at = "write_manifest" /\ proc[i].at \in Promoting \ {"raw_promote"}
        /\ "write_data" \in Promoting \ {"raw_promote"}
        /\ UNCHANGED <<curated, pit, pending, active, plan, stage, apply>>
    BY <1>3 DEF WriteManifest, Promoting
  <2>2. /\ proc'[i].at = "write_data" /\ proc'[i].plan = p /\ proc'[i].todo \subseteq proc[i].todo
        /\ proc'[i].found = proc[i].found /\ OthersStill(i)
    BY <1>3, <1>p DEF WriteManifest, ProcRecord, OthersStill
  <2>3. Writing(i) /\ Writing(i)'
    BY <2>1, <2>2 DEF Writing
  <2>4. PitOwed => PitOwed'
    BY <1>o, <2>1 DEF PitOwed
  <2>5. SameSources
    BY <1>3, <2>1, WriteManifestBronze DEF SameSources
  <2>6. Books'
    BY <2>1, <2>2, <2>3, <2>4, <2>5, WritingOwes, BooksStay DEF Accounted
  <2> QED BY <2>1, <2>2, <2>3, <2>6, PromotionStep
<1>4. ASSUME WritePending(i) PROVE Accounted'
  <2> DEFINE merged == [dates |-> proc[i].found.dates \cup pending.dates,
                        revised |-> proc[i].found.revised \/ pending.revised,
                        pit |-> pending.pit]
  <2>1. /\ proc[i].at = "write_data" /\ proc[i].at \in Promoting \ {"raw_promote"}
        /\ "write_index" \in Promoting \ {"raw_promote"} /\ pending' = merged
        /\ UNCHANGED <<bronze, curated, pit, active, plan, stage, apply>>
    BY <1>4 DEF WritePending, Promoting
  <2>2. proc'[i].at = "write_index" /\ proc'[i].plan = p /\ proc'[i].ctx = merged /\ OthersStill(i)
    BY <1>4, <1>p DEF WritePending, ProcRecord, OthersStill
  <2>3. merged.dates = proc[i].found.dates \cup pending.dates /\ merged.pit = pending.pit
    OBVIOUS
  <2> HIDE DEF merged
  <2>4. Named(p) \subseteq proc[i].found.dates
    BY <1>o, <2>1 DEF Handled
  <2>5. \A d \in Date : Owed(d) => Owed(d)'
    BY <1>o, <2>1, <2>3, <2>4 DEF Owed
  <2>6. PitOwed => PitOwed'
    BY <1>o, <2>1, <2>3 DEF PitOwed
  <2>7. Books'
    BY <2>1, <2>5, <2>6, BooksStay DEF Accounted, SameSources
  <2>8. ~Writing(i)' /\ Named(p) \subseteq pending'.dates /\ Covers(proc[i].ctx)'
    BY <2>1, <2>2, <2>3, <2>4 DEF Writing, Covers
  <2> QED BY <2>1, <2>2, <2>7, <2>8, PromotionStep
<1>5. ASSUME WriteIndex(i) PROVE Accounted'
  <2>1. /\ proc[i].at = "write_index" /\ proc[i].at \in Promoting \ {"raw_promote"}
        /\ "end_promote" \in Promoting \ {"raw_promote"} /\ Goto(i, "end_promote")
        /\ UNCHANGED <<bronze, curated, pit, pending, active, plan, stage, apply>>
    BY <1>5 DEF WriteIndex, Promoting
  <2>2. /\ proc'[i].at = "end_promote" /\ proc'[i].plan = p /\ proc'[i].ctx = proc[i].ctx
        /\ OthersStill(i)
    BY <1>p, <2>1, GotoSaves DEF OthersStill
  <2>3. Named(p) \subseteq pending.dates /\ Covers(proc[i].ctx)
    BY <1>o, <2>1 DEF Handled
  <2>4. \A d \in Date : Owed(d) => Owed(d)'
    BY <1>o, <2>1, <2>3 DEF Owed
  <2>5. PitOwed => PitOwed'
    BY <1>o, <2>1 DEF PitOwed
  <2>6. Books'
    BY <2>1, <2>4, <2>5, BooksStay DEF Accounted, SameSources
  <2>7. ~Writing(i)' /\ Named(p) \subseteq pending'.dates /\ Covers(proc[i].ctx)'
    BY <2>1, <2>2, <2>3 DEF Writing, Covers
  <2> QED BY <2>1, <2>2, <2>6, <2>7, PromotionStep
<1>6. ASSUME EndPromote(i) PROVE Accounted'
  <2>1. /\ proc[i].at = "end_promote" /\ proc[i].at \in Promoting \ {"raw_promote"}
        /\ "raw_validate" \in Later /\ Goto(i, "raw_validate") /\ Finish(i, "raw_validate", proc[i].ctx)
        /\ UNCHANGED <<bronze, curated, pit, pending, active, plan, stage>>
    BY <1>6 DEF EndPromote, Promoting, Later
  <2>2. /\ proc'[i].at = "raw_validate" /\ proc'[i].plan = p /\ proc'[i].ctx = proc[i].ctx
        /\ apply'[p].next = "raw_validate" /\ apply'[p].ctx = proc[i].ctx /\ OthersStill(i)
    BY <1>o, <1>p, <2>1, GotoSaves, FinishSaves DEF OthersStill
  <2>3. Named(p) \subseteq pending.dates /\ Covers(proc[i].ctx) /\ apply[p].promotion = "begun"
    BY <1>o, <2>1 DEF Handled, HalfDone
  <2>4. \A d \in Date : Owed(d) => Owed(d)'
    BY <1>o, <2>1, <2>3 DEF Owed
  <2>5. PitOwed => PitOwed'
    BY <1>o, <2>1 DEF PitOwed
  <2>6. Books'
    BY <2>1, <2>4, <2>5, BooksStay DEF Accounted, SameSources
  <2>7. Covers(apply[p].ctx)' /\ Covers(proc[i].ctx)' /\ apply'[p].promotion = "begun"
    BY <2>1, <2>2, <2>3 DEF Covers, OthersStill
  <2>8. plan[p].status = "PLANNED"
    BY <1>o, <2>1, Holder
  <2>9. Recorded(p)'
    BY <2>1, <2>2, <2>7, <2>8 DEF Recorded, Opening, BeforePromote
  <2>10. (\A q \in Plan \ {p} : ~HalfDone(q)') => Handled(i, p)'
    BY <2>2, <2>7 DEF Handled, Promoting, Writing, BeforePromote
  <2>11. \A q \in Plan : plan'[q].status \in {plan[q].status, "APPLIED"}
    BY <2>1
  <2> QED BY <1>o, <2>1, <2>2, <2>6, <2>9, <2>10, <2>11, HeldKeeps
<1> QED BY <1>1, <1>2, <1>3, <1>4, <1>5, <1>6
LEMMA InitAccounted == Init => Accounted
<1> SUFFICES ASSUME Init PROVE Accounted
  OBVIOUS
<1>1. \A i \in Proc : proc[i].at = "idle"
  BY DEF Init, Idle
<1>2. \A p \in Plan : apply[p].promotion = "none" /\ apply[p].next = "market_fetch"
  BY DEF Init
<1>3. 1 \in Date /\ Factor \in Endpoint /\ Factor \in Required
  BY DateAssumption, EndpointAssumption DEF Date, Endpoint
<1>4. \A d \in Date, e \in Endpoint : <<e, d>> \in Part /\ <<e, d>>[1] = e /\ <<e, d>>[2] = d
  BY DEF Part
<1>5. \A t \in Part : bronze[t].data = IF t[2] = 1 THEN remote[t] ELSE 0
  BY DEF Init
<1>6. \A d \in Date, e \in Endpoint : bronze[<<e, d>>].data = IF d = 1 THEN remote[<<e, d>>] ELSE 0
  BY <1>4, <1>5
<1>7. remote[<<Factor, 1>>] = 1
  BY <1>3, <1>4 DEF Init
<1>8. Present = {1}
  BY <1>3, <1>6, <1>7 DEF Present
<1>9. /\ curated[1].raw = [e \in Endpoint |-> remote[<<e, 1>>]] /\ curated[1].pit = 0
      /\ \A d \in Date \ {1} : curated[d] = NoImage
  BY <1>3 DEF Init, NoImage
<1>10. active.content = curated /\ active.end = 1 /\ pit.built = 0
  BY DEF Init
<1>11. Source(1).raw = curated[1].raw
  <2>1. [e \in Endpoint |-> bronze[<<e, 1>>].data] = [e \in Endpoint |-> remote[<<e, 1>>]]
    BY <1>3, <1>6
  <2> QED BY <1>9, <2>1 DEF Source
<1>12. RawOwed
  BY <1>8, <1>10, <1>11 DEF RawOwed
<1>13. PitsOwed
  BY <1>9, <1>10 DEF PitsOwed
<1>14. Sessions
  <2>1. \A d \in Date : d > 1 => d # 1
    BY DateAssumption DEF Date
  <2> QED BY <1>8, <1>9, <1>10, <2>1 DEF Sessions
<1>15. OneHalfDone /\ \A p \in Plan : Recorded(p)
  BY <1>2 DEF OneHalfDone, HalfDone, Recorded, BeforePromote
<1>16. \A i \in Proc : ~Working(i)
  BY <1>1 DEF Working
<1> QED BY <1>12, <1>13, <1>14, <1>15, <1>16 DEF Accounted, Books

LEMMA NextAccounted ==
    ASSUME Orderly, IInv, Overtaking, Accounted, [Next]_vars
    PROVE  Accounted'
<1>1. ASSUME NEW i \in Proc, Busy(i) PROVE proc[i].plan \in Plan
  BY <1>1, BusyReads DEF IInv
<1>2. ASSUME NEW i \in Proc, Lock(i) PROVE Accounted'
  BY <1>2, LockAccounted
<1>3. ASSUME NEW i \in Proc, Fetch(i) \/ Promote(i) \/ Publish(i) \/ Fail(i) \/ Kill(i) PROVE Accounted'
  <2>1. Busy(i)
    <3>1. Fetch(i) => Busy(i)
      <4>1. \A t \in Part : FetchPartition(i, t) \/ FetchUnavailable(i, t) \/ StageRepair(i, t) => Busy(i)
        BY DEF FetchPartition, FetchUnavailable, NextToFetch, StageRepair, At, Busy
      <4>2. FetchRejected(i) \/ FetchDone(i) => Busy(i)
        BY DEF FetchRejected, FetchDone, At, Busy
      <4>3. ReconcileFactors(i) \/ RepairsStaged(i) \/ SaveRepairs(i) \/ EndReconcile(i) => Busy(i)
        BY DEF ReconcileFactors, RepairsStaged, SaveRepairs, EndReconcile, At, Busy
      <4> QED BY <4>1, <4>2, <4>3, Zenon DEF Fetch
    <3>2. Promote(i) => Busy(i)
      <4>1. \A t \in Part : SkipWrite(i, t) \/ WriteData(i, t) \/ WriteManifest(i, t) => Busy(i)
        BY DEF SkipWrite, WriteData, WriteManifest, At, Busy
      <4>2. PromoteRefused(i) \/ BeginPromote(i) \/ WritePending(i) \/ WriteIndex(i) => Busy(i)
        BY DEF PromoteRefused, BeginPromote, WritePending, WriteIndex, At, Busy
      <4>3. EndPromote(i) \/ ValidateRaw(i) \/ ValidationFailed(i) => Busy(i)
        BY DEF EndPromote, ValidateRaw, ValidationFailed, At, Busy
      <4> QED BY <4>1, <4>2, <4>3, Zenon DEF Promote
    <3>3. Publish(i) => Busy(i)
      <4>1. \/ PitCurrent(i) \/ PitRebuild(i) \/ PitRecord(i) \/ PitPending(i) \/ PitFinish(i)
            => Busy(i)
        BY DEF PitCurrent, PitRebuild, PitRecord, PitPending, PitFinish, At, Busy
      <4>2. \/ BehindRefused(i) \/ EnterPublish(i) \/ ExtendedSync(i) \/ FreshnessGate(i)
            => Busy(i)
        BY DEF BehindRefused, EnterPublish, ExtendedSync, FreshnessGate, At, Busy
      <4>3. \/ BuildCurated(i) \/ SwitchAlias(i) \/ ClearPending(i) \/ FinishPublish(i)
            \/ Applied(i) \/ ClosePlan(i)
            => Busy(i)
        BY DEF BuildCurated, SwitchAlias, ClearPending, FinishPublish, Applied, ClosePlan, At, Busy
      <4> QED BY <4>1, <4>2, <4>3, Zenon DEF Publish
    <3>4. Fail(i) \/ Kill(i) => Busy(i)
      BY KillAssumption DEF Fail, MayFail, Kill, Busy
    <3> QED BY <1>3, <3>1, <3>2, <3>3, <3>4, Zenon
  <2>2. PICK p \in Plan : proc[i].plan = p
    BY <1>1, <2>1
  <2>3. CASE Fetch(i)
    BY <2>2, <2>3, FetchAccounted
  <2>4. CASE Promote(i)
    <3>1. PromoteRefused(i) => Accounted'
      BY <2>2, StopAccounted
    <3>2. BeginPromote(i) => Accounted'
      BY <2>2, BeginAccounted
    <3>3. WritePending(i) \/ WriteIndex(i) \/ EndPromote(i)
          \/ (\E t \in Part : SkipWrite(i, t) \/ WriteData(i, t) \/ WriteManifest(i, t)) => Accounted'
      BY <2>2, WritesAccounted
    <3>4. ValidateRaw(i) \/ ValidationFailed(i) => Accounted'
      BY <2>2, LaterStepsAccounted
    <3> QED BY <2>4, <3>1, <3>2, <3>3, <3>4 DEF Promote
  <2>5. CASE Publish(i)
    <3>1. BehindRefused(i) \/ EnterPublish(i) \/ ExtendedSync(i) \/ FreshnessGate(i)
          \/ FinishPublish(i) \/ Applied(i) \/ ClosePlan(i) => Accounted'
      BY <2>2, LaterStepsAccounted
    <3>2. PitCurrent(i) \/ PitRecord(i) \/ PitFinish(i) => Accounted'
      BY <2>2, PitStepsAccounted
    <3>3. PitRebuild(i) \/ PitPending(i) => Accounted'
      BY <2>2, PitChangesAccounted
    <3>4. BuildCurated(i) => Accounted'
      BY <2>2, BuildAccounted
    <3>5. SwitchAlias(i) \/ ClearPending(i) => Accounted'
      BY <2>2, SwitchAccounted
    <3> QED BY <2>5, <3>1, <3>2, <3>3, <3>4, <3>5 DEF Publish
  <2>6. CASE Fail(i) \/ Kill(i)
    BY <2>2, <2>6, StopAccounted
  <2> QED BY <1>3, <2>3, <2>4, <2>5, <2>6
<1>4. ASSUME NEW i \in Proc, Work(i) \/ Fail(i) \/ Kill(i) PROVE Accounted'
  BY <1>2, <1>3, <1>4, AroundAccounted DEF Work
<1> QED BY <1>4, AroundAccounted DEF Next

LEMMA AccountedHolds ==
    ASSUME Orderly
    PROVE  Spec => []Accounted
<1>1. IInv /\ Overtaking /\ Accounted /\ [Next]_vars => Accounted'
  BY NextAccounted
<1> QED BY <1>1, InitAccounted, IInvHolds, OvertakingHolds, PTL DEF Spec

(***************************************************************************)
(* A published session that is not what Bronze and the fundamentals hold   *)
(* is always remembered: by pending_publish.json, by a plan that is still  *)
(* to be finished or by the process that is writing it.  For any number    *)
(* of plans and processes, failures anywhere and kills anywhere outside    *)
(* pit_refresh, if the operator finishes a half promoted plan before the   *)
(* next; if it is abandoned instead, no kill between two files either.     *)
(***************************************************************************)
THEOREM NothingIsForgotten ==
    ASSUME Orderly
    PROVE  Spec => []NothingForgotten
<1>1. ASSUME Types, Accounted PROVE NothingForgotten
  <2> SUFFICES ASSUME NEW d \in Present, d \in 1 .. active.end
               PROVE  (RawStale(d) => RawRemembered(d)) /\ (PitStale(d) => PitRemembered)
    BY DEF NothingForgotten
  <2>1. d \in Date
    BY DEF Present
  <2>2. RawStale(d) => Owed(d)
    BY <1>1 DEF Accounted, Books, RawOwed, RawStale
  <2>3. PitStale(d) => PitOwed
    BY <1>1, <2>1 DEF Accounted, Books, PitsOwed, PitStale
  <2>4. Owed(d) => RawRemembered(d)
    BY DEF Owed, RawRemembered, Named, BeforePromote
  <2>5. PitOwed => PitRemembered
    BY DEF PitOwed, PitRemembered, At
  <2> QED BY <2>2, <2>3, <2>4, <2>5
<1>2. IInv /\ Accounted => NothingForgotten
  BY <1>1 DEF IInv
<1> QED BY <1>2, IInvHolds, AccountedHolds, PTL

(***************************************************************************)
(* Whenever the alias is switched, the new dataset holds every session of  *)
(* Bronze as Bronze and the fundamentals are at that moment: a curated day *)
(* that was kept was not out of date.                                      *)
(***************************************************************************)
THEOREM PublishedIsComplete ==
    ASSUME Orderly
    PROVE  Spec => PublishIsComplete
<1> DEFINE Complete ==
      active' # active => \A d \in Present \cap 1 .. active'.end : active'.content[d] = Source(d)
<1>1. IInv /\ Overtaking /\ Accounted /\ [Next]_vars => [Complete]_vars
  <2> SUFFICES ASSUME IInv, Overtaking, Accounted, [Next]_vars, active' # active PROVE Complete
    OBVIOUS
  <2>1. PICK i \in Proc : SwitchAlias(i)
    BY AliasWriter
  <2> QED BY <2>1, SwitchedIsFresh
<1>2. PublishIsComplete <=> [][Complete]_vars
  BY DEF PublishIsComplete
<1> HIDE DEF Complete
<1> QED BY <1>1, <1>2, IInvHolds, OvertakingHolds, AccountedHolds, PTL DEF Spec

=================================================================================
