-------------------------------- MODULE Custody --------------------------------
(***************************************************************************)
(* Settlement T+1 of cash equity, seen from a custody account: shares that *)
(* are bought settle at the next opening, only settled shares can be sold, *)
(* and a share event multiplies holdings in between sessions, when all of  *)
(* them are settled.  AShareSimulator implements this.                     *)
(***************************************************************************)
EXTENDS Naturals

CONSTANTS Instrument,
          Ratio         \* pairs <<n, m>>: an opening turns m shares into n

VARIABLES settled,      \* [Instrument -> Nat]
          bought        \* [Instrument -> Nat]: bought in the current session

Init == settled = [i \in Instrument |-> 0] /\ bought = [i \in Instrument |-> 0]

Buy(i) ==
    /\ bought'[i] > bought[i] /\ bought' = [bought EXCEPT ![i] = bought'[i]]
    /\ UNCHANGED settled

Sell(i) ==
    /\ settled'[i] \in 0 .. settled[i] - 1 /\ settled' = [settled EXCEPT ![i] = settled'[i]]
    /\ UNCHANGED bought

Open ==
    /\ \A i \in Instrument :
          \E r \in Ratio : settled'[i] * r[2] = (settled[i] + bought[i]) * r[1]
    /\ bought' = [i \in Instrument |-> 0]

Next == Open \/ \E i \in Instrument : Buy(i) \/ Sell(i)

Spec == Init /\ [][Next]_<<settled, bought>>
================================================================================
