------------------------------ MODULE MCDelivery ------------------------------
(***************************************************************************)
(* The delivery ledger with two workers that may each obtain a message     *)
(* twice and try it twice per call.                                        *)
(***************************************************************************)
EXTENDS Delivery

CONSTANTS w1, w2, k1

MCWorker == {w1, w2}
MCKey == {k1}
=============================================================================
