------------------------------ MODULE Publication ------------------------------
(***************************************************************************)
(* What the synchronisation promises to the rest of the platform: the      *)
(* alias of the active dataset is switched by one plan at a time, never    *)
(* twice in a row by the same plan (a retry recognises its own             *)
(* publication), and never by a plan whose session lies behind the         *)
(* sessions already published.  DailySync implements this with promotion,  *)
(* rebuilding and checkpoints that can be killed anywhere; DailyRun uses   *)
(* it in place of the synchronisation.                                     *)
(***************************************************************************)
EXTENDS Naturals

CONSTANTS Plan,         \* plan ids
          NoOne,        \* the owner before the first publication
          LastSession   \* sessions are 1 .. LastSession

VARIABLES owner,    \* the plan that switched the alias last
          end,      \* the last session of the dataset behind the alias
          target    \* the session each plan is made for

Init ==
    /\ owner = NoOne
    /\ end \in 0 .. LastSession
    /\ target \in [Plan -> 1 .. LastSession]

(* A plan is made for a session. *)
Aim(p) ==
    /\ \E s \in 1 .. LastSession : target' = [target EXCEPT ![p] = s]
    /\ UNCHANGED <<owner, end>>

Ahead(p) == end > target[p]

Publish(p) ==
    /\ owner # p /\ ~Ahead(p)
    /\ owner' = p
    /\ end' \in 0 .. LastSession
    /\ UNCHANGED target

Next == \E p \in Plan : Aim(p) \/ Publish(p)

Spec == Init /\ [][Next]_<<owner, end, target>>
================================================================================
