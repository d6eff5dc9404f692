------------------------------ MODULE MCQuickstart ------------------------------
(***************************************************************************)
(* An instance of Quickstart: two users share an output directory and have *)
(* different splits.                                                       *)
(***************************************************************************)
EXTENDS Quickstart, TLC
CONSTANTS c1, i1, i2
Asks(recipe, command, keep) == [cells |-> <<c1>>, recipe |-> recipe, command |-> command, keep |-> keep]
Requests == (i1 :> {Asks(1, "run", FALSE), Asks(1, "plan", FALSE)})
         @@ (i2 :> {Asks(2, "run", TRUE), Asks(2, "dry", TRUE)})
================================================================================
