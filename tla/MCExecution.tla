------------------------------ MODULE MCExecution ------------------------------
(***************************************************************************)
(* An instance of Execution: a request, two threads that make four calls   *)
(* to both backends over one store.  No symmetry: the run checks liveness. *)
(***************************************************************************)
EXTENDS Execution
================================================================================
