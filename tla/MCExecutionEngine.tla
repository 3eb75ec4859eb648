-------------------------- MODULE MCExecutionEngine --------------------------
(* TLC instance of ExecutionEngine. *)
EXTENDS ExecutionEngine

=============================================================================
