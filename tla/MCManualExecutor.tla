-------------------------- MODULE MCManualExecutor --------------------------
(***************************************************************************)
(* A small instance of ManualExecutor.                                     *)
(***************************************************************************)
EXTENDS ManualExecutor

CONSTANTS x1, x2, x3

=============================================================================
