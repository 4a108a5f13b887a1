-------------------------- MODULE MCLooperExecutor --------------------------
(***************************************************************************)
(* The instance of LooperExecutor for TLC: Looper.cfg gives Funcs three    *)
(* model values.                                                           *)
(***************************************************************************)
EXTENDS LooperExecutor
=============================================================================
