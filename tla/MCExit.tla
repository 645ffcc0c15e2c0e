------------------------------- MODULE MCExit -------------------------------
(***************************************************************************)
(* ExitLifecycle and its refinement mapping for TLC.                       *)
(***************************************************************************)
EXTENDS ExitPromise
=============================================================================
