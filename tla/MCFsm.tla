------------------------------- MODULE MCFsm -------------------------------
(***************************************************************************)
(* FsmMachine on a clock of 5 ticks, so that every stamp and deadline      *)
(* wraps, with phases shorter than the run and a run shorter than the      *)
(* clock.                                                                  *)
(***************************************************************************)
EXTENDS FsmMachine
=============================================================================
