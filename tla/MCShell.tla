------------------------------ MODULE MCShell ------------------------------
(***************************************************************************)
(* LitterShell on a clock of 3 ticks with windows and phases of one tick.  *)
(***************************************************************************)
EXTENDS LitterShell

MCLoopTicks == {1}
MCHallReading == {"POS1_HOME", "POS2_DUMP", "POS3_SAND_RETURN"}
=============================================================================
