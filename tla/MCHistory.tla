----------------------------- MODULE MCHistory -----------------------------
(***************************************************************************)
(* LitterHistory with two windows of different lengths on a clock of 5     *)
(* ticks, and the liveness of LogicProps.                                  *)
(***************************************************************************)
EXTENDS LogicProps, LitterHistory

MCLoopTicks == {1}
MCHallReading == {"POS1_HOME", "POS2_DUMP", "POS3_SAND_RETURN"}
=============================================================================
