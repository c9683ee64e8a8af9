------------------------------ MODULE MCLogic ------------------------------
(***************************************************************************)
(* LogicProps on a clock of 5 ticks, one tick per iteration, with windows  *)
(* and phases of different lengths.  A run may take as long as its phases  *)
(* together.  TRANSITION stands for every reading that is no target, also  *)
(* for INVALID: ArrivalAt and HallReports treat both alike.                *)
(***************************************************************************)
EXTENDS LogicProps

MCLoopTicks == {1}
MCHallReading == {"TRANSITION", "POS1_HOME", "POS2_DUMP", "POS3_SAND_RETURN"}
=============================================================================
