------------------------------ MODULE MCTasks ------------------------------
(***************************************************************************)
(* LitterTasks with times in the firmware's order: the loop period and the *)
(* gap are alike, the display rests for a little longer than the sensor    *)
(* thread does, a drawing takes longer than a reading, and the turn of the *)
(* control loop takes less than a tick.                                    *)
(***************************************************************************)
EXTENDS LitterTasks

MCThreads == {"main", "sensor", "control"}
MCPriority == [main |-> 10, sensor |-> 12, control |-> 14]
MCTurnTime == [main |-> 2, sensor |-> 1, control |-> 0]
=============================================================================
