------------------------------- MODULE MCHall -------------------------------
(***************************************************************************)
(* LitterHall with the firmware's ratio of debounce time to sample period  *)
(* and a control loop that may turn faster or slower than the period.      *)
(***************************************************************************)
EXTENDS LitterHall

MCPollTicks == {1, 2, 3}
=============================================================================
