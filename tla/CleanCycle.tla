----------------------------- MODULE CleanCycle -----------------------------
(***************************************************************************)
(* What a cleaning run promises, without the state machine behind it.  The *)
(* drum rests at leg 0; a run takes it through legs 1 (to the dump         *)
(* position), 2 (to the sand-return position) and 3 (home), in that order  *)
(* and never skipping one, and may be broken off at any leg.  The drive is *)
(* a function of the leg.  A run begins only while the inputs are clear:   *)
(* nobody in the box, the bin not full, no protection active.              *)
(***************************************************************************)
EXTENDS Integers

VARIABLES leg, drive, clear

cycleVars == <<leg, drive, clear>>

Leg == 0 .. 3

DriveOf(l) == CASE l = 0 -> "STOP"
                [] l = 2 -> "REVERSE"
                [] OTHER -> "FORWARD"

CycleTypeOK ==
  /\ leg \in Leg
  /\ drive = DriveOf(leg)
  /\ clear \in BOOLEAN

Init == leg = 0 /\ drive = "STOP" /\ clear \in BOOLEAN

GoTo(l) == leg' = l /\ drive' = DriveOf(l)

Start == leg = 0 /\ clear /\ clear' /\ GoTo(1)

\* The next leg, or home again after the last one.
Proceed == leg # 0 /\ UNCHANGED clear /\ GoTo((leg + 1) % 4)

Abort == leg # 0 /\ clear' \in BOOLEAN /\ GoTo(0)

InputsChange == clear' \in BOOLEAN /\ UNCHANGED <<leg, drive>>

Next == Start \/ Proceed \/ Abort \/ InputsChange

Spec == Init /\ [][Next]_cycleVars
=============================================================================
