----------------------------- MODULE LogicProps -----------------------------
(***************************************************************************)
(* What the control loop of LitterLogic promises between two iterations,   *)
(* when the state the other threads, the display and the shell read is at  *)
(* rest.                                                                   *)
(***************************************************************************)
EXTENDS LitterLogic

TypeOK ==
  /\ ctx \in FsmCtx
  /\ now \in Tick
  /\ stable_position \in HallPosition
  /\ last_reported_phase \in CleanPhase
  /\ last_reported_position \in HallPosition
  /\ prev_occupied \in BOOLEAN /\ prev_bin_full \in BOOLEAN
  /\ remote_clean_request \in BOOLEAN /\ reset_request \in BOOLEAN
  /\ box_used \in 0 .. UseMod - 1

\* The motor turns only in a cleaning run and only if the iteration just ended
\* saw an empty box and a bin with room: whatever order an arrival, a request
\* and a sensor edge come in, the drum is at rest before the next sleep.
MotorSafe ==
  ctx.motor # "STOP" =>
    /\ ctx.state = "CLEANING"
    /\ ctx.motor = PhaseMotor[ctx.clean_phase]
    /\ ~prev_occupied /\ ~prev_bin_full

\* The loop acts on edges of its inputs and FAULT skips the occupancy edges, so
\* a missed edge would leave the machine waiting for one that never comes.  It
\* never is: outside FAULT the state always agrees with the last sample.
StateMatchesSample ==
  /\ ctx.occupied = prev_occupied /\ ctx.bin_full = prev_bin_full
  /\ ctx.state \in {"OCCUPIED", "SAFE_STOP"} => prev_occupied
  /\ ctx.state \in {"IDLE", "LEAVE_CONFIRM", "CLEAN_DELAY", "CLEANING"} => ~prev_occupied
  /\ prev_bin_full => ctx.state \in {"SAFE_STOP", "FAULT"}
  /\ ctx.state = "FAULT" /\ ctx.fault_code = "BIN_FULL" => prev_bin_full
  /\ ctx.state = "SAFE_STOP" => ctx.protect_active
  /\ ctx.protect_active => prev_occupied /\ ctx.state \in {"SAFE_STOP", "FAULT"}

\* A run and each of its phases are inside their time budgets at every sleep:
\* an overdue one has been turned into FAULT by the same iteration.
RunBudget ==
  ctx.state = "CLEANING" =>
    /\ TickSub(now, ctx.clean_started_tick) < CleanTotal
    /\ TickSub(now, ctx.phase_started_tick) < PhaseTimeout[ctx.clean_phase]

\* No arrival is lost: when an iteration leaves a run waiting for a position
\* the drum already stands at, the run began in that very iteration, after its
\* hall stage, and the next one consumes it.  The dedupe of one run never
\* swallows an arrival of another.
ArrivalConsumed ==
  ctx.state = "CLEANING" /\ stable_position = TargetPosition[ctx.clean_phase] =>
    /\ ctx.clean_phase = "TO_POS2"
    /\ ctx.clean_started_tick = now
    /\ last_reported_phase = "NONE"

TimedOut == ctx.state = "FAULT" /\ ctx.fault_code = "CLEAN_TIMEOUT"

\* A cleaning timeout is cleared by a local reset only, and only by an
\* iteration that finds the bin not full; no remote request, no visit and no
\* weight reading gets the machine out of it.
TimeoutNeedsReset ==
  [][TimedOut /\ ~TimedOut' => reset_request /\ ~prev_bin_full']_vars

\* box_used counts the visits to an idle box: it goes up by one exactly when an
\* iteration takes the machine from IDLE to OCCUPIED, so a cat that comes back
\* inside a window, during a run or out of a fault is not counted again.
UseCounted ==
  [][box_used' = IF ctx.state = "IDLE" /\ ctx'.state = "OCCUPIED"
                 THEN (box_used + 1) % UseMod ELSE box_used]_vars

-----------------------------------------------------------------------------
\* Every cleaning run ends, wherever the drum is and whatever the sensors say.
CleaningEnds == ctx.state = "CLEANING" ~> ctx.state # "CLEANING"

\* An armed window closes: with a deadline other than 0, LEAVE_CONFIRM and
\* CLEAN_DELAY are left, also when the tick wraps inside the window.
ArmedWindowCloses ==
  \A w \in {"LEAVE_CONFIRM", "CLEAN_DELAY"} :
    (ctx.state = w /\ ctx.deadline_tick # 0) ~> ctx.state # w

\* Every window closes, armed or not.
WindowCloses ==
  \A w \in {"LEAVE_CONFIRM", "CLEAN_DELAY"} : ctx.state = w ~> ctx.state # w
=============================================================================
