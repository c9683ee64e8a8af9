----------------------------- MODULE LitterDrum -----------------------------
(***************************************************************************)
(* The box as a whole: the control loop of LitterLogic with the hall       *)
(* sampler of LitterHall, the two pins of the H-bridge, and a drum that    *)
(* moves as the pins drive it and is felt by the hall sensors where it     *)
(* stands.  The pins are a state of their own, since main sets their mode  *)
(* a second time after the control loop has begun to turn.                 *)
(* Bound: the drum stands at places 0 .. Last of a line and is driven over *)
(* one place in a tick.  The magnet of the sand-return position is felt up *)
(* to SandEnd, that of the home position from HomeFrom to HomeTo, that of  *)
(* the dump position from DumpFrom on.                                     *)
(***************************************************************************)
EXTENDS LitterLogic

CONSTANTS SamplePeriod, Debounce,   \* of g_hall_cfg
          Last, SandEnd, HomeFrom, HomeTo, DumpFrom

VARIABLES last_sample_tick, candidate_position, candidate_started_tick, held,
          pins,        \* levels of IN1 and IN2
          place,       \* of the drum
          heartbeat,   \* main has left start_rt_thread and set the pins up
          stalled,     \* history: it did so under the present run
          still        \* history: ticks the drum has stood at its place, up to Noticing

sampler == <<last_sample_tick, candidate_position, candidate_started_tick, held>>
boxVars == <<vars, sampler, pins, place, heartbeat, stalled, still>>

Hall == INSTANCE LitterHall WITH PollTicks <- LoopTicks

ASSUME PlaceAssumption ==
  /\ Last \in Nat /\ SandEnd \in Nat /\ HomeFrom \in Nat /\ HomeTo \in Nat
  /\ DumpFrom \in Nat
  /\ SandEnd < HomeFrom /\ HomeFrom <= HomeTo /\ HomeTo < DumpFrom /\ DumpFrom <= Last

ASSUME PollAssumption ==
  /\ Hall!HallAssumption /\ Hall!Decoded \subseteq HallReading
  /\ \E d \in LoopTicks : \A e \in LoopTicks : e <= d

\* Where the magnet of each position is felt.
Zone == [POS3_SAND_RETURN |-> 0 .. SandEnd, POS1_HOME |-> HomeFrom .. HomeTo,
         POS2_DUMP |-> DumpFrom .. Last]

LongestTurn == CHOOSE d \in LoopTicks : \A e \in LoopTicks : e <= d

\* From the tick in which a drum reaches a magnet, or comes to rest, to the one
\* in which the control loop knows: a sample up to a period and a turn late, the
\* debounce time, and the sample that ends it.
Noticing == Debounce + 2 * (SamplePeriod + LongestTurn - 2)

\* The longest ways to a magnet.
WayTo == [TO_POS2 |-> DumpFrom, TO_POS3 |-> Last - SandEnd, TO_POS1 |-> HomeFrom]

\* The drum and the times in g_fsm_cfg fit each other: the home position is wide
\* enough to stop in, the budgets are longer than the ways, and a drum that a cat
\* has stopped is at rest for long enough before the next run.
ASSUME DrumAssumption ==
  /\ HomeFrom + Noticing <= HomeTo
  /\ \A p \in CleanPhase \ {"NONE"} : WayTo[p] + Noticing < PhaseTimeout[p]
  /\ WayTo.TO_POS2 + WayTo.TO_POS3 + WayTo.TO_POS1 + 3 * Noticing < CleanTotal
  /\ Noticing <= LeaveConfirm

LOW == 0
HIGH == 1

\* logic_motor_stop, logic_motor_forward_start, logic_motor_reverse_start
Levels == [STOP |-> <<LOW, LOW>>, FORWARD |-> <<LOW, HIGH>>, REVERSE |-> <<HIGH, LOW>>]

\* Where the drum is driven in d ticks; it stops at both ends.
Driven(d) ==
  CASE pins = Levels.FORWARD -> IF place + d > Last THEN Last ELSE place + d
    [] pins = Levels.REVERSE -> IF place < d THEN 0 ELSE place - d
    [] OTHER -> place

Felt(p) == {magnet \in Hall!Magnet : p \in Zone[magnet]}

\* The pins are written when a phase starts and when the motor is stopped.
PinsAfter ==
  IF ctx'.motor = "STOP" \/ ctx'.phase_started_tick = now' THEN Levels[ctx'.motor] ELSE pins

StillAfter(d) ==
  IF place' # place THEN 0 ELSE IF still + d > Noticing THEN Noticing ELSE still + d

InitBox ==
  /\ Init
  /\ last_sample_tick = 0 /\ candidate_started_tick = 0 /\ candidate_position = "UNKNOWN"
  /\ held = 0
  /\ pins = Levels.STOP /\ place \in 0 .. Last
  /\ heartbeat = FALSE /\ stalled = FALSE /\ still = Noticing

\* The drum moves until the next turn of the control loop, which polls the
\* sensors and runs.
TurnOfLoop(occupied, bin_full, d) ==
  /\ place' = Driven(d)
  /\ Hall!HallPoll(TickAdd(now, d), Felt(place'))
  /\ Running(occupied, bin_full, stable_position', TickAdd(now, d))
  /\ pins' = PinsAfter
  /\ stalled' = (stalled /\ ~RunBegins)
  /\ still' = StillAfter(d)
  /\ UNCHANGED heartbeat

\* main goes on when start_rt_thread returns and the scale is loaded: rt_pin_mode
\* makes the pins outputs, which also drives them low.
SetUpPins ==
  /\ ~heartbeat /\ heartbeat' = TRUE
  /\ pins' = Levels.STOP
  /\ stalled' = (ctx.state = "CLEANING")
  /\ UNCHANGED <<vars, sampler, place, still>>

Requests ==
  /\ RequestClean \/ RequestReset
  /\ UNCHANGED <<sampler, pins, place, heartbeat, stalled, still>>

NextBox ==
  \/ \E occupied, bin_full \in BOOLEAN, d \in LoopTicks : TurnOfLoop(occupied, bin_full, d)
  \/ SetUpPins
  \/ Requests

SpecBox == InitBox /\ [][NextBox]_boxVars /\ WF_now(Turn)

-----------------------------------------------------------------------------
\* Given a drum that moves fast enough for its budgets, no run times out: the
\* debounce, the dedupe of arrivals and the wrap of the tick cost no arrival,
\* wherever the run begins and whatever has broken off the one before.
NoFalseTimeout == ctx.state = "FAULT" /\ ctx.fault_code = "CLEAN_TIMEOUT" => stalled

Home == place \in Zone["POS1_HOME"]

\* The phase a turn of the loop finds, or begins the run with.
PhaseBefore == IF RunBegins THEN "TO_POS2" ELSE ctx.clean_phase

\* A run begins on request before the loop can know where the drum has stopped: after
\* a reset of the run before, or after a bin that was full only for a moment.
BeginsTooSoon == RunBegins /\ remote_clean_request /\ still' < Noticing

\* A phase that no cat and no reset ends is over only when the drum stands where the
\* phase was to take it, although the loop knows the drum by a position that is up to
\* a debounce time old and may stem from the run before; so a run that is done has the
\* drum at home.  A run that begins too soon may take an old dump position for its own
\* and skip its first phase, that one phase and no other; a run nobody has asked for
\* never does.
PhaseEndsThere ==
  [][\A p \in CleanPhase \ {"NONE"} :
       PhaseBefore = p /\ ctx'.clean_phase # p /\ ~prev_occupied' /\ ~reset_request
         => \/ ctx'.state = "FAULT"
            \/ place' \in Zone[TargetPosition[p]]
            \/ BeginsTooSoon]_boxVars

\* A run that no cat, no full bin, no reset and no set-up of the pins disturbs takes the
\* drum home.
GetsHome ==
  ctx.state = "CLEANING" ~>
    prev_occupied \/ prev_bin_full \/ reset_request \/ stalled \/ (ctx.state = "IDLE" /\ Home)

\* In a run the pins drive the drum the way its phase says.
PinsFollowPhase == ctx.state = "CLEANING" => pins = Levels[PhaseMotor[ctx.clean_phase]]
=============================================================================
