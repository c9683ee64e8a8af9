----------------------------- MODULE DrumProofs -----------------------------
(***************************************************************************)
(* Theorems about the box as a whole, for every clock, sampler, drum and   *)
(* set of budgets that fit each other: control loop and sampler keep what  *)
(* they promise on their own, no run of the drum times out unless its pins *)
(* were set up under it, and every phase ends where it should, but for the *)
(* first one of a run that begins before the drum's place can be known.    *)
(***************************************************************************)
EXTENDS LitterDrum, LogicProofs

Sampler == INSTANCE HallProofs WITH PollTicks <- LoopTicks

-----------------------------------------------------------------------------
(* The box is made of a control loop and a sampler. *)

\* Both modules speak of the same clock.
LEMMA SameClock ==
  ASSUME NEW t, NEW d
  PROVE  /\ Hall!TickAdd(t, d) = TickAdd(t, d) /\ Sampler!TickAdd(t, d) = TickAdd(t, d)
         /\ Sampler!TickSub(t, d) = TickSub(t, d) /\ Sampler!Tick = Tick
BY DEF Hall!TickAdd, TickAdd, Sampler!TickAdd, Sampler!TickSub, TickSub, Sampler!Tick, Tick

\* A poll as the theorems on the sampler know it.
LEMMA PollSamples ==
  ASSUME NEW t, NEW active, Hall!HallPoll(t, active)
  PROVE  Sampler!HallPoll(t, active)
BY DEF Hall!HallPoll, Sampler!HallPoll, Hall!PollEarly, Sampler!PollEarly, Hall!NewCandidate,
   Sampler!NewCandidate, Hall!SameCandidate, Sampler!SameCandidate, Hall!SampleDue,
   Sampler!SampleDue, Hall!TickSigned, Sampler!TickSigned, Hall!HeldLongEnough,
   Sampler!HeldLongEnough, Hall!HeldAfter, Sampler!HeldAfter, Hall!TickSub, Sampler!TickSub,
   Hall!TickReached, Sampler!TickReached, Hall!DecodePosition, Sampler!DecodePosition,
   Hall!Magnet, Sampler!Magnet

LEMMA SamplerAssumed == Sampler!TickModAssumption /\ Sampler!HallAssumption
BY TickModAssumption, PollAssumption DEF Sampler!TickModAssumption, Sampler!HallAssumption,
   Hall!HallAssumption

\* What the sensors read anywhere.
LEMMA FeltDecodes ==
  ASSUME NEW p
  PROVE  /\ Felt(p) \in SUBSET Hall!Magnet /\ Felt(p) \in SUBSET Sampler!Magnet
         /\ Hall!DecodePosition(Felt(p)) \in Hall!Decoded \ {"UNKNOWN"}
<1>1. Felt(p) \in SUBSET Hall!Magnet /\ Felt(p) \in SUBSET Sampler!Magnet
  BY DEF Felt, Hall!Magnet, Sampler!Magnet
<1>2. Sampler!DecodePosition(Felt(p)) \in Sampler!Decoded
  BY <1>1, SamplerAssumed, Sampler!DecodeType DEF Sampler!DecodeType
<1>3. Hall!DecodePosition(Felt(p)) \in Hall!Decoded
  BY <1>2 DEF Hall!DecodePosition, Sampler!DecodePosition, Hall!Decoded,
     Sampler!Decoded, Hall!Magnet, Sampler!Magnet
<1> QED BY <1>1, <1>3 DEF Hall!Decoded, Hall!Magnet

\* A turn of the box is an iteration of the control loop.
LEMMA TurnIterates ==
  ASSUME NEW occupied \in BOOLEAN, NEW bin_full \in BOOLEAN, NEW d \in LoopTicks,
         TurnOfLoop(occupied, bin_full, d)
  PROVE  /\ Running(occupied, bin_full, stable_position', TickAdd(now, d))
         /\ stable_position' \in HallReading \cup {stable_position}
         /\ Iterate
<1> DEFINE t == TickAdd(now, d)
<1>1. Running(occupied, bin_full, stable_position', t) /\ Hall!HallPoll(t, Felt(place'))
  BY DEF TurnOfLoop
<1>2. Hall!DecodePosition(Felt(place')) \in HallReading
  BY FeltDecodes, PollAssumption
<1>3. stable_position' \in HallReading \cup {stable_position}
  BY <1>1, <1>2 DEF Hall!HallPoll, Hall!PollEarly, Hall!NewCandidate, Hall!SameCandidate
<1> QED BY <1>1, <1>3 DEF Iterate

\* Every step of the box is one of the control loop, or changes nothing of it.
LEMMA BoxStepsLogic ==
  ASSUME [NextBox]_boxVars
  PROVE  [Next]_vars
<1>1. ASSUME NEW occupied \in BOOLEAN, NEW bin_full \in BOOLEAN, NEW d \in LoopTicks,
         TurnOfLoop(occupied, bin_full, d)
      PROVE  Next
  BY <1>1, TurnIterates DEF Next
<1>2. CASE SetUpPins
  BY <1>2 DEF SetUpPins
<1>3. CASE Requests
  BY <1>3 DEF Requests, Next
<1>4. CASE UNCHANGED boxVars
  BY <1>4 DEF boxVars
<1> QED BY <1>1, <1>2, <1>3, <1>4 DEF NextBox

\* Every step of the box is one of the sampler, or changes nothing of it.
LEMMA BoxStepsHall ==
  ASSUME [NextBox]_boxVars
  PROVE  [Sampler!Next]_(Sampler!vars)
<1>1. ASSUME NEW occupied \in BOOLEAN, NEW bin_full \in BOOLEAN, NEW d \in LoopTicks,
         TurnOfLoop(occupied, bin_full, d)
      PROVE  Sampler!Next
  <2>1. Sampler!HallPoll(Sampler!TickAdd(now, d), Felt(place'))
    BY <1>1, PollSamples, SameClock DEF TurnOfLoop
  <2>2. Felt(place') \in SUBSET Sampler!Magnet
    BY DEF Felt, Hall!Magnet, Sampler!Magnet
  <2> QED BY <2>1, <2>2 DEF Sampler!Next
<1>2. CASE SetUpPins \/ Requests \/ UNCHANGED boxVars
  BY <1>2 DEF SetUpPins, Requests, RequestClean, RequestReset, boxVars, vars, hall, sampler,
     Sampler!vars
<1> QED BY <1>1, <1>2 DEF NextBox

LEMMA BoxStarts == InitBox => Init /\ Sampler!Init
BY DEF InitBox, Init, Sampler!Init, Sampler!Tick, Tick

\* In the box the control loop works as LitterLogic says of it alone, so that
\* what is proved there holds of the box.
THEOREM BoxImplementsLoop == SpecBox => FairSpec
BY BoxStarts, BoxStepsLogic, PTL DEF SpecBox, FairSpec, Spec

\* And the sampler as LitterHall says.
THEOREM BoxImplementsSampler == SpecBox => Sampler!Init /\ [][Sampler!Next]_(Sampler!vars)
BY BoxStarts, BoxStepsHall, PTL DEF SpecBox

-----------------------------------------------------------------------------
(* Where a turn of the control loop leads. *)

\* The phase under way has not changed.
SamePhase(c, d) ==
  /\ d.state = "CLEANING" /\ d.clean_phase = c.clean_phase
  /\ d.clean_started_tick = c.clean_started_tick
  /\ d.phase_started_tick = c.phase_started_tick

\* The run has gone on to another phase at t.
NextPhase(c, d, t) ==
  /\ d.state = "CLEANING" /\ d.clean_started_tick = c.clean_started_tick
  /\ d.phase_started_tick = t
  /\ \/ c.clean_phase = "TO_POS2" /\ d.clean_phase = "TO_POS3"
     \/ c.clean_phase = "TO_POS3" /\ d.clean_phase = "TO_POS1"

OpensAt(c, t) == c.state = "LEAVE_CONFIRM" /\ c.deadline_tick = TickAdd(t, LeaveConfirm)

\* The occupancy edge.
LEMMA OccupancyLeads ==
  ASSUME IInv, NEW occupied \in BOOLEAN, NEW bin_full \in BOOLEAN, ~bin_full, NEW t \in Tick,
         NEW c, Edged(c, ctx, occupied, bin_full), c.state = ctx.state,
         NEW r, r = OccupancyEdge(c, occupied, t)
  PROVE  \/ r = c
         \/ c.state \in {"IDLE", "LEAVE_CONFIRM", "CLEAN_DELAY"} /\ r.state = "OCCUPIED"
         \/ c.state = "CLEANING" /\ r.state = "SAFE_STOP" /\ occupied
         \/ c.state = "OCCUPIED" /\ OpensAt(r, t)
         \/ c.state = "SAFE_STOP" /\ r.state = "SAFE_STOP"
<1>1. TypeOK /\ Matched(ctx, prev_occupied, prev_bin_full)
  BY DEF IInv
<1>2. Sound(c) /\ c \in FsmCtx /\ c.state \in FsmState
  BY DEF Edged, EdgesFit, Sound, FsmCtx
<1>3. /\ prev_occupied \in BOOLEAN
      /\ ctx.state \in {"IDLE", "LEAVE_CONFIRM", "CLEAN_DELAY", "CLEANING"} => ~prev_occupied
      /\ ctx.state \in {"OCCUPIED", "SAFE_STOP"} => prev_occupied
  BY <1>1 DEF Matched, Answered, Settled, Fits, TypeOK
<1>4. CASE c.state = "FAULT" \/ occupied = prev_occupied
  BY <1>4 DEF OccupancyEdge
<1>5. CASE c.state # "FAULT" /\ occupied /\ ~prev_occupied
  <2>1. c.state \in {"IDLE", "LEAVE_CONFIRM", "CLEAN_DELAY", "CLEANING"}
    BY <1>2, <1>3, <1>5 DEF FsmState
  <2>2. CASE c.state = "CLEANING"
    <3>1. r = Dispatch(c, "PROTECT_TRIGGER", t)
      BY <1>5, <2>2 DEF OccupancyEdge, OccupancyEvent
    <3> QED BY <1>2, <1>5, <2>2, <3>1, DispatchProtect
  <2>3. CASE c.state # "CLEANING"
    <3>1. r = Dispatch(c, "OCCUPIED_ON", t)
      BY <1>5, <2>3 DEF OccupancyEdge, OccupancyEvent
    <3> QED BY <1>2, <2>1, <2>3, <3>1, DispatchOccupiedOn
  <2> QED BY <2>2, <2>3
<1>6. CASE c.state # "FAULT" /\ ~occupied /\ prev_occupied
  <2>1. c.state \in {"OCCUPIED", "SAFE_STOP"}
    BY <1>2, <1>3, <1>6 DEF FsmState
  <2>2. r = Dispatch(c, "OCCUPIED_OFF", t)
    BY <1>6 DEF OccupancyEdge, OccupancyEvent
  <2>3. r.state = IF c.state = "OCCUPIED" THEN "LEAVE_CONFIRM" ELSE "SAFE_STOP"
    BY <1>2, <2>1, <2>2, DispatchOccupiedOff
  <2>4. r.state \in Window => \/ r = c
                               \/ /\ r.state = "LEAVE_CONFIRM" /\ prev_occupied
                                  /\ r.deadline_tick = TickAdd(t, LeaveConfirm)
    BY <1>1, OccupancyWindow
  <2> QED BY <2>1, <2>3, <2>4 DEF OpensAt, Window
<1> QED BY <1>3, <1>4, <1>5, <1>6

\* The clean request.
LEMMA CleanLeads ==
  ASSUME NEW occupied \in BOOLEAN, NEW bin_full \in BOOLEAN, ~bin_full, NEW t \in Tick, NEW take,
         NEW c, Settled(c, occupied, bin_full), NEW r, r = ServeClean(c, take, t)
  PROVE  \/ r = c
         \/ /\ take /\ c.state \in {"IDLE", "CLEAN_DELAY"}
            /\ r.state = "CLEANING" /\ BegunAt(r, t)
<1>1. Sound(c) /\ c \in FsmCtx /\ c.state \in FsmState
  BY DEF Settled, Fits, Sound, FsmCtx
<1>2. CASE take
  <2>1. r = Dispatch(c, "CLEAN_START", t)
    BY <1>2 DEF ServeClean
  <2>2. /\ c.state = "IDLE" => r = InIdle(c, "CLEAN_START", t)
        /\ c.state = "OCCUPIED" => r = InOccupied(c, "CLEAN_START", t)
        /\ c.state = "LEAVE_CONFIRM" => r = InLeaveConfirm(c, "CLEAN_START", t)
        /\ c.state = "CLEAN_DELAY" => r = InCleanDelay(c, "CLEAN_START", t)
        /\ c.state = "CLEANING" => r = InCleaning(c, "CLEAN_START", t)
        /\ c.state = "SAFE_STOP" => r = InSafeStop(c, "CLEAN_START", t)
        /\ c.state = "FAULT" => r = InFault(c, "CLEAN_START", t)
    BY <1>1, <2>1, DispatchPlain
  <2>3. CASE c.state \in {"IDLE", "CLEAN_DELAY"}
    <3>1. r = TryEnterCleaning(c, t) /\ Clear(c)
      BY <2>2, <2>3 DEF InIdle, InCleanDelay, Settled, Fits, Clear
    <3>2. r = EnterState(c, "CLEANING", t)
      BY <3>1 DEF TryEnterCleaning, Clear
    <3>3. r.state = "CLEANING" /\ BegunAt(r, t)
      BY <1>1, <2>3, <3>2, EnterCleaning, EnterStateTo
    <3> QED BY <1>2, <2>3, <3>3, Zenon
  <2>4. CASE c.state = "OCCUPIED"
    <3>1. r = TryEnterCleaning(c, t) /\ c.occupied
      BY <2>2, <2>4 DEF InOccupied, Settled, Fits
    <3>2. r = EnterState(c, "OCCUPIED", t)
      BY <3>1 DEF TryEnterCleaning, BlockClean, IdleOrOccupied
    <3> QED BY <2>4, <3>2, EnterStateAgain
  <2>5. CASE c.state \in {"LEAVE_CONFIRM", "CLEANING", "SAFE_STOP", "FAULT"}
    <3>1. ~PhaseEnds(c, "CLEAN_START")
      BY DEF PhaseEnds
    <3> QED BY <2>2, <2>5, <3>1 DEF InLeaveConfirm, InCleaning, InSafeStop, InFault
  <2> QED BY <1>1, <2>3, <2>4, <2>5 DEF FsmState
<1>3. CASE ~take
  BY <1>3 DEF ServeClean
<1> QED BY <1>2, <1>3

\* A reset leads to rest, or nowhere.
LEMMA ResetLeads ==
  ASSUME NEW occupied \in BOOLEAN, NEW bin_full \in BOOLEAN, NEW t \in Tick,
         NEW c, Settled(c, occupied, bin_full), NEW r, r = ServeReset(c, t)
  PROVE  r = c \/ (reset_request /\ r.state \in {"IDLE", "OCCUPIED"})
<1>1. Sound(c) /\ c \in FsmCtx /\ c.state \in FsmState
  BY DEF Settled, Fits, FsmCtx
<1>2. CASE reset_request
  <2>1. r = Dispatch(c, "RESET", t)
    BY <1>2 DEF ServeReset
  <2>2. /\ c.state = "IDLE" => r = InIdle(c, "RESET", t)
        /\ c.state = "OCCUPIED" => r = InOccupied(c, "RESET", t)
        /\ c.state = "LEAVE_CONFIRM" => r = InLeaveConfirm(c, "RESET", t)
        /\ c.state = "CLEAN_DELAY" => r = InCleanDelay(c, "RESET", t)
        /\ c.state = "CLEANING" => r = InCleaning(c, "RESET", t)
        /\ c.state = "SAFE_STOP" => r = InSafeStop(c, "RESET", t)
        /\ c.state = "FAULT" => r = InFault(c, "RESET", t)
    BY <1>1, <2>1, DispatchPlain
  <2>3. CASE c.state \in {"IDLE", "OCCUPIED"}
    BY <2>2, <2>3 DEF InIdle, InOccupied
  <2>4. CASE c.state = "CLEANING"
    <3>1. ~PhaseEnds(c, "RESET")
      BY DEF PhaseEnds
    <3>2. r = EnterState(c, "IDLE", t)
      BY <2>2, <2>4, <3>1 DEF InCleaning
    <3> QED BY <1>1, <1>2, <3>2, EnterStateTo
  <2>5. CASE c.state \in {"LEAVE_CONFIRM", "CLEAN_DELAY", "SAFE_STOP", "FAULT"}
    <3>1. r = ResetRecover(c, t)
      BY <2>2, <2>5 DEF InLeaveConfirm, InCleanDelay, InSafeStop, InFault
    <3>2. IF c.protect_active \/ c.bin_full THEN r = c ELSE r.state = IdleOrOccupied(c)
      BY <1>1, <3>1, ResetRecoverState
    <3> QED BY <1>2, <3>2 DEF IdleOrOccupied
  <2> QED BY <1>1, <2>3, <2>4, <2>5 DEF FsmState
<1>3. CASE ~reset_request
  BY <1>3 DEF ServeReset
<1> QED BY <1>2, <1>3

\* An arrival starts the clock of the next phase.
LEMMA HallLeads ==
  ASSUME NEW t \in Tick, NEW c, Sound(c), c.state = "CLEANING",
         NEW r, r = ServeHall(c, TRUE, TargetPosition[c.clean_phase], t)
  PROVE  NextPhase(c, r, t) \/ (c.clean_phase = "TO_POS1" /\ r.state = "IDLE")
<1> DEFINE e == ArrivalAt(TargetPosition[c.clean_phase])
<1>1. c \in FsmCtx /\ c.clean_phase \in {"TO_POS2", "TO_POS3", "TO_POS1"}
  BY DEF Sound, FsmCtx, CleanPhase
<1>2. /\ c.clean_phase = "TO_POS2" => e = "POS2_REACHED"
      /\ c.clean_phase = "TO_POS3" => e = "POS3_REACHED"
      /\ c.clean_phase = "TO_POS1" => e = "POS1_REACHED"
  BY DEF TargetPosition, ArrivalAt, CleanPhase
<1>3. e \in {"POS1_REACHED", "POS2_REACHED", "POS3_REACHED"}
  BY <1>1, <1>2
<1>4. r = Dispatch(c, e, t)
  BY DEF ServeHall
<1> HIDE DEF e
<1>5. r = InCleaning(c, e, t)
  BY <1>1, <1>3, <1>4, DispatchPlain
<1>6. PhaseEnds(c, e) /\ e \notin {"OCCUPIED_ON", "BIN_FULL", "CLEAN_DONE", "RESET"}
  BY <1>1, <1>2, <1>3 DEF PhaseEnds
<1>7. r = EndPhase(c, e, t)
  BY <1>5, <1>6 DEF InCleaning
<1>8. \A p : LET d == StartCleanPhase(c, p, t)
             IN /\ d.state = "CLEANING" /\ d.clean_phase = p
                /\ d.clean_started_tick = c.clean_started_tick /\ d.phase_started_tick = t
  BY <1>1 DEF StartCleanPhase, FsmCtx
<1>9. FinishCleaning(c, t).state = "IDLE"
  BY <1>1, EnterStateTo DEF FinishCleaning, FsmCtx, Motor
<1>10. CASE c.clean_phase = "TO_POS2"
  BY <1>2, <1>7, <1>8, <1>10 DEF EndPhase, NextPhase
<1>11. CASE c.clean_phase = "TO_POS3"
  BY <1>2, <1>7, <1>8, <1>11 DEF EndPhase, NextPhase
<1>12. CASE c.clean_phase = "TO_POS1"
  BY <1>2, <1>7, <1>9, <1>12 DEF EndPhase
<1> QED BY <1>1, <1>10, <1>11, <1>12

\* litter_fsm_tick.
LEMMA TickLeads ==
  ASSUME NEW occupied \in BOOLEAN, NEW bin_full \in BOOLEAN, ~bin_full, NEW t \in Tick,
         NEW c, Settled(c, occupied, bin_full), NEW r, r = FsmTick(c, t)
  PROVE  /\ c.state \in {"IDLE", "OCCUPIED"} => r = c
         /\ c.state = "LEAVE_CONFIRM" =>
              IF DeadlineExpired(t, c.deadline_tick) THEN r.state = "CLEAN_DELAY" ELSE r = c
         /\ c.state = "CLEAN_DELAY" => r = c \/ (r.state = "CLEANING" /\ BegunAt(r, t))
         /\ c.state = "CLEANING" =>
              IF RunOverdue(c, t) \/ PhaseOverdue(c, t) THEN r.state = "FAULT" ELSE r = c
         /\ c.state = "SAFE_STOP" => r = c \/ OpensAt(r, t)
         /\ c.state = "FAULT" => r = c \/ r.state \in {"IDLE", "OCCUPIED"}
<1>1. Sound(c) /\ c \in FsmCtx /\ c.state \in FsmState
  BY DEF Settled, Fits, Sound, FsmCtx
<1>2. CASE c.state = "CLEANING"
  <2>1. ~c.protect_active
    BY <1>2 DEF Settled, Fits
  <2>2. CASE RunOverdue(c, t) \/ PhaseOverdue(c, t)
    <3>1. r = Dispatch(c, "STALL_OR_TIMEOUT", t)
      BY <1>2, <2>1, <2>2 DEF FsmTick, FaultClears
    <3>2. NoteInput(c, "STALL_OR_TIMEOUT") = c
      BY <1>1, NoteNothing DEF FsmEvent, InputEvent
    <3>3. r = EnterFault(c, "CLEAN_TIMEOUT", t)
      BY <3>1, <3>2 DEF Dispatch
    <3> QED BY <1>1, <1>2, <2>2, <3>3, EnterFaultGood
  <2>3. CASE ~(RunOverdue(c, t) \/ PhaseOverdue(c, t))
    BY <1>2, <2>1, <2>3 DEF FsmTick, FaultClears
  <2> QED BY <1>2, <2>2, <2>3
<1>3. CASE c.state \in {"IDLE", "OCCUPIED"}
  BY <1>3 DEF FsmTick, FaultClears
<1>4. CASE c.state \in {"LEAVE_CONFIRM", "CLEAN_DELAY"}
  <2>1. CASE ~DeadlineExpired(t, c.deadline_tick)
    <3>1. r = c
      BY <1>4, <2>1 DEF FsmTick, FaultClears
    <3> QED BY <1>4, <2>1, <3>1
  <2>2. CASE DeadlineExpired(t, c.deadline_tick)
    <3>1. r = Dispatch(c, "DELAY_TIMEOUT", t)
      BY <1>4, <2>2 DEF FsmTick, FaultClears
    <3>2. /\ c.state = "LEAVE_CONFIRM" => r = InLeaveConfirm(c, "DELAY_TIMEOUT", t)
          /\ c.state = "CLEAN_DELAY" => r = InCleanDelay(c, "DELAY_TIMEOUT", t)
      BY <1>1, <3>1, DispatchPlain
    <3>3. Clear(c)
      BY <1>4 DEF Settled, Fits, Clear
    <3>4. /\ c.state = "LEAVE_CONFIRM" => r = EnterState(c, "CLEAN_DELAY", t)
          /\ c.state = "CLEAN_DELAY" => r = EnterState(c, "CLEANING", t)
      BY <3>2, <3>3 DEF InLeaveConfirm, LeaveConfirmed, InCleanDelay, TryEnterCleaning,
           Clear
    <3> QED BY <1>1, <1>4, <2>2, <3>4, EnterStateTo, EnterCleaning
  <2> QED BY <2>1, <2>2
<1>5. CASE c.state = "SAFE_STOP"
  <2>1. r = c \/ r.state = "LEAVE_CONFIRM"
    <3>1. CASE c.protect_active
      BY <1>5, <3>1 DEF FsmTick, FaultClears
    <3>2. CASE ~c.protect_active
      <4>1. r = Dispatch(c, "PROTECT_RELEASE", t) /\ ~c.occupied /\ ~c.bin_full
        BY <1>5, <3>2 DEF FsmTick, FaultClears, Settled, Fits
      <4> QED BY <1>1, <1>5, <3>2, <4>1, DispatchRelease
    <3> QED BY <3>1, <3>2
  <2>2. r.state = "LEAVE_CONFIRM" => \/ r = c
                                     \/ /\ c.state = "SAFE_STOP" /\ ~occupied
                                        /\ r.deadline_tick = TickAdd(t, LeaveConfirm)
    BY TickWindow
  <2> QED BY <1>5, <2>1, <2>2 DEF OpensAt
<1>6. CASE c.state = "FAULT"
  <2>1. CASE FaultClears(c)
    <3>1. r = RecoverTo(c, IdleOrOccupied(c), t)
      BY <1>6, <2>1 DEF FsmTick
    <3> QED BY <1>1, <1>6, <3>1, RecoverToState DEF IdleOrOccupied
  <2>2. CASE ~FaultClears(c)
    BY <1>6, <2>2 DEF FsmTick
  <2> QED BY <1>6, <2>1, <2>2
<1> QED BY <1>1, <1>2, <1>3, <1>4, <1>5, <1>6 DEF FsmState

\* What a context says of the state, the fault, the run and the window.
Carried(c, d) ==
  /\ d.state = c.state /\ d.fault_code = c.fault_code /\ d.clean_phase = c.clean_phase
  /\ d.deadline_tick = c.deadline_tick
  /\ d.clean_started_tick = c.clean_started_tick
  /\ d.phase_started_tick = c.phase_started_tick

\* Up to the hall stage.
LEMMA ServedLeads ==
  ASSUME IInv, NEW occupied \in BOOLEAN, NEW bin_full \in BOOLEAN, ~bin_full, NEW t \in Tick,
         NEW edges, edges = BinFullEdge(ReadInputs(ctx, occupied, bin_full), bin_full, t),
         NEW settled, settled = OccupancyEdge(edges, occupied, t),
         NEW asked, asked = ServeClean(settled, TakesCleanRequest(edges), t),
         NEW served, served = ServeReset(asked, t)
  PROVE  \/ Carried(ctx, served)
         \/ reset_request /\ served.state \in {"IDLE", "OCCUPIED"}
         \/ /\ ctx.state \in {"IDLE", "LEAVE_CONFIRM", "CLEAN_DELAY"}
            /\ served.state = "OCCUPIED"
         \/ ctx.state = "CLEANING" /\ served.state = "SAFE_STOP" /\ occupied
         \/ ctx.state = "OCCUPIED" /\ OpensAt(served, t)
         \/ ctx.state = "SAFE_STOP" /\ served.state = "SAFE_STOP"
         \/ /\ ctx.state \in {"IDLE", "CLEAN_DELAY"} /\ remote_clean_request
            /\ served.state = "CLEANING" /\ BegunAt(served, t)
<1>1. TypeOK /\ Matched(ctx, prev_occupied, prev_bin_full)
  BY DEF IInv
<1>2. Edged(edges, ctx, occupied, bin_full)
  BY <1>1, EdgesEdged
<1>3. Settled(settled, occupied, bin_full)
  BY <1>1, <1>2, OccupancySettled
<1>4. Settled(asked, occupied, bin_full)
  BY <1>3, CleanSettled
<1>5. edges = SyncInputs(ctx, occupied, bin_full, ProtectActive(occupied, ctx.state))
  BY DEF BinFullEdge, ReadInputs
<1>6. Carried(ctx, edges)
  BY <1>1, <1>5 DEF TypeOK, FsmCtx, SyncInputs, Carried
<1>7. edges.state = ctx.state
  BY <1>6 DEF Carried
<1>8. \/ settled = edges
      \/ ctx.state \in {"IDLE", "LEAVE_CONFIRM", "CLEAN_DELAY"} /\ settled.state = "OCCUPIED"
      \/ ctx.state = "CLEANING" /\ settled.state = "SAFE_STOP" /\ occupied
      \/ ctx.state = "OCCUPIED" /\ OpensAt(settled, t)
      \/ ctx.state = "SAFE_STOP" /\ settled.state = "SAFE_STOP"
  BY <1>2, <1>7, OccupancyLeads
<1>9. \/ asked = settled
      \/ /\ remote_clean_request /\ settled.state \in {"IDLE", "CLEAN_DELAY"}
         /\ asked.state = "CLEANING" /\ BegunAt(asked, t)
  BY <1>3, CleanLeads DEF TakesCleanRequest
<1>10. OpensAt(settled, t) => settled.state = "LEAVE_CONFIRM"
  BY DEF OpensAt
<1>11. served = asked \/ (reset_request /\ served.state \in {"IDLE", "OCCUPIED"})
  BY <1>4, ResetLeads
<1> HIDE DEF Carried
<1> QED BY <1>6, <1>7, <1>8, <1>9, <1>10, <1>11

\* A run that the iteration at t begins; the drum may stand at the dump position.
Begins(d, position, t) ==
  /\ d.state = "CLEANING" /\ d.clean_started_tick = t /\ d.phase_started_tick = t
  /\ \/ d.clean_phase = "TO_POS2"
     \/ d.clean_phase = "TO_POS3" /\ position = "POS2_DUMP"

\* Where an iteration at t takes a run that no cat stops.
RunLeads(c, d, position, t) ==
  \/ /\ position # TargetPosition[c.clean_phase]
     /\ SamePhase(c, d)
  \/ /\ position # TargetPosition[c.clean_phase]
     /\ d.state = "FAULT" /\ (RunOverdue(c, t) \/ PhaseOverdue(c, t))
  \/ /\ position = TargetPosition[c.clean_phase]
     /\ NextPhase(c, d, t)
  \/ /\ position = TargetPosition[c.clean_phase]
     /\ c.clean_phase = "TO_POS1" /\ d.state = "IDLE"
  \/ /\ position = TargetPosition[c.clean_phase]
     /\ c.clean_phase # "TO_POS1" /\ d.state = "FAULT" /\ RunOverdue(c, t)

\* The hall stage and the tick, in a run that no cat has stopped.
LEMMA HallTickLeads ==
  ASSUME NEW bin_full \in BOOLEAN, ~bin_full, NEW occupied \in BOOLEAN, NEW t \in Tick,
         NEW position, NEW served, Settled(served, occupied, bin_full),
         served.state = "CLEANING",
         NEW reports, reports <=> position = TargetPosition[served.clean_phase],
         NEW r, r = FsmTick(ServeHall(served, reports, position, t), t)
  PROVE  RunLeads(served, r, position, t)
<1> DEFINE arrived == ServeHall(served, reports, position, t)
<1>1. /\ Sound(served) /\ served \in FsmCtx
      /\ served.clean_phase \in {"TO_POS2", "TO_POS3", "TO_POS1"}
  BY DEF Settled, Fits, Sound, FsmCtx, CleanPhase
<1>2. Settled(arrived, occupied, bin_full)
  BY HallSettled
<1>3. CASE ~reports
  <2>1. arrived = served
    BY <1>3 DEF ServeHall
  <2>2. IF RunOverdue(served, t) \/ PhaseOverdue(served, t) THEN r.state = "FAULT"
        ELSE r = served
    BY <2>1, TickLeads
  <2> QED BY <1>1, <1>3, <2>2 DEF RunLeads, SamePhase
<1>4. CASE reports
  <2>1. arrived = ServeHall(served, TRUE, TargetPosition[served.clean_phase], t)
    BY <1>4 DEF ServeHall
  <2> HIDE DEF arrived
  <2>2. NextPhase(served, arrived, t) \/ (served.clean_phase = "TO_POS1" /\ arrived.state = "IDLE")
    BY <1>1, <2>1, HallLeads
  <2>3. r = FsmTick(arrived, t)
    BY DEF arrived
  <2>4. CASE served.clean_phase = "TO_POS1" /\ arrived.state = "IDLE"
    <3>1. r = arrived
      BY <1>2, <2>3, <2>4, TickLeads
    <3> QED BY <1>4, <2>4, <3>1 DEF RunLeads
  <2>5. CASE NextPhase(served, arrived, t)
    <3>1. /\ arrived.state = "CLEANING" /\ arrived.clean_phase \in {"TO_POS3", "TO_POS1"}
          /\ arrived.clean_started_tick = served.clean_started_tick
          /\ arrived.phase_started_tick = t /\ served.clean_phase # "TO_POS1"
      BY <2>5 DEF NextPhase
    <3>2. ~PhaseOverdue(arrived, t)
      <4>1. TickSub(t, t) = 0
        BY TickSubSame
      <4>2. PhaseTimeout[arrived.clean_phase] \in Nat \ {0}
        BY <3>1, TimingAssumption DEF PhaseTimeout
      <4> QED BY <3>1, <4>1, <4>2 DEF PhaseOverdue
    <3>3. RunOverdue(arrived, t) <=> RunOverdue(served, t)
      BY <3>1 DEF RunOverdue
    <3>4. IF RunOverdue(arrived, t) \/ PhaseOverdue(arrived, t) THEN r.state = "FAULT"
          ELSE r = arrived
      BY <1>2, <2>3, <3>1, TickLeads
    <3> QED BY <1>4, <2>5, <3>1, <3>2, <3>3, <3>4 DEF RunLeads
  <2> QED BY <2>2, <2>4, <2>5
<1> QED BY <1>3, <1>4

\* Where an iteration takes the machine while the bin has room and no reset is served.
RoomLeads(c, d, occupied, position, t) ==
  /\ c.state = "IDLE" =>
       \/ d.state \in {"IDLE", "OCCUPIED"}
       \/ /\ remote_clean_request /\ Begins(d, position, t)
          /\ d.clean_phase = "TO_POS2" => position # "POS2_DUMP"
  /\ c.state = "CLEAN_DELAY" =>
       d.state \in {"CLEAN_DELAY", "OCCUPIED"} \/ Begins(d, position, t)
  /\ c.state = "OCCUPIED" => d.state = "OCCUPIED" \/ OpensAt(d, t)
  /\ c.state = "LEAVE_CONFIRM" =>
       \/ d.state = "OCCUPIED"
       \/ d.state = "CLEAN_DELAY" /\ DeadlineExpired(t, c.deadline_tick)
       \/ d.state = "LEAVE_CONFIRM" /\ d.deadline_tick = c.deadline_tick
            /\ ~DeadlineExpired(t, c.deadline_tick)
  /\ c.state = "SAFE_STOP" => d.state = "SAFE_STOP" \/ OpensAt(d, t)
  /\ c.state = "FAULT" =>
       \/ d.state \in {"IDLE", "OCCUPIED"}
       \/ d.state = "FAULT" /\ d.fault_code = c.fault_code
  /\ c.state = "CLEANING" =>
       (d.state = "SAFE_STOP" /\ occupied) \/ RunLeads(c, d, position, t)

\* Where any iteration takes it.
StateLeads(c, d, occupied, position, t) ==
  \/ reset_request /\ d.state \in {"IDLE", "OCCUPIED"}
  \/ d.state = "FAULT" /\ d.fault_code = "BIN_FULL"
  \/ RoomLeads(c, d, occupied, position, t)

LEMMA TurnLeadsRoom ==
  ASSUME LoopInv, NEW occupied \in BOOLEAN, NEW bin_full \in BOOLEAN, ~bin_full,
         NEW t \in Tick, NEW position, Running(occupied, bin_full, position, t)
  PROVE  StateLeads(ctx, ctx', occupied, position, t)
<1> DEFINE protect == ProtectActive(occupied, ctx.state)
           edges == BinFullEdge(ReadInputs(ctx, occupied, bin_full), bin_full, t)
           settled == OccupancyEdge(edges, occupied, t)
           asked == ServeClean(settled, TakesCleanRequest(edges), t)
           served == ServeReset(asked, t)
           reports == HallReports(served, position, bin_full, protect)
           arrived == ServeHall(served, reports, position, t)
<1>1. IInv /\ Remembered
  BY DEF LoopInv
<1>2. /\ Settled(served, occupied, bin_full)
      /\ served.state = "CLEANING" =>
           \/ ctx.state = "CLEANING" /\ served.clean_phase = ctx.clean_phase
           \/ ctx.state \notin {"CLEANING", "FAULT"} /\ served.clean_phase = "TO_POS2"
  BY <1>1, ServedRun
<1>3. \/ Carried(ctx, served)
      \/ reset_request /\ served.state \in {"IDLE", "OCCUPIED"}
      \/ /\ ctx.state \in {"IDLE", "LEAVE_CONFIRM", "CLEAN_DELAY"}
         /\ served.state = "OCCUPIED"
      \/ ctx.state = "CLEANING" /\ served.state = "SAFE_STOP" /\ occupied
      \/ ctx.state = "OCCUPIED" /\ OpensAt(served, t)
      \/ ctx.state = "SAFE_STOP" /\ served.state = "SAFE_STOP"
      \/ /\ ctx.state \in {"IDLE", "CLEAN_DELAY"} /\ remote_clean_request
         /\ served.state = "CLEANING" /\ BegunAt(served, t)
  BY <1>1, ServedLeads
<1>4. ctx' = FsmTick(arrived, t)
  BY DEF Running
<1>5. reports <=> /\ served.state = "CLEANING"
                  /\ ~bin_full /\ ~protect
                  /\ TargetPosition[served.clean_phase] # "UNKNOWN"
                  /\ position = TargetPosition[served.clean_phase]
                  /\ ~(last_reported_phase = served.clean_phase
                         /\ last_reported_position = position)
  BY DEF HallReports
<1>6. protect => occupied
  BY DEF ProtectActive
<1> HIDE DEF served, reports, protect
<1>7. CASE served.state = "CLEANING"
  <2>1. ~occupied /\ served.clean_phase \in {"TO_POS2", "TO_POS3", "TO_POS1"}
    BY <1>2, <1>7 DEF Settled, Fits, Sound, FsmCtx, CleanPhase
  <2>2. last_reported_phase # served.clean_phase
    BY <1>1, <1>2, <1>7 DEF Remembered
  <2>3. reports <=> position = TargetPosition[served.clean_phase]
    BY <1>5, <1>6, <1>7, <2>1, <2>2 DEF TargetPosition
  <2>4. RunLeads(served, ctx', position, t)
    BY <1>2, <1>4, <1>7, <2>3, HallTickLeads
  <2>5. CASE ctx.state = "CLEANING"
    <3>1. Carried(ctx, served)
      BY <1>3, <1>7, <2>5 DEF OpensAt
    <3>2. RunLeads(ctx, ctx', position, t)
      BY <2>4, <3>1 DEF Carried, RunLeads, SamePhase, NextPhase, RunOverdue, PhaseOverdue
    <3> QED BY <2>5, <3>2 DEF StateLeads, RoomLeads
  <2>6. CASE ctx.state # "CLEANING"
    <3>1. ctx.state \in {"IDLE", "CLEAN_DELAY"} /\ remote_clean_request /\ BegunAt(served, t)
      BY <1>3, <1>7, <2>6 DEF OpensAt, Carried
    <3>2. ~RunOverdue(served, t) /\ ~PhaseOverdue(served, t)
      BY <3>1, TickSubSame, TimingAssumption DEF BegunAt, RunOverdue, PhaseOverdue, PhaseTimeout
    <3>3. /\ Begins(ctx', position, t)
          /\ ctx'.clean_phase = "TO_POS2" => position # "POS2_DUMP"
      <4>1. served.clean_phase = "TO_POS2" /\ TargetPosition[served.clean_phase] = "POS2_DUMP"
        BY <3>1 DEF BegunAt, TargetPosition
      <4>2. \/ position # "POS2_DUMP" /\ SamePhase(served, ctx')
            \/ position = "POS2_DUMP" /\ NextPhase(served, ctx', t)
        BY <2>4, <3>2, <4>1 DEF RunLeads
      <4> QED BY <3>1, <4>1, <4>2 DEF Begins, BegunAt, SamePhase, NextPhase
    <3> QED BY <3>1, <3>3 DEF StateLeads, RoomLeads
  <2> QED BY <2>5, <2>6
<1>8. CASE served.state # "CLEANING"
  <2>1. arrived = served
    BY <1>5, <1>8 DEF ServeHall
  <2>2. /\ served.state \in {"IDLE", "OCCUPIED"} => ctx' = served
        /\ served.state = "LEAVE_CONFIRM" =>
             IF DeadlineExpired(t, served.deadline_tick) THEN ctx'.state = "CLEAN_DELAY"
             ELSE ctx' = served
        /\ served.state = "CLEAN_DELAY" =>
             ctx' = served \/ (ctx'.state = "CLEANING" /\ BegunAt(ctx', t))
        /\ served.state = "SAFE_STOP" => ctx' = served \/ OpensAt(ctx', t)
        /\ served.state = "FAULT" => ctx' = served \/ ctx'.state \in {"IDLE", "OCCUPIED"}
    BY <1>2, <1>4, <2>1, TickLeads
  <2>3. ~DeadlineExpired(t, TickAdd(t, LeaveConfirm))
    <3>1. Waits(LeaveConfirm, LeaveConfirm, TickAdd(t, LeaveConfirm), t, 0)
      BY TimingAssumption, WaitsFresh
    <3> QED BY <3>1, TimingAssumption, WaitsNotOver
  <2>4. CASE Carried(ctx, served)
    <3>1. ctx.state \in FsmState /\ served.state = ctx.state
      BY <1>1, <2>4 DEF IInv, TypeOK, FsmCtx, Carried
    <3> QED BY <1>8, <2>2, <2>4, <3>1 DEF Carried, StateLeads, RoomLeads, FsmState, Begins, BegunAt
  <2>5. CASE /\ ctx.state \in {"IDLE", "LEAVE_CONFIRM", "CLEAN_DELAY"}
             /\ served.state = "OCCUPIED"
    BY <2>2, <2>5 DEF StateLeads, RoomLeads
  <2>6. CASE ctx.state = "CLEANING" /\ served.state = "SAFE_STOP" /\ occupied
    <3>1. served.protect_active
      BY <1>2, <2>6 DEF Settled, Fits
    <3>2. ctx' = served
      BY <1>4, <2>1, <2>6, <3>1 DEF FsmTick, FaultClears
    <3> QED BY <2>6, <3>2 DEF StateLeads, RoomLeads
  <2>7. CASE ctx.state = "OCCUPIED" /\ OpensAt(served, t)
    BY <2>2, <2>3, <2>7 DEF StateLeads, RoomLeads, OpensAt
  <2>8. CASE ctx.state = "SAFE_STOP" /\ served.state = "SAFE_STOP"
    BY <2>2, <2>8 DEF StateLeads, RoomLeads
  <2>9. CASE reset_request /\ served.state \in {"IDLE", "OCCUPIED"}
    BY <2>2, <2>9 DEF StateLeads
  <2> QED BY <1>3, <1>8, <2>4, <2>5, <2>6, <2>7, <2>8, <2>9
<1> QED BY <1>7, <1>8

\* BIN_FULL is a fault in every state but SAFE_STOP, and renames none.
LEMMA BinFullCode ==
  ASSUME NEW c \in FsmCtx, NEW t \in Tick, NEW r, r = Dispatch(c, "BIN_FULL", t)
  PROVE  r.fault_code = IF c.state \in {"SAFE_STOP", "FAULT"} THEN c.fault_code ELSE "BIN_FULL"
<1> DEFINE d == NoteInput(c, "BIN_FULL")
<1>1. "BIN_FULL" \in FsmEvent \ {"PROTECT_TRIGGER", "STALL_OR_TIMEOUT"}
  BY DEF FsmEvent
<1>2. d \in FsmCtx /\ d.state = c.state /\ d.fault_code = c.fault_code /\ c.state \in FsmState
  BY <1>1, DispatchByState DEF FsmCtx
<1>3. /\ c.state = "IDLE" => r = InIdle(d, "BIN_FULL", t)
      /\ c.state = "OCCUPIED" => r = InOccupied(d, "BIN_FULL", t)
      /\ c.state = "LEAVE_CONFIRM" => r = InLeaveConfirm(d, "BIN_FULL", t)
      /\ c.state = "CLEAN_DELAY" => r = InCleanDelay(d, "BIN_FULL", t)
      /\ c.state = "CLEANING" => r = InCleaning(d, "BIN_FULL", t)
      /\ c.state = "SAFE_STOP" => r = InSafeStop(d, "BIN_FULL", t)
      /\ c.state = "FAULT" => r = InFault(d, "BIN_FULL", t)
  BY <1>1, DispatchByState
<1> HIDE DEF d
<1>4. r = IF c.state \in {"SAFE_STOP", "FAULT"} THEN d ELSE EnterFault(d, "BIN_FULL", t)
  BY <1>2, <1>3 DEF FsmState, InIdle, InOccupied, InLeaveConfirm, InCleanDelay, InCleaning,
     PhaseEnds, InSafeStop, InFault
<1>5. EnterFault(d, "BIN_FULL", t).fault_code = "BIN_FULL"
  BY <1>2 DEF EnterFault, EnterState, KeepsFault, Halt, FsmCtx
<1> QED BY <1>2, <1>4, <1>5

\* A state that a full bin leaves, or makes of another one.
FullFault(c) ==
  /\ c.state = "FAULT"
  /\ \/ c.fault_code = "BIN_FULL"
     \/ ctx.state = "FAULT" /\ c.fault_code = ctx.fault_code

LEMMA TurnLeadsFull ==
  ASSUME LoopInv, NEW occupied \in BOOLEAN, NEW bin_full \in BOOLEAN, bin_full,
         NEW t \in Tick, NEW position, Running(occupied, bin_full, position, t)
  PROVE  StateLeads(ctx, ctx', occupied, position, t)
<1> DEFINE protect == ProtectActive(occupied, ctx.state)
           inputs == ReadInputs(ctx, occupied, bin_full)
           edges == BinFullEdge(inputs, bin_full, t)
           settled == OccupancyEdge(edges, occupied, t)
           asked == ServeClean(settled, TakesCleanRequest(edges), t)
           served == ServeReset(asked, t)
           reports == HallReports(served, position, bin_full, protect)
           arrived == ServeHall(served, reports, position, t)
           Stays(c) == FullFault(c) \/ (ctx.state = "SAFE_STOP" /\ c.state = "SAFE_STOP")
<1>1. /\ TypeOK /\ Matched(ctx, prev_occupied, prev_bin_full)
      /\ ctx \in FsmCtx /\ Sound(ctx) /\ ctx.state \in FsmState
      /\ prev_occupied \in BOOLEAN /\ prev_bin_full \in BOOLEAN
      /\ ctx.state = "SAFE_STOP" => prev_occupied
      /\ prev_bin_full => ctx.state \in {"SAFE_STOP", "FAULT"}
  BY DEF LoopInv, IInv, TypeOK, Matched, Settled, Fits, Answered, FsmCtx
<1>2. Edged(edges, ctx, occupied, bin_full)
  BY <1>1, EdgesEdged
<1>3. Settled(settled, occupied, bin_full)
  BY <1>1, <1>2, OccupancySettled
<1>4. Settled(asked, occupied, bin_full)
  BY <1>3, CleanSettled
<1>5. Settled(served, occupied, bin_full)
  BY <1>1, <1>4, ResetSettled
<1>6. ctx' = FsmTick(arrived, t)
  BY DEF Running
<1>7. inputs \in FsmCtx /\ inputs.state = ctx.state /\ inputs.fault_code = ctx.fault_code
  <2>1. protect \in BOOLEAN
    BY DEF ProtectActive
  <2> QED BY <1>1, <2>1 DEF ReadInputs, SyncInputs, FsmCtx
<1> HIDE DEF inputs
<1>8. Stays(edges)
  <2>1. CASE prev_bin_full
    BY <1>1, <1>7, <2>1 DEF BinFullEdge, FullFault
  <2>2. CASE ~prev_bin_full
    <3>1. edges = Dispatch(inputs, "BIN_FULL", t)
      BY <2>2 DEF BinFullEdge
    <3> HIDE DEF edges
    <3>2. /\ edges.state = IF ctx.state = "SAFE_STOP" THEN "SAFE_STOP" ELSE "FAULT"
          /\ edges.fault_code = IF ctx.state \in {"SAFE_STOP", "FAULT"} THEN ctx.fault_code
                                ELSE "BIN_FULL"
      <4>1. edges.state = IF inputs.state = "SAFE_STOP" THEN "SAFE_STOP" ELSE "FAULT"
        BY <1>7, <3>1, DispatchBinFull
      <4>2. edges.fault_code = IF inputs.state \in {"SAFE_STOP", "FAULT"} THEN inputs.fault_code
                              ELSE "BIN_FULL"
        BY <1>7, <3>1, BinFullCode
      <4> QED BY <1>7, <4>1, <4>2
    <3> QED BY <3>2 DEF FullFault
  <2> QED BY <1>1, <2>1, <2>2
<1>9. edges \in FsmCtx /\ edges.occupied = occupied /\ edges.bin_full = bin_full
  BY <1>2 DEF Edged, EdgesFit
<1> HIDE DEF edges
<1>10. Stays(settled) /\ (edges.state = "FAULT" => settled = edges)
  <2>1. CASE edges.state = "FAULT"
    BY <1>8, <2>1 DEF OccupancyEdge
  <2>2. CASE edges.state = "SAFE_STOP" /\ occupied = prev_occupied
    BY <1>8, <2>2 DEF OccupancyEdge
  <2>3. CASE edges.state = "SAFE_STOP" /\ occupied # prev_occupied
    <3>1. ctx.state = "SAFE_STOP" /\ ~occupied
      BY <1>1, <1>8, <2>3 DEF FullFault
    <3>2. settled = Dispatch(edges, "OCCUPIED_OFF", t)
      BY <2>3, <3>1 DEF OccupancyEdge, OccupancyEvent
    <3> QED BY <1>9, <2>3, <3>1, <3>2, DispatchOccupiedOff
  <2> QED BY <1>1, <1>8, <2>1, <2>2, <2>3 DEF FullFault
<1> HIDE DEF settled
<1>11. asked = settled
  <2>1. CASE edges.state = "FAULT"
    BY <2>1 DEF ServeClean, TakesCleanRequest
  <2>2. CASE edges.state # "FAULT"
    <3>1. settled.state = "SAFE_STOP" \/ settled.state = "FAULT"
      BY <1>10 DEF FullFault
    <3>2. settled \in FsmCtx
      BY <1>3 DEF Settled, Fits
    <3>3. Dispatch(settled, "CLEAN_START", t) = settled
      BY <3>1, <3>2, DispatchPlain DEF InSafeStop, InFault
    <3> QED BY <3>3 DEF ServeClean
  <2> QED BY <2>1, <2>2
<1>12. served = settled
  <2>1. /\ settled \in FsmCtx /\ settled.bin_full = TRUE
        /\ settled.state = "SAFE_STOP" \/ settled.state = "FAULT"
    BY <1>3, <1>10 DEF Settled, Fits, FullFault
  <2>2. ResetRecover(settled, t) = settled
    BY <2>1 DEF ResetRecover
  <2>3. Dispatch(settled, "RESET", t) = settled
    BY <2>1, <2>2, DispatchPlain DEF InSafeStop, InFault
  <2> QED BY <1>11, <2>3 DEF ServeReset
<1>13. arrived = settled
  <2>1. settled.state # "CLEANING"
    BY <1>10 DEF FullFault
  <2> QED BY <1>12, <2>1 DEF ServeHall, HallReports
<1>14. settled \in FsmCtx /\ Sound(settled) /\ settled.bin_full = TRUE /\ settled.occupied = occupied
       /\ (settled.state = "SAFE_STOP" => (occupied <=> settled.protect_active))
  BY <1>3 DEF Settled, Fits
<1>15. CASE FullFault(settled)
  <2>1. ctx' = settled
    BY <1>6, <1>13, <1>14, <1>15 DEF FsmTick, FaultClears, FullFault
  <2> QED BY <1>15, <2>1 DEF FullFault, StateLeads, RoomLeads
<1>16. CASE ctx.state = "SAFE_STOP" /\ settled.state = "SAFE_STOP" /\ settled.protect_active
  <2>1. ctx' = settled
    BY <1>6, <1>13, <1>16 DEF FsmTick, FaultClears
  <2> QED BY <1>16, <2>1 DEF StateLeads, RoomLeads
<1>17. CASE ctx.state = "SAFE_STOP" /\ settled.state = "SAFE_STOP" /\ ~settled.protect_active
  <2> DEFINE d == NoteInput(settled, "PROTECT_RELEASE")
  <2>1. "PROTECT_RELEASE" \in FsmEvent \ {"PROTECT_TRIGGER", "STALL_OR_TIMEOUT"}
    BY DEF FsmEvent
  <2>2. ctx' = Dispatch(settled, "PROTECT_RELEASE", t)
    BY <1>6, <1>13, <1>17 DEF FsmTick, FaultClears
  <2>3. ctx' = InSafeStop(d, "PROTECT_RELEASE", t)
    BY <1>14, <1>17, <2>1, <2>2, DispatchByState
  <2>4. Sound(d) /\ d \in FsmCtx /\ d.bin_full
    <3>1. Sound(d) /\ d \in FsmCtx
      BY <1>14, <2>1, NoteInputSound, SoundTyped DEF FsmEvent
    <3>2. d.bin_full
      BY <1>14 DEF NoteInput, FsmCtx
    <3> QED BY <3>1, <3>2
  <2> HIDE DEF d
  <2>5. ctx' = EnterFault(d, "BIN_FULL", t)
    BY <2>3, <2>4 DEF InSafeStop, RecoverFromSafeStop
  <2>6. ctx'.state = "FAULT" /\ ctx'.fault_code = "BIN_FULL"
    BY <2>4, <2>5, EnterFaultGood
  <2> QED BY <2>6 DEF StateLeads
<1> QED BY <1>10, <1>15, <1>16, <1>17

LEMMA TurnLeads ==
  ASSUME LoopInv, NEW occupied \in BOOLEAN, NEW bin_full \in BOOLEAN, NEW t \in Tick,
         NEW position, Running(occupied, bin_full, position, t)
  PROVE  StateLeads(ctx, ctx', occupied, position, t)
BY TurnLeadsRoom, TurnLeadsFull

-----------------------------------------------------------------------------
(* What the control loop knows of a drum that has reached a magnet, or has  *)
(* come to rest.                                                            *)

\* Distances are ticks, too.
LEMMA TickSubType ==
  ASSUME NEW t \in Tick, NEW u \in Tick
  PROVE  TickSub(t, u) \in Nat /\ TickSub(t, u) < TickMod
BY TickModAssumption DEF TickSub, Tick

LEMMA LongestTurnIs ==
  /\ LongestTurn \in LoopTicks /\ LongestTurn \in Nat \ {0}
  /\ \A d \in LoopTicks : d <= LongestTurn
<1>1. \E d \in LoopTicks : \A e \in LoopTicks : e <= d
  BY PollAssumption
<1>2. LongestTurn \in LoopTicks /\ \A d \in LoopTicks : d <= LongestTurn
  BY <1>1 DEF LongestTurn
<1> QED BY <1>2, LoopAssumption

\* What the sensors read where the drum stands, and for how long they have not been
\* sampled.
Seen == Hall!DecodePosition(Felt(place))
SinceSample == TickSub(now, last_sample_tick)

\* A sample comes at most this much later than the drum.
SampleLag == SamplePeriod + LongestTurn - 2

\* A drum that has felt the same for all but the first reach of the gone ticks has been
\* sampled where it stands, and for at least as long as all samples but the first can
\* tell.
Noticed(candidate, h, since, seen, gone, reach) ==
  gone - since >= reach =>
    /\ candidate = seen
    /\ h < Debounce => h >= gone - since - (reach + SampleLag)

Lags == SamplePeriod \in Nat \ {0} /\ Debounce \in Nat \ {0} /\ SampleLag \in Nat

LEMMA LagsTyped == Lags /\ SampleLag >= SamplePeriod - 1 /\ Noticing = Debounce + 2 * SampleLag
BY LongestTurnIs, PollAssumption DEF Lags, SampleLag, Hall!HallAssumption, Noticing

\* What there was no time for yet.
LEMMA NoticedFresh ==
  ASSUME NEW candidate, NEW h \in Nat, NEW since \in Nat, NEW seen, NEW reach \in Nat,
         since > 0 \/ reach > 0 \/ candidate = seen
  PROVE  Noticed(candidate, h, since, seen, 0, reach)
BY LagsTyped DEF Noticed, Lags

\* In the end it is the stable position.
LEMMA NoticedLate ==
  ASSUME NEW candidate, NEW stable, NEW h \in 0 .. Debounce, NEW since \in Nat, NEW seen,
         NEW gone \in Int, NEW reach \in Int, since < SamplePeriod,
         h = Debounce => stable = candidate,
         Noticed(candidate, h, since, seen, gone, reach),
         gone >= reach + Debounce + SampleLag + SamplePeriod - 1
  PROVE  stable = seen
<1>1. gone - since >= reach /\ gone - since - (reach + SampleLag) >= Debounce
  BY LagsTyped DEF Lags
<1>2. candidate = seen /\ (h < Debounce => h >= Debounce)
  BY <1>1, LagsTyped DEF Noticed, Lags
<1> QED BY <1>2, LagsTyped DEF Lags

\* What a poll does with the candidate.
LEMMA PollTakes ==
  ASSUME Sampler!HInv, Sampler!DInv, NEW d \in LoopTicks, NEW t, t = TickAdd(now, d),
         NEW p, Hall!HallPoll(t, Felt(p)),
         NEW raw, raw = Hall!DecodePosition(Felt(p)),
         NEW since, since = TickSub(t, last_sample_tick')
  PROVE  /\ raw \in Hall!Decoded /\ since \in Nat
         /\ stable_position' \in {stable_position, raw}
         /\ since > 0 \/ candidate_position' = raw
         /\ candidate_position' = "UNKNOWN" =>
              candidate_position = "UNKNOWN" /\ last_sample_tick # 0
         /\ candidate_position # "UNKNOWN" =>
              \/ /\ since = SinceSample + d
                 /\ UNCHANGED <<candidate_position, held, stable_position>>
              \/ /\ since = 0 /\ candidate_position' = raw
                 /\ candidate_position # raw /\ held' = 0
              \/ /\ since = 0 /\ candidate_position' = raw /\ candidate_position = raw
                 /\ held' = IF held + SinceSample + d > Debounce THEN Debounce
                            ELSE held + SinceSample + d
<1>1. /\ now \in Tick /\ last_sample_tick \in Tick /\ d \in Nat \ {0} /\ Lags
      /\ TickMod \in Nat \ {0} /\ held \in 0 .. Debounce
  BY LoopAssumption, TickModAssumption, LagsTyped DEF Sampler!HInv, Sampler!HallTypeOK,
     Sampler!Tick, Tick
<1>2. t \in Tick /\ TickSub(t, t) = 0 /\ TickSub(t, last_sample_tick) \in Nat
  <2>1. t \in Tick
    BY <1>1, TickAddType
  <2> QED BY <1>1, <2>1, TickSubSame, TickSubType
<1>3. raw \in Hall!Decoded \ {"UNKNOWN"}
  BY FeltDecodes
<1>4. ASSUME SinceSample < SamplePeriod
      PROVE  TickSub(t, last_sample_tick) = SinceSample + d
  <2>1. SinceSample \in Nat
    BY <1>1, TickSubType DEF SinceSample
  <2>2. SinceSample + d < TickMod
    <3>1. 2 * (SamplePeriod + Debounce + 2 * d) < TickMod
      BY PollAssumption DEF Hall!HallAssumption
    <3> QED BY <1>1, <1>4, <2>1, <3>1 DEF Lags
  <2>3. Sampler!TickSub(Sampler!TickAdd(now, d), last_sample_tick)
          = Sampler!TickSub(now, last_sample_tick) + d
    BY <1>1, <2>2, SamplerAssumed, SameClock, Sampler!TickSubLater
       DEF Sampler!TickSubLater, SinceSample
  <2> QED BY <2>3, SameClock DEF SinceSample
<1>5. candidate_position # "UNKNOWN" => SinceSample < SamplePeriod
  BY SameClock DEF Sampler!DInv, Sampler!Aged, SinceSample
<1>6. last_sample_tick # 0 => SinceSample < SamplePeriod
  BY SameClock DEF Sampler!HInv, Sampler!SampleRecent, SinceSample
<1>7. SinceSample \in Nat
  BY <1>1, TickSubType DEF SinceSample
<1>8. Hall!PollEarly(t) \/ Hall!NewCandidate(t, raw) \/ Hall!SameCandidate(t, raw)
  BY DEF Hall!HallPoll
<1>9. CASE Hall!PollEarly(t)
  <2>1. /\ UNCHANGED <<last_sample_tick, candidate_position, held, stable_position>>
        /\ last_sample_tick # 0
    BY <1>9 DEF Hall!PollEarly, Hall!SampleDue
  <2>2. since = SinceSample + d
    BY <1>4, <1>6, <2>1
  <2> QED BY <1>1, <1>3, <1>7, <2>1, <2>2
<1>10. CASE Hall!NewCandidate(t, raw)
  <2>1. /\ candidate_position # raw /\ candidate_position' = raw /\ held' = 0
        /\ stable_position' = stable_position /\ since = 0
    BY <1>2, <1>10 DEF Hall!NewCandidate
  <2> QED BY <1>3, <2>1
<1>11. CASE Hall!SameCandidate(t, raw)
  <2>1. /\ candidate_position = raw /\ candidate_position' = raw /\ since = 0
        /\ stable_position' \in {stable_position, raw}
        /\ held' = Hall!HeldAfter(t)
    BY <1>2, <1>11 DEF Hall!SameCandidate
  <2>2. Hall!HeldAfter(t) = IF held + SinceSample + d > Debounce THEN Debounce
                            ELSE held + SinceSample + d
    <3>1. Hall!TickSub(t, last_sample_tick) = SinceSample + d
      BY <1>3, <1>4, <1>5, <2>1 DEF Hall!TickSub, TickSub
    <3> QED BY <1>1, <1>7, <3>1 DEF Hall!HeldAfter
  <2> QED BY <1>3, <2>1, <2>2
<1> QED BY <1>8, <1>9, <1>10, <1>11

\* A turn in which it still feels the same.
LEMMA NoticedOn ==
  ASSUME Sampler!HInv, Sampler!DInv, candidate_position # "UNKNOWN",
         NEW d \in LoopTicks, NEW t, t = TickAdd(now, d), NEW p, Hall!HallPoll(t, Felt(p)),
         NEW raw, raw = Hall!DecodePosition(Felt(p)), NEW seen, NEW gone \in Int, NEW reach \in Int,
         Noticed(candidate_position, held, SinceSample, seen, gone, reach),
         gone >= reach => raw = seen
  PROVE  Noticed(candidate_position', held', TickSub(t, last_sample_tick'), raw, gone + d, reach)
<1> DEFINE since == TickSub(t, last_sample_tick')
<1>1. \/ /\ since = SinceSample + d
         /\ UNCHANGED <<candidate_position, held, stable_position>>
      \/ /\ since = 0 /\ candidate_position' = raw
         /\ candidate_position # raw /\ held' = 0
      \/ /\ since = 0 /\ candidate_position' = raw /\ candidate_position = raw
         /\ held' = IF held + SinceSample + d > Debounce THEN Debounce
                    ELSE held + SinceSample + d
  BY PollTakes
<1>2. /\ d \in Nat \ {0} /\ d <= LongestTurn /\ LongestTurn \in Nat /\ Lags
      /\ SampleLag = SamplePeriod + LongestTurn - 2
      /\ held \in 0 .. Debounce
  BY LoopAssumption, LongestTurnIs, LagsTyped DEF Sampler!HInv, Sampler!HallTypeOK, SampleLag
<1>3. SinceSample \in Nat /\ SinceSample < SamplePeriod
  BY SameClock, TickModAssumption DEF Sampler!DInv, Sampler!Aged, SinceSample, Sampler!HInv,
     Sampler!HallTypeOK, TickSub, Sampler!Tick
<1> HIDE DEF since, SinceSample
<1>4. CASE gone - SinceSample >= reach
  <2>1. candidate_position = raw /\ (held < Debounce => held >= gone - SinceSample - (reach + SampleLag))
    BY <1>2, <1>3, <1>4 DEF Noticed
  <2> QED BY <1>1, <1>2, <1>3, <1>4, <2>1 DEF Noticed, Lags, since
<1>5. CASE ~(gone - SinceSample >= reach)
  BY <1>1, <1>2, <1>3, <1>5 DEF Noticed, Lags, since
<1> QED BY <1>4, <1>5

-----------------------------------------------------------------------------
(* The drum. *)

LEMMA PlacesTyped ==
  /\ Last \in Nat /\ SandEnd \in Nat /\ HomeFrom \in Nat /\ HomeTo \in Nat /\ DumpFrom \in Nat
  /\ SandEnd < HomeFrom /\ HomeFrom <= HomeTo /\ HomeTo < DumpFrom /\ DumpFrom <= Last
BY PlaceAssumption

\* The sensors read the position of a magnet where it is felt, and nowhere else.
LEMMA SeenAt ==
  ASSUME NEW p \in 0 .. Last, NEW m \in Hall!Magnet
  PROVE  Hall!DecodePosition(Felt(p)) = m <=> p \in Zone[m]
<1>1. \A k, n \in Hall!Magnet : p \in Zone[k] /\ p \in Zone[n] => k = n
  BY PlacesTyped DEF Zone, Hall!Magnet
<1>2. ASSUME NEW k \in Hall!Magnet, Felt(p) = {k}
      PROVE  Hall!DecodePosition(Felt(p)) = k
  BY <1>2 DEF Hall!DecodePosition
<1>3. ASSUME p \in Zone[m]
      PROVE  Hall!DecodePosition(Felt(p)) = m
  <2>1. Felt(p) = {m}
    BY <1>1, <1>3 DEF Felt
  <2> QED BY <1>2, <2>1
<1>4. ASSUME Hall!DecodePosition(Felt(p)) = m
      PROVE  p \in Zone[m]
  <2>1. m \notin {"TRANSITION", "INVALID"}
    BY DEF Hall!Magnet
  <2>2. \E k \in Hall!Magnet : Felt(p) = {k}
    BY <1>4, <2>1 DEF Hall!DecodePosition
  <2>3. PICK k \in Hall!Magnet : Felt(p) = {k}
    BY <2>2
  <2>4. k = m /\ k \in Felt(p)
    BY <1>2, <1>4, <2>3
  <2> QED BY <2>4 DEF Felt
<1> QED BY <1>3, <1>4

\* One turn of it.
LEMMA Drives ==
  ASSUME place \in 0 .. Last, NEW d \in Nat
  PROVE  /\ Driven(d) \in 0 .. Last
         /\ pins = Levels.STOP => Driven(d) = place
         /\ pins = Levels.FORWARD =>
              Driven(d) >= place /\ Driven(d) <= place + d
              /\ (Driven(d) = place + d \/ Driven(d) = Last)
         /\ pins = Levels.REVERSE =>
              Driven(d) <= place /\ (Driven(d) = place - d \/ Driven(d) = 0)
<1>1. /\ Levels.STOP = <<0, 0>> /\ Levels.FORWARD = <<0, 1>> /\ Levels.REVERSE = <<1, 0>>
      /\ Levels.STOP # Levels.FORWARD /\ Levels.STOP # Levels.REVERSE
      /\ Levels.FORWARD # Levels.REVERSE
  BY DEF Levels, LOW, HIGH
<1>2. CASE pins = Levels.STOP
  BY <1>1, <1>2 DEF Driven
<1>3. CASE pins = Levels.FORWARD
  BY <1>1, <1>3, PlacesTyped DEF Driven
<1>4. CASE pins = Levels.REVERSE
  BY <1>1, <1>4, PlacesTyped DEF Driven
<1>5. CASE pins \notin {Levels.STOP, Levels.FORWARD, Levels.REVERSE}
  BY <1>1, <1>5 DEF Driven
<1> QED BY <1>2, <1>3, <1>4, <1>5

-----------------------------------------------------------------------------
(* The invariant of the box. *)

Phase(p) == ctx.state = "CLEANING" /\ ctx.clean_phase = p

\* For how long the phase and the run under way have lasted.
Ago == TickSub(now, ctx.phase_started_tick)
RunAgo == TickSub(now, ctx.clean_started_tick)

NoticedSince(gone, reach) ==
  Noticed(candidate_position, held, SinceSample, Seen, gone, reach)

Booted ==
  /\ candidate_position = "UNKNOWN" =>
       last_sample_tick = 0 /\ ctx.state \in {"IDLE", "OCCUPIED", "FAULT"}
  /\ stalled => heartbeat
  /\ place \in 0 .. Last

\* The dump position is not left over from a run before.
DumpIsTrue == stable_position = "POS2_DUMP" => place \in Zone["POS2_DUMP"]

\* A drum that has stood for long enough is known not to be at the dump position, or
\* stands there.
Rested ==
  /\ still \in 0 .. Noticing
  /\ candidate_position = "UNKNOWN" => still = Noticing
  /\ still = Noticing => DumpIsTrue
  /\ still # Noticing => NoticedSince(still, 0)

\* The pins drive the drum the way the phase says, or have been set up under it.
PinsKept ==
  /\ ctx.state # "CLEANING" => pins = Levels.STOP
  /\ ctx.state = "CLEANING" =>
       \/ pins = Levels[PhaseMotor[ctx.clean_phase]]
       \/ pins = Levels.STOP /\ stalled

\* How far a phase has taken the drum.
Travel ==
  /\ Phase("TO_POS2") /\ pins = Levels.FORWARD => place >= Ago \/ place = Last
  /\ Phase("TO_POS3") /\ pins = Levels.REVERSE => place <= Last - Ago \/ place = 0
  /\ Phase("TO_POS1") => place <= HomeTo /\ (pins = Levels.FORWARD => Ago <= place)

\* What has been noticed of it.
Sampling ==
  /\ Phase("TO_POS2") => NoticedSince(Ago, DumpFrom)
  /\ Phase("TO_POS3") => NoticedSince(Ago, Last - SandEnd)
  /\ Phase("TO_POS1") /\ pins = Levels.FORWARD => NoticedSince(place, HomeFrom)

\* A cat that has left opened a window over a drum at rest.
Opened ==
  ctx.state = "LEAVE_CONFIRM" /\ ctx.deadline_tick # 0 =>
    \E gone \in 0 .. LeaveConfirm - 1 :
      /\ ctx.deadline_tick = TickAdd(now, LeaveConfirm - gone)
      /\ still >= gone \/ still = Noticing

\* The phases before the present one have cost the run no more than they may.
OnSchedule ==
  /\ Phase("TO_POS2") => ctx.clean_started_tick = ctx.phase_started_tick
  /\ Phase("TO_POS3") => RunAgo >= Ago /\ RunAgo <= DumpFrom + Noticing + Ago
  /\ Phase("TO_POS1") =>
       RunAgo >= Ago /\ RunAgo <= DumpFrom + Noticing + (Last - SandEnd) + Noticing + Ago

\* Where a left-over dump position can do no harm.
NotStale ==
  /\ ctx.state = "CLEAN_DELAY" => still = Noticing
  /\ Phase("TO_POS2") => DumpIsTrue
  /\ Phase("TO_POS1") => stable_position # "POS2_DUMP"

BoxInv ==
  /\ LoopInv /\ Sampler!HInv /\ Sampler!DInv
  /\ Booted /\ Rested /\ PinsKept /\ Travel /\ Sampling /\ Opened /\ OnSchedule
  /\ NotStale /\ NoFalseTimeout

\* What a turn is made of.
LEMMA TurnFacts ==
  ASSUME BoxInv, NEW occupied \in BOOLEAN, NEW bin_full \in BOOLEAN, NEW d \in LoopTicks,
         TurnOfLoop(occupied, bin_full, d),
         NEW t, t = TickAdd(now, d)
  PROVE  /\ t \in Tick /\ now' = t /\ d \in Nat \ {0} /\ d < TickMod /\ TickSub(t, t) = 0
         /\ StateLeads(ctx, ctx', occupied, stable_position', t)
         /\ place' = Driven(d) /\ place' \in 0 .. Last
         /\ Hall!HallPoll(t, Felt(place'))
         /\ pins' = IF ctx'.motor = "STOP" \/ ctx'.phase_started_tick = t
                    THEN Levels[ctx'.motor] ELSE pins
         /\ stalled' = (stalled /\ ~RunBegins)
         /\ still' = StillAfter(d) /\ heartbeat' = heartbeat /\ prev_occupied' = occupied
         /\ LoopInv' /\ Sampler!HInv' /\ Sampler!DInv'
<1>1. now \in Tick /\ d \in Nat \ {0} /\ d < TickMod
  <2>1. now \in Tick
    BY DEF BoxInv, LoopInv, IInv, TypeOK
  <2>2. d \in Nat \ {0} /\ CleanTotal + d <= TickMod
    BY LoopAssumption
  <2> QED BY <2>1, <2>2, TimingAssumption, TickModAssumption
<1>2. t \in Tick /\ TickSub(t, t) = 0
  BY <1>1, TickAddType, TickSubSame
<1>3. /\ Running(occupied, bin_full, stable_position', t)
      /\ place' = Driven(d) /\ Hall!HallPoll(t, Felt(place'))
      /\ pins' = PinsAfter /\ stalled' = (stalled /\ ~RunBegins) /\ UNCHANGED heartbeat
      /\ still' = StillAfter(d)
  BY DEF TurnOfLoop
<1>4. now' = t /\ prev_occupied' = occupied
  BY <1>3 DEF Running
<1>5. StateLeads(ctx, ctx', occupied, stable_position', t)
  BY <1>2, <1>3, TurnLeads DEF BoxInv
<1>6. place' \in 0 .. Last
  BY <1>1, <1>3, Drives DEF BoxInv, Booted
<1>7. NextBox
  BY DEF NextBox
<1>8. LoopInv'
  BY <1>7, BoxStepsLogic, NextLoop DEF BoxInv
<1>9. Sampler!HInv' /\ Sampler!DInv'
  BY <1>7, BoxStepsHall, SamplerAssumed, Sampler!NextHall, Sampler!NextAged
     DEF BoxInv, Sampler!NextHall, Sampler!NextAged
<1> QED BY <1>1, <1>2, <1>3, <1>4, <1>5, <1>6, <1>8, <1>9 DEF PinsAfter

\* The clocks of a run go on.
LEMMA AgoOn ==
  ASSUME BoxInv, ctx.state = "CLEANING", NEW d \in LoopTicks, NEW t, t = TickAdd(now, d)
  PROVE  /\ Ago \in Nat /\ RunAgo \in Nat
         /\ TickSub(t, ctx.phase_started_tick) = Ago + d
         /\ TickSub(t, ctx.clean_started_tick) = RunAgo + d
<1>1. /\ now \in Tick /\ ctx.phase_started_tick \in Tick /\ ctx.clean_started_tick \in Tick
      /\ ctx.clean_phase \in {"TO_POS2", "TO_POS3", "TO_POS1"}
  BY DEF BoxInv, LoopInv, IInv, TypeOK, Matched, Settled, Sound, FsmCtx, CleanPhase
<1>2. d \in Nat /\ CleanTotal + d <= TickMod
  BY LoopAssumption
<1>3. Ago \in Nat /\ RunAgo \in Nat
  BY <1>1, TickSubType DEF Ago, RunAgo
<1>4. RunAgo < CleanTotal
  BY DEF BoxInv, LoopInv, RunBudget, RunAgo
<1>5. Ago <= RunAgo
  <2>1. CASE ctx.clean_phase = "TO_POS2"
    BY <1>3, <2>1 DEF BoxInv, OnSchedule, Phase, Ago, RunAgo
  <2>2. CASE ctx.clean_phase \in {"TO_POS3", "TO_POS1"}
    BY <2>2 DEF BoxInv, OnSchedule, Phase
  <2> QED BY <1>1, <2>1, <2>2
<1>6. Ago + d < TickMod /\ RunAgo + d < TickMod
  BY <1>2, <1>3, <1>4, <1>5, TimingAssumption, TickModAssumption
<1>7. ASSUME NEW u \in Tick, TickSub(now, u) + d < TickMod
      PROVE  TickSub(t, u) = TickSub(now, u) + d
  <2>1. Sampler!TickSub(Sampler!TickAdd(now, d), u) = Sampler!TickSub(now, u) + d
    BY <1>1, <1>2, <1>7, SamplerAssumed, SameClock, Sampler!TickSubLater
       DEF Sampler!TickSubLater
  <2> QED BY <2>1, SameClock
<1> QED BY <1>1, <1>3, <1>6, <1>7 DEF Ago, RunAgo

\* After every turn there is a sample, and it is a recent one.
LEMMA TurnSamples ==
  ASSUME BoxInv, NEW occupied \in BOOLEAN, NEW bin_full \in BOOLEAN, NEW d \in LoopTicks,
         TurnOfLoop(occupied, bin_full, d)
  PROVE  /\ candidate_position' # "UNKNOWN"
         /\ SinceSample' \in Nat /\ SinceSample' < SamplePeriod /\ held' \in 0 .. Debounce
         /\ held' = Debounce => stable_position' = candidate_position'
         /\ SinceSample' > 0 \/ candidate_position' = Seen'
         /\ stable_position' \in {stable_position, Seen'}
<1> DEFINE t == TickAdd(now, d)
<1>1. now' = t /\ Hall!HallPoll(t, Felt(place')) /\ Sampler!HInv' /\ Sampler!DInv'
  BY TurnFacts
<1>2. Seen' = Hall!DecodePosition(Felt(place')) /\ SinceSample' = TickSub(t, last_sample_tick')
  BY <1>1 DEF Seen, SinceSample
<1>3. Sampler!HInv /\ Sampler!DInv /\ (candidate_position = "UNKNOWN" => last_sample_tick = 0)
  BY DEF BoxInv, Booted
<1>4. /\ SinceSample' \in Nat /\ stable_position' \in {stable_position, Seen'}
      /\ SinceSample' > 0 \/ candidate_position' = Seen'
      /\ candidate_position' # "UNKNOWN"
  BY <1>1, <1>2, <1>3, PollTakes
<1>5. /\ SinceSample' < SamplePeriod
      /\ held' = Debounce => stable_position' = candidate_position'
      /\ held' \in 0 .. Debounce
  BY <1>1, <1>2, <1>4, SameClock DEF Sampler!DInv, Sampler!Aged, Sampler!HInv,
     Sampler!HallTypeOK
<1> QED BY <1>4, <1>5

\* A turn and what has been noticed.
LEMMA TurnNotices ==
  ASSUME BoxInv, NEW occupied \in BOOLEAN, NEW bin_full \in BOOLEAN, NEW d \in LoopTicks,
         TurnOfLoop(occupied, bin_full, d),
         NEW gone \in Int, NEW reach \in Int, candidate_position # "UNKNOWN",
         NoticedSince(gone, reach), gone >= reach => Seen' = Seen
  PROVE  Noticed(candidate_position', held', SinceSample', Seen', gone + d, reach)
<1> DEFINE t == TickAdd(now, d)
<1>1. now' = t /\ Hall!HallPoll(t, Felt(place'))
  BY TurnFacts
<1>2. Seen' = Hall!DecodePosition(Felt(place')) /\ SinceSample' = TickSub(t, last_sample_tick')
  BY <1>1 DEF Seen, SinceSample
<1>3. Sampler!HInv /\ Sampler!DInv
  BY DEF BoxInv
<1> QED BY <1>1, <1>2, <1>3, NoticedOn DEF NoticedSince

\* Nothing has been noticed yet of what has just begun.
LEMMA TurnBegins ==
  ASSUME BoxInv, NEW occupied \in BOOLEAN, NEW bin_full \in BOOLEAN, NEW d \in LoopTicks,
         TurnOfLoop(occupied, bin_full, d),
         NEW reach \in Nat
  PROVE  Noticed(candidate_position', held', SinceSample', Seen', 0, reach)
BY TurnSamples, NoticedFresh

\* Time enough to know, before a turn and after it.
Late(gone, reach) == gone >= reach + Debounce + SampleLag + SamplePeriod - 1

LEMMA KnownLate ==
  ASSUME BoxInv, candidate_position # "UNKNOWN", NEW gone \in Int, NEW reach \in Int,
         NoticedSince(gone, reach), Late(gone, reach)
  PROVE  stable_position = Seen
<1>1. /\ SinceSample \in Nat /\ SinceSample < SamplePeriod /\ held \in 0 .. Debounce
      /\ held = Debounce => stable_position = candidate_position
  BY SameClock, TickModAssumption, TickSubType DEF BoxInv, Sampler!DInv, Sampler!Aged,
     Sampler!HInv, Sampler!HallTypeOK, SinceSample, Sampler!Tick, Tick
<1> QED BY <1>1, NoticedLate DEF NoticedSince, Late

LEMMA TurnKnowsLate ==
  ASSUME BoxInv, NEW occupied \in BOOLEAN, NEW bin_full \in BOOLEAN, NEW d \in LoopTicks,
         TurnOfLoop(occupied, bin_full, d),
         NEW gone \in Int, NEW reach \in Int, Late(gone, reach),
         Noticed(candidate_position', held', SinceSample', Seen', gone, reach)
  PROVE  stable_position' = Seen'
BY TurnSamples, NoticedLate DEF Late

\* What Late leaves until it is known for sure: a turn later at the latest.
LEMMA LateIs ==
  ASSUME NEW gone \in Int, NEW reach \in Int, NEW d \in LoopTicks
  PROVE  /\ gone >= reach + Noticing => Late(gone, reach)
         /\ ~Late(gone, reach) => gone + d <= reach + Noticing
         /\ d <= Noticing /\ Noticing \in Nat
<1>1. /\ d \in Nat /\ d <= LongestTurn /\ LongestTurn \in Nat \ {0} /\ Lags
      /\ SampleLag = SamplePeriod + LongestTurn - 2
      /\ Noticing = Debounce + 2 * SampleLag
  BY LoopAssumption, LongestTurnIs, LagsTyped DEF SampleLag
<1> QED BY <1>1 DEF Late, Lags

\* How long the drum has stood, and what is known of it then.
LEMMA TurnRests ==
  ASSUME BoxInv, NEW occupied \in BOOLEAN, NEW bin_full \in BOOLEAN, NEW d \in LoopTicks,
         TurnOfLoop(occupied, bin_full, d)
  PROVE  /\ Rested'
         /\ place' = place =>
              /\ still = Noticing => still' = Noticing
              /\ still' = Noticing \/ still' = still + d
<1>1. /\ d \in Nat \ {0} /\ d <= Noticing /\ Noticing \in Nat /\ place' \in 0 .. Last
      /\ still' = StillAfter(d) /\ still \in 0 .. Noticing
      /\ candidate_position = "UNKNOWN" => still = Noticing
      /\ candidate_position' # "UNKNOWN" /\ stable_position' \in {stable_position, Seen'}
  BY TurnFacts, TurnSamples, LateIs DEF BoxInv, Rested
<1>2. stable_position' = Seen' => DumpIsTrue'
  BY <1>1, SeenAt DEF DumpIsTrue, Seen, Hall!Magnet
<1>3. CASE place' # place
  <2>1. still' = 0 /\ 0 # Noticing
    BY <1>1, <1>3 DEF StillAfter
  <2>2. Noticed(candidate_position', held', SinceSample', Seen', 0, 0)
    BY TurnBegins
  <2> QED BY <1>1, <1>3, <2>1, <2>2 DEF Rested, NoticedSince
<1>4. CASE place' = place
  <2>1. /\ still' \in 0 .. Noticing
        /\ still = Noticing => still' = Noticing
        /\ still' = Noticing \/ still' = still + d
        /\ still' = Noticing => still + d >= Noticing
    BY <1>1, <1>4 DEF StillAfter
  <2>2. CASE still = Noticing
    <3>1. DumpIsTrue
      BY <2>2 DEF BoxInv, Rested
    <3>2. DumpIsTrue'
      BY <1>1, <1>2, <1>4, <3>1 DEF DumpIsTrue
    <3> QED BY <1>1, <2>1, <2>2, <3>2 DEF Rested
  <2>3. CASE still # Noticing
    <3>1. NoticedSince(still, 0) /\ candidate_position # "UNKNOWN"
      BY <1>1, <2>3 DEF BoxInv, Rested
    <3>2. Seen' = Seen
      BY <1>4 DEF Seen
    <3>3. Noticed(candidate_position', held', SinceSample', Seen', still + d, 0)
      BY <1>1, <3>1, <3>2, TurnNotices
    <3>4. still' = Noticing => DumpIsTrue'
      <4>1. SUFFICES ASSUME still' = Noticing PROVE stable_position' = Seen'
        BY <1>2
      <4>2. Late(still + d, 0) /\ still + d \in Int
        BY <1>1, <2>1, <4>1, LateIs
      <4> QED BY <3>3, <4>2, TurnKnowsLate
    <3>5. still' # Noticing => NoticedSince(still, 0)'
      BY <2>1, <3>3 DEF NoticedSince
    <3> QED BY <1>1, <2>1, <3>4, <3>5 DEF Rested
  <2> QED BY <2>1, <2>2, <2>3
<1> QED BY <1>3, <1>4

-----------------------------------------------------------------------------
(* The phases of a run, from one turn to the next. *)

\* On the way to the dump position.
LEMMA TurnToDump ==
  ASSUME BoxInv, Phase("TO_POS2"),
         NEW occupied \in BOOLEAN, NEW bin_full \in BOOLEAN, NEW d \in LoopTicks,
         TurnOfLoop(occupied, bin_full, d)
  PROVE  /\ Noticed(candidate_position', held', SinceSample', Seen', Ago + d, DumpFrom)
         /\ pins = Levels.FORWARD => place' >= Ago + d \/ place' = Last
         /\ stable_position' = "POS2_DUMP" =>
              place' \in Zone["POS2_DUMP"] /\ Ago + d <= DumpFrom + Noticing
         /\ pins = Levels.FORWARD /\ Ago + d > DumpFrom + Noticing =>
              stable_position' = "POS2_DUMP"
<1>1. /\ place \in 0 .. Last /\ place' \in 0 .. Last /\ place' = Driven(d) /\ d \in Nat
      /\ Ago \in Nat
  BY TurnFacts, AgoOn DEF BoxInv, Booted, Phase
<1>2. candidate_position # "UNKNOWN"
  BY DEF BoxInv, Booted, Phase
<1>3. pins \in {Levels.STOP, Levels.FORWARD}
  BY DEF BoxInv, PinsKept, Phase, PhaseMotor
<1>4. pins = Levels.FORWARD => place >= Ago \/ place = Last
  BY DEF BoxInv, Travel
<1>5. pins = Levels.FORWARD => place' >= Ago + d \/ place' = Last
  BY <1>1, <1>4, Drives, PlacesTyped
<1>6. \A p \in 0 .. Last : Hall!DecodePosition(Felt(p)) = "POS2_DUMP" <=> p >= DumpFrom
  BY SeenAt, PlacesTyped DEF Zone, Hall!Magnet
<1>7. Seen' = Hall!DecodePosition(Felt(place'))
  BY DEF Seen
<1>8. ASSUME Ago >= DumpFrom
      PROVE  Seen' = Seen
  <2>1. CASE pins = Levels.STOP
    BY <1>1, <1>7, <2>1, Drives DEF Seen
  <2>2. CASE pins = Levels.FORWARD
    <3>1. place >= DumpFrom /\ place' >= DumpFrom
      BY <1>1, <1>4, <1>5, <1>8, <2>2, PlacesTyped
    <3> QED BY <1>1, <1>6, <1>7, <3>1 DEF Seen
  <2> QED BY <1>3, <2>1, <2>2
<1>9. Noticed(candidate_position', held', SinceSample', Seen', Ago + d, DumpFrom)
  <2>1. NoticedSince(Ago, DumpFrom)
    BY DEF BoxInv, Sampling
  <2> QED BY <1>1, <1>2, <1>8, <2>1, TurnNotices, PlacesTyped
<1>10. stable_position' \in {stable_position, Seen'}
  BY TurnSamples
<1>11. Noticing \in Nat /\ DumpFrom \in Nat
  BY LateIs, PlacesTyped
<1>12. ASSUME stable_position = "POS2_DUMP"
       PROVE  place' \in Zone["POS2_DUMP"] /\ Ago + d <= DumpFrom + Noticing
  <2>1. place \in Zone["POS2_DUMP"]
    BY <1>12 DEF BoxInv, NotStale, DumpIsTrue
  <2>2. place' >= place
    BY <1>1, <1>3, Drives
  <2>3. Ago = 0
    <3>1. ctx.phase_started_tick = now /\ now \in Tick
      BY <1>12 DEF BoxInv, LoopInv, ArrivalConsumed, OnSchedule, Phase, TargetPosition, IInv,
         TypeOK
    <3> QED BY <3>1, TickSubSame DEF Ago
  <2> QED BY <1>1, <1>11, <2>1, <2>2, <2>3, LateIs, PlacesTyped DEF Zone
<1>13. ASSUME stable_position # "POS2_DUMP", Seen' = "POS2_DUMP"
       PROVE  place' \in Zone["POS2_DUMP"] /\ Ago + d <= DumpFrom + Noticing
  <2>1. place' \in Zone["POS2_DUMP"]
    <3>1. Hall!DecodePosition(Felt(place')) = "POS2_DUMP"
      BY <1>7, <1>13
    <3>2. place' >= DumpFrom
      BY <1>1, <1>6, <3>1
    <3> QED BY <1>1, <3>2, PlacesTyped DEF Zone
  <2>2. ~Late(Ago, DumpFrom)
    <3>1. SUFFICES ASSUME Late(Ago, DumpFrom) PROVE FALSE
      OBVIOUS
    <3>2. stable_position = Seen
      <4>1. NoticedSince(Ago, DumpFrom)
        BY DEF BoxInv, Sampling
      <4> QED BY <1>1, <1>2, <1>11, <3>1, <4>1, KnownLate
    <3>3. Ago >= DumpFrom
      BY <1>1, <1>11, <3>1, LagsTyped DEF Late, Lags
    <3> QED BY <1>8, <1>13, <3>2, <3>3
  <2>3. Ago + d <= DumpFrom + Noticing
    BY <1>1, <1>11, <2>2, LateIs
  <2> QED BY <2>1, <2>3
<1>14. ASSUME pins = Levels.FORWARD, Ago + d > DumpFrom + Noticing
       PROVE  stable_position' = "POS2_DUMP"
  <2>1. Late(Ago + d, DumpFrom)
    BY <1>1, <1>11, <1>14, LateIs
  <2>2. stable_position' = Seen'
    BY <1>1, <1>9, <1>11, <2>1, TurnKnowsLate
  <2>3. place' >= DumpFrom
    BY <1>1, <1>5, <1>11, <1>14, PlacesTyped
  <2> QED BY <1>1, <1>6, <1>7, <2>2, <2>3
<1> QED BY <1>5, <1>9, <1>10, <1>12, <1>13, <1>14

\* On the way to the sand-return position.
LEMMA TurnToSand ==
  ASSUME BoxInv, Phase("TO_POS3"),
         NEW occupied \in BOOLEAN, NEW bin_full \in BOOLEAN, NEW d \in LoopTicks,
         TurnOfLoop(occupied, bin_full, d), NEW way, way = Last - SandEnd
  PROVE  /\ Noticed(candidate_position', held', SinceSample', Seen', Ago + d, way)
         /\ pins = Levels.REVERSE => place' <= Last - (Ago + d) \/ place' = 0
         /\ stable_position' = "POS3_SAND_RETURN" =>
              place' \in Zone["POS3_SAND_RETURN"] /\ Ago + d <= way + Noticing
         /\ pins = Levels.REVERSE /\ Ago + d > way + Noticing =>
              stable_position' = "POS3_SAND_RETURN"
         /\ Ago + d > way + Noticing => stable_position' = Seen'
<1>1. /\ place \in 0 .. Last /\ place' \in 0 .. Last /\ place' = Driven(d) /\ d \in Nat
      /\ Ago \in Nat
  BY TurnFacts, AgoOn DEF BoxInv, Booted, Phase
<1>2. candidate_position # "UNKNOWN"
  BY DEF BoxInv, Booted, Phase
<1>3. pins \in {Levels.STOP, Levels.REVERSE}
  BY DEF BoxInv, PinsKept, Phase, PhaseMotor
<1>4. pins = Levels.REVERSE => place <= Last - Ago \/ place = 0
  BY DEF BoxInv, Travel
<1>5. pins = Levels.REVERSE => place' <= Last - (Ago + d) \/ place' = 0
  BY <1>1, <1>4, Drives, PlacesTyped
<1>6. \A p \in 0 .. Last : Hall!DecodePosition(Felt(p)) = "POS3_SAND_RETURN" <=> p <= SandEnd
  BY SeenAt, PlacesTyped DEF Zone, Hall!Magnet
<1>7. Seen' = Hall!DecodePosition(Felt(place'))
  BY DEF Seen
<1>8. ASSUME Ago >= way
      PROVE  Seen' = Seen
  <2>1. CASE pins = Levels.STOP
    BY <1>1, <1>7, <2>1, Drives DEF Seen
  <2>2. CASE pins = Levels.REVERSE
    <3>1. place <= SandEnd /\ place' <= SandEnd
      BY <1>1, <1>4, <1>5, <1>8, <2>2, PlacesTyped
    <3> QED BY <1>1, <1>6, <1>7, <3>1 DEF Seen
  <2> QED BY <1>3, <2>1, <2>2
<1>9. Noticing \in Nat /\ way \in Nat
  BY LateIs, PlacesTyped
<1>10. Noticed(candidate_position', held', SinceSample', Seen', Ago + d, way)
  <2>1. NoticedSince(Ago, way)
    BY DEF BoxInv, Sampling
  <2> QED BY <1>1, <1>2, <1>8, <1>9, <2>1, TurnNotices
<1>11. ASSUME stable_position' = "POS3_SAND_RETURN"
       PROVE  place' \in Zone["POS3_SAND_RETURN"] /\ Ago + d <= way + Noticing
  <2>1. stable_position # "POS3_SAND_RETURN"
    BY DEF BoxInv, LoopInv, ArrivalConsumed, Phase, TargetPosition
  <2>2. Seen' = "POS3_SAND_RETURN"
    BY <1>11, <2>1, TurnSamples
  <2>3. place' \in Zone["POS3_SAND_RETURN"]
    <3>1. Hall!DecodePosition(Felt(place')) = "POS3_SAND_RETURN"
      BY <1>7, <2>2
    <3>2. place' <= SandEnd
      BY <1>1, <1>6, <3>1
    <3> QED BY <1>1, <3>2, PlacesTyped DEF Zone
  <2>4. ~Late(Ago, way)
    <3>1. SUFFICES ASSUME Late(Ago, way) PROVE FALSE
      OBVIOUS
    <3>2. stable_position = Seen
      <4>1. NoticedSince(Ago, way)
        BY DEF BoxInv, Sampling
      <4> QED BY <1>1, <1>2, <1>9, <3>1, <4>1, KnownLate
    <3>3. Ago >= way
      BY <1>1, <1>9, <3>1, LagsTyped DEF Late, Lags
    <3> QED BY <1>8, <2>1, <2>2, <3>2, <3>3
  <2> QED BY <1>1, <1>9, <2>3, <2>4, LateIs
<1>12. ASSUME Ago + d > way + Noticing
       PROVE  /\ stable_position' = Seen'
              /\ pins = Levels.REVERSE => stable_position' = "POS3_SAND_RETURN"
  <2>1. Late(Ago + d, way)
    BY <1>1, <1>9, <1>12, LateIs
  <2>2. stable_position' = Seen'
    BY <1>1, <1>9, <1>10, <2>1, TurnKnowsLate
  <2>3. pins = Levels.REVERSE => place' <= SandEnd
    BY <1>1, <1>5, <1>9, <1>12, PlacesTyped
  <2> QED BY <1>1, <1>6, <1>7, <2>2, <2>3
<1> QED BY <1>5, <1>10, <1>11, <1>12

\* On the way home.
LEMMA TurnToHome ==
  ASSUME BoxInv, Phase("TO_POS1"),
         NEW occupied \in BOOLEAN, NEW bin_full \in BOOLEAN, NEW d \in LoopTicks,
         TurnOfLoop(occupied, bin_full, d)
  PROVE  /\ place' <= HomeTo
         /\ pins = Levels.FORWARD =>
              /\ Ago + d <= place' /\ Ago + d <= HomeFrom + Noticing
              /\ Noticed(candidate_position', held', SinceSample', Seen', place', HomeFrom)
         /\ stable_position' = "POS1_HOME" => place' \in Zone["POS1_HOME"]
         /\ stable_position' # "POS2_DUMP"
<1>1. /\ place \in 0 .. Last /\ place' \in 0 .. Last /\ place' = Driven(d) /\ d \in Nat
      /\ Ago \in Nat /\ Noticing \in Nat
  BY TurnFacts, AgoOn, LateIs DEF BoxInv, Booted, Phase
<1>2. candidate_position # "UNKNOWN"
  BY DEF BoxInv, Booted, Phase
<1>3. pins \in {Levels.STOP, Levels.FORWARD}
  BY DEF BoxInv, PinsKept, Phase, PhaseMotor
<1>4. place <= HomeTo /\ (pins = Levels.FORWARD => Ago <= place)
  BY DEF BoxInv, Travel
<1>5. \A p \in 0 .. Last :
        /\ Hall!DecodePosition(Felt(p)) = "POS1_HOME" <=> p \in HomeFrom .. HomeTo
        /\ Hall!DecodePosition(Felt(p)) = "POS2_DUMP" <=> p >= DumpFrom
  BY SeenAt, PlacesTyped DEF Zone, Hall!Magnet
<1>6. Seen' = Hall!DecodePosition(Felt(place'))
  BY DEF Seen
<1>7. stable_position \notin {"POS1_HOME", "POS2_DUMP"}
  BY DEF BoxInv, LoopInv, ArrivalConsumed, NotStale, Phase, TargetPosition
<1>8. ASSUME pins = Levels.FORWARD
      PROVE  /\ place' = place + d /\ place' <= HomeFrom + Noticing
             /\ Noticed(candidate_position', held', SinceSample', Seen', place', HomeFrom)
  <2>1. NoticedSince(place, HomeFrom)
    BY <1>8 DEF BoxInv, Sampling
  <2>2. ~Late(place, HomeFrom)
    <3>1. SUFFICES ASSUME Late(place, HomeFrom) PROVE FALSE
      OBVIOUS
    <3>2. stable_position = Seen
      BY <1>1, <1>2, <2>1, <3>1, KnownLate, PlacesTyped
    <3>3. place >= HomeFrom
      BY <1>1, <3>1, LagsTyped, PlacesTyped DEF Late, Lags
    <3> QED BY <1>1, <1>4, <1>5, <1>7, <3>2, <3>3, PlacesTyped DEF Seen
  <2>3. place + d <= HomeFrom + Noticing
    BY <1>1, <2>2, LateIs, PlacesTyped
  <2>4. HomeFrom + Noticing <= HomeTo
    BY DrumAssumption
  <2>5. place' = place + d
    BY <1>1, <1>8, <2>3, <2>4, Drives, PlacesTyped
  <2>6. place >= HomeFrom => Seen' = Seen
    BY <1>1, <1>4, <1>5, <1>6, <2>3, <2>4, <2>5, PlacesTyped DEF Seen
  <2>7. Noticed(candidate_position', held', SinceSample', Seen', place + d, HomeFrom)
    BY <1>1, <1>2, <2>1, <2>6, TurnNotices, PlacesTyped
  <2> QED BY <2>3, <2>5, <2>7
<1>9. place' <= HomeTo
  <2>1. HomeFrom + Noticing <= HomeTo
    BY DrumAssumption
  <2> QED BY <1>1, <1>3, <1>4, <1>8, <2>1, Drives, PlacesTyped
<1>10. stable_position' \in {stable_position, Seen'}
  BY TurnSamples
<1>11. Seen' # "POS2_DUMP"
  BY <1>1, <1>5, <1>6, <1>9, PlacesTyped
<1>12. stable_position' = "POS1_HOME" => place' \in Zone["POS1_HOME"]
  BY <1>1, <1>5, <1>6, <1>7, <1>10 DEF Zone
<1> QED BY <1>1, <1>4, <1>7, <1>8, <1>9, <1>10, <1>11, <1>12, PlacesTyped

-----------------------------------------------------------------------------
(* A turn keeps the invariant. *)

\* The budgets are longer than the ways.
LEMMA BudgetsFit ==
  /\ Noticing \in Nat
  /\ DumpFrom + Noticing < PhaseTimeout["TO_POS2"]
  /\ (Last - SandEnd) + Noticing < PhaseTimeout["TO_POS3"]
  /\ HomeFrom + Noticing < PhaseTimeout["TO_POS1"]
  /\ DumpFrom + (Last - SandEnd) + HomeFrom + 3 * Noticing < CleanTotal
<1>1. Noticing \in Nat
  BY LagsTyped DEF Lags
<1>2. \A p \in {"TO_POS2", "TO_POS3", "TO_POS1"} : WayTo[p] + Noticing < PhaseTimeout[p]
  BY DrumAssumption DEF CleanPhase
<1>3. /\ WayTo["TO_POS2"] = DumpFrom /\ WayTo["TO_POS3"] = Last - SandEnd
      /\ WayTo["TO_POS1"] = HomeFrom
  BY DEF WayTo
<1>4. WayTo.TO_POS2 + WayTo.TO_POS3 + WayTo.TO_POS1 + 3 * Noticing < CleanTotal
  BY DrumAssumption
<1> QED BY <1>1, <1>2, <1>3, <1>4

LEMMA TurnBooted ==
  ASSUME BoxInv, NEW occupied \in BOOLEAN, NEW bin_full \in BOOLEAN, NEW d \in LoopTicks,
         TurnOfLoop(occupied, bin_full, d)
  PROVE  Booted'
<1>1. stalled => heartbeat
  BY DEF BoxInv, Booted
<1> QED BY <1>1, TurnFacts, TurnSamples DEF Booted

\* The same phase goes on.
LEMMA TurnGoesOn ==
  ASSUME BoxInv, ctx.state = "CLEANING",
         NEW occupied \in BOOLEAN, NEW bin_full \in BOOLEAN, NEW d \in LoopTicks,
         TurnOfLoop(occupied, bin_full, d), SamePhase(ctx, ctx')
  PROVE  /\ \A p : Phase(p)' <=> Phase(p)
         /\ pins' = pins /\ (stalled' <=> stalled)
         /\ Ago' = Ago + d /\ RunAgo' = RunAgo + d
<1> DEFINE t == TickAdd(now, d)
<1>1. /\ now' = t /\ d \in Nat \ {0} /\ TickSub(t, t) = 0
      /\ pins' = IF ctx'.motor = "STOP" \/ ctx'.phase_started_tick = t
                 THEN Levels[ctx'.motor] ELSE pins
      /\ stalled' = (stalled /\ ~RunBegins) /\ LoopInv'
  BY TurnFacts
<1>2. /\ Ago \in Nat
      /\ TickSub(t, ctx.phase_started_tick) = Ago + d
      /\ TickSub(t, ctx.clean_started_tick) = RunAgo + d
  BY AgoOn
<1> HIDE DEF t
<1>3. /\ ctx'.state = "CLEANING" /\ ctx'.clean_phase = ctx.clean_phase
      /\ ctx'.clean_started_tick = ctx.clean_started_tick
      /\ ctx'.phase_started_tick = ctx.phase_started_tick
  BY DEF SamePhase
<1>4. ctx'.phase_started_tick # t
  BY <1>1, <1>2, <1>3
<1>5. ctx'.motor # "STOP"
  <2>1. ctx'.motor = PhaseMotor[ctx'.clean_phase]
        /\ ctx'.clean_phase \in {"TO_POS2", "TO_POS3", "TO_POS1"}
    BY <1>1, <1>3 DEF LoopInv, IInv, Matched, Settled, Sound, FsmCtx, CleanPhase
  <2> QED BY <2>1 DEF PhaseMotor
<1> QED BY <1>1, <1>2, <1>3, <1>4, <1>5 DEF Phase, RunBegins, Ago, RunAgo

\* A phase starts.
LEMMA TurnStarts ==
  ASSUME BoxInv, NEW occupied \in BOOLEAN, NEW bin_full \in BOOLEAN, NEW d \in LoopTicks,
         TurnOfLoop(occupied, bin_full, d),
         ctx'.state = "CLEANING", ctx'.phase_started_tick = TickAdd(now, d)
  PROVE  /\ pins' = Levels[PhaseMotor[ctx'.clean_phase]]
         /\ Ago' = 0
<1> DEFINE t == TickAdd(now, d)
<1>1. /\ now' = t /\ TickSub(t, t) = 0
      /\ pins' = IF ctx'.motor = "STOP" \/ ctx'.phase_started_tick = t
                 THEN Levels[ctx'.motor] ELSE pins
      /\ LoopInv'
  BY TurnFacts
<1>2. ctx'.motor = PhaseMotor[ctx'.clean_phase]
  BY <1>1 DEF LoopInv, IInv, Matched, Settled, Sound
<1> QED BY <1>1, <1>2 DEF Ago

\* The pins follow.
LEMMA TurnPins ==
  ASSUME BoxInv, NEW occupied \in BOOLEAN, NEW bin_full \in BOOLEAN, NEW d \in LoopTicks,
         TurnOfLoop(occupied, bin_full, d)
  PROVE  PinsKept'
<1> DEFINE t == TickAdd(now, d)
<1>1. /\ StateLeads(ctx, ctx', occupied, stable_position', t) /\ LoopInv'
      /\ pins' = IF ctx'.motor = "STOP" \/ ctx'.phase_started_tick = t
                 THEN Levels[ctx'.motor] ELSE pins
  BY TurnFacts
<1> HIDE DEF t
<1>2. ctx.state \in FsmState
  BY DEF BoxInv, LoopInv, IInv, TypeOK, FsmCtx
<1>3. CASE ctx'.state # "CLEANING"
  <2>1. ctx'.motor = "STOP"
    BY <1>1, <1>3 DEF LoopInv, IInv, Matched, Settled, Sound, PhaseMotor
  <2> QED BY <1>1, <1>3, <2>1 DEF PinsKept
<1>4. CASE ctx'.state = "CLEANING" /\ ctx'.phase_started_tick = t
  BY <1>4, TurnStarts DEF PinsKept, t
<1>5. CASE ctx'.state = "CLEANING" /\ ctx'.phase_started_tick # t
  <2>1. ctx.state = "CLEANING" /\ SamePhase(ctx, ctx')
    BY <1>1, <1>2, <1>5 DEF StateLeads, RoomLeads, Begins, OpensAt, RunLeads, NextPhase,
       FsmState
  <2>2. pins' = pins /\ (stalled' <=> stalled) /\ ctx'.clean_phase = ctx.clean_phase
    BY <2>1, TurnGoesOn DEF SamePhase
  <2>3. pins = Levels[PhaseMotor[ctx.clean_phase]] \/ (pins = Levels.STOP /\ stalled)
    BY <2>1 DEF BoxInv, PinsKept
  <2> QED BY <1>5, <2>2, <2>3 DEF PinsKept
<1> QED BY <1>3, <1>4, <1>5

\* Between runs there is nothing to keep but the window, the position and the fault.
LEMMA RestKeeps ==
  ASSUME ctx'.state # "CLEANING"
  PROVE  (Travel /\ Sampling /\ OnSchedule)'
BY DEF Travel, Sampling, OnSchedule, Phase

\* A drum at rest stays where it is, until that is known.
LEMMA TurnAtRest ==
  ASSUME BoxInv, ctx.state # "CLEANING",
         NEW occupied \in BOOLEAN, NEW bin_full \in BOOLEAN, NEW d \in LoopTicks,
         TurnOfLoop(occupied, bin_full, d)
  PROVE  /\ still = Noticing => still' = Noticing
         /\ still' = Noticing \/ still' = still + d
         /\ still' = Noticing => DumpIsTrue'
<1>1. place' = Driven(d) /\ d \in Nat /\ place \in 0 .. Last /\ pins = Levels.STOP
  BY TurnFacts DEF BoxInv, Booted, PinsKept
<1>2. place' = place
  BY <1>1, Drives
<1> QED BY <1>2, TurnRests DEF Rested

\* The iteration begins a run.
LEMMA RunStarts ==
  ASSUME BoxInv, ctx.state \in {"IDLE", "CLEAN_DELAY"},
         NEW occupied \in BOOLEAN, NEW bin_full \in BOOLEAN, NEW d \in LoopTicks,
         TurnOfLoop(occupied, bin_full, d),
         Begins(ctx', stable_position', TickAdd(now, d)),
         \/ ctx.state = "CLEAN_DELAY"
         \/ ctx'.clean_phase = "TO_POS2" => stable_position' # "POS2_DUMP"
  PROVE  (Travel /\ Sampling /\ Opened /\ OnSchedule /\ NotStale /\ NoFalseTimeout)'
<1> DEFINE t == TickAdd(now, d)
<1>1. /\ ctx'.state = "CLEANING" /\ ctx'.clean_started_tick = t /\ ctx'.phase_started_tick = t
      /\ ctx'.clean_phase \in {"TO_POS2", "TO_POS3"}
  BY DEF Begins
<1>2. Ago' = 0 /\ RunAgo' = 0 /\ place' \in 0 .. Last /\ d \in Nat
  <2>1. now' = t /\ TickSub(t, t) = 0
    BY TurnFacts
  <2> QED BY <1>1, <2>1, TurnFacts DEF Ago, RunAgo
<1>3. ctx'.clean_phase = "TO_POS2" => DumpIsTrue'
  <2>1. CASE ctx.state = "CLEAN_DELAY"
    BY <2>1, TurnAtRest DEF BoxInv, NotStale
  <2>2. CASE ctx'.clean_phase = "TO_POS2" => stable_position' # "POS2_DUMP"
    BY <2>2 DEF DumpIsTrue
  <2> QED BY <2>1, <2>2
<1> HIDE DEF t
<1>4. Travel'
  BY <1>1, <1>2, PlacesTyped DEF Travel, Phase
<1>5. Sampling'
  <2>1. DumpFrom \in Nat /\ Last - SandEnd \in Nat
    BY PlacesTyped
  <2>2. \A reach \in Nat : Noticed(candidate_position', held', SinceSample', Seen', 0, reach)
    BY TurnBegins
  <2> QED BY <1>1, <1>2, <2>1, <2>2 DEF Sampling, Phase, NoticedSince
<1>6. OnSchedule'
  BY <1>1, <1>2, BudgetsFit, PlacesTyped DEF OnSchedule, Phase
<1>7. NotStale'
  BY <1>1, <1>3 DEF NotStale, Phase
<1> QED BY <1>1, <1>4, <1>5, <1>6, <1>7 DEF Opened, NoFalseTimeout

\* A cat leaves: the confirm window opens.
LEMMA WindowOpens ==
  ASSUME BoxInv, NEW occupied \in BOOLEAN, NEW bin_full \in BOOLEAN, NEW d \in LoopTicks,
         TurnOfLoop(occupied, bin_full, d),
         OpensAt(ctx', TickAdd(now, d))
  PROVE  (Travel /\ Sampling /\ Opened /\ OnSchedule /\ NotStale /\ NoFalseTimeout)'
<1>1. /\ ctx'.state = "LEAVE_CONFIRM" /\ now' = TickAdd(now, d)
      /\ ctx'.deadline_tick = TickAdd(now', LeaveConfirm)
  BY TurnFacts DEF OpensAt
<1>2. Opened'
  <2>1. 0 \in 0 .. LeaveConfirm - 1 /\ LeaveConfirm - 0 = LeaveConfirm
    BY TimingAssumption
  <2>2. still' >= 0
    BY TurnRests, BudgetsFit DEF Rested
  <2> QED BY <1>1, <2>1, <2>2 DEF Opened
<1> QED BY <1>1, <1>2, RestKeeps DEF NotStale, NoFalseTimeout, Phase

\* The window is open: it closes only when the drum has been at rest for long enough to
\* know where it stands.
LEMMA TurnInWindow ==
  ASSUME BoxInv, ctx.state = "LEAVE_CONFIRM",
         NEW occupied \in BOOLEAN, NEW bin_full \in BOOLEAN, NEW d \in LoopTicks,
         TurnOfLoop(occupied, bin_full, d),
         RoomLeads(ctx, ctx', occupied, stable_position', TickAdd(now, d))
  PROVE  (Travel /\ Sampling /\ Opened /\ OnSchedule /\ NotStale /\ NoFalseTimeout)'
<1> DEFINE t == TickAdd(now, d)
<1>1. /\ now' = t /\ d \in Nat \ {0}
      /\ RoomLeads(ctx, ctx', occupied, stable_position', t)
  BY TurnFacts
<1>2. /\ now \in Tick /\ still \in Nat
      /\ still = Noticing => still' = Noticing
      /\ still' = Noticing \/ still' = still + d
      /\ still' \in 0 .. Noticing
  BY TurnAtRest, TurnRests DEF BoxInv, Rested, LoopInv, IInv, TypeOK
<1>3. /\ LeaveConfirm \in Nat \ {0} /\ LeaveConfirm < TickMod /\ 2 * LeaveConfirm < TickMod
      /\ Noticing \in Nat /\ Noticing <= LeaveConfirm
  BY TimingAssumption, DrumAssumption, BudgetsFit, TickModAssumption
<1>4. ASSUME NEW gone \in 0 .. LeaveConfirm - 1, still >= gone \/ still = Noticing
      PROVE  still' >= gone + d \/ still' = Noticing
  BY <1>1, <1>2, <1>4
<1>5. CASE ctx'.state = "OCCUPIED"
  BY <1>5, RestKeeps DEF Opened, NotStale, NoFalseTimeout, Phase
<1>6. CASE ctx'.state = "CLEAN_DELAY" /\ DeadlineExpired(t, ctx.deadline_tick)
  <2>1. PICK gone \in 0 .. LeaveConfirm - 1 :
          /\ ctx.deadline_tick = TickAdd(now, LeaveConfirm - gone)
          /\ still >= gone \/ still = Noticing
    BY <1>6 DEF BoxInv, Opened, DeadlineExpired
  <2>2. gone + d >= LeaveConfirm
    <3>1. Waits(LeaveConfirm, LeaveConfirm, ctx.deadline_tick, now, gone)
      <4>1. LeaveConfirm - gone \in 1 .. LeaveConfirm /\ gone + (LeaveConfirm - gone) >= LeaveConfirm
        BY <1>3
      <4> QED BY <2>1, <4>1 DEF Waits
    <3>2. gone + d \in Nat /\ gone \in Nat /\ d \in Nat /\ LeaveConfirm \in Nat
      BY <1>1, <1>3
    <3>3. Waits(LeaveConfirm, LeaveConfirm, ctx.deadline_tick, t, gone + d)
      BY <1>2, <1>3, <3>1, <3>2, WaitsOn
    <3>4. t \in Tick
      BY <1>2, <3>2, TickAddType
    <3> QED BY <1>3, <1>6, <3>2, <3>3, <3>4, WaitsNotOver
  <2>3. still' = Noticing
    BY <1>1, <1>2, <1>3, <1>4, <2>1, <2>2
  <2> QED BY <1>6, <2>3, RestKeeps DEF Opened, NotStale, NoFalseTimeout, Phase
<1>7. CASE /\ ctx'.state = "LEAVE_CONFIRM" /\ ctx'.deadline_tick = ctx.deadline_tick
           /\ ~DeadlineExpired(t, ctx.deadline_tick)
  <2>1. ASSUME ctx.deadline_tick # 0
        PROVE  \E gone \in 0 .. LeaveConfirm - 1 :
                 /\ ctx.deadline_tick = TickAdd(t, LeaveConfirm - gone)
                 /\ still' >= gone \/ still' = Noticing
    <3>1. PICK gone \in 0 .. LeaveConfirm - 1 :
            /\ ctx.deadline_tick = TickAdd(now, LeaveConfirm - gone)
            /\ still >= gone \/ still = Noticing
      BY <2>1 DEF BoxInv, Opened
    <3> DEFINE r == LeaveConfirm - gone
    <3>2. /\ r \in 1 .. LeaveConfirm /\ r < TickMod /\ d \in Nat /\ 2 * d < TickMod
          /\ d < TickMod
      <4>1. 2 * (SamplePeriod + Debounce + 2 * d) < TickMod
        BY PollAssumption DEF Hall!HallAssumption
      <4> QED BY <1>1, <1>3, <4>1, LagsTyped, TickModAssumption DEF Lags
    <3> HIDE DEF r
    <3>3. d < r
      <4>1. SUFFICES ASSUME d >= r PROVE FALSE
        BY <1>3, <3>2
      <4>2. d - r \in Nat /\ r \in Nat /\ r + (d - r) = d /\ 2 * (d - r) < TickMod
            /\ d - r < TickMod
        BY <1>3, <3>2, <4>1, TickModAssumption
      <4>3. ctx.deadline_tick = TickAdd(now, r) /\ ctx.deadline_tick \in Tick
        BY <1>2, <3>1, <4>2, TickAddType DEF r
      <4>4. t = TickAdd(ctx.deadline_tick, d - r)
        BY <1>2, <3>2, <4>2, <4>3, TickAddTwice
      <4>5. TickSub(t, ctx.deadline_tick) = d - r
        BY <4>2, <4>3, <4>4, TurnTakes
      <4> QED BY <1>7, <2>1, <4>2, <4>5 DEF DeadlineExpired, TickReached
    <3>4. /\ gone + d \in 0 .. LeaveConfirm - 1 /\ r - d \in Nat /\ d + (r - d) = r
          /\ r - d = LeaveConfirm - (gone + d)
      BY <1>3, <3>2, <3>3 DEF r
    <3>5. ctx.deadline_tick = TickAdd(t, LeaveConfirm - (gone + d))
      <4>1. TickAdd(t, r - d) = TickAdd(now, r)
        BY <1>2, <3>2, <3>4, TickAddTwice
      <4> QED BY <3>1, <3>4, <4>1 DEF r
    <3> QED BY <1>4, <3>1, <3>4, <3>5
  <2>2. Opened'
    BY <1>1, <1>7, <2>1 DEF Opened
  <2> QED BY <1>7, <2>2, <2>1, RestKeeps DEF NotStale, NoFalseTimeout, Phase
<1> QED BY <1>1, <1>5, <1>6, <1>7 DEF RoomLeads

\* The other states in which the drum is at rest.
LEMMA TurnBetweenRuns ==
  ASSUME BoxInv, ctx.state \in {"IDLE", "OCCUPIED", "CLEAN_DELAY", "SAFE_STOP", "FAULT"},
         NEW occupied \in BOOLEAN, NEW bin_full \in BOOLEAN, NEW d \in LoopTicks,
         TurnOfLoop(occupied, bin_full, d),
         RoomLeads(ctx, ctx', occupied, stable_position', TickAdd(now, d))
  PROVE  (Travel /\ Sampling /\ Opened /\ OnSchedule /\ NotStale /\ NoFalseTimeout)'
<1> DEFINE t == TickAdd(now, d)
<1>1. RoomLeads(ctx, ctx', occupied, stable_position', t) /\ stalled' = (stalled /\ ~RunBegins)
  BY TurnFacts
<1>2. still = Noticing => still' = Noticing
  BY TurnAtRest
<1> HIDE DEF t
<1>3. CASE ctx.state \in {"IDLE", "CLEAN_DELAY"} /\ ~Begins(ctx', stable_position', t)
  <2>1. ctx'.state \in {"IDLE", "OCCUPIED", "CLEAN_DELAY"}
        /\ (ctx'.state = "CLEAN_DELAY" => ctx.state = "CLEAN_DELAY")
    BY <1>1, <1>3 DEF RoomLeads
  <2>2. ctx'.state = "CLEAN_DELAY" => still' = Noticing
    BY <1>2, <2>1 DEF BoxInv, NotStale
  <2> QED BY <2>1, <2>2, RestKeeps DEF Opened, NotStale, NoFalseTimeout, Phase
<1>4. CASE ctx.state \in {"IDLE", "CLEAN_DELAY"} /\ Begins(ctx', stable_position', t)
  <2>1. \/ ctx.state = "CLEAN_DELAY"
        \/ ctx'.clean_phase = "TO_POS2" => stable_position' # "POS2_DUMP"
    BY <1>1, <1>4 DEF RoomLeads, Begins
  <2> QED BY <1>4, <2>1, RunStarts DEF t
<1>5. CASE ctx.state \in {"OCCUPIED", "SAFE_STOP"} /\ OpensAt(ctx', t)
  BY <1>5, WindowOpens DEF t
<1>6. CASE ctx.state \in {"OCCUPIED", "SAFE_STOP"} /\ ~OpensAt(ctx', t)
  <2>1. ctx'.state \in {"OCCUPIED", "SAFE_STOP"}
    BY <1>1, <1>6 DEF RoomLeads
  <2> QED BY <2>1, RestKeeps DEF Opened, NotStale, NoFalseTimeout, Phase
<1>7. CASE ctx.state = "FAULT"
  <2>1. \/ ctx'.state \in {"IDLE", "OCCUPIED"}
        \/ ctx'.state = "FAULT" /\ ctx'.fault_code = ctx.fault_code
    BY <1>1, <1>7 DEF RoomLeads
  <2>2. NoFalseTimeout'
    BY <1>1, <1>7, <2>1 DEF BoxInv, NoFalseTimeout, RunBegins
  <2> QED BY <2>1, <2>2, RestKeeps DEF Opened, NotStale, Phase
<1> QED BY <1>3, <1>4, <1>5, <1>6, <1>7

\* Into a state that asks nothing of the drum.
LEMMA RunStops ==
  ASSUME \/ ctx'.state \in {"SAFE_STOP", "OCCUPIED", "IDLE"}
         \/ ctx'.state = "FAULT" /\ ctx'.fault_code = "BIN_FULL"
  PROVE  (Travel /\ Sampling /\ Opened /\ OnSchedule /\ NotStale /\ NoFalseTimeout)'
BY RestKeeps DEF Opened, NotStale, NoFalseTimeout, Phase

\* A run that times out, once it is known that it had to.
LEMMA RunFails ==
  ASSUME BoxInv, ctx.state = "CLEANING",
         NEW occupied \in BOOLEAN, NEW bin_full \in BOOLEAN, NEW d \in LoopTicks,
         TurnOfLoop(occupied, bin_full, d), ctx'.state = "FAULT", stalled
  PROVE  (Travel /\ Sampling /\ Opened /\ OnSchedule /\ NotStale /\ NoFalseTimeout)'
<1>1. stalled'
  BY TurnFacts DEF RunBegins
<1> QED BY <1>1, RestKeeps DEF Opened, NotStale, NoFalseTimeout, Phase

\* The clocks of a run, read by its budgets.
LEMMA Overdue ==
  ASSUME BoxInv, ctx.state = "CLEANING", NEW d \in LoopTicks, NEW t, t = TickAdd(now, d)
  PROVE  /\ RunOverdue(ctx, t) => RunAgo + d >= CleanTotal
         /\ PhaseOverdue(ctx, t) => Ago + d >= PhaseTimeout[ctx.clean_phase]
BY AgoOn DEF RunOverdue, PhaseOverdue

\* A run on its way to the dump position.
LEMMA TurnKeepsDump ==
  ASSUME BoxInv, Phase("TO_POS2"),
         NEW occupied \in BOOLEAN, NEW bin_full \in BOOLEAN, NEW d \in LoopTicks,
         TurnOfLoop(occupied, bin_full, d),
         RunLeads(ctx, ctx', stable_position', TickAdd(now, d))
  PROVE  (Travel /\ Sampling /\ Opened /\ OnSchedule /\ NotStale /\ NoFalseTimeout)'
<1> DEFINE t == TickAdd(now, d)
           target == TargetPosition[ctx.clean_phase]
<1>1. /\ ctx.state = "CLEANING" /\ ctx.clean_phase = "TO_POS2" /\ target = "POS2_DUMP"
      /\ Ago \in Nat /\ RunAgo = Ago /\ d \in Nat \ {0} /\ place' \in 0 .. Last
      /\ ctx.clean_started_tick = ctx.phase_started_tick
  BY AgoOn, TurnFacts DEF Phase, BoxInv, OnSchedule, Ago, RunAgo, TargetPosition
<1>2. /\ Noticed(candidate_position', held', SinceSample', Seen', Ago + d, DumpFrom)
      /\ pins = Levels.FORWARD => place' >= Ago + d \/ place' = Last
      /\ stable_position' = "POS2_DUMP" =>
           place' \in Zone["POS2_DUMP"] /\ Ago + d <= DumpFrom + Noticing
      /\ pins = Levels.FORWARD /\ Ago + d > DumpFrom + Noticing =>
           stable_position' = "POS2_DUMP"
  BY TurnToDump
<1>3. DumpIsTrue'
  BY <1>2 DEF DumpIsTrue
<1>4. /\ RunOverdue(ctx, t) => Ago + d > DumpFrom + Noticing
      /\ PhaseOverdue(ctx, t) => Ago + d > DumpFrom + Noticing
  <2>1. /\ RunOverdue(ctx, t) => Ago + d >= CleanTotal
        /\ PhaseOverdue(ctx, t) => Ago + d >= PhaseTimeout["TO_POS2"]
    BY <1>1, Overdue
  <2>2. PhaseTimeout["TO_POS2"] \in Nat /\ CleanTotal \in Nat
    BY TimingAssumption DEF PhaseTimeout
  <2> QED BY <1>1, <2>1, <2>2, BudgetsFit, PlacesTyped
<1>5. CASE stable_position' # target /\ SamePhase(ctx, ctx')
  <2>1. /\ \A p : Phase(p)' <=> Phase(p)
        /\ pins' = pins /\ Ago' = Ago + d
    BY <1>1, <1>5, TurnGoesOn
  <2>2. Phase("TO_POS2")' /\ ~Phase("TO_POS3")' /\ ~Phase("TO_POS1")'
    BY <1>1, <2>1 DEF Phase
  <2>3. /\ ctx'.state = "CLEANING" /\ ctx'.clean_started_tick = ctx'.phase_started_tick
    BY <1>1, <1>5 DEF SamePhase
  <2>4. Travel'
    BY <1>2, <2>1, <2>2 DEF Travel
  <2>5. Sampling'
    BY <1>2, <2>1, <2>2 DEF Sampling, NoticedSince
  <2>6. OnSchedule'
    BY <2>2, <2>3 DEF OnSchedule
  <2>7. NotStale'
    BY <1>3, <2>2, <2>3 DEF NotStale
  <2> QED BY <2>3, <2>4, <2>5, <2>6, <2>7 DEF Opened, NoFalseTimeout
<1>6. CASE /\ stable_position' # target /\ ctx'.state = "FAULT"
           /\ RunOverdue(ctx, t) \/ PhaseOverdue(ctx, t)
  <2>1. stalled
    <3>1. pins # Levels.FORWARD
      BY <1>1, <1>2, <1>4, <1>6
    <3> QED BY <1>1, <3>1 DEF BoxInv, PinsKept, PhaseMotor
  <2> QED BY <1>1, <1>6, <2>1, RunFails
<1>7. CASE stable_position' = target /\ NextPhase(ctx, ctx', t)
  <2>1. /\ ctx'.state = "CLEANING" /\ ctx'.clean_phase = "TO_POS3"
        /\ ctx'.phase_started_tick = t /\ ctx'.clean_started_tick = ctx.clean_started_tick
    BY <1>1, <1>7 DEF NextPhase
  <2>2. Phase("TO_POS3")' /\ ~Phase("TO_POS2")' /\ ~Phase("TO_POS1")'
    BY <2>1 DEF Phase
  <2>3. Ago' = 0
    BY <2>1, TurnStarts
  <2>4. RunAgo' = Ago + d
    <3>1. now' = t /\ TickSub(t, ctx.clean_started_tick) = RunAgo + d
      BY <1>1, AgoOn, TurnFacts
    <3> QED BY <1>1, <2>1, <3>1 DEF RunAgo
  <2>5. Travel'
    BY <1>1, <2>2, <2>3, PlacesTyped DEF Travel
  <2>6. Sampling'
    <3>1. Last - SandEnd \in Nat
      BY PlacesTyped
    <3> QED BY <2>2, <2>3, <3>1, TurnBegins DEF Sampling, NoticedSince
  <2>7. OnSchedule'
    <3>1. Ago + d <= DumpFrom + Noticing
      BY <1>1, <1>2, <1>7
    <3> QED BY <1>1, <2>2, <2>3, <2>4, <3>1, BudgetsFit, PlacesTyped DEF OnSchedule
  <2>8. NotStale'
    BY <2>1, <2>2 DEF NotStale
  <2> QED BY <2>1, <2>5, <2>6, <2>7, <2>8 DEF Opened, NoFalseTimeout
<1>8. CASE stable_position' = target /\ ctx'.state = "FAULT" /\ RunOverdue(ctx, t)
  <2>1. FALSE
    BY <1>1, <1>2, <1>4, <1>8, BudgetsFit, PlacesTyped
  <2> QED BY <2>1
<1> QED BY <1>1, <1>5, <1>6, <1>7, <1>8 DEF RunLeads

\* A run on its way to the sand-return position.
LEMMA TurnKeepsSand ==
  ASSUME BoxInv, Phase("TO_POS3"),
         NEW occupied \in BOOLEAN, NEW bin_full \in BOOLEAN, NEW d \in LoopTicks,
         TurnOfLoop(occupied, bin_full, d),
         RunLeads(ctx, ctx', stable_position', TickAdd(now, d))
  PROVE  (Travel /\ Sampling /\ Opened /\ OnSchedule /\ NotStale /\ NoFalseTimeout)'
<1> DEFINE t == TickAdd(now, d)
           target == TargetPosition[ctx.clean_phase]
           way == Last - SandEnd
<1>1. /\ ctx.state = "CLEANING" /\ ctx.clean_phase = "TO_POS3"
      /\ target = "POS3_SAND_RETURN" /\ now' = t
      /\ Ago \in Nat /\ RunAgo \in Nat /\ d \in Nat \ {0} /\ place' \in 0 .. Last
      /\ way \in Nat /\ Noticing \in Nat
  BY AgoOn, TurnFacts, PlacesTyped, BudgetsFit DEF Phase, TargetPosition
<1>2. /\ Noticed(candidate_position', held', SinceSample', Seen', Ago + d, way)
      /\ pins = Levels.REVERSE => place' <= Last - (Ago + d) \/ place' = 0
      /\ stable_position' = "POS3_SAND_RETURN" =>
           place' \in Zone["POS3_SAND_RETURN"] /\ Ago + d <= way + Noticing
      /\ pins = Levels.REVERSE /\ Ago + d > way + Noticing =>
           stable_position' = "POS3_SAND_RETURN"
      /\ Ago + d > way + Noticing => stable_position' = Seen'
  BY TurnToSand
<1>3. RunAgo >= Ago /\ RunAgo <= DumpFrom + Noticing + Ago
  BY DEF BoxInv, OnSchedule
<1>4. /\ RunOverdue(ctx, t) => Ago + d > way + Noticing
      /\ PhaseOverdue(ctx, t) => Ago + d > way + Noticing
  <2>1. /\ RunOverdue(ctx, t) => RunAgo + d >= CleanTotal
        /\ PhaseOverdue(ctx, t) => Ago + d >= PhaseTimeout["TO_POS3"]
    BY <1>1, Overdue
  <2>2. PhaseTimeout["TO_POS3"] \in Nat /\ CleanTotal \in Nat
    BY TimingAssumption DEF PhaseTimeout
  <2> QED BY <1>1, <1>3, <2>1, <2>2, BudgetsFit, PlacesTyped
<1>5. CASE stable_position' # target /\ SamePhase(ctx, ctx')
  <2>1. /\ \A p : Phase(p)' <=> Phase(p)
        /\ pins' = pins /\ Ago' = Ago + d /\ RunAgo' = RunAgo + d
    BY <1>1, <1>5, TurnGoesOn
  <2>2. Phase("TO_POS3")' /\ ~Phase("TO_POS2")' /\ ~Phase("TO_POS1")'
    BY <1>1, <2>1 DEF Phase
  <2>3. ctx'.state = "CLEANING"
    BY <1>5 DEF SamePhase
  <2>4. Travel'
    BY <1>2, <2>1, <2>2 DEF Travel
  <2>5. Sampling'
    BY <1>2, <2>1, <2>2 DEF Sampling, NoticedSince
  <2>6. OnSchedule'
    BY <1>1, <1>3, <2>1, <2>2, PlacesTyped DEF OnSchedule
  <2>7. NotStale'
    BY <2>2, <2>3 DEF NotStale
  <2> QED BY <2>3, <2>4, <2>5, <2>6, <2>7 DEF Opened, NoFalseTimeout
<1>6. CASE /\ stable_position' # target /\ ctx'.state = "FAULT"
           /\ RunOverdue(ctx, t) \/ PhaseOverdue(ctx, t)
  <2>1. stalled
    <3>1. pins # Levels.REVERSE
      BY <1>1, <1>2, <1>4, <1>6
    <3> QED BY <1>1, <3>1 DEF BoxInv, PinsKept, PhaseMotor
  <2> QED BY <1>1, <1>6, <2>1, RunFails
<1>7. CASE stable_position' = target /\ NextPhase(ctx, ctx', t)
  <2>1. /\ ctx'.state = "CLEANING" /\ ctx'.clean_phase = "TO_POS1"
        /\ ctx'.phase_started_tick = t /\ ctx'.clean_started_tick = ctx.clean_started_tick
    BY <1>1, <1>7 DEF NextPhase
  <2>2. Phase("TO_POS1")' /\ ~Phase("TO_POS2")' /\ ~Phase("TO_POS3")'
    BY <2>1 DEF Phase
  <2>3. Ago' = 0
    BY <2>1, TurnStarts
  <2>4. RunAgo' = RunAgo + d
    <3>1. TickSub(t, ctx.clean_started_tick) = RunAgo + d
      BY <1>1, AgoOn
    <3> QED BY <1>1, <2>1, <3>1 DEF RunAgo
  <2>5. place' \in 0 .. SandEnd /\ Ago + d <= way + Noticing
    BY <1>1, <1>2, <1>7 DEF Zone
  <2>6. Travel'
    BY <2>2, <2>3, <2>5, PlacesTyped DEF Travel
  <2>7. Sampling'
    <3>1. SinceSample' \in Nat
      BY TurnSamples
    <3>2. ~(place' - SinceSample' >= HomeFrom)
      <4>1. place' \in Nat /\ place' <= SandEnd
        BY <2>5, PlacesTyped
      <4>2. \A a, b \in Nat : a <= SandEnd => ~(a - b >= HomeFrom)
        BY PlacesTyped
      <4> QED BY <3>1, <4>1, <4>2
    <3>3. Noticed(candidate_position', held', SinceSample', Seen', place', HomeFrom)
      BY <3>2 DEF Noticed
    <3> QED BY <2>2, <3>3 DEF Sampling, NoticedSince
  <2>8. OnSchedule'
    BY <1>1, <1>3, <2>2, <2>3, <2>4, <2>5, PlacesTyped DEF OnSchedule
  <2>9. NotStale'
    BY <1>1, <1>7, <2>1, <2>2 DEF NotStale
  <2> QED BY <2>1, <2>6, <2>7, <2>8, <2>9 DEF Opened, NoFalseTimeout
<1>8. CASE stable_position' = target /\ ctx'.state = "FAULT" /\ RunOverdue(ctx, t)
  <2>1. FALSE
    BY <1>1, <1>2, <1>4, <1>8
  <2> QED BY <2>1
<1> QED BY <1>1, <1>5, <1>6, <1>7, <1>8 DEF RunLeads

\* A run on its way home.
LEMMA TurnKeepsHome ==
  ASSUME BoxInv, Phase("TO_POS1"),
         NEW occupied \in BOOLEAN, NEW bin_full \in BOOLEAN, NEW d \in LoopTicks,
         TurnOfLoop(occupied, bin_full, d),
         RunLeads(ctx, ctx', stable_position', TickAdd(now, d))
  PROVE  (Travel /\ Sampling /\ Opened /\ OnSchedule /\ NotStale /\ NoFalseTimeout)'
<1> DEFINE t == TickAdd(now, d)
           target == TargetPosition[ctx.clean_phase]
<1>1. /\ ctx.state = "CLEANING" /\ ctx.clean_phase = "TO_POS1"
      /\ Ago \in Nat /\ RunAgo \in Nat /\ d \in Nat \ {0} /\ place' \in 0 .. Last
      /\ Noticing \in Nat
  BY AgoOn, TurnFacts, BudgetsFit DEF Phase
<1>2. /\ place' <= HomeTo
      /\ pins = Levels.FORWARD =>
           /\ Ago + d <= place' /\ Ago + d <= HomeFrom + Noticing
           /\ Noticed(candidate_position', held', SinceSample', Seen', place', HomeFrom)
      /\ stable_position' # "POS2_DUMP"
  BY TurnToHome
<1>3. /\ RunAgo >= Ago
      /\ RunAgo <= DumpFrom + Noticing + (Last - SandEnd) + Noticing + Ago
  BY DEF BoxInv, OnSchedule
<1>5. CASE stable_position' # target /\ SamePhase(ctx, ctx')
  <2>1. /\ \A p : Phase(p)' <=> Phase(p)
        /\ pins' = pins /\ Ago' = Ago + d /\ RunAgo' = RunAgo + d
    BY <1>1, <1>5, TurnGoesOn
  <2>2. Phase("TO_POS1")' /\ ~Phase("TO_POS2")' /\ ~Phase("TO_POS3")'
    BY <1>1, <2>1 DEF Phase
  <2>3. ctx'.state = "CLEANING"
    BY <1>5 DEF SamePhase
  <2>4. Travel'
    BY <1>2, <2>1, <2>2 DEF Travel
  <2>5. Sampling'
    BY <1>2, <2>1, <2>2 DEF Sampling, NoticedSince
  <2>6. OnSchedule'
    BY <1>1, <1>3, <2>1, <2>2, PlacesTyped DEF OnSchedule
  <2>7. NotStale'
    BY <1>2, <2>2, <2>3 DEF NotStale
  <2> QED BY <2>3, <2>4, <2>5, <2>6, <2>7 DEF Opened, NoFalseTimeout
<1>6. CASE ctx'.state = "FAULT" /\ (RunOverdue(ctx, t) \/ PhaseOverdue(ctx, t))
  <2>1. stalled
    <3>1. /\ RunOverdue(ctx, t) => RunAgo + d >= CleanTotal
          /\ PhaseOverdue(ctx, t) => Ago + d >= PhaseTimeout["TO_POS1"]
      BY <1>1, Overdue
    <3>2. PhaseTimeout["TO_POS1"] \in Nat /\ CleanTotal \in Nat
      BY TimingAssumption DEF PhaseTimeout
    <3>3. Ago + d > HomeFrom + Noticing
      BY <1>1, <1>3, <1>6, <3>1, <3>2, BudgetsFit, PlacesTyped
    <3>4. pins # Levels.FORWARD
      BY <1>1, <1>2, <3>3, PlacesTyped
    <3> QED BY <1>1, <3>4 DEF BoxInv, PinsKept, PhaseMotor
  <2> QED BY <1>1, <1>6, <2>1, RunFails
<1>7. CASE ctx'.state = "IDLE"
  BY <1>7, RunStops
<1> QED BY <1>1, <1>5, <1>6, <1>7 DEF RunLeads, NextPhase

-----------------------------------------------------------------------------
(* Every step keeps the invariant. *)

LEMMA TurnBoxInv ==
  ASSUME BoxInv, NEW occupied \in BOOLEAN, NEW bin_full \in BOOLEAN, NEW d \in LoopTicks,
         TurnOfLoop(occupied, bin_full, d)
  PROVE  BoxInv'
<1>1. /\ StateLeads(ctx, ctx', occupied, stable_position', TickAdd(now, d))
      /\ LoopInv' /\ Sampler!HInv' /\ Sampler!DInv'
  BY TurnFacts
<1>2. ctx.state \in FsmState /\ (ctx.state = "CLEANING" =>
        Phase("TO_POS2") \/ Phase("TO_POS3") \/ Phase("TO_POS1"))
  BY DEF BoxInv, LoopInv, IInv, TypeOK, Matched, Settled, Sound, FsmCtx, CleanPhase, Phase
<1>3. (Travel /\ Sampling /\ Opened /\ OnSchedule /\ NotStale /\ NoFalseTimeout)'
  <2>1. CASE \/ reset_request /\ ctx'.state \in {"IDLE", "OCCUPIED"}
             \/ ctx'.state = "FAULT" /\ ctx'.fault_code = "BIN_FULL"
    BY <2>1, RunStops
  <2>2. CASE RoomLeads(ctx, ctx', occupied, stable_position', TickAdd(now, d))
    <3>1. CASE ctx.state = "LEAVE_CONFIRM"
      BY <2>2, <3>1, TurnInWindow
    <3>2. CASE ctx.state = "CLEANING" /\ RunLeads(ctx, ctx', stable_position', TickAdd(now, d))
      BY <1>2, <3>2, TurnKeepsDump, TurnKeepsSand, TurnKeepsHome
    <3>3. CASE ctx.state = "CLEANING" /\ ctx'.state = "SAFE_STOP"
      BY <3>3, RunStops
    <3>4. CASE ctx.state \notin {"LEAVE_CONFIRM", "CLEANING"}
      BY <1>2, <2>2, <3>4, TurnBetweenRuns DEF FsmState
    <3> QED BY <2>2, <3>1, <3>2, <3>3, <3>4 DEF RoomLeads
  <2> QED BY <1>1, <2>1, <2>2 DEF StateLeads
<1> QED BY <1>1, <1>3, TurnBooted, TurnRests, TurnPins DEF BoxInv

\* main sets the pins up under a run or between two.
LEMMA SetUpBoxInv ==
  ASSUME BoxInv, SetUpPins
  PROVE  BoxInv'
<1>1. /\ ~heartbeat /\ heartbeat' = TRUE /\ pins' = Levels.STOP
      /\ stalled' = (ctx.state = "CLEANING") /\ UNCHANGED <<vars, sampler, place, still>>
  BY DEF SetUpPins
<1>2. /\ UNCHANGED <<ctx, now, stable_position, place, still>>
      /\ UNCHANGED <<last_sample_tick, candidate_position, held>>
  BY <1>1 DEF vars, hall, sampler, requests
<1>3. LoopInv' /\ Sampler!HInv' /\ Sampler!DInv'
  <2>1. [NextBox]_boxVars
    BY DEF NextBox
  <2> QED BY <2>1, BoxStepsLogic, NextLoop, BoxStepsHall, SamplerAssumed, Sampler!NextHall,
          Sampler!NextAged DEF BoxInv, Sampler!NextHall, Sampler!NextAged
<1>4. ~stalled /\ ~(ctx.state = "FAULT" /\ ctx.fault_code = "CLEAN_TIMEOUT")
  BY <1>1 DEF BoxInv, Booted, NoFalseTimeout
<1>5. Booted'
  BY <1>1, <1>2 DEF BoxInv, Booted
<1>6. PinsKept'
  BY <1>1, <1>2 DEF PinsKept
<1>7. Ago' = Ago /\ RunAgo' = RunAgo /\ (\A p : Phase(p)' <=> Phase(p))
  BY <1>2 DEF Ago, RunAgo, Phase
<1>8. Levels.STOP # Levels.FORWARD /\ Levels.STOP # Levels.REVERSE
  BY DEF Levels, LOW, HIGH
<1>9. Travel'
  BY <1>1, <1>2, <1>7, <1>8 DEF BoxInv, Travel
<1>10. \A gone, reach : NoticedSince(gone, reach)' <=> NoticedSince(gone, reach)
  BY <1>2 DEF NoticedSince, SinceSample, Seen
<1>11. Sampling' /\ Rested'
  BY <1>1, <1>2, <1>7, <1>8, <1>10 DEF BoxInv, Sampling, Rested, DumpIsTrue
<1>12. Opened'
  BY <1>2 DEF BoxInv, Opened
<1>13. OnSchedule' /\ NotStale'
  BY <1>2, <1>7 DEF BoxInv, OnSchedule, NotStale, DumpIsTrue
<1>14. NoFalseTimeout'
  BY <1>2, <1>4 DEF NoFalseTimeout
<1> QED BY <1>3, <1>5, <1>6, <1>9, <1>11, <1>12, <1>13, <1>14 DEF BoxInv

\* A request is queued, or nothing happens.
LEMMA WaitBoxInv ==
  ASSUME BoxInv, Requests \/ UNCHANGED boxVars
  PROVE  BoxInv'
<1>1. LoopInv' /\ Sampler!HInv' /\ Sampler!DInv'
  <2>1. [NextBox]_boxVars
    BY DEF NextBox
  <2> QED BY <2>1, BoxStepsLogic, NextLoop, BoxStepsHall, SamplerAssumed, Sampler!NextHall,
          Sampler!NextAged DEF BoxInv, Sampler!NextHall, Sampler!NextAged
<1>2. /\ UNCHANGED <<ctx, now, stable_position, place, pins, stalled, heartbeat, still>>
      /\ UNCHANGED <<last_sample_tick, candidate_position, held>>
  BY DEF Requests, RequestClean, RequestReset, boxVars, vars, hall, sampler, requests
<1>3. Booted' /\ PinsKept' /\ NoFalseTimeout'
  BY <1>2 DEF BoxInv, Booted, PinsKept, NoFalseTimeout
<1>4. Ago' = Ago /\ RunAgo' = RunAgo /\ (\A p : Phase(p)' <=> Phase(p))
  BY <1>2 DEF Ago, RunAgo, Phase
<1>5. \A gone, reach : NoticedSince(gone, reach)' <=> NoticedSince(gone, reach)
  BY <1>2 DEF NoticedSince, SinceSample, Seen
<1>6. Travel' /\ Sampling' /\ Rested'
  BY <1>2, <1>4, <1>5 DEF BoxInv, Travel, Sampling, Rested, DumpIsTrue
<1>7. Opened'
  BY <1>2 DEF BoxInv, Opened
<1>8. OnSchedule' /\ NotStale'
  BY <1>2, <1>4 DEF BoxInv, OnSchedule, NotStale, DumpIsTrue
<1> QED BY <1>1, <1>3, <1>6, <1>7, <1>8 DEF BoxInv

LEMMA NextBoxInv == BoxInv /\ [NextBox]_boxVars => BoxInv'
BY TurnBoxInv, SetUpBoxInv, WaitBoxInv DEF NextBox

\* A box that starts in FAULT has a full bin.
LEMMA BootCode == Init /\ ctx.state = "FAULT" => ctx.fault_code = "BIN_FULL"
<1> SUFFICES ASSUME Init, ctx.state = "FAULT" PROVE ctx.fault_code = "BIN_FULL"
  OBVIOUS
<1> DEFINE c == SyncInputs(FsmInit, prev_occupied, prev_bin_full, FALSE)
           d == IF prev_occupied THEN Dispatch(c, "OCCUPIED_ON", now) ELSE c
<1>1. now \in Tick /\ prev_occupied \in BOOLEAN /\ prev_bin_full \in BOOLEAN /\ 0 \in Tick
  BY TickModAssumption DEF Init, Tick
<1>2. Sound(c) /\ c.state = "IDLE"
  BY <1>1 DEF SyncInputs, FsmInit, Sound, FsmCtx, FsmState, CleanPhase, FaultCode, Motor,
     PhaseMotor
<1>3. ctx = IF prev_bin_full THEN Dispatch(d, "BIN_FULL", now) ELSE d
  BY DEF Init, Boot
<1> HIDE DEF c
<1>4. d \in FsmCtx /\ d.state \in {"IDLE", "OCCUPIED"}
  BY <1>1, <1>2, DispatchOccupiedOn, SoundTyped, DispatchSound DEF FsmEvent
<1> HIDE DEF d
<1> QED BY <1>1, <1>3, <1>4, BinFullCode

LEMMA InitBoxInv == InitBox => BoxInv
<1> SUFFICES ASSUME InitBox PROVE BoxInv
  OBVIOUS
<1>1. /\ Init /\ Sampler!Init /\ still = Noticing
      /\ pins = Levels.STOP /\ place \in 0 .. Last /\ heartbeat = FALSE /\ stalled = FALSE
      /\ candidate_position = "UNKNOWN" /\ stable_position = "UNKNOWN"
      /\ last_sample_tick = 0
  BY BoxStarts DEF InitBox, Init
<1>2. LoopInv
  BY <1>1, InitLoop
<1>3. Sampler!HInv /\ Sampler!DInv
  BY <1>1, SamplerAssumed, Sampler!InitHall DEF Sampler!InitHall, Sampler!HInv, Sampler!DInv,
     Sampler!Aged, Sampler!Init
<1>4. /\ ctx.state \in {"IDLE", "OCCUPIED", "FAULT"}
      /\ ctx.state = "FAULT" => ctx.fault_code = "BIN_FULL"
  BY <1>1, BootState, BootCode
<1>5. Booted /\ Rested /\ PinsKept
  BY <1>1, <1>4, LateIs, LongestTurnIs DEF Booted, Rested, DumpIsTrue, PinsKept
<1>6. Travel /\ Sampling /\ Opened /\ OnSchedule /\ NotStale /\ NoFalseTimeout
  BY <1>1, <1>4 DEF Travel, Sampling, Opened, OnSchedule, NotStale, DumpIsTrue,
     NoFalseTimeout, Phase
<1> QED BY <1>2, <1>3, <1>5, <1>6 DEF BoxInv

-----------------------------------------------------------------------------
(* The theorems. *)

\* In every state of the box control loop, sampler, pins and drum agree as BoxInv says.
THEOREM BoxInvariant == SpecBox => []BoxInv
BY InitBoxInv, NextBoxInv, PTL DEF SpecBox

\* A drum that fits its budgets times out in no run, wherever it stood when the run began
\* and whatever had broken off the one before, unless main has set up the pins under it.
THEOREM BoxNoFalseTimeout == SpecBox => []NoFalseTimeout
<1>1. BoxInv => NoFalseTimeout
  BY DEF BoxInv
<1> QED BY <1>1, BoxInvariant, PTL

\* A phase that no cat and no reset breaks off ends in FAULT or where it was to take the
\* drum, whatever the loop knows of the drum from an earlier run; only the first phase of
\* a run that is asked for within the debounce time after the drum has moved may be
\* taken for done by a dump position the drum has left.
THEOREM BoxPhaseEndsThere == SpecBox => PhaseEndsThere
<1> DEFINE Ends ==
      \A p \in CleanPhase \ {"NONE"} :
        PhaseBefore = p /\ ctx'.clean_phase # p /\ ~prev_occupied' /\ ~reset_request
          => \/ ctx'.state = "FAULT"
             \/ place' \in Zone[TargetPosition[p]]
             \/ BeginsTooSoon
<1>1. ASSUME BoxInv,
         NEW occupied \in BOOLEAN, NEW bin_full \in BOOLEAN, NEW d \in LoopTicks,
         TurnOfLoop(occupied, bin_full, d)
      PROVE  Ends
  <2> SUFFICES ASSUME NEW p \in CleanPhase \ {"NONE"},
                      PhaseBefore = p, ctx'.clean_phase # p, ~prev_occupied', ~reset_request,
                      ctx'.state # "FAULT"
               PROVE  place' \in Zone[TargetPosition[p]] \/ BeginsTooSoon
    OBVIOUS
  <2>1. /\ RoomLeads(ctx, ctx', occupied, stable_position', TickAdd(now, d))
        /\ prev_occupied' = occupied
    BY <1>1, TurnFacts DEF StateLeads
  <2>2. CASE RunBegins
    <3>1. /\ ctx.state # "CLEANING" /\ ctx'.state = "CLEANING" /\ p = "TO_POS2"
          /\ ctx.state \in FsmState
      BY <1>1, <2>2 DEF RunBegins, PhaseBefore, BoxInv, LoopInv, IInv, TypeOK, FsmCtx
    <3>2. /\ Begins(ctx', stable_position', TickAdd(now, d))
          /\ ctx.state = "CLEAN_DELAY" \/ (ctx.state = "IDLE" /\ remote_clean_request)
      BY <2>1, <3>1 DEF RoomLeads, OpensAt, FsmState
    <3>3. stable_position' = "POS2_DUMP"
      BY <3>1, <3>2 DEF Begins
    <3>4. still' = Noticing => place' \in Zone["POS2_DUMP"]
      BY <1>1, <3>3, TurnRests DEF Rested, DumpIsTrue
    <3>5. CASE still' = Noticing
      BY <3>1, <3>4, <3>5 DEF TargetPosition
    <3>6. CASE still' # Noticing
      <4>1. ctx.state # "CLEAN_DELAY"
        BY <1>1, <3>1, <3>6, TurnAtRest DEF BoxInv, NotStale
      <4>2. still' < Noticing
        BY <1>1, <3>6, TurnRests, BudgetsFit DEF Rested
      <4> QED BY <2>2, <3>2, <4>1, <4>2 DEF BeginsTooSoon
    <3> QED BY <3>5, <3>6
  <2>3. CASE ~RunBegins
    <3>1. ctx.state = "CLEANING" /\ Phase(p) /\ p \in {"TO_POS2", "TO_POS3", "TO_POS1"}
      BY <1>1, <2>3 DEF PhaseBefore, BoxInv, LoopInv, IInv, Matched, Settled, Sound, Phase,
         CleanPhase
    <3>2. stable_position' = TargetPosition[p]
      BY <2>1, <3>1 DEF RoomLeads, RunLeads, SamePhase, Phase
    <3>3. CASE p = "TO_POS2"
      BY <1>1, <3>1, <3>2, <3>3, TurnToDump DEF TargetPosition
    <3>4. CASE p = "TO_POS3"
      BY <1>1, <3>1, <3>2, <3>4, TurnToSand DEF TargetPosition
    <3>5. CASE p = "TO_POS1"
      BY <1>1, <3>1, <3>2, <3>5, TurnToHome DEF TargetPosition
    <3> QED BY <3>1, <3>3, <3>4, <3>5
  <2> QED BY <2>2, <2>3
<1>2. BoxInv /\ [NextBox]_boxVars => [Ends]_boxVars
  <2>1. CASE SetUpPins \/ Requests
    <3>1. ctx' = ctx
      BY <2>1 DEF SetUpPins, Requests, RequestClean, RequestReset, vars
    <3> QED BY <3>1 DEF PhaseBefore, RunBegins
  <2> QED BY <1>1, <2>1 DEF NextBox
<1> QED BY <1>2, BoxInvariant, PTL DEF SpecBox, PhaseEndsThere
=============================================================================
