----------------------------- MODULE LogicProofs -----------------------------
(***************************************************************************)
(* Theorems about the control loop, for every clock, every choice of       *)
(* windows and budgets and every set of hall readings.  The argument       *)
(* follows one iteration through its stages: what the state machine knows  *)
(* of the box after the edges, after the requests, after the hall stage    *)
(* and after litter_fsm_tick.  On top of it stand theorems about runs:     *)
(* what they wait for and begin with, their budgets, and the arrivals that *)
(* end their phases.  The last section is about a run that litter_timeout  *)
(* ends store by store.                                                    *)
(***************************************************************************)
EXTENDS LogicProps, LitterHistory, LitterShell, FsmLemmas

\* The state of the machine agrees with the sample (occupied, bin_full) the
\* iteration works on.  This says nothing of fault codes, phases and motor, which
\* another thread may be in the middle of changing.
Fits(c, occupied, bin_full) ==
  /\ c \in FsmCtx
  /\ c.occupied = occupied /\ c.bin_full = bin_full
  /\ c.state \in {"IDLE", "LEAVE_CONFIRM", "CLEAN_DELAY", "CLEANING"} => ~occupied
  /\ c.state = "OCCUPIED" => occupied
  /\ c.state = "SAFE_STOP" => (occupied <=> c.protect_active)
  /\ bin_full => c.state \in {"SAFE_STOP", "FAULT"}
  /\ c.protect_active => occupied /\ c.state \in {"SAFE_STOP", "FAULT"}
  /\ c.protect_active /\ c.state = "FAULT" => bin_full

\* What litter_fsm_tick adds: a SAFE_STOP or a full-bin fault whose reason is
\* gone has been left.
Answered(c, occupied, bin_full) ==
  /\ c.state = "SAFE_STOP" => occupied
  /\ c.state = "FAULT" /\ c.fault_code = "BIN_FULL" => bin_full

\* What the next iteration relies on.
Agrees(c, occupied, bin_full) ==
  /\ c.state \in {"IDLE", "LEAVE_CONFIRM", "CLEAN_DELAY", "CLEANING"} => ~occupied
  /\ c.state \in {"OCCUPIED", "SAFE_STOP"} => occupied
  /\ bin_full => c.state \in {"SAFE_STOP", "FAULT"}

\* The same of contexts nobody else changes.
Settled(c, occupied, bin_full) == Sound(c) /\ Fits(c, occupied, bin_full)

Matched(c, occupied, bin_full) ==
  Settled(c, occupied, bin_full) /\ Answered(c, occupied, bin_full)

IInv == TypeOK /\ Matched(ctx, prev_occupied, prev_bin_full)

-----------------------------------------------------------------------------
(* Where the helpers of fsm.c lead. *)

\* fsm_enter_state always ends in the state it is asked for.
LEMMA EnterStateTo ==
  ASSUME NEW c \in FsmCtx, NEW s, NEW t
  PROVE  EnterState(c, s, t).state = s
BY DEF EnterState, StartCleanPhase, Halt, FsmCtx

\* So does the recovery that clears the fault code first.
LEMMA RecoverToState ==
  ASSUME NEW c \in FsmCtx, NEW s, NEW t
  PROVE  RecoverTo(c, s, t).state = s
<1>1. [c EXCEPT !.fault_code = "NONE"] \in FsmCtx
  BY DEF FsmCtx, FaultCode
<1> QED BY <1>1, EnterStateTo DEF RecoverTo

\* A stop for protection ends in SAFE_STOP.
LEMMA StopForProtectState ==
  ASSUME NEW c \in FsmCtx, NEW t
  PROVE  StopForProtect(c, t).state = "SAFE_STOP"
<1>1. [c EXCEPT !.fault_code = "PROTECT_TRIGGER"] \in FsmCtx
  BY DEF FsmCtx, FaultCode
<1> QED BY <1>1, EnterStateTo DEF StopForProtect

\* With the inputs clear, a clean request that is looked at starts a run.
LEMMA TryEnterCleaningState ==
  ASSUME NEW c \in FsmCtx, NEW t
  PROVE  /\ Clear(c) => TryEnterCleaning(c, t).state = "CLEANING"
         /\ c.occupied => TryEnterCleaning(c, t).state = "OCCUPIED"
<1>1. EnterState(c, "CLEANING", t).state = "CLEANING"
      /\ EnterState(c, "OCCUPIED", t).state = "OCCUPIED"
  BY EnterStateTo
<1> QED BY <1>1 DEF TryEnterCleaning, Clear, BlockClean, IdleOrOccupied

\* A reset with the inputs clear leads to IDLE or OCCUPIED; otherwise it does
\* nothing.
LEMMA ResetRecoverState ==
  ASSUME NEW c \in FsmCtx, NEW t
  PROVE  IF c.protect_active \/ c.bin_full THEN ResetRecover(c, t) = c
         ELSE ResetRecover(c, t).state = IdleOrOccupied(c)
BY RecoverToState DEF ResetRecover

\* An event that reports no input leaves the inputs of the context alone.
LEMMA NoteNothing ==
  ASSUME NEW c \in FsmCtx, NEW e \in FsmEvent \ InputEvent
  PROVE  NoteInput(c, e) = c
<1>1. /\ c.occupied \in BOOLEAN /\ c.bin_full \in BOOLEAN /\ c.protect_active \in BOOLEAN
  BY DEF FsmCtx
<1>2. e \notin {"OCCUPIED_OFF", "OCCUPIED_ON", "BIN_FULL", "PROTECT_RELEASE", "PROTECT_TRIGGER"}
  BY DEF InputEvent
<1>3. NoteInput(c, e) \in FsmCtx
  BY <1>1, <1>2 DEF NoteInput, FsmCtx
<1>4. /\ NoteInput(c, e).state = c.state
      /\ NoteInput(c, e).clean_phase = c.clean_phase
      /\ NoteInput(c, e).fault_code = c.fault_code
      /\ NoteInput(c, e).occupied = c.occupied
      /\ NoteInput(c, e).bin_full = c.bin_full
      /\ NoteInput(c, e).protect_active = c.protect_active
      /\ NoteInput(c, e).deadline_tick = c.deadline_tick
      /\ NoteInput(c, e).clean_started_tick = c.clean_started_tick
      /\ NoteInput(c, e).phase_started_tick = c.phase_started_tick
      /\ NoteInput(c, e).motor = c.motor
  BY <1>1, <1>2 DEF NoteInput, FsmCtx
<1> QED BY <1>3, <1>4 DEF FsmCtx

\* Events other than PROTECT_TRIGGER and STALL_OR_TIMEOUT go to the handler of
\* the current state, with the inputs they report recorded.
LEMMA DispatchByState ==
  ASSUME NEW c \in FsmCtx, NEW t, NEW d,
         NEW e \in FsmEvent \ {"PROTECT_TRIGGER", "STALL_OR_TIMEOUT"}, d = NoteInput(c, e)
  PROVE  /\ d \in FsmCtx /\ d.state = c.state /\ d.fault_code = c.fault_code
         /\ c.state = "IDLE" => Dispatch(c, e, t) = InIdle(d, e, t)
         /\ c.state = "OCCUPIED" => Dispatch(c, e, t) = InOccupied(d, e, t)
         /\ c.state = "LEAVE_CONFIRM" => Dispatch(c, e, t) = InLeaveConfirm(d, e, t)
         /\ c.state = "CLEAN_DELAY" => Dispatch(c, e, t) = InCleanDelay(d, e, t)
         /\ c.state = "CLEANING" => Dispatch(c, e, t) = InCleaning(d, e, t)
         /\ c.state = "SAFE_STOP" => Dispatch(c, e, t) = InSafeStop(d, e, t)
         /\ c.state = "FAULT" => Dispatch(c, e, t) = InFault(d, e, t)
<1>1. d \in FsmCtx /\ d.state = c.state /\ d.fault_code = c.fault_code
  BY NoteInputSteady
<1>2. Dispatch(c, e, t) =
        CASE d.state = "IDLE" -> InIdle(d, e, t)
          [] d.state = "OCCUPIED" -> InOccupied(d, e, t)
          [] d.state = "LEAVE_CONFIRM" -> InLeaveConfirm(d, e, t)
          [] d.state = "CLEAN_DELAY" -> InCleanDelay(d, e, t)
          [] d.state = "CLEANING" -> InCleaning(d, e, t)
          [] d.state = "SAFE_STOP" -> InSafeStop(d, e, t)
          [] OTHER -> InFault(d, e, t)
  BY DEF Dispatch
<1> QED BY <1>1, <1>2

\* An event that reports no input is simply offered to the current state.
LEMMA DispatchPlain ==
  ASSUME NEW c \in FsmCtx, NEW t, NEW r,
         NEW e \in {"DELAY_TIMEOUT", "CLEAN_START", "POS1_REACHED", "POS2_REACHED",
                    "POS3_REACHED", "RESET"},
         r = Dispatch(c, e, t)
  PROVE  /\ c.state = "IDLE" => r = InIdle(c, e, t)
         /\ c.state = "OCCUPIED" => r = InOccupied(c, e, t)
         /\ c.state = "LEAVE_CONFIRM" => r = InLeaveConfirm(c, e, t)
         /\ c.state = "CLEAN_DELAY" => r = InCleanDelay(c, e, t)
         /\ c.state = "CLEANING" => r = InCleaning(c, e, t)
         /\ c.state = "SAFE_STOP" => r = InSafeStop(c, e, t)
         /\ c.state = "FAULT" => r = InFault(c, e, t)
<1>1. /\ e \in FsmEvent \ InputEvent
      /\ e \in FsmEvent \ {"PROTECT_TRIGGER", "STALL_OR_TIMEOUT"}
  BY DEF FsmEvent, InputEvent
<1>2. NoteInput(c, e) = c
  BY <1>1, NoteNothing
<1> QED BY <1>1, <1>2, DispatchByState

-----------------------------------------------------------------------------
(* The stages of an iteration. *)

\* After the bin-full edge: the inputs are the sample, and the state is the old
\* one unless the edge has led to FAULT.
EdgesFit(c, old, occupied, bin_full) ==
  /\ c \in FsmCtx
  /\ c.occupied = occupied /\ c.bin_full = bin_full
  /\ c.protect_active = ProtectActive(occupied, old.state)
  /\ \/ c.state = old.state
     \/ c.state = "FAULT" /\ bin_full
  /\ bin_full => c.state \in {"SAFE_STOP", "FAULT"}

Edged(c, old, occupied, bin_full) == Sound(c) /\ EdgesFit(c, old, occupied, bin_full)

\* BIN_FULL is recorded in every state; it leads to FAULT from all but
\* SAFE_STOP, where recovery will look at it, and FAULT, which keeps its code.
LEMMA DispatchBinFull ==
  ASSUME NEW c \in FsmCtx, NEW t \in Tick, NEW r, r = Dispatch(c, "BIN_FULL", t)
  PROVE  /\ r.occupied = c.occupied /\ r.bin_full = TRUE /\ r.protect_active = c.protect_active
         /\ r.state = IF c.state = "SAFE_STOP" THEN "SAFE_STOP" ELSE "FAULT"
<1> DEFINE e == "BIN_FULL"
           d == NoteInput(c, e)
<1>1. e \in FsmEvent \ {"PROTECT_TRIGGER", "STALL_OR_TIMEOUT"}
  BY DEF FsmEvent
<1>2. d \in FsmCtx /\ d.state = c.state
  BY NoteInputSteady
<1>3. d.occupied = c.occupied /\ d.bin_full = TRUE /\ d.protect_active = c.protect_active
  BY DEF NoteInput, FsmCtx
<1> HIDE DEF d
<1>4. Steady(d, EnterFault(d, "BIN_FULL", t)) /\ EnterFault(d, "BIN_FULL", t).state = "FAULT"
  BY <1>2, CodedSteady DEF FaultCode, FsmState
<1>5. r = IF c.state \in {"SAFE_STOP", "FAULT"} THEN d ELSE EnterFault(d, "BIN_FULL", t)
  <2>1. c.state \in FsmState
    BY DEF FsmCtx
  <2>2. /\ c.state = "IDLE" => r = InIdle(d, "BIN_FULL", t)
        /\ c.state = "OCCUPIED" => r = InOccupied(d, "BIN_FULL", t)
        /\ c.state = "LEAVE_CONFIRM" => r = InLeaveConfirm(d, "BIN_FULL", t)
        /\ c.state = "CLEAN_DELAY" => r = InCleanDelay(d, "BIN_FULL", t)
        /\ c.state = "CLEANING" => r = InCleaning(d, "BIN_FULL", t)
        /\ c.state = "SAFE_STOP" => r = InSafeStop(d, "BIN_FULL", t)
        /\ c.state = "FAULT" => r = InFault(d, "BIN_FULL", t)
    BY <1>1, DispatchByState DEF d
  <2>3. InCleaning(d, "BIN_FULL", t) = EnterFault(d, "BIN_FULL", t)
    BY DEF InCleaning, PhaseEnds
  <2> QED
    BY <2>1, <2>2, <2>3 DEF FsmState, InIdle, InOccupied, InLeaveConfirm, InCleanDelay,
       InSafeStop, InFault
<1> QED BY <1>2, <1>3, <1>4, <1>5 DEF Steady, SameInputs

\* The inputs and the bin-full edge of one iteration.
LEMMA EdgesFits ==
  ASSUME ctx \in FsmCtx, Agrees(ctx, prev_occupied, prev_bin_full),
         NEW occupied \in BOOLEAN, NEW bin_full \in BOOLEAN, NEW t \in Tick
  PROVE  EdgesFit(BinFullEdge(ReadInputs(ctx, occupied, bin_full), bin_full, t),
                  ctx, occupied, bin_full)
<1> DEFINE protect == ProtectActive(occupied, ctx.state)
           d == ReadInputs(ctx, occupied, bin_full)
           r == BinFullEdge(d, bin_full, t)
<1>1. protect \in BOOLEAN /\ d = SyncInputs(ctx, occupied, bin_full, protect)
  BY DEF ProtectActive, ReadInputs
<1> HIDE DEF protect, d
<1>2. /\ d \in FsmCtx
      /\ d.occupied = occupied /\ d.bin_full = bin_full /\ d.protect_active = protect
      /\ d.state = ctx.state
  BY <1>1 DEF SyncInputs, FsmCtx
<1>3. CASE bin_full /\ ~prev_bin_full
  <2>1. r = Dispatch(d, "BIN_FULL", t)
    BY <1>3 DEF BinFullEdge
  <2> HIDE DEF r
  <2>2. /\ r \in FsmCtx
        /\ r.occupied = d.occupied /\ r.bin_full = TRUE /\ r.protect_active = d.protect_active
        /\ r.state = IF d.state = "SAFE_STOP" THEN "SAFE_STOP" ELSE "FAULT"
    BY <1>2, <2>1, DispatchBinFull, DispatchSteady
  <2> QED BY <1>2, <1>3, <2>2 DEF EdgesFit, protect, d, r
<1>4. CASE ~(bin_full /\ ~prev_bin_full)
  <2>1. r = d
    BY <1>4 DEF BinFullEdge
  <2>2. bin_full => ctx.state \in {"SAFE_STOP", "FAULT"}
    BY <1>4 DEF Agrees
  <2> QED BY <1>2, <2>1, <2>2 DEF EdgesFit, protect, d
<1> QED BY <1>3, <1>4

\* A cat that steps in ends every quiet state but OCCUPIED in OCCUPIED.
LEMMA DispatchOccupiedOn ==
  ASSUME NEW c \in FsmCtx, c.state \in {"IDLE", "LEAVE_CONFIRM", "CLEAN_DELAY"},
         NEW t \in Tick, NEW r, r = Dispatch(c, "OCCUPIED_ON", t)
  PROVE  /\ r.state = "OCCUPIED"
         /\ r.occupied = TRUE /\ r.bin_full = c.bin_full
         /\ r.protect_active = c.protect_active
<1> DEFINE d == NoteInput(c, "OCCUPIED_ON")
<1>1. "OCCUPIED_ON" \in FsmEvent \ {"PROTECT_TRIGGER", "STALL_OR_TIMEOUT"}
  BY DEF FsmEvent
<1>2. /\ d \in FsmCtx /\ d.occupied = TRUE /\ d.bin_full = c.bin_full
      /\ d.protect_active = c.protect_active
  BY DEF NoteInput, FsmCtx
<1>3. r = EnterState(d, "OCCUPIED", t)
  <2>1. /\ c.state = "IDLE" => r = InIdle(d, "OCCUPIED_ON", t)
        /\ c.state = "LEAVE_CONFIRM" => r = InLeaveConfirm(d, "OCCUPIED_ON", t)
        /\ c.state = "CLEAN_DELAY" => r = InCleanDelay(d, "OCCUPIED_ON", t)
    BY <1>1, DispatchByState
  <2> QED BY <2>1 DEF InIdle, InLeaveConfirm, InCleanDelay
<1> HIDE DEF d
<1>4. Steady(d, r) /\ r.state = "OCCUPIED"
  BY <1>2, <1>3, EnterStateSteady DEF FsmState
<1> QED BY <1>2, <1>4 DEF Steady, SameInputs

\* A cat that leaves opens the confirm window from OCCUPIED; SAFE_STOP waits
\* for the protection to be released.
LEMMA DispatchOccupiedOff ==
  ASSUME NEW c \in FsmCtx, c.state \in {"OCCUPIED", "SAFE_STOP"},
         NEW t \in Tick, NEW r, r = Dispatch(c, "OCCUPIED_OFF", t)
  PROVE  /\ r.state = IF c.state = "OCCUPIED" THEN "LEAVE_CONFIRM" ELSE "SAFE_STOP"
         /\ r.occupied = FALSE /\ r.bin_full = c.bin_full
         /\ r.protect_active = c.protect_active
<1> DEFINE d == NoteInput(c, "OCCUPIED_OFF")
<1>1. "OCCUPIED_OFF" \in FsmEvent \ {"PROTECT_TRIGGER", "STALL_OR_TIMEOUT"}
  BY DEF FsmEvent
<1>2. /\ d \in FsmCtx /\ d.state = c.state /\ d.occupied = FALSE /\ d.bin_full = c.bin_full
      /\ d.protect_active = c.protect_active
  BY DEF NoteInput, FsmCtx
<1>3. r = IF c.state = "OCCUPIED" THEN EnterState(d, "LEAVE_CONFIRM", t) ELSE d
  <2>1. /\ c.state = "OCCUPIED" => r = InOccupied(d, "OCCUPIED_OFF", t)
        /\ c.state = "SAFE_STOP" => r = InSafeStop(d, "OCCUPIED_OFF", t)
    BY <1>1, DispatchByState
  <2> QED BY <2>1 DEF InOccupied, InSafeStop
<1> HIDE DEF d
<1>4. /\ Steady(d, EnterState(d, "LEAVE_CONFIRM", t))
      /\ EnterState(d, "LEAVE_CONFIRM", t).state = "LEAVE_CONFIRM"
  BY <1>2, EnterStateSteady DEF FsmState
<1> QED BY <1>2, <1>3, <1>4 DEF Steady, SameInputs

\* A cat that steps into a running drum stops it.
LEMMA DispatchProtect ==
  ASSUME NEW c \in FsmCtx, c.state = "CLEANING",
         NEW t \in Tick, NEW r, r = Dispatch(c, "PROTECT_TRIGGER", t)
  PROVE  /\ r.state = "SAFE_STOP"
         /\ r.occupied = c.occupied /\ r.bin_full = c.bin_full
         /\ r.protect_active = TRUE
<1> DEFINE d == NoteInput(c, "PROTECT_TRIGGER")
<1>1. /\ d \in FsmCtx /\ d.state = c.state
      /\ d.occupied = c.occupied /\ d.bin_full = c.bin_full
      /\ d.protect_active = TRUE
  BY DEF NoteInput, FsmCtx
<1>2. r = StopForProtect(d, t)
  BY <1>1 DEF Dispatch
<1> HIDE DEF d
<1>3. Steady(d, r) /\ r.state = "SAFE_STOP"
  BY <1>1, <1>2, CodedSteady DEF FaultCode, FsmState
<1> QED BY <1>1, <1>3 DEF Steady, SameInputs

\* Outside FAULT the edge, taken or not, leaves the machine in a state that
\* agrees with the sample.
LEMMA OccupancyFits ==
  ASSUME Agrees(ctx, prev_occupied, prev_bin_full), prev_occupied \in BOOLEAN,
         NEW occupied \in BOOLEAN, NEW bin_full \in BOOLEAN, NEW t \in Tick,
         NEW c, EdgesFit(c, ctx, occupied, bin_full)
  PROVE  Fits(OccupancyEdge(c, occupied, t), occupied, bin_full)
<1> DEFINE r == OccupancyEdge(c, occupied, t)
<1>1. /\ c \in FsmCtx /\ c.state \in FsmState
      /\ c.occupied = occupied /\ c.bin_full = bin_full
      /\ c.protect_active = (occupied /\ ctx.state \in {"CLEANING", "SAFE_STOP"})
      /\ c.state = ctx.state \/ (c.state = "FAULT" /\ bin_full)
      /\ bin_full => c.state \in {"SAFE_STOP", "FAULT"}
  BY DEF EdgesFit, FsmCtx, ProtectActive
<1>2. /\ ctx.state \in {"IDLE", "LEAVE_CONFIRM", "CLEAN_DELAY", "CLEANING"} => ~prev_occupied
      /\ ctx.state \in {"OCCUPIED", "SAFE_STOP"} => prev_occupied
  BY DEF Agrees
<1>3. CASE c.state = "FAULT" \/ occupied = prev_occupied
  <2>1. r = c
    BY <1>3 DEF OccupancyEdge
  <2>2. /\ c.protect_active => occupied /\ c.state \in {"SAFE_STOP", "FAULT"}
        /\ c.protect_active /\ c.state = "FAULT" => bin_full
    BY <1>1, <1>2, <1>3
  <2>3. c.state = "SAFE_STOP" => (occupied <=> c.protect_active)
    BY <1>1, <1>2, <1>3
  <2> QED BY <1>1, <1>2, <1>3, <2>1, <2>2, <2>3 DEF Fits
<1>4. CASE c.state # "FAULT" /\ occupied /\ ~prev_occupied
  <2>1. ctx.state = c.state /\ c.state \in {"IDLE", "LEAVE_CONFIRM", "CLEAN_DELAY", "CLEANING"}
    BY <1>1, <1>2, <1>4 DEF FsmState
  <2>2. ~bin_full
    BY <1>1, <2>1
  <2>3. CASE c.state = "CLEANING"
    <3>1. r = Dispatch(c, "PROTECT_TRIGGER", t)
      BY <1>4, <2>3 DEF OccupancyEdge, OccupancyEvent
    <3> HIDE DEF r
    <3>2. /\ r \in FsmCtx /\ r.state = "SAFE_STOP" /\ r.occupied = c.occupied
          /\ r.bin_full = c.bin_full /\ r.protect_active = TRUE
      BY <1>1, <2>3, <3>1, DispatchProtect, DispatchSteady
    <3> QED BY <1>1, <1>4, <2>2, <3>2 DEF Fits, r
  <2>4. CASE c.state # "CLEANING"
    <3>1. r = Dispatch(c, "OCCUPIED_ON", t)
      BY <1>4, <2>4 DEF OccupancyEdge, OccupancyEvent
    <3> HIDE DEF r
    <3>2. /\ r \in FsmCtx /\ r.state = "OCCUPIED" /\ r.occupied = TRUE
          /\ r.bin_full = c.bin_full /\ r.protect_active = c.protect_active
      BY <1>1, <2>1, <2>4, <3>1, DispatchOccupiedOn, DispatchSteady
    <3>3. ~c.protect_active
      BY <1>1, <2>1, <2>4
    <3> QED BY <1>1, <1>4, <2>2, <3>2, <3>3 DEF Fits, r
  <2> QED BY <2>3, <2>4 DEF r
<1>5. CASE c.state # "FAULT" /\ ~occupied /\ prev_occupied
  <2>1. c.state \in {"OCCUPIED", "SAFE_STOP"} /\ ~c.protect_active
    BY <1>1, <1>2, <1>5 DEF FsmState
  <2>2. r = Dispatch(c, "OCCUPIED_OFF", t)
    BY <1>5 DEF OccupancyEdge, OccupancyEvent
  <2> HIDE DEF r
  <2>3. /\ r \in FsmCtx
        /\ r.state = IF c.state = "OCCUPIED" THEN "LEAVE_CONFIRM" ELSE "SAFE_STOP"
        /\ r.occupied = FALSE /\ r.bin_full = c.bin_full
        /\ r.protect_active = c.protect_active
    BY <1>1, <2>1, <2>2, DispatchOccupiedOff, DispatchSteady
  <2> QED BY <1>1, <1>5, <2>1, <2>3 DEF Fits, r
<1> QED BY <1>2, <1>3, <1>4, <1>5

\* A clean request starts a run from a settled IDLE or CLEAN_DELAY and does
\* nothing elsewhere: the interlocks never have to act here.
LEMMA CleanFits ==
  ASSUME NEW occupied \in BOOLEAN, NEW bin_full \in BOOLEAN, NEW t \in Tick, NEW take,
         NEW c, Fits(c, occupied, bin_full)
  PROVE  Fits(ServeClean(c, take, t), occupied, bin_full)
<1> DEFINE r == ServeClean(c, take, t)
<1>1. c \in FsmCtx /\ c.state \in FsmState
  BY DEF Fits, FsmCtx
<1>2. CASE take
  <2>1. r = Dispatch(c, "CLEAN_START", t)
    BY <1>2 DEF ServeClean
  <2> HIDE DEF r
  <2>2. /\ c.state = "IDLE" => r = InIdle(c, "CLEAN_START", t)
        /\ c.state = "OCCUPIED" => r = InOccupied(c, "CLEAN_START", t)
        /\ c.state = "LEAVE_CONFIRM" => r = InLeaveConfirm(c, "CLEAN_START", t)
        /\ c.state = "CLEAN_DELAY" => r = InCleanDelay(c, "CLEAN_START", t)
        /\ c.state = "CLEANING" => r = InCleaning(c, "CLEAN_START", t)
        /\ c.state = "SAFE_STOP" => r = InSafeStop(c, "CLEAN_START", t)
        /\ c.state = "FAULT" => r = InFault(c, "CLEAN_START", t)
    BY <1>1, <2>1, DispatchPlain
  <2>3. CASE c.state \in {"IDLE", "CLEAN_DELAY", "OCCUPIED"}
    <3>1. r = TryEnterCleaning(c, t)
      BY <2>2, <2>3 DEF InIdle, InOccupied, InCleanDelay
    <3>2. Steady(c, r)
      BY <1>1, <3>1, RecoverySteady
    <3>3. /\ c.state # "OCCUPIED" => Clear(c)
          /\ c.state = "OCCUPIED" => c.occupied
      BY <2>3 DEF Fits, Clear
    <3>4. /\ c.state # "OCCUPIED" => r.state = "CLEANING"
          /\ c.state = "OCCUPIED" => r.state = "OCCUPIED"
      BY <1>1, <3>1, <3>3, TryEnterCleaningState
    <3> QED BY <2>3, <3>2, <3>3, <3>4 DEF Fits, Steady, SameInputs, Clear, r
  <2>4. CASE c.state \in {"LEAVE_CONFIRM", "CLEANING", "SAFE_STOP", "FAULT"}
    <3>1. ~PhaseEnds(c, "CLEAN_START")
      BY DEF PhaseEnds
    <3>2. r = c
      BY <2>2, <2>4, <3>1 DEF InLeaveConfirm, InCleaning, InSafeStop, InFault
    <3> QED BY <3>2 DEF r
  <2> QED BY <1>1, <2>3, <2>4 DEF FsmState
<1>3. CASE ~take
  BY <1>3 DEF ServeClean
<1> QED BY <1>2, <1>3

\* A reset sends the windows, a run, a released SAFE_STOP and a FAULT with the
\* bin not full to the state the sample calls for.
LEMMA ResetFits ==
  ASSUME NEW occupied \in BOOLEAN, NEW bin_full \in BOOLEAN, NEW t \in Tick,
         NEW c, Fits(c, occupied, bin_full)
  PROVE  Fits(ServeReset(c, t), occupied, bin_full)
<1> DEFINE r == ServeReset(c, t)
<1>1. c \in FsmCtx /\ c.state \in FsmState
  BY DEF Fits, FsmCtx
<1>2. CASE reset_request
  <2>1. r = Dispatch(c, "RESET", t)
    BY <1>2 DEF ServeReset
  <2> HIDE DEF r
  <2>2. /\ c.state = "IDLE" => r = InIdle(c, "RESET", t)
        /\ c.state = "OCCUPIED" => r = InOccupied(c, "RESET", t)
        /\ c.state = "LEAVE_CONFIRM" => r = InLeaveConfirm(c, "RESET", t)
        /\ c.state = "CLEAN_DELAY" => r = InCleanDelay(c, "RESET", t)
        /\ c.state = "CLEANING" => r = InCleaning(c, "RESET", t)
        /\ c.state = "SAFE_STOP" => r = InSafeStop(c, "RESET", t)
        /\ c.state = "FAULT" => r = InFault(c, "RESET", t)
    BY <1>1, <2>1, DispatchPlain
  <2>3. CASE c.state \in {"IDLE", "OCCUPIED"}
    BY <2>2, <2>3 DEF InIdle, InOccupied, r
  <2>4. CASE c.state = "CLEANING"
    <3>1. ~PhaseEnds(c, "RESET")
      BY DEF PhaseEnds
    <3>2. r = EnterState(c, "IDLE", t)
      BY <2>2, <2>4, <3>1 DEF InCleaning
    <3>3. r.state = "IDLE" /\ Steady(c, r)
      BY <1>1, <3>2, EnterStateSteady DEF FsmState
    <3> QED BY <2>4, <3>3 DEF Fits, Steady, SameInputs, r
  <2>5. CASE c.state \in {"LEAVE_CONFIRM", "CLEAN_DELAY", "SAFE_STOP", "FAULT"}
    <3>1. r = ResetRecover(c, t)
      BY <2>2, <2>5 DEF InLeaveConfirm, InCleanDelay, InSafeStop, InFault
    <3>2. Steady(c, r)
      BY <1>1, <3>1, RecoverySteady
    <3>3. IF c.protect_active \/ c.bin_full THEN r = c ELSE r.state = IdleOrOccupied(c)
      BY <1>1, <3>1, ResetRecoverState
    <3> QED BY <3>2, <3>3 DEF Fits, Steady, SameInputs, IdleOrOccupied, r
  <2> QED BY <1>1, <2>3, <2>4, <2>5 DEF FsmState
<1>3. CASE ~reset_request
  BY <1>3 DEF ServeReset
<1> QED BY <1>2, <1>3

\* An arrival that is handed on moves a run to its next phase or ends it.
LEMMA HallFits ==
  ASSUME NEW occupied \in BOOLEAN, NEW bin_full \in BOOLEAN, NEW t \in Tick,
         NEW c, Fits(c, occupied, bin_full), NEW position, NEW reports,
         reports => /\ c.state = "CLEANING" /\ c.clean_phase # "NONE"
                    /\ position = TargetPosition[c.clean_phase]
  PROVE  Fits(ServeHall(c, reports, position, t), occupied, bin_full)
<1> DEFINE e == ArrivalAt(position)
           r == ServeHall(c, reports, position, t)
<1>1. c \in FsmCtx /\ c.clean_phase \in CleanPhase
  BY DEF Fits, FsmCtx
<1>2. CASE reports
  <2>1. c.state = "CLEANING" /\ c.clean_phase \in {"TO_POS2", "TO_POS3", "TO_POS1"}
    BY <1>1, <1>2 DEF CleanPhase
  <2>2. /\ c.clean_phase = "TO_POS2" => e = "POS2_REACHED"
        /\ c.clean_phase = "TO_POS3" => e = "POS3_REACHED"
        /\ c.clean_phase = "TO_POS1" => e = "POS1_REACHED"
    BY <1>2 DEF TargetPosition, ArrivalAt, CleanPhase
  <2>3. e \in {"POS1_REACHED", "POS2_REACHED", "POS3_REACHED"}
    BY <2>1, <2>2
  <2>4. r = Dispatch(c, e, t)
    BY <1>2 DEF ServeHall
  <2> HIDE DEF e, r
  <2>5. r = InCleaning(c, e, t)
    BY <1>1, <2>1, <2>3, <2>4, DispatchPlain
  <2>6. PhaseEnds(c, e) /\ e \notin {"OCCUPIED_ON", "BIN_FULL", "CLEAN_DONE", "RESET"}
    BY <2>1, <2>2, <2>3 DEF PhaseEnds
  <2>7. r = EndPhase(c, e, t)
    BY <2>5, <2>6 DEF InCleaning
  <2>8. Steady(c, r) /\ r.state \in {"CLEANING", "IDLE"}
    BY <1>1, <2>1, <2>7, EndPhaseSteady
  <2> QED BY <2>1, <2>8 DEF Fits, Steady, SameInputs, r
<1>3. CASE ~reports
  BY <1>3 DEF ServeHall
<1> QED BY <1>2, <1>3

\* Releasing the protection leads out of SAFE_STOP, to FAULT if the bin has
\* filled up meanwhile.
LEMMA DispatchRelease ==
  ASSUME NEW c \in FsmCtx, c.state = "SAFE_STOP", ~c.occupied, ~c.protect_active,
         NEW t \in Tick, NEW r, r = Dispatch(c, "PROTECT_RELEASE", t)
  PROVE  /\ SameInputs(c, r)
         /\ r.state = IF c.bin_full THEN "FAULT" ELSE "LEAVE_CONFIRM"
<1> DEFINE d == NoteInput(c, "PROTECT_RELEASE")
<1>1. "PROTECT_RELEASE" \in FsmEvent \ {"PROTECT_TRIGGER", "STALL_OR_TIMEOUT"}
  BY DEF FsmEvent
<1>2. d \in FsmCtx /\ d.state = "SAFE_STOP" /\ SameInputs(c, d)
  BY <1>1 DEF NoteInput, FsmCtx, SameInputs
<1>3. r = InSafeStop(d, "PROTECT_RELEASE", t)
  BY <1>1, DispatchByState
<1> HIDE DEF d
<1>4. r = RecoverFromSafeStop(d, t)
  BY <1>3 DEF InSafeStop
<1>5. ~d.occupied /\ d.bin_full = c.bin_full
  BY <1>2 DEF SameInputs
<1>6. Steady(d, r)
  BY <1>2, <1>4, RecoverySteady
<1>7. /\ EnterFault(d, "BIN_FULL", t).state = "FAULT"
      /\ RecoverTo(d, "LEAVE_CONFIRM", t).state = "LEAVE_CONFIRM"
  BY <1>2, CodedSteady DEF FaultCode, FsmState
<1> QED BY <1>2, <1>4, <1>5, <1>6, <1>7 DEF Steady, SameInputs, RecoverFromSafeStop

\* The timeouts and recoveries of litter_fsm_tick on a context that fits.
LEMMA TickFits ==
  ASSUME NEW occupied \in BOOLEAN, NEW bin_full \in BOOLEAN, NEW t \in Tick,
         NEW c, Fits(c, occupied, bin_full), NEW r, r = FsmTick(c, t)
  PROVE  Fits(r, occupied, bin_full) /\ Answered(r, occupied, bin_full)
<1>1. c \in FsmCtx /\ c.state \in FsmState
  BY DEF Fits, FsmCtx
<1>2. CASE c.state \in {"IDLE", "OCCUPIED"}
  <2>1. r = c
    BY <1>2 DEF FsmTick, FaultClears
  <2> QED BY <1>2, <2>1 DEF Answered
<1>3. CASE c.state \in {"LEAVE_CONFIRM", "CLEAN_DELAY"}
  <2>1. Clear(c)
    BY <1>3 DEF Fits, Clear
  <2>2. CASE ~DeadlineExpired(t, c.deadline_tick)
    <3>1. r = c
      BY <1>3, <2>2 DEF FsmTick, FaultClears
    <3> QED BY <1>3, <3>1 DEF Answered
  <2>3. CASE DeadlineExpired(t, c.deadline_tick)
    <3>1. r = Dispatch(c, "DELAY_TIMEOUT", t)
      BY <1>3, <2>3 DEF FsmTick, FaultClears
    <3>2. /\ c.state = "LEAVE_CONFIRM" => r = InLeaveConfirm(c, "DELAY_TIMEOUT", t)
          /\ c.state = "CLEAN_DELAY" => r = InCleanDelay(c, "DELAY_TIMEOUT", t)
      BY <1>1, <3>1, DispatchPlain
    <3>3. CASE c.state = "LEAVE_CONFIRM"
      <4>1. r = EnterState(c, "CLEAN_DELAY", t)
        BY <2>1, <3>2, <3>3 DEF InLeaveConfirm, LeaveConfirmed, Clear
      <4>2. Steady(c, r) /\ r.state = "CLEAN_DELAY"
        BY <1>1, <4>1, EnterStateSteady DEF FsmState
      <4> QED BY <2>1, <4>2 DEF Fits, Answered, Steady, SameInputs, Clear
    <3>4. CASE c.state = "CLEAN_DELAY"
      <4>1. r = TryEnterCleaning(c, t)
        BY <3>2, <3>4 DEF InCleanDelay
      <4>2. Steady(c, r) /\ r.state = "CLEANING"
        BY <1>1, <2>1, <4>1, RecoverySteady, TryEnterCleaningState
      <4> QED BY <2>1, <4>2 DEF Fits, Answered, Steady, SameInputs, Clear
    <3> QED BY <1>3, <3>3, <3>4
  <2> QED BY <2>2, <2>3
<1>4. CASE c.state = "CLEANING"
  <2>1. ~c.protect_active /\ ~bin_full /\ ~occupied
    BY <1>4 DEF Fits
  <2>2. CASE ~(RunOverdue(c, t) \/ PhaseOverdue(c, t))
    <3>1. r = c
      BY <1>4, <2>1, <2>2 DEF FsmTick, FaultClears
    <3> QED BY <1>4, <3>1 DEF Answered
  <2>3. CASE RunOverdue(c, t) \/ PhaseOverdue(c, t)
    <3>1. r = Dispatch(c, "STALL_OR_TIMEOUT", t)
      BY <1>4, <2>1, <2>3 DEF FsmTick, FaultClears
    <3>2. NoteInput(c, "STALL_OR_TIMEOUT") = c
      BY <1>1, NoteNothing DEF FsmEvent, InputEvent
    <3>3. r = EnterFault(c, "CLEAN_TIMEOUT", t)
      BY <3>1, <3>2 DEF Dispatch
    <3>4. Steady(c, r) /\ r.state = "FAULT"
      BY <1>1, <3>3, CodedSteady DEF FaultCode, FsmState
    <3>5. r.fault_code = "CLEAN_TIMEOUT"
      BY <1>1, <1>4, <3>3 DEF EnterFault, EnterState, Halt, KeepsFault, FsmCtx
    <3> QED BY <2>1, <3>4, <3>5 DEF Fits, Answered, Steady, SameInputs
  <2> QED BY <2>2, <2>3
<1>5. CASE c.state = "SAFE_STOP"
  <2>1. CASE c.protect_active
    <3>1. r = c
      BY <1>5, <2>1 DEF FsmTick, FaultClears
    <3> QED BY <1>5, <2>1, <3>1 DEF Fits, Answered
  <2>2. CASE ~c.protect_active
    <3>1. r = Dispatch(c, "PROTECT_RELEASE", t)
      BY <1>5, <2>2 DEF FsmTick, FaultClears
    <3>2. ~c.occupied
      BY <1>5, <2>2 DEF Fits
    <3>3. /\ r \in FsmCtx /\ SameInputs(c, r)
          /\ r.state = IF c.bin_full THEN "FAULT" ELSE "LEAVE_CONFIRM"
      BY <1>1, <1>5, <2>2, <3>1, <3>2, DispatchRelease, DispatchSteady
    <3> QED BY <2>2, <3>2, <3>3 DEF Fits, Answered, SameInputs
  <2> QED BY <2>1, <2>2
<1>6. CASE c.state = "FAULT"
  <2>1. CASE FaultClears(c)
    <3>1. r = RecoverTo(c, IdleOrOccupied(c), t)
      BY <1>6, <2>1 DEF FsmTick
    <3>2. Steady(c, r) /\ r.state = IdleOrOccupied(c)
      BY <1>1, <3>1, CodedSteady DEF IdleOrOccupied, FaultCode, FsmState
    <3>3. ~bin_full /\ ~c.protect_active
      BY <1>6, <2>1 DEF FaultClears, Fits
    <3> QED BY <3>2, <3>3 DEF Fits, Answered, Steady, SameInputs, IdleOrOccupied
  <2>2. CASE ~FaultClears(c)
    <3>1. r = c
      BY <1>6, <2>2 DEF FsmTick
    <3> QED BY <1>6, <2>2, <3>1 DEF Fits, Answered, FaultClears
  <2> QED BY <2>1, <2>2
<1> QED BY <1>1, <1>2, <1>3, <1>4, <1>5, <1>6 DEF FsmState

-----------------------------------------------------------------------------
(* The same stages on sound contexts. *)

LEMMA SoundTyped ==
  ASSUME NEW c, Sound(c)
  PROVE  c \in FsmCtx
BY DEF Sound

\* Recording the sampled inputs keeps a context sound.
LEMMA SyncInputsSound ==
  ASSUME NEW c, Sound(c),
         NEW occupied \in BOOLEAN, NEW bin_full \in BOOLEAN, NEW protect \in BOOLEAN
  PROVE  Sound(SyncInputs(c, occupied, bin_full, protect))
BY DEF SyncInputs, Sound, FsmCtx

LEMMA MatchedAgrees ==
  ASSUME TypeOK, Matched(ctx, prev_occupied, prev_bin_full)
  PROVE  /\ Sound(ctx) /\ ctx \in FsmCtx /\ Agrees(ctx, prev_occupied, prev_bin_full)
         /\ prev_occupied \in BOOLEAN
BY DEF TypeOK, Matched, Settled, Fits, Answered, Agrees

LEMMA EdgesEdged ==
  ASSUME TypeOK, Matched(ctx, prev_occupied, prev_bin_full),
         NEW occupied \in BOOLEAN, NEW bin_full \in BOOLEAN, NEW t \in Tick
  PROVE  Edged(BinFullEdge(ReadInputs(ctx, occupied, bin_full), bin_full, t),
               ctx, occupied, bin_full)
<1> DEFINE d == ReadInputs(ctx, occupied, bin_full)
<1>1. Sound(d) /\ d \in FsmCtx
  <2>1. ProtectActive(occupied, ctx.state) \in BOOLEAN
    BY DEF ProtectActive
  <2> QED BY <2>1, MatchedAgrees, SyncInputsSound, SoundTyped DEF ReadInputs
<1>2. EdgesFit(BinFullEdge(d, bin_full, t), ctx, occupied, bin_full)
  BY MatchedAgrees, EdgesFits
<1> HIDE DEF d
<1>3. Sound(BinFullEdge(d, bin_full, t))
  BY <1>1, DispatchSound DEF BinFullEdge, FsmEvent
<1> QED BY <1>2, <1>3 DEF Edged, d

LEMMA OccupancySettled ==
  ASSUME TypeOK, Matched(ctx, prev_occupied, prev_bin_full),
         NEW occupied \in BOOLEAN, NEW bin_full \in BOOLEAN, NEW t \in Tick,
         NEW c, Edged(c, ctx, occupied, bin_full)
  PROVE  Settled(OccupancyEdge(c, occupied, t), occupied, bin_full)
<1>1. OccupancyEvent(c, occupied) \in FsmEvent /\ Sound(c) /\ c \in FsmCtx
  BY DEF OccupancyEvent, FsmEvent, Edged, EdgesFit
<1>2. Sound(OccupancyEdge(c, occupied, t))
  BY <1>1, DispatchSound DEF OccupancyEdge
<1> QED BY <1>2, MatchedAgrees, OccupancyFits DEF Settled, Edged

LEMMA CleanSettled ==
  ASSUME NEW occupied \in BOOLEAN, NEW bin_full \in BOOLEAN, NEW t \in Tick, NEW take,
         NEW c, Settled(c, occupied, bin_full)
  PROVE  Settled(ServeClean(c, take, t), occupied, bin_full)
<1>1. Sound(ServeClean(c, take, t))
  BY DispatchSound DEF ServeClean, FsmEvent, Settled, Fits
<1> QED BY <1>1, CleanFits DEF Settled

LEMMA ResetSettled ==
  ASSUME TypeOK, NEW occupied \in BOOLEAN, NEW bin_full \in BOOLEAN, NEW t \in Tick,
         NEW c, Settled(c, occupied, bin_full)
  PROVE  Settled(ServeReset(c, t), occupied, bin_full)
<1>1. Sound(ServeReset(c, t))
  BY DispatchSound DEF ServeReset, FsmEvent, Settled, Fits
<1> QED BY <1>1, ResetFits DEF Settled

LEMMA HallSettled ==
  ASSUME NEW occupied \in BOOLEAN, NEW bin_full \in BOOLEAN, NEW t \in Tick,
         NEW c, Settled(c, occupied, bin_full), NEW position, NEW reports,
         reports => c.state = "CLEANING" /\ position = TargetPosition[c.clean_phase]
  PROVE  Settled(ServeHall(c, reports, position, t), occupied, bin_full)
<1>1. Sound(c) /\ c \in FsmCtx /\ (c.state = "CLEANING" => c.clean_phase # "NONE")
  BY DEF Settled, Fits, Sound
<1>2. reports => ArrivalAt(position) \in FsmEvent
  BY <1>1 DEF TargetPosition, ArrivalAt, FsmEvent, FsmCtx, CleanPhase
<1>3. Sound(ServeHall(c, reports, position, t))
  BY <1>1, <1>2, DispatchSound DEF ServeHall
<1> QED BY <1>1, <1>3, HallFits DEF Settled

LEMMA TickMatched ==
  ASSUME NEW occupied \in BOOLEAN, NEW bin_full \in BOOLEAN, NEW t \in Tick,
         NEW c, Settled(c, occupied, bin_full)
  PROVE  Matched(FsmTick(c, t), occupied, bin_full)
<1>1. Sound(FsmTick(c, t))
  BY FsmTickSound DEF Settled, Fits
<1> QED BY <1>1, TickFits DEF Matched, Settled

-----------------------------------------------------------------------------
(* The invariant. *)

\* An iteration takes a matched context to one that matches the new sample.
LEMMA RunningMatched ==
  ASSUME IInv, NEW occupied \in BOOLEAN, NEW bin_full \in BOOLEAN, NEW position,
         NEW t \in Tick, Running(occupied, bin_full, position, t)
  PROVE  Matched(ctx', occupied, bin_full) /\ last_reported_phase' \in CleanPhase
<1> DEFINE protect == ProtectActive(occupied, ctx.state)
           edges == BinFullEdge(ReadInputs(ctx, occupied, bin_full), bin_full, t)
           takes == TakesCleanRequest(edges)
           settled == OccupancyEdge(edges, occupied, t)
           asked == ServeClean(settled, takes, t)
           served == ServeReset(asked, t)
           reports == HallReports(served, position, bin_full, protect)
           arrived == ServeHall(served, reports, position, t)
<1>1. TypeOK /\ Matched(ctx, prev_occupied, prev_bin_full)
  BY DEF IInv
<1>2. Edged(edges, ctx, occupied, bin_full)
  BY <1>1, EdgesEdged
<1>3. ctx' = FsmTick(arrived, t) /\ last_reported_phase' = ReportedPhase(served, reports)
  BY DEF Running
<1>4. reports => served.state = "CLEANING" /\ position = TargetPosition[served.clean_phase]
  BY DEF HallReports
<1> HIDE DEF edges, takes
<1>5. Settled(settled, occupied, bin_full)
  BY <1>1, <1>2, OccupancySettled
<1> HIDE DEF settled
<1>6. Settled(asked, occupied, bin_full)
  BY <1>5, CleanSettled
<1> HIDE DEF asked
<1>7. Settled(served, occupied, bin_full)
  BY <1>1, <1>6, ResetSettled
<1> HIDE DEF served, reports
<1>8. Settled(arrived, occupied, bin_full)
  BY <1>4, <1>7, HallSettled
<1>9. ReportedPhase(served, reports) \in CleanPhase
  BY <1>1, <1>7 DEF ReportedPhase, TypeOK, Settled, Sound, FsmCtx, CleanPhase
<1> HIDE DEF arrived
<1> QED BY <1>3, <1>8, <1>9, TickMatched

\* The variables around the context keep their types in an iteration.
LEMMA RunningTyped ==
  ASSUME IInv, NEW occupied \in BOOLEAN, NEW bin_full \in BOOLEAN,
         NEW position \in HallReading \cup {stable_position},
         NEW t \in Tick, Running(occupied, bin_full, position, t)
  PROVE  IInv'
<1>1. TypeOK /\ Sound(ctx)
  BY DEF IInv, Matched, Settled
<1>2. Matched(ctx', occupied, bin_full) /\ last_reported_phase' \in CleanPhase
  BY RunningMatched
<1>3. prev_occupied' = occupied /\ prev_bin_full' = bin_full /\ now' = t
      /\ stable_position' = position
  BY DEF Running
<1>4. ctx' \in FsmCtx
  BY <1>2 DEF Matched, Settled, Sound
<1>5. position \in HallPosition
  BY <1>1, LoopAssumption DEF TypeOK
<1>6. last_reported_position' \in HallPosition
  BY <1>1, <1>5 DEF Running, TypeOK
<1>7. box_used' \in 0 .. UseMod - 1
  BY <1>1, LoopAssumption DEF Running, TypeOK
<1>8. remote_clean_request' \in BOOLEAN /\ reset_request' \in BOOLEAN
  BY DEF Running
<1> QED
  BY <1>2, <1>3, <1>4, <1>5, <1>6, <1>7, <1>8 DEF IInv, TypeOK

\* Sensor_Logic_Init settles the machine on the first sample.
LEMMA InitMatched == Init => IInv
<1> SUFFICES ASSUME Init PROVE IInv
  OBVIOUS
<1> DEFINE c == SyncInputs(FsmInit, prev_occupied, prev_bin_full, FALSE)
           d == IF prev_occupied THEN Dispatch(c, "OCCUPIED_ON", now) ELSE c
<1>1. 0 \in Tick /\ now \in Tick /\ prev_occupied \in BOOLEAN /\ prev_bin_full \in BOOLEAN
  BY TickModAssumption DEF Tick, Init
<1>2. /\ Sound(c) /\ c.state = "IDLE"
      /\ c.occupied = prev_occupied /\ c.bin_full = prev_bin_full /\ c.protect_active = FALSE
  BY <1>1 DEF SyncInputs, FsmInit, Sound, FsmCtx, FsmState, CleanPhase, FaultCode, Motor,
     PhaseMotor
<1>3. ctx = IF prev_bin_full THEN Dispatch(d, "BIN_FULL", now) ELSE d
  BY DEF Init, Boot
<1> HIDE DEF c
<1>4. /\ Sound(d) /\ d.state = IF prev_occupied THEN "OCCUPIED" ELSE "IDLE"
      /\ d.occupied = prev_occupied /\ d.bin_full = prev_bin_full
      /\ d.protect_active = FALSE
  <2>1. CASE prev_occupied
    <3>1. d = Dispatch(c, "OCCUPIED_ON", now)
      BY <2>1
    <3> HIDE DEF d
    <3>2. /\ Sound(d) /\ d.state = "OCCUPIED"
          /\ d.occupied = TRUE /\ d.bin_full = c.bin_full
          /\ d.protect_active = c.protect_active
      <4>1. c \in FsmCtx /\ "OCCUPIED_ON" \in FsmEvent
        BY <1>2, SoundTyped DEF FsmEvent
      <4>2. Sound(d)
        BY <1>1, <1>2, <3>1, <4>1, DispatchSound
      <4>3. c.state \in {"IDLE", "LEAVE_CONFIRM", "CLEAN_DELAY"}
        BY <1>2
      <4>4. /\ d.state = "OCCUPIED" /\ d.occupied = TRUE /\ d.bin_full = c.bin_full
            /\ d.protect_active = c.protect_active
        BY <1>1, <3>1, <4>1, <4>3, DispatchOccupiedOn
      <4> QED BY <4>2, <4>4
    <3> QED BY <1>1, <1>2, <2>1, <3>2
  <2>2. CASE ~prev_occupied
    BY <1>2, <2>2
  <2> QED BY <2>1, <2>2
<1> HIDE DEF d
<1>5. Matched(ctx, prev_occupied, prev_bin_full)
  <2>1. CASE prev_bin_full
    <3>1. ctx = Dispatch(d, "BIN_FULL", now)
      BY <1>3, <2>1
    <3>2. /\ Sound(ctx) /\ ctx.state = "FAULT"
          /\ ctx.occupied = d.occupied /\ ctx.bin_full
          /\ ctx.protect_active = d.protect_active
      BY <1>1, <1>4, <3>1, DispatchBinFull, DispatchSound, SoundTyped DEF FsmEvent
    <3>3. ctx.bin_full = TRUE
      BY <3>2 DEF Sound, FsmCtx
    <3> QED BY <1>1, <1>4, <2>1, <3>2, <3>3 DEF Matched, Settled, Fits, Answered, Sound
  <2>2. CASE ~prev_bin_full
    BY <1>1, <1>3, <1>4, <2>2 DEF Matched, Settled, Fits, Answered, Sound
  <2> QED BY <2>1, <2>2
<1>6. TypeOK
  <2>1. ctx \in FsmCtx
    BY <1>5 DEF Matched, Settled, Sound
  <2>2. 0 \in 0 .. UseMod - 1
    BY LoopAssumption
  <2> QED BY <1>1, <2>1, <2>2 DEF Init, TypeOK, HallPosition, CleanPhase
<1> QED BY <1>5, <1>6 DEF IInv

\* The invariant is inductive.
LEMMA NextMatched ==
  ASSUME IInv, [Next]_vars
  PROVE  IInv'
<1>1. TypeOK /\ Matched(ctx, prev_occupied, prev_bin_full)
  BY DEF IInv
<1>2. CASE Iterate
  <2>1. PICK occupied \in BOOLEAN, bin_full \in BOOLEAN,
             position \in HallReading \cup {stable_position}, d \in LoopTicks :
               Running(occupied, bin_full, position, TickAdd(now, d))
    BY <1>2 DEF Iterate
  <2>2. TickAdd(now, d) \in Tick
    BY <1>1, LoopAssumption, TickAddType DEF TypeOK
  <2> QED BY <2>1, <2>2, RunningTyped
<1>3. CASE RequestClean
  BY <1>1, <1>3 DEF RequestClean, IInv, TypeOK, hall
<1>4. CASE RequestReset
  BY <1>1, <1>4 DEF RequestReset, IInv, TypeOK, hall
<1>5. CASE UNCHANGED vars
  BY <1>1, <1>5 DEF vars, hall, requests, IInv, TypeOK
<1> QED BY <1>2, <1>3, <1>4, <1>5 DEF Next

\* Between two iterations the control loop's variables have their types and
\* the state machine agrees with the last sample.
THEOREM LogicInvariant == Spec => []IInv
BY InitMatched, NextMatched, PTL DEF Spec

\* The variables of the control loop keep their types.
THEOREM LogicTypeCorrect == Spec => []TypeOK
<1>1. IInv => TypeOK
  BY DEF IInv
<1> QED BY <1>1, LogicInvariant, PTL

\* No edge is lost, also not while FAULT skips them: at every sleep of the
\* control thread the state is one the last sample allows.
THEOREM LogicStateMatchesSample == Spec => []StateMatchesSample
<1>1. IInv => StateMatchesSample
  BY DEF IInv, TypeOK, Matched, Settled, Fits, Answered, StateMatchesSample
<1> QED BY <1>1, LogicInvariant, PTL

\* The drum turns between two iterations only in a cleaning run, in the
\* direction of its phase, in a box that was empty with a bin that had room.
THEOREM LogicMotorSafe == Spec => []MotorSafe
<1>1. ASSUME IInv PROVE MotorSafe
  <2>1. /\ ctx.motor = PhaseMotor[ctx.clean_phase]
        /\ ctx.clean_phase # "NONE" => ctx.state = "CLEANING"
    BY <1>1 DEF IInv, Matched, Settled, Sound
  <2>2. ctx.state = "CLEANING" => ~prev_occupied /\ ~prev_bin_full
    BY <1>1 DEF IInv, Matched, Settled, Fits
  <2> QED BY <2>1, <2>2 DEF MotorSafe, PhaseMotor
<1> QED BY <1>1, LogicInvariant, PTL

-----------------------------------------------------------------------------
(* Runs: what the hall stage has to remember between two iterations. *)


\* What the dedupe of arrivals remembers never stands in the way of the phase
\* under way.  A run that has come home leaves its last phase behind until the
\* next iteration; any other way out of a run leads through FAULT, or is taken
\* before the hall stage, which then forgets.
Remembered ==
  /\ ctx.state = "CLEANING" => last_reported_phase # ctx.clean_phase
  /\ ctx.state \notin {"CLEANING", "FAULT"} => last_reported_phase \in {"NONE", "TO_POS1"}

LoopInv == IInv /\ Remembered /\ RunBudget /\ ArrivalConsumed

\* A run that has begun at t.
BegunAt(c, t) ==
  c.clean_phase = "TO_POS2" /\ c.clean_started_tick = t /\ c.phase_started_tick = t

\* No time has passed since now.
LEMMA TickSubSame ==
  ASSUME NEW t \in Tick
  PROVE  TickSub(t, t) = 0
BY TickModAssumption DEF TickSub, Tick

\* The first phase starts with the run.
LEMMA EnterCleaning ==
  ASSUME NEW c \in FsmCtx, c.state # "CLEANING", NEW t
  PROVE  BegunAt(EnterState(c, "CLEANING", t), t)
BY DEF EnterState, StartCleanPhase, FsmCtx, BegunAt

\* The edges of the bin and of the occupancy begin no run and end no phase.
LEMMA EdgesRun ==
  ASSUME TypeOK, Matched(ctx, prev_occupied, prev_bin_full),
         NEW occupied \in BOOLEAN, NEW bin_full \in BOOLEAN, NEW t \in Tick,
         NEW c, c = BinFullEdge(ReadInputs(ctx, occupied, bin_full), bin_full, t)
  PROVE  /\ ctx.state = "FAULT" => c.state = "FAULT"
         /\ c.state = "CLEANING" => ctx.state = "CLEANING" /\ c.clean_phase = ctx.clean_phase
<1>1. Edged(c, ctx, occupied, bin_full)
  BY EdgesEdged
<1>2. ASSUME c.state = "CLEANING"
      PROVE  c = SyncInputs(ctx, occupied, bin_full, ProtectActive(occupied, ctx.state))
  BY <1>1, <1>2 DEF Edged, EdgesFit, BinFullEdge, ReadInputs
<1>3. ctx \in FsmCtx
  BY DEF TypeOK
<1> QED BY <1>1, <1>2, <1>3 DEF Edged, EdgesFit, SyncInputs, FsmCtx

\* The occupancy edge leads to a state of rest, or is none.
LEMMA OccupancyRun ==
  ASSUME TypeOK, Matched(ctx, prev_occupied, prev_bin_full),
         NEW occupied \in BOOLEAN, NEW bin_full \in BOOLEAN, NEW t \in Tick,
         NEW c, Edged(c, ctx, occupied, bin_full),
         NEW r, r = OccupancyEdge(c, occupied, t)
  PROVE  r = c \/ r.state \in {"OCCUPIED", "LEAVE_CONFIRM", "SAFE_STOP"}
<1>1. /\ Sound(c) /\ c.state \in FsmState
      /\ c.state = ctx.state \/ c.state = "FAULT"
  BY DEF Edged, EdgesFit, Sound, FsmCtx
<1>2. /\ prev_occupied \in BOOLEAN
      /\ ctx.state \in {"IDLE", "LEAVE_CONFIRM", "CLEAN_DELAY", "CLEANING"} => ~prev_occupied
      /\ ctx.state \in {"OCCUPIED", "SAFE_STOP"} => prev_occupied
  BY DEF Matched, Answered, Settled, Fits, TypeOK
<1>3. CASE c.state = "FAULT" \/ occupied = prev_occupied
  BY <1>3 DEF OccupancyEdge
<1>4. CASE c.state # "FAULT" /\ occupied /\ ~prev_occupied
  <2>1. c.state \in {"IDLE", "LEAVE_CONFIRM", "CLEAN_DELAY", "CLEANING"}
    BY <1>1, <1>2, <1>4 DEF FsmState
  <2>2. CASE c.state = "CLEANING"
    <3>1. r = Dispatch(c, "PROTECT_TRIGGER", t)
      BY <1>4, <2>2 DEF OccupancyEdge, OccupancyEvent
    <3> QED BY <1>1, <2>2, <3>1, DispatchProtect, SoundTyped
  <2>3. CASE c.state # "CLEANING"
    <3>1. r = Dispatch(c, "OCCUPIED_ON", t)
      BY <1>4, <2>3 DEF OccupancyEdge, OccupancyEvent
    <3> QED BY <1>1, <2>1, <2>3, <3>1, DispatchOccupiedOn, SoundTyped
  <2> QED BY <2>2, <2>3
<1>5. CASE c.state # "FAULT" /\ ~occupied /\ prev_occupied
  <2>1. c.state \in {"OCCUPIED", "SAFE_STOP"}
    BY <1>1, <1>2, <1>5 DEF FsmState
  <2>2. r = Dispatch(c, "OCCUPIED_OFF", t)
    BY <1>5 DEF OccupancyEdge, OccupancyEvent
  <2>3. r.state = IF c.state = "OCCUPIED" THEN "LEAVE_CONFIRM" ELSE "SAFE_STOP"
    BY <1>1, <2>1, <2>2, DispatchOccupiedOff, SoundTyped
  <2> QED BY <2>3
<1> QED BY <1>2, <1>3, <1>4, <1>5

\* A clean request begins a run from IDLE or CLEAN_DELAY and leaves one that is
\* under way alone.
LEMMA CleanRun ==
  ASSUME NEW occupied \in BOOLEAN, NEW bin_full \in BOOLEAN, NEW t \in Tick, NEW take,
         NEW c, Settled(c, occupied, bin_full), NEW r, r = ServeClean(c, take, t),
         r.state = "CLEANING"
  PROVE  \/ r = c
         \/ take /\ c.state \in {"IDLE", "CLEAN_DELAY"} /\ r.clean_phase = "TO_POS2"
<1>1. Sound(c) /\ c \in FsmCtx /\ c.state \in FsmState
  BY DEF Settled, Fits, Sound, FsmCtx
<1>2. CASE take
  <2>1. r = Dispatch(c, "CLEAN_START", t)
    BY <1>2 DEF ServeClean
  <2>2. /\ c.state = "IDLE" => r = InIdle(c, "CLEAN_START", t)
        /\ c.state = "OCCUPIED" => r = InOccupied(c, "CLEAN_START", t)
        /\ c.state = "LEAVE_CONFIRM" => r = InLeaveConfirm(c, "CLEAN_START", t)
        /\ c.state = "CLEAN_DELAY" => r = InCleanDelay(c, "CLEAN_START", t)
        /\ c.state = "CLEANING" => r = InCleaning(c, "CLEAN_START", t)
        /\ c.state = "SAFE_STOP" => r = InSafeStop(c, "CLEAN_START", t)
        /\ c.state = "FAULT" => r = InFault(c, "CLEAN_START", t)
    BY <1>1, <2>1, DispatchPlain, SoundTyped
  <2>3. CASE c.state \in {"IDLE", "CLEAN_DELAY"}
    <3>1. r = TryEnterCleaning(c, t)
      BY <2>2, <2>3 DEF InIdle, InCleanDelay
    <3>2. Clear(c)
      BY <2>3 DEF Settled, Fits, Clear
    <3>3. r = EnterState(c, "CLEANING", t)
      BY <3>1, <3>2 DEF TryEnterCleaning, Clear
    <3>4. BegunAt(r, t)
      BY <1>1, <2>3, <3>3, EnterCleaning
    <3> QED BY <1>2, <2>3, <3>4 DEF BegunAt
  <2>4. CASE c.state = "OCCUPIED"
    <3>1. r = TryEnterCleaning(c, t) /\ c.occupied
      BY <2>2, <2>4 DEF InOccupied, Settled, Fits
    <3> QED BY <1>1, <3>1, TryEnterCleaningState
  <2>5. CASE c.state \in {"LEAVE_CONFIRM", "CLEANING", "SAFE_STOP", "FAULT"}
    <3>1. ~PhaseEnds(c, "CLEAN_START")
      BY DEF PhaseEnds
    <3> QED BY <2>2, <2>5, <3>1 DEF InLeaveConfirm, InCleaning, InSafeStop, InFault
  <2> QED BY <1>1, <2>3, <2>4, <2>5 DEF FsmState
<1>3. CASE ~take
  BY <1>3 DEF ServeClean
<1> QED BY <1>2, <1>3

\* A reset begins no run.
LEMMA ResetRun ==
  ASSUME NEW occupied \in BOOLEAN, NEW bin_full \in BOOLEAN, NEW t \in Tick,
         NEW c, Settled(c, occupied, bin_full), NEW r, r = ServeReset(c, t),
         r.state = "CLEANING"
  PROVE  r = c
<1>1. Sound(c) /\ c \in FsmCtx /\ c.state \in FsmState
  BY DEF Settled, Fits, Sound, FsmCtx
<1>2. CASE reset_request
  <2>1. r = Dispatch(c, "RESET", t)
    BY <1>2 DEF ServeReset
  <2>2. /\ c.state = "IDLE" => r = InIdle(c, "RESET", t)
        /\ c.state = "OCCUPIED" => r = InOccupied(c, "RESET", t)
        /\ c.state = "LEAVE_CONFIRM" => r = InLeaveConfirm(c, "RESET", t)
        /\ c.state = "CLEAN_DELAY" => r = InCleanDelay(c, "RESET", t)
        /\ c.state = "CLEANING" => r = InCleaning(c, "RESET", t)
        /\ c.state = "SAFE_STOP" => r = InSafeStop(c, "RESET", t)
        /\ c.state = "FAULT" => r = InFault(c, "RESET", t)
    BY <1>1, <2>1, DispatchPlain, SoundTyped
  <2>3. CASE c.state \in {"IDLE", "OCCUPIED"}
    BY <2>2, <2>3 DEF InIdle, InOccupied
  <2>4. CASE c.state = "CLEANING"
    <3>1. ~PhaseEnds(c, "RESET")
      BY DEF PhaseEnds
    <3>2. r = EnterState(c, "IDLE", t)
      BY <2>2, <2>4, <3>1 DEF InCleaning
    <3> QED BY <1>1, <3>2, EnterStateTo
  <2>5. CASE c.state \in {"LEAVE_CONFIRM", "CLEAN_DELAY", "SAFE_STOP", "FAULT"}
    <3>1. r = ResetRecover(c, t)
      BY <2>2, <2>5 DEF InLeaveConfirm, InCleanDelay, InSafeStop, InFault
    <3>2. IF c.protect_active \/ c.bin_full THEN r = c ELSE r.state = IdleOrOccupied(c)
      BY <1>1, <3>1, ResetRecoverState
    <3> QED BY <3>2 DEF IdleOrOccupied
  <2> QED BY <1>1, <2>3, <2>4, <2>5 DEF FsmState
<1>3. CASE ~reset_request
  BY <1>3 DEF ServeReset
<1> QED BY <1>2, <1>3

\* An arrival that is handed on begins the next phase or takes the run home.
LEMMA HallRun ==
  ASSUME NEW t \in Tick, NEW c, Sound(c), c.state = "CLEANING",
         NEW r, r = ServeHall(c, TRUE, TargetPosition[c.clean_phase], t)
  PROVE  /\ c.clean_phase = "TO_POS2" => r.state = "CLEANING" /\ r.clean_phase = "TO_POS3"
         /\ c.clean_phase = "TO_POS3" => r.state = "CLEANING" /\ r.clean_phase = "TO_POS1"
         /\ c.clean_phase = "TO_POS1" => r.state = "IDLE"
<1> DEFINE e == ArrivalAt(TargetPosition[c.clean_phase])
<1>1. c \in FsmCtx /\ c.clean_phase \in {"TO_POS2", "TO_POS3", "TO_POS1"}
  BY DEF Sound, FsmCtx, CleanPhase
<1>2. /\ c.clean_phase = "TO_POS2" => e = "POS2_REACHED"
      /\ c.clean_phase = "TO_POS3" => e = "POS3_REACHED"
      /\ c.clean_phase = "TO_POS1" => e = "POS1_REACHED"
  BY DEF TargetPosition, ArrivalAt, CleanPhase
<1>3. e \in {"POS1_REACHED", "POS2_REACHED", "POS3_REACHED"}
  BY <1>1, <1>2
<1>4. r = Dispatch(c, e, t)
  BY DEF ServeHall
<1> HIDE DEF e
<1>5. r = InCleaning(c, e, t)
  <2>1. c \in FsmCtx
    BY <1>1
  <2>2. e \in {"DELAY_TIMEOUT", "CLEAN_START", "POS1_REACHED", "POS2_REACHED",
               "POS3_REACHED", "RESET"}
    BY <1>3
  <2>3. c.state = "CLEANING" => r = InCleaning(c, e, t)
    BY ONLY <2>1, <2>2, <1>4, DispatchPlain
  <2> QED BY <2>3
<1>6. PhaseEnds(c, e) /\ e \notin {"OCCUPIED_ON", "BIN_FULL", "CLEAN_DONE", "RESET"}
  BY <1>1, <1>2, <1>3 DEF PhaseEnds
<1>7. r = EndPhase(c, e, t)
  BY <1>5, <1>6 DEF InCleaning
<1>8. \A p : /\ StartCleanPhase(c, p, t).state = "CLEANING"
             /\ StartCleanPhase(c, p, t).clean_phase = p
  BY <1>1 DEF StartCleanPhase, FsmCtx
<1>9. FinishCleaning(c, t).state = "IDLE"
  BY <1>1, EnterStateTo DEF FinishCleaning, FsmCtx, Motor
<1> QED BY <1>2, <1>7, <1>8, <1>9 DEF EndPhase

\* litter_fsm_tick leaves a run that is inside its budgets alone, ends an overdue
\* one in FAULT, and begins one when the clean delay is over.
LEMMA TickRun ==
  ASSUME NEW occupied \in BOOLEAN, NEW bin_full \in BOOLEAN, NEW t \in Tick,
         NEW c, Settled(c, occupied, bin_full), NEW r, r = FsmTick(c, t)
  PROVE  /\ c.state = "CLEANING" =>
              \/ r.state = "FAULT"
              \/ r = c /\ ~RunOverdue(c, t) /\ ~PhaseOverdue(c, t)
         /\ c.state # "CLEANING" => r.state # "CLEANING" \/ BegunAt(r, t)
         /\ c.state = "IDLE" => r = c
<1>1. Sound(c) /\ c \in FsmCtx /\ c.state \in FsmState
  BY DEF Settled, Fits, Sound, FsmCtx
<1>2. CASE c.state = "CLEANING"
  <2>1. ~c.protect_active
    BY <1>2 DEF Settled, Fits
  <2>2. CASE RunOverdue(c, t) \/ PhaseOverdue(c, t)
    <3>1. r = Dispatch(c, "STALL_OR_TIMEOUT", t)
      BY <1>2, <2>1, <2>2 DEF FsmTick, FaultClears
    <3>2. NoteInput(c, "STALL_OR_TIMEOUT") = c
      BY <1>1, NoteNothing DEF FsmEvent, InputEvent
    <3>3. r = EnterFault(c, "CLEAN_TIMEOUT", t)
      BY <3>1, <3>2 DEF Dispatch
    <3> QED BY <1>1, <1>2, <3>3, EnterFaultGood
  <2>3. CASE ~(RunOverdue(c, t) \/ PhaseOverdue(c, t))
    BY <1>2, <2>1, <2>3 DEF FsmTick, FaultClears
  <2> QED BY <1>2, <2>2, <2>3
<1>3. CASE c.state \in {"IDLE", "OCCUPIED"}
  BY <1>3 DEF FsmTick, FaultClears
<1>4. CASE c.state \in {"LEAVE_CONFIRM", "CLEAN_DELAY"}
  <2>1. CASE ~DeadlineExpired(t, c.deadline_tick)
    BY <1>4, <2>1 DEF FsmTick, FaultClears
  <2>2. CASE DeadlineExpired(t, c.deadline_tick)
    <3>1. r = Dispatch(c, "DELAY_TIMEOUT", t)
      BY <1>4, <2>2 DEF FsmTick, FaultClears
    <3>2. /\ c.state = "LEAVE_CONFIRM" => r = InLeaveConfirm(c, "DELAY_TIMEOUT", t)
          /\ c.state = "CLEAN_DELAY" => r = InCleanDelay(c, "DELAY_TIMEOUT", t)
      BY <1>1, <3>1, DispatchPlain, SoundTyped
    <3>3. Clear(c)
      BY <1>4 DEF Settled, Fits, Clear
    <3>4. /\ c.state = "LEAVE_CONFIRM" => r = EnterState(c, "CLEAN_DELAY", t)
          /\ c.state = "CLEAN_DELAY" => r = EnterState(c, "CLEANING", t)
      BY <3>2, <3>3 DEF InLeaveConfirm, LeaveConfirmed, InCleanDelay, TryEnterCleaning,
           Clear
    <3> QED BY <1>1, <1>4, <3>4, EnterStateTo, EnterCleaning
  <2> QED BY <2>1, <2>2
<1>5. CASE c.state = "SAFE_STOP"
  <2>1. CASE c.protect_active
    BY <1>5, <2>1 DEF FsmTick, FaultClears
  <2>2. CASE ~c.protect_active
    <3>1. r = Dispatch(c, "PROTECT_RELEASE", t) /\ ~c.occupied
      BY <1>5, <2>2 DEF FsmTick, FaultClears, Settled, Fits
    <3>2. r.state \in {"FAULT", "LEAVE_CONFIRM"}
      BY <1>1, <1>5, <2>2, <3>1, DispatchRelease, SoundTyped
    <3> QED BY <1>5, <3>2
  <2> QED BY <2>1, <2>2
<1>6. CASE c.state = "FAULT"
  <2>1. CASE FaultClears(c)
    <3>1. r = RecoverTo(c, IdleOrOccupied(c), t)
      BY <1>6, <2>1 DEF FsmTick
    <3> QED BY <1>1, <1>6, <3>1, RecoverToState DEF IdleOrOccupied
  <2>2. CASE ~FaultClears(c)
    BY <1>6, <2>2 DEF FsmTick
  <2> QED BY <2>1, <2>2
<1> QED BY <1>1, <1>2, <1>3, <1>4, <1>5, <1>6 DEF FsmState

-----------------------------------------------------------------------------
(* The invariant. *)

\* The context at the hall stage: a run in it is the one the iteration found, in
\* the same phase, or has just begun, and not out of a fault.
LEMMA ServedRun ==
  ASSUME IInv, NEW occupied \in BOOLEAN, NEW bin_full \in BOOLEAN, NEW t \in Tick,
         NEW edges, edges = BinFullEdge(ReadInputs(ctx, occupied, bin_full), bin_full, t),
         NEW settled, settled = OccupancyEdge(edges, occupied, t),
         NEW asked, asked = ServeClean(settled, TakesCleanRequest(edges), t),
         NEW served, served = ServeReset(asked, t)
  PROVE  /\ Settled(served, occupied, bin_full)
         /\ served.state = "CLEANING" =>
              \/ ctx.state = "CLEANING" /\ served.clean_phase = ctx.clean_phase
              \/ ctx.state \notin {"CLEANING", "FAULT"} /\ served.clean_phase = "TO_POS2"
<1>1. TypeOK /\ Matched(ctx, prev_occupied, prev_bin_full)
  BY DEF IInv
<1>2. Edged(edges, ctx, occupied, bin_full)
  BY <1>1, EdgesEdged
<1>3. Settled(settled, occupied, bin_full)
  BY <1>1, <1>2, OccupancySettled
<1>4. Settled(asked, occupied, bin_full)
  BY <1>3, CleanSettled
<1>5. Settled(served, occupied, bin_full)
  BY <1>1, <1>4, ResetSettled
<1>6. ASSUME served.state = "CLEANING"
      PROVE  \/ ctx.state = "CLEANING" /\ served.clean_phase = ctx.clean_phase
             \/ ctx.state \notin {"CLEANING", "FAULT"} /\ served.clean_phase = "TO_POS2"
  <2>1. served = asked
    BY <1>4, <1>6, ResetRun
  <2>2. \/ asked = settled
        \/ /\ TakesCleanRequest(edges) /\ settled.state \in {"IDLE", "CLEAN_DELAY"}
           /\ asked.clean_phase = "TO_POS2"
    BY <1>3, <1>6, <2>1, CleanRun
  <2>3. settled = edges \/ settled.state \in {"OCCUPIED", "LEAVE_CONFIRM", "SAFE_STOP"}
    BY <1>1, <1>2, OccupancyRun
  <2>4. CASE asked = settled
    <3>1. edges.state = "CLEANING" /\ served = edges
      BY <1>6, <2>1, <2>3, <2>4
    <3> QED BY <1>1, <3>1, EdgesRun
  <2>5. CASE /\ TakesCleanRequest(edges) /\ settled.state \in {"IDLE", "CLEAN_DELAY"}
             /\ asked.clean_phase = "TO_POS2"
    <3>1. edges.state \in {"IDLE", "CLEAN_DELAY"}
      BY <2>3, <2>5
    <3>2. ctx.state \notin {"CLEANING", "FAULT"}
      BY <1>2, <3>1 DEF Edged, EdgesFit
    <3> QED BY <2>1, <2>5, <3>2
  <2> QED BY <2>2, <2>4, <2>5
<1> QED BY <1>5, <1>6

\* An iteration keeps the invariant.
LEMMA RunningLoop ==
  ASSUME LoopInv, NEW occupied \in BOOLEAN, NEW bin_full \in BOOLEAN,
         NEW position \in HallReading \cup {stable_position},
         NEW t \in Tick, Running(occupied, bin_full, position, t)
  PROVE  (Remembered /\ RunBudget /\ ArrivalConsumed)'
<1> DEFINE protect == ProtectActive(occupied, ctx.state)
           edges == BinFullEdge(ReadInputs(ctx, occupied, bin_full), bin_full, t)
           settled == OccupancyEdge(edges, occupied, t)
           asked == ServeClean(settled, TakesCleanRequest(edges), t)
           served == ServeReset(asked, t)
           reports == HallReports(served, position, bin_full, protect)
           arrived == ServeHall(served, reports, position, t)
<1>1. IInv /\ Remembered
  BY DEF LoopInv
<1>2. /\ Settled(served, occupied, bin_full)
      /\ served.state = "CLEANING" =>
           \/ ctx.state = "CLEANING" /\ served.clean_phase = ctx.clean_phase
           \/ ctx.state \notin {"CLEANING", "FAULT"} /\ served.clean_phase = "TO_POS2"
  BY <1>1, ServedRun
<1>3. /\ ctx' = FsmTick(arrived, t) /\ now' = t /\ stable_position' = position
      /\ last_reported_phase' = ReportedPhase(served, reports)
  BY DEF Running
<1>4. reports <=> /\ served.state = "CLEANING"
                  /\ ~bin_full /\ ~protect
                  /\ TargetPosition[served.clean_phase] # "UNKNOWN"
                  /\ position = TargetPosition[served.clean_phase]
                  /\ ~(last_reported_phase = served.clean_phase
                         /\ last_reported_position = position)
  BY DEF HallReports
<1>5. protect => occupied
  BY DEF ProtectActive
<1> HIDE DEF served, reports, protect
<1>6. Settled(arrived, occupied, bin_full)
  BY <1>2, <1>4, HallSettled
<1>7. /\ arrived.state = "CLEANING" =>
           \/ ctx'.state = "FAULT"
           \/ ctx' = arrived /\ ~RunOverdue(arrived, t) /\ ~PhaseOverdue(arrived, t)
      /\ arrived.state # "CLEANING" => ctx'.state # "CLEANING" \/ BegunAt(ctx', t)
      /\ arrived.state = "IDLE" => ctx' = arrived
  BY <1>3, <1>6, TickRun
<1>8. TickSub(t, t) = 0
  BY TickSubSame
<1>9. RunBudget'
  <2> SUFFICES ASSUME ctx'.state = "CLEANING"
               PROVE  /\ TickSub(t, ctx'.clean_started_tick) < CleanTotal
                      /\ TickSub(t, ctx'.phase_started_tick) < PhaseTimeout[ctx'.clean_phase]
    BY <1>3 DEF RunBudget
  <2>1. CASE arrived.state = "CLEANING"
    <3>1. ctx' = arrived /\ ~RunOverdue(arrived, t) /\ ~PhaseOverdue(arrived, t)
      BY <1>7, <2>1
    <3>2. /\ arrived.clean_phase \in {"TO_POS2", "TO_POS3", "TO_POS1"}
          /\ arrived.clean_started_tick \in Tick /\ arrived.phase_started_tick \in Tick
      BY <1>6, <2>1 DEF Settled, Fits, Sound, FsmCtx, CleanPhase
    <3>3. /\ PhaseTimeout[arrived.clean_phase] \in Nat \ {0}
          /\ TickSub(t, arrived.clean_started_tick) \in Int
          /\ TickSub(t, arrived.phase_started_tick) \in Int
      BY <3>2, TimingAssumption, TickModAssumption DEF PhaseTimeout, TickSub, Tick,
           CleanPhase
    <3> QED BY <3>1, <3>3, TimingAssumption DEF RunOverdue, PhaseOverdue
  <2>2. CASE arrived.state # "CLEANING"
    BY <1>7, <1>8, <2>2, TimingAssumption DEF BegunAt, PhaseTimeout
  <2> QED BY <2>1, <2>2
<1>10. CASE served.state # "CLEANING"
  <2>1. arrived = served /\ last_reported_phase' = "NONE"
    BY <1>3, <1>4, <1>10 DEF ServeHall, ReportedPhase
  <2>2. ctx'.state # "CLEANING" \/ BegunAt(ctx', t)
    BY <1>7, <1>10, <2>1
  <2> QED BY <1>3, <1>9, <2>1, <2>2 DEF Remembered, ArrivalConsumed, BegunAt
<1>11. CASE served.state = "CLEANING"
  <2>1. /\ served.clean_phase \in {"TO_POS2", "TO_POS3", "TO_POS1"}
        /\ Sound(served) /\ ~bin_full /\ ~occupied
    BY <1>2, <1>11 DEF Settled, Fits, Sound, FsmCtx, CleanPhase
  <2>2. last_reported_phase # served.clean_phase
    BY <1>1, <1>2, <1>11 DEF Remembered
  <2>3. reports <=> position = TargetPosition[served.clean_phase]
    BY <1>4, <1>5, <1>11, <2>1, <2>2 DEF TargetPosition, CleanPhase
  <2>4. CASE reports
    <3>1. arrived = ServeHall(served, TRUE, TargetPosition[served.clean_phase], t)
      BY <2>3, <2>4 DEF ServeHall
    <3>2. last_reported_phase' = served.clean_phase
      BY <1>3, <1>11, <2>4 DEF ReportedPhase
    <3> HIDE DEF arrived
    <3>3. /\ served.clean_phase = "TO_POS2" => arrived.state = "CLEANING" /\ arrived.clean_phase = "TO_POS3"
          /\ served.clean_phase = "TO_POS3" => arrived.state = "CLEANING" /\ arrived.clean_phase = "TO_POS1"
          /\ served.clean_phase = "TO_POS1" => arrived.state = "IDLE"
      BY <1>11, <2>1, <3>1, HallRun
    <3>4. CASE arrived.state = "IDLE"
      BY <1>7, <1>9, <2>1, <3>2, <3>3, <3>4 DEF Remembered, ArrivalConsumed
    <3>5. CASE arrived.state = "CLEANING"
      <4>1. ctx'.state = "FAULT" \/ ctx' = arrived
        BY <1>7, <3>5
      <4>2. /\ arrived.clean_phase # served.clean_phase
            /\ position # TargetPosition[arrived.clean_phase]
        BY <2>1, <2>3, <2>4, <3>3, <3>5 DEF TargetPosition, CleanPhase
      <4> QED BY <1>3, <1>9, <3>2, <3>5, <4>1, <4>2 DEF Remembered, ArrivalConsumed
    <3> QED BY <2>1, <3>3, <3>4, <3>5
  <2>5. CASE ~reports
    <3>1. arrived = served /\ last_reported_phase' = last_reported_phase
      BY <1>3, <1>11, <2>5 DEF ServeHall, ReportedPhase
    <3>2. ctx'.state = "FAULT" \/ ctx' = served
      BY <1>7, <1>11, <3>1
    <3> QED BY <1>3, <1>9, <1>11, <2>2, <2>3, <2>5, <3>1, <3>2 DEF Remembered,
             ArrivalConsumed
  <2> QED BY <2>4, <2>5
<1> QED BY <1>10, <1>11

\* The box starts at rest, and in FAULT only with a full bin.
LEMMA BootState ==
  Init => ctx.state \in {"IDLE", "OCCUPIED"} \/ (ctx.state = "FAULT" /\ prev_bin_full)
<1> SUFFICES ASSUME Init
             PROVE  ctx.state \in {"IDLE", "OCCUPIED"} \/ (ctx.state = "FAULT" /\ prev_bin_full)
  OBVIOUS
<1> DEFINE c == SyncInputs(FsmInit, prev_occupied, prev_bin_full, FALSE)
           d == IF prev_occupied THEN Dispatch(c, "OCCUPIED_ON", now) ELSE c
<1>1. /\ now \in Tick /\ 0 \in Tick
      /\ prev_occupied \in BOOLEAN /\ prev_bin_full \in BOOLEAN
  BY TickModAssumption DEF Init, Tick
<1>2. Sound(c) /\ c.state = "IDLE"
  BY <1>1 DEF SyncInputs, FsmInit, Sound, FsmCtx, FsmState, CleanPhase, FaultCode, Motor,
     PhaseMotor
<1>3. ctx = IF prev_bin_full THEN Dispatch(d, "BIN_FULL", now) ELSE d
  BY DEF Init, Boot
<1> HIDE DEF c
<1>4. Sound(d) /\ d.state \in {"IDLE", "OCCUPIED"}
  BY <1>1, <1>2, DispatchOccupiedOn, SoundTyped, DispatchSound DEF FsmEvent
<1> HIDE DEF d
<1> QED BY <1>1, <1>3, <1>4, DispatchBinFull, SoundTyped

\* Sensor_Logic_Init starts no run.
LEMMA InitLoop == Init => LoopInv
<1> SUFFICES ASSUME Init PROVE LoopInv
  OBVIOUS
<1>1. IInv
  BY InitMatched
<1>2. ctx.state # "CLEANING"
  BY BootState
<1> QED BY <1>1, <1>2 DEF LoopInv, Remembered, RunBudget, ArrivalConsumed, Init

\* The invariant is inductive.
LEMMA NextLoop ==
  ASSUME LoopInv, [Next]_vars
  PROVE  LoopInv'
<1>1. IInv /\ TypeOK
  BY DEF LoopInv, IInv
<1>2. IInv'
  BY <1>1, NextMatched
<1>3. CASE Iterate
  <2>1. PICK occupied \in BOOLEAN, bin_full \in BOOLEAN,
             position \in HallReading \cup {stable_position}, d \in LoopTicks :
               Running(occupied, bin_full, position, TickAdd(now, d))
    BY <1>3 DEF Iterate
  <2>2. TickAdd(now, d) \in Tick
    BY <1>1, LoopAssumption, TickAddType DEF TypeOK
  <2> QED BY <1>2, <2>1, <2>2, RunningLoop DEF LoopInv
<1>4. CASE RequestClean \/ RequestReset \/ UNCHANGED vars
  <2>1. UNCHANGED <<ctx, now, stable_position, last_reported_phase>>
    BY <1>4 DEF RequestClean, RequestReset, vars, hall
  <2> QED BY <1>2, <2>1 DEF LoopInv, Remembered, RunBudget, ArrivalConsumed
<1> QED BY <1>3, <1>4 DEF Next

\* Between two iterations every run is inside its budgets and no arrival waits.
THEOREM LoopInvariant == Spec => []LoopInv
BY InitLoop, NextLoop, PTL DEF Spec

\* An overdue run or phase is never seen at a sleep of the control thread: the
\* iteration that finds it so ends it, across the wrap of the tick.
THEOREM LoopRunBudget == Spec => []RunBudget
<1>1. LoopInv => RunBudget
  BY DEF LoopInv
<1> QED BY <1>1, LoopInvariant, PTL

\* The dedupe of arrivals costs none: a drum at its target has ended the phase,
\* unless the run has begun in the same iteration after the hall stage.
THEOREM LoopArrivalConsumed == Spec => []ArrivalConsumed
<1>1. LoopInv => ArrivalConsumed
  BY DEF LoopInv
<1> QED BY <1>1, LoopInvariant, PTL

-----------------------------------------------------------------------------
(* What a step of the control loop may never do. *)

\* The latched timeout.
Latched(c) == Sound(c) /\ c.state = "FAULT" /\ c.fault_code = "CLEAN_TIMEOUT"

LEMMA LatchStays ==
  ASSUME NEW c, Latched(c), NEW e \in FsmEvent, NEW t \in Tick,
         e = "RESET" => c.bin_full
  PROVE  Latched(Dispatch(c, e, t))
BY DispatchKeepsTimeout, DispatchSound DEF Latched, Sound

\* An iteration leaves a timeout where it is, unless it serves a reset and finds
\* room in the bin.
LEMMA RunningLatched ==
  ASSUME IInv, TimedOut, NEW occupied \in BOOLEAN, NEW bin_full \in BOOLEAN,
         NEW position, NEW t \in Tick, Running(occupied, bin_full, position, t),
         ~reset_request \/ bin_full
  PROVE  TimedOut'
<1> DEFINE protect == ProtectActive(occupied, ctx.state)
           inputs == ReadInputs(ctx, occupied, bin_full)
           edges == BinFullEdge(inputs, bin_full, t)
           settled == OccupancyEdge(edges, occupied, t)
           asked == ServeClean(settled, TakesCleanRequest(edges), t)
           served == ServeReset(asked, t)
           reports == HallReports(served, position, bin_full, protect)
           arrived == ServeHall(served, reports, position, t)
<1>1. TypeOK /\ Matched(ctx, prev_occupied, prev_bin_full) /\ Latched(ctx)
  BY DEF IInv, Matched, Answered, Settled, Fits, TimedOut, Latched
<1>2. ctx' = FsmTick(arrived, t)
  BY DEF Running
<1>3. protect = FALSE
  BY DEF ProtectActive, TimedOut
<1>4. Latched(inputs)
  <2>1. inputs = SyncInputs(ctx, occupied, bin_full, protect)
    BY DEF ReadInputs
  <2>2. Sound(inputs)
    BY <1>1, <1>3, <2>1, SyncInputsSound DEF Latched
  <2> QED BY <1>1, <2>1, <2>2 DEF Latched, SyncInputs, Sound, FsmCtx
<1>5. Edged(edges, ctx, occupied, bin_full)
  BY <1>1, EdgesEdged
<1> HIDE DEF inputs
<1>6. Latched(edges) /\ edges.bin_full = bin_full
  BY <1>4, <1>5, LatchStays DEF BinFullEdge, FsmEvent, Edged, EdgesFit
<1> HIDE DEF edges
<1>7. settled = edges
  BY <1>6 DEF OccupancyEdge, Latched
<1>8. asked = edges
  BY <1>6, <1>7 DEF ServeClean, TakesCleanRequest, Latched
<1>9. Latched(served)
  BY <1>6, <1>8, LatchStays DEF ServeReset, FsmEvent
<1> HIDE DEF served
<1>10. arrived = served
  BY <1>9 DEF ServeHall, HallReports, Latched
<1> HIDE DEF arrived
<1>11. FsmTick(served, t) = served
  BY <1>9 DEF FsmTick, FaultClears, Latched
<1> QED BY <1>2, <1>9, <1>10, <1>11 DEF TimedOut, Latched

\* No remote request, no visit and no weight gets the machine out of a cleaning
\* timeout: it takes a local reset, served with the bin not full.
THEOREM LoopTimeoutNeedsReset == Spec => TimeoutNeedsReset
<1>1. ASSUME IInv, [Next]_vars, TimedOut, ~TimedOut'
      PROVE  reset_request /\ ~prev_bin_full'
  <2>1. Iterate
    BY <1>1 DEF Next, RequestClean, RequestReset, vars, TimedOut
  <2>2. PICK occupied \in BOOLEAN, bin_full \in BOOLEAN,
             position \in HallReading \cup {stable_position}, d \in LoopTicks :
               Running(occupied, bin_full, position, TickAdd(now, d))
    BY <2>1 DEF Iterate
  <2>3. TickAdd(now, d) \in Tick
    BY <1>1, LoopAssumption, TickAddType DEF IInv, TypeOK
  <2>4. reset_request /\ ~bin_full
    BY <1>1, <2>2, <2>3, RunningLatched
  <2>5. prev_bin_full' = bin_full
    BY <2>2 DEF Running
  <2> QED BY <2>4, <2>5
<1>2. IInv /\ [Next]_vars => [TimedOut /\ ~TimedOut' => reset_request /\ ~prev_bin_full']_vars
  BY <1>1
<1> QED BY <1>2, LogicInvariant, PTL DEF Spec, TimeoutNeedsReset

\* A cat that steps into the idle box, with room in the bin, leads to OCCUPIED,
\* whatever has been asked for.
LEMMA VisitOccupies ==
  ASSUME IInv, ctx.state = "IDLE", NEW position, NEW t \in Tick,
         Running(TRUE, FALSE, position, t)
  PROVE  ctx'.state = "OCCUPIED"
<1> DEFINE protect == ProtectActive(TRUE, ctx.state)
           edges == BinFullEdge(ReadInputs(ctx, TRUE, FALSE), FALSE, t)
           settled == OccupancyEdge(edges, TRUE, t)
           asked == ServeClean(settled, TakesCleanRequest(edges), t)
           served == ServeReset(asked, t)
           reports == HallReports(served, position, FALSE, protect)
           arrived == ServeHall(served, reports, position, t)
<1>1. TypeOK /\ Matched(ctx, prev_occupied, prev_bin_full)
  BY DEF IInv
<1>2. ctx' = FsmTick(arrived, t)
  BY DEF Running
<1>3. prev_occupied = FALSE
  BY <1>1 DEF TypeOK, Matched, Answered, Settled, Fits
<1>4. Edged(edges, ctx, TRUE, FALSE)
  BY <1>1, EdgesEdged
<1>5. Sound(edges) /\ edges.state = "IDLE"
  BY <1>4 DEF Edged, EdgesFit
<1> HIDE DEF edges
<1>6. settled = Dispatch(edges, "OCCUPIED_ON", t)
  BY <1>3, <1>5 DEF OccupancyEdge, OccupancyEvent
<1>7. Sound(settled) /\ settled.state = "OCCUPIED" /\ settled.occupied = TRUE
  BY <1>5, <1>6, DispatchOccupiedOn, SoundTyped, DispatchSound DEF FsmEvent
<1> HIDE DEF settled
<1>8. asked = settled
  <2>1. Dispatch(settled, "CLEAN_START", t) = InOccupied(settled, "CLEAN_START", t)
    BY <1>7, DispatchPlain, SoundTyped
  <2>2. InOccupied(settled, "CLEAN_START", t) = EnterState(settled, "OCCUPIED", t)
    BY <1>7 DEF InOccupied, TryEnterCleaning, BlockClean, IdleOrOccupied
  <2>3. EnterState(settled, "OCCUPIED", t) = settled
    BY <1>7, EnterStateAgain
  <2> QED BY <2>1, <2>2, <2>3 DEF ServeClean
<1>9. served = settled
  <2>1. Dispatch(settled, "RESET", t) = InOccupied(settled, "RESET", t)
    BY <1>7, DispatchPlain, SoundTyped
  <2>2. InOccupied(settled, "RESET", t) = settled
    BY DEF InOccupied
  <2> HIDE DEF asked
  <2> QED BY <1>8, <2>1, <2>2 DEF ServeReset
<1> HIDE DEF served
<1>10. arrived = settled
  BY <1>7, <1>9 DEF ServeHall, HallReports
<1> HIDE DEF arrived
<1>11. FsmTick(settled, t) = settled
  BY <1>7 DEF FsmTick, FaultClears
<1> QED BY <1>2, <1>7, <1>10, <1>11

\* box_used goes up exactly with the iterations that take IDLE to OCCUPIED.
LEMMA RunningCounts ==
  ASSUME IInv, NEW occupied \in BOOLEAN, NEW bin_full \in BOOLEAN,
         NEW position, NEW t \in Tick, Running(occupied, bin_full, position, t)
  PROVE  box_used' = IF ctx.state = "IDLE" /\ ctx'.state = "OCCUPIED"
                     THEN (box_used + 1) % UseMod ELSE box_used
<1> DEFINE edges == BinFullEdge(ReadInputs(ctx, occupied, bin_full), bin_full, t)
<1>1. TypeOK /\ Matched(ctx, prev_occupied, prev_bin_full)
  BY DEF IInv
<1>2. Edged(edges, ctx, occupied, bin_full)
  BY <1>1, EdgesEdged
<1>3. box_used' = IF VisitStarts(edges, occupied) THEN (box_used + 1) % UseMod ELSE box_used
  BY DEF Running
<1>4. Matched(ctx', occupied, bin_full)
  BY RunningMatched
<1> HIDE DEF edges
<1>5. VisitStarts(edges, occupied) <=> ctx.state = "IDLE" /\ ctx'.state = "OCCUPIED"
  <2>1. CASE ctx.state = "IDLE" /\ occupied /\ ~bin_full
    <3>1. edges.state = "IDLE" /\ ~prev_occupied
      BY <1>1, <1>2, <2>1 DEF Edged, EdgesFit, Matched, Answered, Settled, Fits
    <3>2. occupied = TRUE /\ bin_full = FALSE
      BY <2>1
    <3>3. ctx'.state = "OCCUPIED"
      BY <2>1, <3>2, VisitOccupies
    <3> QED BY <2>1, <3>1, <3>3 DEF VisitStarts
  <2>2. CASE ctx.state = "IDLE" /\ bin_full
    BY <1>2, <1>4, <2>2 DEF Edged, EdgesFit, Matched, Answered, Settled, Fits, VisitStarts
  <2>3. CASE ctx.state = "IDLE" /\ ~occupied
    BY <1>4, <2>3 DEF Matched, Answered, Settled, Fits, VisitStarts
  <2>4. CASE ctx.state # "IDLE"
    BY <1>2, <2>4 DEF Edged, EdgesFit, VisitStarts
  <2> QED BY <2>1, <2>2, <2>3, <2>4
<1> QED BY <1>3, <1>5

\* Every visit to the idle box is counted, once, and nothing else is: whatever
\* requests and edges come in the same iteration.
THEOREM LoopUseCounted == Spec => UseCounted
<1>1. ASSUME IInv, Iterate
      PROVE  box_used' = IF ctx.state = "IDLE" /\ ctx'.state = "OCCUPIED"
                         THEN (box_used + 1) % UseMod ELSE box_used
  <2>1. PICK occupied \in BOOLEAN, bin_full \in BOOLEAN,
             position \in HallReading \cup {stable_position}, d \in LoopTicks :
               Running(occupied, bin_full, position, TickAdd(now, d))
    BY <1>1 DEF Iterate
  <2>2. TickAdd(now, d) \in Tick
    BY <1>1, LoopAssumption, TickAddType DEF IInv, TypeOK
  <2> QED BY <1>1, <2>1, <2>2, RunningCounts
<1>2. IInv /\ [Next]_vars =>
        [box_used' = IF ctx.state = "IDLE" /\ ctx'.state = "OCCUPIED"
                     THEN (box_used + 1) % UseMod ELSE box_used]_vars
  BY <1>1 DEF Next, RequestClean, RequestReset
<1> QED BY <1>2, LogicInvariant, PTL DEF Spec, UseCounted

-----------------------------------------------------------------------------
(* The history of a run: what it waits for, and what it begins with. *)

\* Sums reduced to the width of the tick, up to one width above it.
LEMMA TickAddCases ==
  ASSUME NEW t \in Tick, NEW d \in Nat, d < TickMod
  PROVE  TickAdd(t, d) = IF t + d < TickMod THEN t + d ELSE t + d - TickMod
<1>1. TickMod \in Nat \ {0} /\ t \in 0 .. TickMod - 1
  BY TickModAssumption DEF Tick
<1> DEFINE a == t + d
<1>2. a \in Int /\ 0 <= a /\ a < 2 * TickMod
  BY <1>1
<1> HIDE DEF a
<1>3. a % TickMod = IF a < TickMod THEN a ELSE a - TickMod
  BY <1>1, <1>2
<1> QED BY <1>1, <1>3 DEF TickAdd, a

\* So are differences.
LEMMA TickSubCases ==
  ASSUME NEW t \in Tick, NEW u \in Tick
  PROVE  TickSub(t, u) = IF t < u THEN t - u + TickMod ELSE t - u
<1>1. TickMod \in Nat \ {0} /\ t \in 0 .. TickMod - 1 /\ u \in 0 .. TickMod - 1
  BY TickModAssumption DEF Tick
<1> DEFINE a == t - u
<1>2. a \in Int /\ 0 - TickMod <= a /\ a < TickMod /\ (a < 0 <=> t < u)
  BY <1>1
<1> HIDE DEF a
<1>3. a % TickMod = IF a < 0 THEN a + TickMod ELSE a
  BY <1>1, <1>2
<1> QED BY <1>2, <1>3 DEF TickSub, a

\* A sum in two steps.
LEMMA TickAddTwice ==
  ASSUME NEW t \in Tick, NEW d \in Nat, NEW e \in Nat, d + e < TickMod
  PROVE  TickAdd(TickAdd(t, d), e) = TickAdd(t, d + e)
<1>1. TickMod \in Nat \ {0} /\ t \in 0 .. TickMod - 1
  BY TickModAssumption DEF Tick
<1> DEFINE u == TickAdd(t, d)
<1>2. d < TickMod /\ e < TickMod /\ d + e \in Nat
  BY <1>1
<1>3. u = IF t + d < TickMod THEN t + d ELSE t + d - TickMod
  BY <1>2, TickAddCases
<1>4. u \in 0 .. TickMod - 1
  BY <1>1, <1>2, <1>3
<1> HIDE DEF u
<1>5. TickAdd(u, e) = IF u + e < TickMod THEN u + e ELSE u + e - TickMod
  BY <1>2, <1>4, TickAddCases DEF Tick
<1>6. TickAdd(t, d + e) = IF t + (d + e) < TickMod THEN t + (d + e) ELSE t + (d + e) - TickMod
  BY <1>2, TickAddCases
<1> QED BY <1>1, <1>2, <1>3, <1>5, <1>6 DEF u

\* The time between two turns of the loop is what the tick says.
LEMMA TurnTakes ==
  ASSUME NEW t \in Tick, NEW d \in Nat, d < TickMod
  PROVE  TickAdd(t, d) \in Tick /\ TickSub(TickAdd(t, d), t) = d
<1>1. TickMod \in Nat \ {0} /\ t \in 0 .. TickMod - 1
  BY TickModAssumption DEF Tick
<1> DEFINE u == TickAdd(t, d)
<1>2. u = IF t + d < TickMod THEN t + d ELSE t + d - TickMod
  BY TickAddCases
<1>3. u \in Tick
  BY <1>1, <1>2 DEF Tick
<1> HIDE DEF u
<1>4. TickSub(u, t) = IF u < t THEN u - t + TickMod ELSE u - t
  BY <1>3, TickSubCases
<1> QED BY <1>1, <1>2, <1>3, <1>4 DEF u

\* A window of the given length stands at its deadline when the box has been
\* empty for total ticks, of which q have passed at t.
Waits(total, window, deadline, t, q) ==
  q < total => \E r \in 1 .. window : deadline = TickAdd(t, r) /\ q + r >= total

\* Every window is an honest one, counted from the moment the box became empty.
Waiting ==
  /\ quiet \in 0 .. BothWindows
  /\ ctx.state = "LEAVE_CONFIRM" =>
       Waits(LeaveConfirm, LeaveConfirm, ctx.deadline_tick, now, quiet)
  /\ ctx.state = "CLEAN_DELAY" =>
       Waits(BothWindows, CleanDelay, ctx.deadline_tick, now, quiet)

\* A window is carried over the turn of the loop, across the wrap of the tick.
LEMMA WaitsOn ==
  ASSUME NEW total \in Nat, NEW window \in Nat, 2 * window < TickMod,
         NEW t \in Tick, NEW d \in Nat, NEW q \in Nat, NEW deadline,
         Waits(total, window, deadline, t, q),
         NEW u, u = q + d \/ u >= total, u \in Nat
  PROVE  Waits(total, window, deadline, TickAdd(t, d), u)
<1> SUFFICES ASSUME u < total
             PROVE  \E r \in 1 .. window : deadline = TickAdd(TickAdd(t, d), r) /\ u + r >= total
  BY DEF Waits
<1>1. TickMod \in Nat \ {0}
  BY TickModAssumption
<1>2. u = q + d /\ q < total
  OBVIOUS
<1>3. PICK r \in 1 .. window : deadline = TickAdd(t, r) /\ q + r >= total
  BY <1>2 DEF Waits
<1>4. r - d \in 1 .. window /\ d + (r - d) = r /\ u + (r - d) >= total
  BY <1>2, <1>3
<1>5. r < TickMod
  BY <1>1, <1>3
<1>6. TickAdd(TickAdd(t, d), r - d) = TickAdd(t, r)
  BY <1>4, <1>5, TickAddTwice
<1> QED BY <1>3, <1>4, <1>6

\* While it waits it is not over.
LEMMA WaitsNotOver ==
  ASSUME NEW total \in Nat, NEW window \in Nat, 2 * window < TickMod,
         NEW t \in Tick, NEW q \in Nat, NEW deadline,
         Waits(total, window, deadline, t, q), DeadlineExpired(t, deadline)
  PROVE  q >= total
<1> SUFFICES ASSUME q < total PROVE FALSE
  OBVIOUS
<1>1. TickMod \in Nat \ {0} /\ t \in 0 .. TickMod - 1
  BY TickModAssumption DEF Tick
<1>2. PICK r \in 1 .. window : deadline = TickAdd(t, r)
  BY DEF Waits
<1>3. r \in Nat /\ 1 <= r /\ 2 * r < TickMod
  BY <1>1, <1>2
<1>4. deadline = IF t + r < TickMod THEN t + r ELSE t + r - TickMod
  BY <1>1, <1>2, <1>3, TickAddCases
<1>5. deadline \in Tick
  BY <1>1, <1>3, <1>4 DEF Tick
<1>6. TickSub(t, deadline) = IF t < deadline THEN t - deadline + TickMod ELSE t - deadline
  BY <1>5, TickSubCases
<1>7. TickSub(t, deadline) = TickMod - r
  BY <1>1, <1>3, <1>4, <1>6
<1>8. 2 * TickSub(t, deadline) < TickMod
  BY DEF DeadlineExpired, TickReached
<1> QED BY <1>1, <1>3, <1>7, <1>8

\* A window that has just begun.
LEMMA WaitsFresh ==
  ASSUME NEW window \in Nat \ {0}, NEW total \in Nat, NEW t, NEW q \in Nat, q + window >= total
  PROVE  Waits(total, window, TickAdd(t, window), t, q)
<1>1. window \in 1 .. window
  OBVIOUS
<1> QED BY <1>1 DEF Waits

Window == {"LEAVE_CONFIRM", "CLEAN_DELAY"}

\* fsm_enter_state arms the window it enters.
LEMMA EnterWindow ==
  ASSUME NEW c \in FsmCtx, NEW s, c.state # s, NEW t, s \in Window
  PROVE  EnterState(c, s, t).deadline_tick = WindowDeadline(s, t)
BY DEF EnterState, Halt, FsmCtx, Window

\* The edge of the bin leaves a window as it is, or ends it.
LEMMA EdgesWindow ==
  ASSUME TypeOK, Matched(ctx, prev_occupied, prev_bin_full),
         NEW occupied \in BOOLEAN, NEW bin_full \in BOOLEAN, NEW t \in Tick,
         NEW c, c = BinFullEdge(ReadInputs(ctx, occupied, bin_full), bin_full, t),
         c.state \in Window
  PROVE  c.state = ctx.state /\ c.deadline_tick = ctx.deadline_tick
<1>1. Edged(c, ctx, occupied, bin_full)
  BY EdgesEdged
<1>2. c = SyncInputs(ctx, occupied, bin_full, ProtectActive(occupied, ctx.state))
  BY <1>1 DEF Edged, EdgesFit, BinFullEdge, ReadInputs, Window
<1>3. ctx \in FsmCtx
  BY DEF TypeOK
<1> QED BY <1>2, <1>3 DEF SyncInputs, FsmCtx

\* The occupancy edge begins a window when the cat leaves; and a protect stop
\* that finds the box empty finds it so for the first time.
LEMMA OccupancyWindow ==
  ASSUME TypeOK, Matched(ctx, prev_occupied, prev_bin_full),
         NEW occupied \in BOOLEAN, NEW bin_full \in BOOLEAN, NEW t \in Tick,
         NEW c, Edged(c, ctx, occupied, bin_full),
         NEW r, r = OccupancyEdge(c, occupied, t)
  PROVE  /\ r.state \in Window =>
              \/ r = c
              \/ /\ r.state = "LEAVE_CONFIRM" /\ prev_occupied
                 /\ r.deadline_tick = TickAdd(t, LeaveConfirm)
         /\ r.state = "SAFE_STOP" /\ ~occupied => prev_occupied
<1>1. /\ Sound(c) /\ c \in FsmCtx /\ c.state \in FsmState
      /\ c.state = ctx.state \/ c.state = "FAULT"
  BY DEF Edged, EdgesFit, Sound, FsmCtx
<1>2. /\ prev_occupied \in BOOLEAN
      /\ ctx.state \in {"IDLE", "LEAVE_CONFIRM", "CLEAN_DELAY", "CLEANING"} => ~prev_occupied
      /\ ctx.state \in {"OCCUPIED", "SAFE_STOP"} => prev_occupied
  BY DEF Matched, Answered, Settled, Fits, TypeOK
<1>3. CASE c.state = "FAULT" \/ occupied = prev_occupied
  <2>1. r = c
    BY <1>3 DEF OccupancyEdge
  <2> QED BY <1>1, <1>2, <2>1
<1>4. CASE c.state # "FAULT" /\ occupied /\ ~prev_occupied
  <2>1. r = c \/ r.state \in {"OCCUPIED", "LEAVE_CONFIRM", "SAFE_STOP"}
    BY OccupancyRun
  <2>2. Settled(r, occupied, bin_full)
    BY OccupancySettled
  <2> QED BY <1>4, <2>1, <2>2 DEF Settled, Fits, Window
<1>5. CASE c.state # "FAULT" /\ ~occupied /\ prev_occupied
  <2>1. c.state \in {"OCCUPIED", "SAFE_STOP"}
    BY <1>1, <1>2, <1>5 DEF FsmState
  <2>2. r = Dispatch(c, "OCCUPIED_OFF", t)
    BY <1>5 DEF OccupancyEdge, OccupancyEvent
  <2>3. r.state = IF c.state = "OCCUPIED" THEN "LEAVE_CONFIRM" ELSE "SAFE_STOP"
    BY <1>1, <2>1, <2>2, DispatchOccupiedOff, SoundTyped
  <2>4. CASE c.state = "OCCUPIED"
    <3> DEFINE d == NoteInput(c, "OCCUPIED_OFF")
    <3>1. d \in FsmCtx /\ d.state = "OCCUPIED" /\ r = InOccupied(d, "OCCUPIED_OFF", t)
      BY <1>1, <2>2, <2>4, DispatchByState DEF FsmEvent
    <3> HIDE DEF d
    <3>2. r = EnterState(d, "LEAVE_CONFIRM", t)
      BY <3>1 DEF InOccupied
    <3>3. r.deadline_tick = TickAdd(t, LeaveConfirm)
      BY <3>1, <3>2, EnterWindow DEF Window, WindowDeadline
    <3> QED BY <1>5, <2>3, <2>4, <3>3
  <2>5. CASE c.state = "SAFE_STOP"
    BY <1>5, <2>3, <2>5 DEF Window
  <2> QED BY <2>1, <2>4, <2>5
<1> QED BY <1>2, <1>3, <1>4, <1>5

\* A clean request begins no window and ends no protect stop.
LEMMA CleanWindow ==
  ASSUME NEW occupied \in BOOLEAN, NEW bin_full \in BOOLEAN, NEW t \in Tick, NEW take,
         NEW c, Settled(c, occupied, bin_full), NEW r, r = ServeClean(c, take, t),
         r.state \in Window \cup {"SAFE_STOP"}
  PROVE  r = c
<1>1. Sound(c) /\ c \in FsmCtx /\ c.state \in FsmState
  BY DEF Settled, Fits, Sound, FsmCtx
<1>2. CASE take
  <2>1. r = Dispatch(c, "CLEAN_START", t)
    BY <1>2 DEF ServeClean
  <2>2. /\ c.state = "IDLE" => r = InIdle(c, "CLEAN_START", t)
        /\ c.state = "OCCUPIED" => r = InOccupied(c, "CLEAN_START", t)
        /\ c.state = "LEAVE_CONFIRM" => r = InLeaveConfirm(c, "CLEAN_START", t)
        /\ c.state = "CLEAN_DELAY" => r = InCleanDelay(c, "CLEAN_START", t)
        /\ c.state = "CLEANING" => r = InCleaning(c, "CLEAN_START", t)
        /\ c.state = "SAFE_STOP" => r = InSafeStop(c, "CLEAN_START", t)
        /\ c.state = "FAULT" => r = InFault(c, "CLEAN_START", t)
    BY <1>1, <2>1, DispatchPlain, SoundTyped
  <2>3. CASE c.state \in {"IDLE", "CLEAN_DELAY"}
    <3>1. r = TryEnterCleaning(c, t) /\ Clear(c)
      BY <2>2, <2>3 DEF InIdle, InCleanDelay, Settled, Fits, Clear
    <3> QED BY <1>1, <3>1, TryEnterCleaningState DEF Window
  <2>4. CASE c.state = "OCCUPIED"
    <3>1. r = TryEnterCleaning(c, t) /\ c.occupied
      BY <2>2, <2>4 DEF InOccupied, Settled, Fits
    <3> QED BY <1>1, <3>1, TryEnterCleaningState DEF Window
  <2>5. CASE c.state \in {"LEAVE_CONFIRM", "CLEANING", "SAFE_STOP", "FAULT"}
    <3>1. ~PhaseEnds(c, "CLEAN_START")
      BY DEF PhaseEnds
    <3> QED BY <2>2, <2>5, <3>1 DEF InLeaveConfirm, InCleaning, InSafeStop, InFault
  <2> QED BY <1>1, <2>3, <2>4, <2>5 DEF FsmState
<1>3. CASE ~take
  BY <1>3 DEF ServeClean
<1> QED BY <1>2, <1>3

\* Nor does a reset.
LEMMA ResetWindow ==
  ASSUME NEW occupied \in BOOLEAN, NEW bin_full \in BOOLEAN, NEW t \in Tick,
         NEW c, Settled(c, occupied, bin_full), NEW r, r = ServeReset(c, t),
         r.state \in Window \cup {"SAFE_STOP"}
  PROVE  r = c
<1>1. Sound(c) /\ c \in FsmCtx /\ c.state \in FsmState
  BY DEF Settled, Fits, Sound, FsmCtx
<1>2. CASE reset_request
  <2>1. r = Dispatch(c, "RESET", t)
    BY <1>2 DEF ServeReset
  <2>2. /\ c.state = "IDLE" => r = InIdle(c, "RESET", t)
        /\ c.state = "OCCUPIED" => r = InOccupied(c, "RESET", t)
        /\ c.state = "LEAVE_CONFIRM" => r = InLeaveConfirm(c, "RESET", t)
        /\ c.state = "CLEAN_DELAY" => r = InCleanDelay(c, "RESET", t)
        /\ c.state = "CLEANING" => r = InCleaning(c, "RESET", t)
        /\ c.state = "SAFE_STOP" => r = InSafeStop(c, "RESET", t)
        /\ c.state = "FAULT" => r = InFault(c, "RESET", t)
    BY <1>1, <2>1, DispatchPlain, SoundTyped
  <2>3. CASE c.state \in {"IDLE", "OCCUPIED"}
    BY <2>2, <2>3 DEF InIdle, InOccupied
  <2>4. CASE c.state = "CLEANING"
    <3>1. ~PhaseEnds(c, "RESET")
      BY DEF PhaseEnds
    <3>2. r = EnterState(c, "IDLE", t)
      BY <2>2, <2>4, <3>1 DEF InCleaning
    <3> QED BY <1>1, <3>2, EnterStateTo DEF Window
  <2>5. CASE c.state \in {"LEAVE_CONFIRM", "CLEAN_DELAY", "SAFE_STOP", "FAULT"}
    <3>1. r = ResetRecover(c, t)
      BY <2>2, <2>5 DEF InLeaveConfirm, InCleanDelay, InSafeStop, InFault
    <3>2. IF c.protect_active \/ c.bin_full THEN r = c ELSE r.state = IdleOrOccupied(c)
      BY <1>1, <3>1, ResetRecoverState
    <3> QED BY <3>2 DEF IdleOrOccupied, Window
  <2> QED BY <1>1, <2>3, <2>4, <2>5 DEF FsmState
<1>3. CASE ~reset_request
  BY <1>3 DEF ServeReset
<1> QED BY <1>2, <1>3

\* litter_fsm_tick: a window follows a protect stop or the window before it that
\* is over; a run follows a clean delay that is over.
LEMMA TickWindow ==
  ASSUME NEW occupied \in BOOLEAN, NEW bin_full \in BOOLEAN, NEW t \in Tick,
         NEW c, Settled(c, occupied, bin_full), NEW r, r = FsmTick(c, t)
  PROVE  /\ r.state = "LEAVE_CONFIRM" =>
              \/ r = c
              \/ /\ c.state = "SAFE_STOP" /\ ~occupied
                 /\ r.deadline_tick = TickAdd(t, LeaveConfirm)
         /\ r.state = "CLEAN_DELAY" =>
              \/ r = c
              \/ /\ c.state = "LEAVE_CONFIRM" /\ DeadlineExpired(t, c.deadline_tick)
                 /\ r.deadline_tick = TickAdd(t, CleanDelay)
         /\ r.state = "CLEANING" =>
              \/ c.state = "CLEANING"
              \/ c.state = "CLEAN_DELAY" /\ DeadlineExpired(t, c.deadline_tick)
<1>1. Sound(c) /\ c \in FsmCtx /\ c.state \in FsmState
  BY DEF Settled, Fits, Sound, FsmCtx
<1>2. CASE c.state = "CLEANING"
  <2>1. r.state = "FAULT" \/ r = c
    BY <1>2, TickRun
  <2> QED BY <1>2, <2>1
<1>3. CASE c.state \in {"IDLE", "OCCUPIED"}
  BY <1>3 DEF FsmTick, FaultClears
<1>4. CASE c.state \in Window
  <2>1. CASE ~DeadlineExpired(t, c.deadline_tick)
    <3>1. r = c
      BY <1>4, <2>1 DEF FsmTick, FaultClears, Window
    <3> QED BY <1>4, <3>1 DEF Window
  <2>2. CASE DeadlineExpired(t, c.deadline_tick)
    <3>1. r = Dispatch(c, "DELAY_TIMEOUT", t)
      BY <1>4, <2>2 DEF FsmTick, FaultClears, Window
    <3>2. /\ c.state = "LEAVE_CONFIRM" => r = InLeaveConfirm(c, "DELAY_TIMEOUT", t)
          /\ c.state = "CLEAN_DELAY" => r = InCleanDelay(c, "DELAY_TIMEOUT", t)
      BY <1>1, <3>1, DispatchPlain, SoundTyped
    <3>3. Clear(c)
      BY <1>4 DEF Settled, Fits, Clear, Window
    <3>4. /\ c.state = "LEAVE_CONFIRM" => r = EnterState(c, "CLEAN_DELAY", t)
          /\ c.state = "CLEAN_DELAY" => r = EnterState(c, "CLEANING", t)
      BY <3>2, <3>3 DEF InLeaveConfirm, LeaveConfirmed, InCleanDelay, TryEnterCleaning,
           Clear
    <3>5. CASE c.state = "LEAVE_CONFIRM"
      <4>1. r.state = "CLEAN_DELAY" /\ r.deadline_tick = TickAdd(t, CleanDelay)
        BY <1>1, <3>4, <3>5, EnterStateTo, EnterWindow DEF Window, WindowDeadline
      <4> QED BY <2>2, <3>5, <4>1
    <3>6. CASE c.state = "CLEAN_DELAY"
      <4>1. r.state = "CLEANING"
        BY <1>1, <3>4, <3>6, EnterStateTo
      <4> QED BY <2>2, <3>6, <4>1
    <3> QED BY <1>4, <3>5, <3>6 DEF Window
  <2> QED BY <2>1, <2>2
<1>5. CASE c.state = "SAFE_STOP"
  <2>1. CASE c.protect_active
    <3>1. r = c
      BY <1>5, <2>1 DEF FsmTick, FaultClears
    <3> QED BY <1>5, <3>1
  <2>2. CASE ~c.protect_active
    <3>1. r = Dispatch(c, "PROTECT_RELEASE", t) /\ ~c.occupied /\ ~occupied
      BY <1>5, <2>2 DEF FsmTick, FaultClears, Settled, Fits
    <3>2. r.state \in {"FAULT", "LEAVE_CONFIRM"}
      BY <1>1, <1>5, <2>2, <3>1, DispatchRelease, SoundTyped
    <3>3. ASSUME r.state = "LEAVE_CONFIRM"
          PROVE  r.deadline_tick = TickAdd(t, LeaveConfirm)
      <4> DEFINE d == NoteInput(c, "PROTECT_RELEASE")
                 e == [d EXCEPT !.fault_code = "NONE"]
      <4>1. d \in FsmCtx /\ d.state = "SAFE_STOP" /\ r = InSafeStop(d, "PROTECT_RELEASE", t)
        BY <1>1, <1>5, <3>1, DispatchByState DEF FsmEvent
      <4>2. d.occupied = FALSE
        BY <1>1, <3>1 DEF NoteInput, FsmCtx
      <4> HIDE DEF d
      <4>3. r = RecoverFromSafeStop(d, t)
        BY <4>1 DEF InSafeStop
      <4>4. ~d.bin_full
        <5>1. CASE d.bin_full
          <6>1. r = EnterFault(d, "BIN_FULL", t)
            BY <4>3, <5>1 DEF RecoverFromSafeStop
          <6>2. r = EnterState([d EXCEPT !.fault_code = "BIN_FULL"], "FAULT", t)
            BY <4>1, <6>1 DEF EnterFault
          <6>3. [d EXCEPT !.fault_code = "BIN_FULL"] \in FsmCtx
            BY <4>1 DEF FsmCtx, FaultCode
          <6> QED BY <3>3, <6>2, <6>3, EnterStateTo
        <5> QED BY <5>1
      <4>5. r = EnterState(e, "LEAVE_CONFIRM", t)
        BY <4>2, <4>3, <4>4 DEF RecoverFromSafeStop, RecoverTo
      <4>6. e \in FsmCtx /\ e.state = "SAFE_STOP"
        BY <4>1 DEF FsmCtx, FaultCode
      <4> HIDE DEF e
      <4> QED BY <4>5, <4>6, EnterWindow DEF Window, WindowDeadline
    <3> QED BY <1>5, <3>1, <3>2, <3>3
  <2> QED BY <2>1, <2>2
<1>6. CASE c.state = "FAULT"
  <2>1. CASE FaultClears(c)
    <3>1. r = RecoverTo(c, IdleOrOccupied(c), t)
      BY <1>6, <2>1 DEF FsmTick
    <3> QED BY <1>1, <3>1, RecoverToState DEF IdleOrOccupied
  <2>2. CASE ~FaultClears(c)
    BY <1>6, <2>2 DEF FsmTick
  <2> QED BY <2>1, <2>2
<1> QED BY <1>1, <1>2, <1>3, <1>4, <1>5, <1>6 DEF FsmState, Window

\* The context litter_fsm_tick finds: a window in it is the one the iteration
\* found, or begins now that the cat has left; a run in it was asked for, or was
\* under way.
LEMMA ArrivedWindow ==
  ASSUME IInv, NEW occupied \in BOOLEAN, NEW bin_full \in BOOLEAN, NEW t \in Tick,
         NEW position, NEW edges, NEW settled, NEW asked, NEW served, NEW reports, NEW arrived,
         edges = BinFullEdge(ReadInputs(ctx, occupied, bin_full), bin_full, t),
         settled = OccupancyEdge(edges, occupied, t),
         asked = ServeClean(settled, TakesCleanRequest(edges), t),
         served = ServeReset(asked, t),
         reports => served.state = "CLEANING" /\ position = TargetPosition[served.clean_phase],
         arrived = ServeHall(served, reports, position, t)
  PROVE  /\ Settled(asked, occupied, bin_full) /\ Settled(arrived, occupied, bin_full)
         /\ arrived.state \in Window \cup {"SAFE_STOP"} => arrived = served
         /\ arrived.state \in Window =>
              \/ arrived.state = ctx.state /\ arrived.deadline_tick = ctx.deadline_tick
              \/ /\ arrived.state = "LEAVE_CONFIRM" /\ prev_occupied
                 /\ arrived.deadline_tick = TickAdd(t, LeaveConfirm)
         /\ arrived.state = "SAFE_STOP" /\ ~occupied => prev_occupied
         /\ arrived.state = "CLEANING" => ctx.state = "CLEANING" \/ remote_clean_request
<1>1. TypeOK /\ Matched(ctx, prev_occupied, prev_bin_full)
  BY DEF IInv
<1>2. Edged(edges, ctx, occupied, bin_full)
  BY <1>1, EdgesEdged
<1>3. Settled(settled, occupied, bin_full)
  BY <1>1, <1>2, OccupancySettled
<1>4. Settled(asked, occupied, bin_full)
  BY <1>3, CleanSettled
<1>5. Settled(served, occupied, bin_full)
  BY <1>1, <1>4, ResetSettled
<1>6. Settled(arrived, occupied, bin_full)
  BY <1>5, HallSettled
<1>7. arrived.state \in Window \cup {"SAFE_STOP"} => arrived = served
  <2>1. CASE reports
    <3>1. arrived = ServeHall(served, TRUE, TargetPosition[served.clean_phase], t)
      BY <2>1 DEF ServeHall
    <3>2. /\ Sound(served) /\ served.state = "CLEANING"
          /\ served.clean_phase \in {"TO_POS2", "TO_POS3", "TO_POS1"}
      BY <1>5, <2>1 DEF Settled, Fits, Sound, FsmCtx, CleanPhase
    <3>3. /\ served.clean_phase = "TO_POS2" => arrived.state = "CLEANING"
          /\ served.clean_phase = "TO_POS3" => arrived.state = "CLEANING"
          /\ served.clean_phase = "TO_POS1" => arrived.state = "IDLE"
      BY ONLY t \in Tick, <3>1, <3>2, HallRun
    <3> QED BY <3>2, <3>3 DEF Window
  <2>2. CASE ~reports
    BY <2>2 DEF ServeHall
  <2> QED BY <2>1, <2>2
<1>8. arrived.state \in Window \cup {"SAFE_STOP"} => arrived = settled
  BY <1>3, <1>4, <1>7, CleanWindow, ResetWindow
<1>9. /\ settled.state \in Window =>
           \/ settled = edges
           \/ /\ settled.state = "LEAVE_CONFIRM" /\ prev_occupied
              /\ settled.deadline_tick = TickAdd(t, LeaveConfirm)
      /\ settled.state = "SAFE_STOP" /\ ~occupied => prev_occupied
  BY <1>1, <1>2, OccupancyWindow
<1>10. edges.state \in Window => edges.state = ctx.state /\ edges.deadline_tick = ctx.deadline_tick
  BY <1>1, EdgesWindow
<1>11. ASSUME arrived.state = "CLEANING"
       PROVE  ctx.state = "CLEANING" \/ remote_clean_request
  <2>1. served.state = "CLEANING"
    BY <1>11 DEF ServeHall
  <2>2. served = asked
    BY <1>4, <2>1, ResetRun
  <2>3. asked = settled \/ TakesCleanRequest(edges)
    BY <1>3, <2>1, <2>2, CleanRun
  <2>4. settled = edges \/ settled.state \in {"OCCUPIED", "LEAVE_CONFIRM", "SAFE_STOP"}
    BY <1>1, <1>2, OccupancyRun
  <2>5. CASE asked = settled
    <3>1. edges.state = "CLEANING"
      BY <2>1, <2>2, <2>4, <2>5
    <3> QED BY <1>1, <3>1, EdgesRun
  <2>6. CASE TakesCleanRequest(edges)
    BY <2>6 DEF TakesCleanRequest
  <2> QED BY <2>3, <2>5, <2>6
<1> QED BY <1>4, <1>6, <1>7, <1>8, <1>9, <1>10, <1>11 DEF Window

\* An iteration keeps every window honest, and begins a run nobody has asked for
\* only when both windows have passed.
LEMMA RunningWaits ==
  ASSUME IInv, Waiting, NEW occupied \in BOOLEAN, NEW bin_full \in BOOLEAN,
         NEW position, NEW d \in LoopTicks,
         Running(occupied, bin_full, position, TickAdd(now, d)), quiet' = QuietAfter
  PROVE  /\ Waiting'
         /\ RunBegins => remote_clean_request \/ quiet' >= BothWindows
<1> DEFINE t == TickAdd(now, d)
           protect == ProtectActive(occupied, ctx.state)
           edges == BinFullEdge(ReadInputs(ctx, occupied, bin_full), bin_full, t)
           settled == OccupancyEdge(edges, occupied, t)
           asked == ServeClean(settled, TakesCleanRequest(edges), t)
           served == ServeReset(asked, t)
           reports == HallReports(served, position, bin_full, protect)
           arrived == ServeHall(served, reports, position, t)
<1>1. /\ now \in Tick /\ d \in Nat /\ d < TickMod
      /\ LeaveConfirm \in Nat \ {0} /\ CleanDelay \in Nat \ {0}
      /\ 2 * LeaveConfirm < TickMod /\ 2 * CleanDelay < TickMod
      /\ BothWindows = LeaveConfirm + CleanDelay
  <2>1. CleanTotal + d <= TickMod /\ d \in Nat /\ CleanTotal \in Nat \ {0}
    BY LoopAssumption, TimingAssumption
  <2>2. TickMod \in Nat
    BY TickModAssumption
  <2> QED BY <2>1, <2>2, TimingAssumption DEF IInv, TypeOK, BothWindows
<1>2. t \in Tick /\ TickSub(t, now) = d
  BY <1>1, TurnTakes
<1>3. /\ now' = t /\ prev_occupied' = occupied /\ ctx' = FsmTick(arrived, t)
  BY DEF Running
<1>4. reports => served.state = "CLEANING" /\ position = TargetPosition[served.clean_phase]
  BY DEF HallReports
<1>5. /\ Settled(arrived, occupied, bin_full)
      /\ arrived.state \in Window =>
           \/ arrived.state = ctx.state /\ arrived.deadline_tick = ctx.deadline_tick
           \/ /\ arrived.state = "LEAVE_CONFIRM" /\ prev_occupied
              /\ arrived.deadline_tick = TickAdd(t, LeaveConfirm)
      /\ arrived.state = "SAFE_STOP" /\ ~occupied => prev_occupied
      /\ arrived.state = "CLEANING" => ctx.state = "CLEANING" \/ remote_clean_request
  BY <1>2, <1>4, ArrivedWindow
<1> HIDE DEF t, arrived
<1>6. quiet \in Nat /\ quiet <= BothWindows /\ prev_occupied \in BOOLEAN
  BY <1>1 DEF Waiting, IInv, TypeOK
<1>7. quiet' = IF prev_occupied \/ occupied THEN 0
               ELSE IF quiet + d > BothWindows THEN BothWindows ELSE quiet + d
  BY <1>2, <1>3 DEF QuietAfter, Elapsed
<1>8. quiet' \in 0 .. BothWindows /\ quiet' \in Nat
  BY <1>1, <1>6, <1>7
<1>9. ctx.state \in Window => ~prev_occupied
  BY DEF IInv, Matched, Answered, Settled, Fits, Window
<1>10. arrived.state \in Window => ~occupied
  BY <1>5 DEF Settled, Fits, Window
\* The window found has gone on.
<1>11. /\ arrived.state = "LEAVE_CONFIRM" =>
            Waits(LeaveConfirm, LeaveConfirm, arrived.deadline_tick, t, quiet')
       /\ arrived.state = "CLEAN_DELAY" =>
            Waits(BothWindows, CleanDelay, arrived.deadline_tick, t, quiet')
  <2>1. CASE arrived.state \in Window /\ arrived.state = ctx.state
               /\ arrived.deadline_tick = ctx.deadline_tick
    <3>1. ~prev_occupied /\ ~occupied
      BY <1>9, <1>10, <2>1
    <3>2. quiet' = quiet + d \/ quiet' >= BothWindows
      BY <1>1, <1>6, <1>7, <3>1
    <3>3. quiet' = quiet + d \/ quiet' >= LeaveConfirm
      BY <1>1, <1>8, <3>2
    <3>4. CASE arrived.state = "LEAVE_CONFIRM"
      <4>1. Waits(LeaveConfirm, LeaveConfirm, arrived.deadline_tick, now, quiet)
        BY <2>1, <3>4 DEF Waiting
      <4>2. Waits(LeaveConfirm, LeaveConfirm, arrived.deadline_tick, TickAdd(now, d), quiet')
        BY <1>1, <1>6, <1>8, <3>3, <4>1, WaitsOn
      <4> QED BY <3>4, <4>2 DEF t
    <3>5. CASE arrived.state = "CLEAN_DELAY"
      <4>1. Waits(BothWindows, CleanDelay, arrived.deadline_tick, now, quiet)
        BY <2>1, <3>5 DEF Waiting
      <4>2. BothWindows \in Nat
        BY <1>1
      <4>3. Waits(BothWindows, CleanDelay, arrived.deadline_tick, TickAdd(now, d), quiet')
        BY <1>1, <1>6, <1>8, <3>2, <4>1, <4>2, WaitsOn
      <4> QED BY <3>5, <4>3 DEF t
    <3> QED BY <2>1, <3>4, <3>5 DEF Window
  <2>2. CASE arrived.state = "LEAVE_CONFIRM" /\ arrived.deadline_tick = TickAdd(t, LeaveConfirm)
    BY <1>1, <1>8, <2>2, WaitsFresh
  <2> QED BY <1>5, <2>1, <2>2 DEF Window
<1>12. /\ ctx'.state = "LEAVE_CONFIRM" =>
            \/ ctx' = arrived
            \/ /\ arrived.state = "SAFE_STOP" /\ ~occupied
               /\ ctx'.deadline_tick = TickAdd(t, LeaveConfirm)
       /\ ctx'.state = "CLEAN_DELAY" =>
            \/ ctx' = arrived
            \/ /\ arrived.state = "LEAVE_CONFIRM" /\ DeadlineExpired(t, arrived.deadline_tick)
               /\ ctx'.deadline_tick = TickAdd(t, CleanDelay)
       /\ ctx'.state = "CLEANING" =>
            \/ arrived.state = "CLEANING"
            \/ arrived.state = "CLEAN_DELAY" /\ DeadlineExpired(t, arrived.deadline_tick)
  BY <1>2, <1>3, <1>5, TickWindow
<1>13. ctx'.state = "LEAVE_CONFIRM" =>
         Waits(LeaveConfirm, LeaveConfirm, ctx'.deadline_tick, t, quiet')
  <2>1. CASE ctx' = arrived
    BY <1>11, <2>1
  <2>2. CASE ctx'.deadline_tick = TickAdd(t, LeaveConfirm)
    BY <1>1, <1>8, <2>2, WaitsFresh
  <2> QED BY <1>12, <2>1, <2>2
<1>14. ctx'.state = "CLEAN_DELAY" =>
         Waits(BothWindows, CleanDelay, ctx'.deadline_tick, t, quiet')
  <2>1. CASE ctx' = arrived
    BY <1>11, <2>1
  <2>2. CASE /\ arrived.state = "LEAVE_CONFIRM" /\ DeadlineExpired(t, arrived.deadline_tick)
             /\ ctx'.deadline_tick = TickAdd(t, CleanDelay)
    <3>1. quiet' >= LeaveConfirm
      BY <1>1, <1>2, <1>8, <1>11, <2>2, WaitsNotOver
    <3>2. BothWindows \in Nat /\ quiet' + CleanDelay >= BothWindows
      BY <1>1, <1>8, <3>1
    <3> QED BY <1>1, <1>8, <2>2, <3>2, WaitsFresh
  <2> QED BY <1>12, <2>1, <2>2
<1>15. RunBegins => remote_clean_request \/ quiet' >= BothWindows
  <2> SUFFICES ASSUME ctx.state # "CLEANING", ctx'.state = "CLEANING", ~remote_clean_request
               PROVE  quiet' >= BothWindows
    BY DEF RunBegins
  <2>1. arrived.state = "CLEAN_DELAY" /\ DeadlineExpired(t, arrived.deadline_tick)
    BY <1>5, <1>12
  <2>2. BothWindows \in Nat
    BY <1>1
  <2> QED BY <1>1, <1>2, <1>8, <1>11, <2>1, <2>2, WaitsNotOver
<1> QED BY <1>3, <1>8, <1>13, <1>14, <1>15 DEF Waiting, BothWindows

\* The windows are honest from the start, at which there is none.
LEMMA InitWaiting == InitH => IInv /\ Waiting
<1> SUFFICES ASSUME InitH PROVE IInv /\ Waiting
  OBVIOUS
<1>1. Init /\ quiet = 0
  BY DEF InitH
<1>2. IInv
  BY <1>1, InitMatched
<1>3. ctx.state \notin Window
  BY <1>1, BootState DEF Window
<1> QED BY <1>1, <1>2, <1>3, TimingAssumption DEF Waiting, BothWindows, Window

\* Every step keeps the windows honest.
LEMMA NextWaiting ==
  ASSUME IInv, Waiting, [NextH]_histVars
  PROVE  /\ IInv' /\ Waiting'
         /\ RunBegins => remote_clean_request \/ quiet' >= BothWindows
<1>1. [Next]_vars
  BY DEF NextH, IterateH, RequestCleanH, RequestResetH, Next, histVars
<1>2. IInv'
  BY <1>1, NextMatched
<1>3. CASE IterateH
  <2>1. Iterate /\ quiet' = QuietAfter
    BY <1>3 DEF IterateH
  <2>2. PICK occupied \in BOOLEAN, bin_full \in BOOLEAN,
             position \in HallReading \cup {stable_position}, d \in LoopTicks :
               Running(occupied, bin_full, position, TickAdd(now, d))
    BY <2>1 DEF Iterate
  <2> QED BY <1>2, <2>1, <2>2, RunningWaits
<1>4. CASE RequestCleanH \/ RequestResetH \/ UNCHANGED histVars
  <2>1. UNCHANGED <<ctx, now, quiet>>
    BY <1>4 DEF RequestCleanH, RequestResetH, RequestClean, RequestReset, histVars, vars
  <2> QED BY <1>2, <2>1 DEF Waiting, RunBegins
<1> QED BY <1>3, <1>4 DEF NextH

\* The windows of the control loop are counted from the moment the box became
\* empty, whatever faults, stops and visits have come in between.
LEMMA HistoryWaiting == SpecH => [](IInv /\ Waiting)
<1>1. IInv /\ Waiting /\ [NextH]_histVars => (IInv /\ Waiting)'
  BY NextWaiting
<1> QED BY <1>1, InitWaiting, PTL DEF SpecH

\* A run nobody asked for begins only after both windows have passed over an
\* empty box without a break, for every clock and every length of the windows.
THEOREM HistoryUnaskedRunWaits == SpecH => UnaskedRunWaits
<1>1. IInv /\ Waiting /\ [NextH]_histVars =>
        [RunBegins => remote_clean_request \/ quiet' >= BothWindows]_histVars
  BY NextWaiting
<1> QED BY <1>1, HistoryWaiting, PTL DEF SpecH, UnaskedRunWaits

\* The history variables do not interfere with the control loop.
LEMMA HistoryIsLoop == SpecH => Spec
<1>1. InitH => Init
  BY DEF InitH
<1>2. [NextH]_histVars => [Next]_vars
  BY DEF NextH, IterateH, RequestCleanH, RequestResetH, Next, histVars
<1> QED BY <1>1, <1>2, PTL DEF SpecH, Spec

\* The states that lead to a run by themselves stand for a visit that is still to
\* be cleaned up after.
Pending == Window \cup {"OCCUPIED", "SAFE_STOP"}

VisitStands == ctx.state \in Pending => visited

\* A reset that is served over an empty box with room leaves no such state.
LEMMA ResetCallsOff ==
  ASSUME NEW t \in Tick, NEW c, Settled(c, FALSE, FALSE), reset_request
  PROVE  ServeReset(c, t).state \notin Window \cup {"SAFE_STOP"}
<1> DEFINE r == ServeReset(c, t)
<1>1. Sound(c) /\ c \in FsmCtx /\ ~c.occupied /\ ~c.bin_full
  BY DEF Settled, Fits, Sound
<1>2. SUFFICES ASSUME r.state \in Window \cup {"SAFE_STOP"} PROVE FALSE
  OBVIOUS
<1>3. r = c /\ r = Dispatch(c, "RESET", t)
  BY <1>2, ResetWindow DEF ServeReset
<1>4. c.state \in Window \cup {"SAFE_STOP"} /\ ~c.protect_active
  BY <1>2, <1>3 DEF Settled, Fits, Window
<1>5. r = ResetRecover(c, t)
  BY <1>1, <1>3, <1>4, DispatchPlain, SoundTyped
     DEF Window, InLeaveConfirm, InCleanDelay, InSafeStop
<1>6. r.state = "IDLE"
  BY <1>1, <1>4, <1>5, ResetRecoverState DEF IdleOrOccupied
<1> QED BY <1>2, <1>6 DEF Window

\* An iteration leaves a state that leads to a run only if it has seen a cat, or
\* found such a state and served no reset; and a run nobody asked for begins out
\* of such a state.
LEMMA RunningVisited ==
  ASSUME IInv, IInv', VisitStands, NEW occupied \in BOOLEAN, NEW bin_full \in BOOLEAN,
         NEW position, NEW t \in Tick, Running(occupied, bin_full, position, t),
         prev_occupied => visited,
         visited' = (prev_occupied' \/ (visited /\ ~RunBegins /\ ~reset_request))
  PROVE  /\ VisitStands'
         /\ RunBegins => remote_clean_request \/ visited
<1> DEFINE edges == BinFullEdge(ReadInputs(ctx, occupied, bin_full), bin_full, t)
           settled == OccupancyEdge(edges, occupied, t)
           asked == ServeClean(settled, TakesCleanRequest(edges), t)
           served == ServeReset(asked, t)
           reports == HallReports(served, position, bin_full, ProtectActive(occupied, ctx.state))
           arrived == ServeHall(served, reports, position, t)
<1>1. /\ ctx' = FsmTick(arrived, t)
      /\ prev_occupied' = occupied /\ prev_bin_full' = bin_full
  BY DEF Running
<1>2. reports => served.state = "CLEANING" /\ position = TargetPosition[served.clean_phase]
  BY DEF HallReports
<1>3. /\ Settled(asked, occupied, bin_full) /\ Settled(arrived, occupied, bin_full)
      /\ arrived.state \in Window \cup {"SAFE_STOP"} => arrived = served
      /\ arrived.state \in Window => arrived.state = ctx.state \/ prev_occupied
      /\ arrived.state = "SAFE_STOP" /\ ~occupied => prev_occupied
      /\ arrived.state = "CLEANING" => ctx.state = "CLEANING" \/ remote_clean_request
  BY <1>2, ArrivedWindow
<1> HIDE DEF reports, arrived
<1>4. /\ ctx'.state = "LEAVE_CONFIRM" =>
           \/ ctx' = arrived
           \/ arrived.state = "SAFE_STOP" /\ ~occupied
      /\ ctx'.state = "CLEAN_DELAY" => ctx' = arrived \/ arrived.state = "LEAVE_CONFIRM"
      /\ ctx'.state = "CLEANING" => arrived.state \in {"CLEANING", "CLEAN_DELAY"}
  BY <1>1, <1>3, TickWindow
<1>5. ASSUME ctx'.state \in Pending, ~occupied
      PROVE  visited'
  <2>1. ctx'.state \in Window /\ ~bin_full
    BY <1>1, <1>5 DEF IInv, Matched, Answered, Settled, Fits, Pending, Window
  <2>2. arrived.state \in Window \cup {"SAFE_STOP"} /\ arrived = served
    BY <1>3, <1>4, <2>1 DEF Window
  <2>3. ~reset_request
    BY <1>3, <1>5, <2>1, <2>2, ResetCallsOff
  <2>4. ctx.state \in Pending \/ prev_occupied
    BY <1>3, <1>5, <2>2 DEF Pending, Window
  <2>5. ~RunBegins
    BY <2>1 DEF RunBegins, Window
  <2> QED BY <2>3, <2>4, <2>5 DEF VisitStands
<1>6. ASSUME RunBegins, ~remote_clean_request
      PROVE  visited
  <2>1. arrived.state = "CLEAN_DELAY"
    BY <1>3, <1>4, <1>6 DEF RunBegins
  <2>2. ctx.state = "CLEAN_DELAY" \/ prev_occupied
    BY <1>3, <2>1 DEF Window
  <2> QED BY <2>2 DEF VisitStands, Pending, Window
<1>7. occupied => visited'
  BY <1>1
<1> QED BY <1>5, <1>6, <1>7 DEF VisitStands

\* Every step keeps the visits; a cat in the box is one.
LEMMA NextVisited ==
  ASSUME IInv, VisitStands, prev_occupied => visited, [NextH]_histVars
  PROVE  /\ IInv' /\ VisitStands' /\ (prev_occupied => visited)'
         /\ RunBegins => remote_clean_request \/ visited
<1>1. [Next]_vars
  BY DEF NextH, IterateH, RequestCleanH, RequestResetH, Next, histVars
<1>2. IInv'
  BY <1>1, NextMatched
<1>3. CASE IterateH
  <2>1. /\ Iterate
        /\ visited' = (prev_occupied' \/ (visited /\ ~RunBegins /\ ~reset_request))
    BY <1>3 DEF IterateH
  <2>2. PICK occupied \in BOOLEAN, bin_full \in BOOLEAN,
             position \in HallReading \cup {stable_position}, d \in LoopTicks :
               Running(occupied, bin_full, position, TickAdd(now, d))
    BY <2>1 DEF Iterate
  <2>3. TickAdd(now, d) \in Tick
    BY <1>2, <2>2 DEF Running, IInv, TypeOK
  <2>4. (prev_occupied => visited)'
    BY <2>1
  <2> QED BY <1>2, <2>1, <2>2, <2>3, <2>4, RunningVisited
<1>4. CASE RequestCleanH \/ RequestResetH \/ UNCHANGED histVars
  <2>1. UNCHANGED <<ctx, prev_occupied, visited>>
    BY <1>4 DEF RequestCleanH, RequestResetH, RequestClean, RequestReset, histVars, vars
  <2> QED BY <1>2, <2>1 DEF VisitStands, RunBegins
<1> QED BY <1>3, <1>4 DEF NextH

\* A run nobody asked for cleans up after a visit that no run and no reset has
\* come after, for every clock and all windows and budgets.
THEOREM HistoryRunAnswersVisit == SpecH => RunAnswersVisit
<1> DEFINE Kept == IInv /\ VisitStands /\ (prev_occupied => visited)
<1>1. InitH => Kept
  <2> SUFFICES ASSUME InitH PROVE Kept
    OBVIOUS
  <2>1. Init /\ visited = prev_occupied
    BY DEF InitH
  <2>2. IInv
    BY <2>1, InitMatched
  <2>3. ctx.state \in Pending => prev_occupied
    BY <2>1, <2>2, BootState DEF Pending, Window, IInv, Matched, Answered, Settled, Fits
  <2> QED BY <2>1, <2>2, <2>3 DEF VisitStands
<1>2. Kept /\ [NextH]_histVars =>
        Kept' /\ [RunBegins => remote_clean_request \/ visited]_histVars
  BY NextVisited
<1> QED BY <1>1, <1>2, PTL DEF SpecH, RunAnswersVisit

-----------------------------------------------------------------------------
(* litter_timeout against the control loop.  Between two stores of the      *)
(* command the context may be unsound, and whole iterations run on it: a    *)
(* fault code in any state, a phase in FAULT, a run without a phase.  What  *)
(* they all keep is the agreement with the sample, and a motor that is      *)
(* driven by a run, unless the command stands between the store of FAULT    *)
(* and the stop of the motor it owes.                                       *)

Owing == {"disarming", "clearing", "stopping"}

ShellInv ==
  /\ TypeOK
  /\ Agrees(ctx, prev_occupied, prev_bin_full)
  /\ shell \in ShellStep
  /\ shell \notin Owing => Powered(ctx)

\* No stage of an iteration drives the motor outside a run.
LEMMA StagesSteady ==
  ASSUME NEW c \in FsmCtx, Powered(c), NEW t \in Tick,
         NEW occupied \in BOOLEAN, NEW bin_full \in BOOLEAN,
         NEW take, NEW reports, NEW position
  PROVE  /\ Powered(ReadInputs(c, occupied, bin_full))
         /\ Powered(BinFullEdge(c, bin_full, t)) /\ Powered(OccupancyEdge(c, occupied, t))
         /\ Powered(ServeClean(c, take, t)) /\ Powered(ServeReset(c, t))
         /\ Powered(ServeHall(c, reports, position, t)) /\ Powered(FsmTick(c, t))
<1>1. Powered(ReadInputs(c, occupied, bin_full))
  BY DEF ReadInputs, SyncInputs, Powered, FsmCtx
<1>2. \A e : Powered(Dispatch(c, e, t))
  BY DispatchSteady
<1> QED BY <1>1, <1>2, FsmTickSteady DEF BinFullEdge, OccupancyEdge, ServeClean,
         ServeReset, ServeHall

\* An iteration on whatever context it finds.
LEMMA RunningSteady ==
  ASSUME TypeOK, Agrees(ctx, prev_occupied, prev_bin_full),
         NEW occupied \in BOOLEAN, NEW bin_full \in BOOLEAN,
         NEW position \in HallReading \cup {stable_position},
         NEW t \in Tick, Running(occupied, bin_full, position, t)
  PROVE  /\ TypeOK' /\ Agrees(ctx, prev_occupied, prev_bin_full)'
         /\ Powered(ctx) => Powered(ctx)'
<1> DEFINE read == ReadInputs(ctx, occupied, bin_full)
           edges == BinFullEdge(read, bin_full, t)
           takes == TakesCleanRequest(edges)
           settled == OccupancyEdge(edges, occupied, t)
           asked == ServeClean(settled, takes, t)
           served == ServeReset(asked, t)
           protect == ProtectActive(occupied, ctx.state)
           reports == HallReports(served, position, bin_full, protect)
           arrived == ServeHall(served, reports, position, t)
<1>1. ctx \in FsmCtx /\ prev_occupied \in BOOLEAN
  BY DEF TypeOK
<1>2. /\ ctx' = FsmTick(arrived, t) /\ last_reported_phase' = ReportedPhase(served, reports)
      /\ prev_occupied' = occupied /\ prev_bin_full' = bin_full /\ now' = t
      /\ stable_position' = position
  BY DEF Running
<1>3. reports => /\ served.state = "CLEANING" /\ served.clean_phase # "NONE"
                 /\ position = TargetPosition[served.clean_phase]
  BY DEF HallReports, TargetPosition
<1>4. read \in FsmCtx
  BY <1>1 DEF ReadInputs, ProtectActive, SyncInputs, FsmCtx
<1>5. EdgesFit(edges, ctx, occupied, bin_full)
  BY <1>1, EdgesFits
<1>6. Powered(ctx) => Powered(read)
  BY <1>1, StagesSteady
<1>7. Powered(read) => Powered(edges)
  <2> HIDE DEF read
  <2> QED BY <1>4, StagesSteady
<1> HIDE DEF read, edges, takes
<1>8. Fits(settled, occupied, bin_full) /\ edges \in FsmCtx
  BY <1>1, <1>5, OccupancyFits DEF EdgesFit
<1>9. Powered(edges) => Powered(settled)
  BY <1>8, StagesSteady
<1> HIDE DEF settled
<1>10. Fits(asked, occupied, bin_full)
  BY <1>8, CleanFits
<1>11. Powered(settled) => Powered(asked)
  BY <1>8, StagesSteady DEF Fits
<1> HIDE DEF asked
<1>12. Fits(served, occupied, bin_full)
  BY <1>10, ResetFits
<1>13. Powered(asked) => Powered(served)
  BY <1>10, StagesSteady DEF Fits
<1> HIDE DEF served, reports
<1>14. Fits(arrived, occupied, bin_full)
  BY <1>3, <1>12, HallFits
<1>15. Powered(served) => Powered(arrived)
  BY <1>12, StagesSteady DEF Fits
<1> HIDE DEF arrived
<1>16. Fits(ctx', occupied, bin_full) /\ Answered(ctx', occupied, bin_full)
  BY <1>2, <1>14, TickFits
<1>17. Powered(arrived) => Powered(ctx')
  BY <1>2, <1>14, StagesSteady DEF Fits
<1>18. Powered(ctx) => Powered(ctx')
  BY <1>6, <1>7, <1>9, <1>11, <1>13, <1>15, <1>17
<1>19. Agrees(ctx', occupied, bin_full) /\ ctx' \in FsmCtx
  BY <1>16 DEF Fits, Answered, Agrees
<1>20. TypeOK'
  <2>1. position \in HallPosition
    BY LoopAssumption DEF TypeOK
  <2>2. served \in FsmCtx
    BY <1>12 DEF Fits
  <2>3. last_reported_phase' \in CleanPhase
    BY <1>2, <2>2 DEF ReportedPhase, TypeOK, FsmCtx, CleanPhase
  <2>4. last_reported_position' \in HallPosition
    BY <2>1 DEF Running, TypeOK
  <2>5. box_used' \in 0 .. UseMod - 1
    BY LoopAssumption DEF Running, TypeOK
  <2>6. remote_clean_request' \in BOOLEAN /\ reset_request' \in BOOLEAN
    BY DEF Running
  <2> QED BY <1>2, <1>19, <2>1, <2>3, <2>4, <2>5, <2>6 DEF TypeOK
<1> QED BY <1>2, <1>18, <1>19, <1>20 DEF Agrees, Powered

\* The stores of the command.
LEMMA InjectKeeps ==
  ASSUME ShellInv, Call \/ Inject
  PROVE  ShellInv'
<1>1. /\ 0 \in Tick /\ "CLEAN_TIMEOUT" \in FaultCode /\ "FAULT" \in FsmState
      /\ "NONE" \in CleanPhase /\ "STOP" \in Motor
  BY TickModAssumption DEF Tick, FaultCode, FsmState, CleanPhase, Motor
<1>2. ctx \in FsmCtx
  BY DEF ShellInv, TypeOK
<1>3. CASE Call \/ TestFault \/ TestState
  BY <1>3 DEF ShellInv, Call, TestFault, TestState, Owing, ShellStep, vars, hall,
       requests, TypeOK, Agrees, Powered
<1>4. CASE WriteCode
  <2>1. /\ ctx' \in FsmCtx /\ ctx'.state = ctx.state
        /\ ctx'.motor = ctx.motor /\ ctx'.clean_phase = ctx.clean_phase
    BY <1>1, <1>2, <1>4 DEF WriteCode, FsmCtx
  <2> QED BY <1>4, <2>1 DEF ShellInv, WriteCode, Owing, ShellStep, CtxOnly, hall,
           requests, TypeOK, Agrees, Powered
<1>5. CASE WriteState
  <2>1. ctx' \in FsmCtx /\ ctx'.state = "FAULT"
    BY <1>1, <1>2, <1>5 DEF WriteState, FsmCtx
  <2> QED BY <1>5, <2>1 DEF ShellInv, WriteState, Owing, ShellStep, CtxOnly, hall,
           requests, TypeOK, Agrees
<1>6. CASE ClearDeadline
  <2>1. ctx' \in FsmCtx /\ ctx'.state = ctx.state
    BY <1>1, <1>2, <1>6 DEF ClearDeadline, FsmCtx
  <2> QED BY <1>6, <2>1 DEF ShellInv, ClearDeadline, Owing, ShellStep, CtxOnly, hall,
           requests, TypeOK, Agrees
<1>7. CASE ClearPhase
  <2>1. ctx' \in FsmCtx /\ ctx'.state = ctx.state
    BY <1>1, <1>2, <1>7 DEF ClearPhase, FsmCtx
  <2> QED BY <1>7, <2>1 DEF ShellInv, ClearPhase, Owing, ShellStep, CtxOnly, hall,
           requests, TypeOK, Agrees
<1>8. CASE StopMotor
  <2>1. ctx' \in FsmCtx /\ ctx'.state = ctx.state /\ ctx'.motor = "STOP"
    BY <1>1, <1>2, <1>8 DEF StopMotor, FsmCtx
  <2> QED BY <1>8, <2>1 DEF ShellInv, StopMotor, ShellStep, CtxOnly, hall, requests,
           TypeOK, Agrees, Powered
<1> QED BY <1>3, <1>4, <1>5, <1>6, <1>7, <1>8 DEF Inject

\* Every step keeps the invariant.
LEMMA NextShell ==
  ASSUME ShellInv, [NextS]_shellVars
  PROVE  ShellInv'
<1>1. CASE Iterate /\ UNCHANGED shell
  <2>1. PICK occupied \in BOOLEAN, bin_full \in BOOLEAN,
             position \in HallReading \cup {stable_position}, d \in LoopTicks :
               Running(occupied, bin_full, position, TickAdd(now, d))
    BY <1>1 DEF Iterate
  <2>2. TickAdd(now, d) \in Tick
    BY LoopAssumption, TickAddType DEF ShellInv, TypeOK
  <2>3. TypeOK' /\ Agrees(ctx, prev_occupied, prev_bin_full)' /\ (Powered(ctx) => Powered(ctx)')
    BY <2>1, <2>2, RunningSteady DEF ShellInv
  <2> QED BY <1>1, <2>3 DEF ShellInv
<1>2. CASE (RequestClean \/ RequestReset) /\ UNCHANGED shell
  <2>1. UNCHANGED <<ctx, prev_occupied, prev_bin_full, shell>>
    BY <1>2 DEF RequestClean, RequestReset
  <2>2. TypeOK'
    BY <1>2 DEF RequestClean, RequestReset, ShellInv, TypeOK, hall
  <2> QED BY <2>1, <2>2 DEF ShellInv, Agrees, Powered
<1>3. CASE Call \/ Inject
  BY <1>3, InjectKeeps
<1>4. CASE UNCHANGED shellVars
  BY <1>4 DEF shellVars, vars, hall, requests, ShellInv, TypeOK, Agrees, Powered
<1> QED BY <1>1, <1>2, <1>3, <1>4 DEF NextS

\* Sensor_Logic_Init leaves a context that agrees with its sample.
LEMMA InitShell == InitS => ShellInv
<1> SUFFICES ASSUME InitS PROVE ShellInv
  OBVIOUS
<1>1. IInv
  BY InitMatched DEF InitS
<1>2. TypeOK /\ Matched(ctx, prev_occupied, prev_bin_full)
  BY <1>1 DEF IInv
<1>3. Sound(ctx) /\ Agrees(ctx, prev_occupied, prev_bin_full)
  BY <1>2, MatchedAgrees
<1>4. Powered(ctx)
  BY <1>3 DEF Sound, Powered, PhaseMotor, FsmCtx
<1> QED BY <1>2, <1>3, <1>4 DEF InitS, ShellInv, ShellStep

\* However its stores interleave with the control loop, the state machine keeps
\* agreeing with the sample, and the motor turns for a run only unless the
\* command still owes the stop.
THEOREM ShellInvariant == SpecS => []ShellInv
BY InitShell, NextShell, PTL DEF SpecS

\* Once the command has returned, the motor is as safe as without it.
THEOREM ShellMotorSafe == SpecS => []MotorSafeAtRest
<1>1. ShellInv => MotorSafeAtRest
  BY DEF ShellInv, MotorSafeAtRest, MotorSafe, Owing, Agrees, Powered
<1> QED BY <1>1, ShellInvariant, PTL
=============================================================================
