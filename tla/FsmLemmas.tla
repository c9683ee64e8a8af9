----------------------------- MODULE FsmLemmas -----------------------------
(***************************************************************************)
(* Lemmas about the operators of LitterFsm: each function of fsm.c takes a *)
(* sound context to a sound one, and takes at most one step of the         *)
(* cleaning cycle.                                                         *)
(***************************************************************************)
EXTENDS LitterFsm, TLAPS

\* What every context between two calls satisfies.
Sound(c) ==
  /\ c \in FsmCtx
  /\ c.motor = PhaseMotor[c.clean_phase]
  /\ c.clean_phase # "NONE" <=> c.state = "CLEANING"
  /\ c.state = "FAULT" => c.fault_code \in {"BIN_FULL", "CLEAN_TIMEOUT"}
  /\ c.state = "SAFE_STOP" => c.fault_code = "PROTECT_TRIGGER"
  /\ c.state \notin {"FAULT", "SAFE_STOP"} => c.fault_code = "NONE"

SameInputs(c, d) ==
  /\ d.occupied = c.occupied
  /\ d.bin_full = c.bin_full
  /\ d.protect_active = c.protect_active

\* A sum of a tick and a duration is a tick.
LEMMA TickAddType ==
  ASSUME NEW t \in Tick, NEW d \in Nat
  PROVE  TickAdd(t, d) \in Tick
BY TickModAssumption DEF TickAdd, Tick

\* The deadline fsm_enter_state computes for any state is a tick.
LEMMA WindowDeadlineType ==
  ASSUME NEW s \in FsmState, NEW t \in Tick
  PROVE  WindowDeadline(s, t) \in Tick
BY TickAddType, TimingAssumption, TickModAssumption DEF WindowDeadline, Tick

\* Entering another state: from a context whose fault code suits the new
\* state, however its motor and phase stand, fsm_enter_state leaves a sound one.
LEMMA EnterStateSound ==
  ASSUME NEW c \in FsmCtx, NEW s \in FsmState, NEW t \in Tick,
         c.state # s,
         s = "FAULT" => c.fault_code \in {"BIN_FULL", "CLEAN_TIMEOUT"},
         s = "SAFE_STOP" => c.fault_code = "PROTECT_TRIGGER"
  PROVE  /\ Sound(EnterState(c, s, t))
         /\ EnterState(c, s, t).state = s
         /\ SameInputs(c, EnterState(c, s, t))
         /\ EnterState(c, s, t).clean_phase = IF s = "CLEANING" THEN "TO_POS2" ELSE "NONE"
<1>1. WindowDeadline(s, t) \in Tick
  BY WindowDeadlineType
<1>2. CASE s = "CLEANING"
  BY <1>1, <1>2 DEF EnterState, StartCleanPhase, Sound, SameInputs, FsmCtx, FsmState,
     FaultCode, CleanPhase, Motor, PhaseMotor, KeepsFault
<1>3. CASE s # "CLEANING"
  BY <1>1, <1>3 DEF EnterState, Halt, Sound, SameInputs, FsmCtx, FsmState,
     FaultCode, CleanPhase, Motor, PhaseMotor, KeepsFault
<1> QED BY <1>2, <1>3

\* fsm_enter_state returns at once in the state it is asked for.
LEMMA EnterStateAgain ==
  ASSUME NEW c, NEW s, NEW t, c.state = s
  PROVE  EnterState(c, s, t) = c
BY DEF EnterState

-----------------------------------------------------------------------------
(* One step of the cleaning cycle, between two contexts. *)

Clear(c) == ~c.occupied /\ ~c.bin_full /\ ~c.protect_active

CycleStep(c, d) ==
  \/ d.clean_phase \in {c.clean_phase, "NONE"}
  \/ c.clean_phase = "NONE" /\ d.clean_phase = "TO_POS2" /\ Clear(c) /\ Clear(d)
  \/ c.clean_phase = "TO_POS2" /\ d.clean_phase = "TO_POS3" /\ SameInputs(c, d)
  \/ c.clean_phase = "TO_POS3" /\ d.clean_phase = "TO_POS1" /\ SameInputs(c, d)

\* What each handler does with a sound context.
Good(c, d) == Sound(d) /\ CycleStep(c, d) /\ SameInputs(c, d)

\* A handler that ignores its event does no harm.
LEMMA StaysGood ==
  ASSUME NEW c, Sound(c)
  PROVE  Good(c, c)
BY DEF Good, CycleStep, SameInputs

\* Leaving c for a state with the drum at rest, by way of a context d that
\* differs from it in the fault code and the motor only.
LEMMA RestGood ==
  ASSUME NEW c \in FsmCtx, NEW d \in FsmCtx, NEW s \in FsmState, NEW t \in Tick,
         SameInputs(c, d), d.state # s, s # "CLEANING",
         s = "FAULT" => d.fault_code \in {"BIN_FULL", "CLEAN_TIMEOUT"},
         s = "SAFE_STOP" => d.fault_code = "PROTECT_TRIGGER"
  PROVE  /\ Good(c, EnterState(d, s, t))
         /\ EnterState(d, s, t).state = s
         /\ EnterState(d, s, t).clean_phase = "NONE"
<1>1. /\ Sound(EnterState(d, s, t))
      /\ EnterState(d, s, t).state = s
      /\ SameInputs(d, EnterState(d, s, t))
      /\ EnterState(d, s, t).clean_phase = "NONE"
  BY EnterStateSound
<1> QED BY <1>1 DEF Good, CycleStep, SameInputs

\* Entering any state but CLEANING and the two that keep a fault code.
LEMMA EnterQuietGood ==
  ASSUME NEW c \in FsmCtx, NEW t \in Tick, Sound(c),
         NEW s \in {"IDLE", "OCCUPIED", "LEAVE_CONFIRM", "CLEAN_DELAY"}
  PROVE  Good(c, EnterState(c, s, t))
<1>1. CASE c.state = s
  BY <1>1, EnterStateAgain, StaysGood
<1>2. CASE c.state # s
  <2>1. s \in FsmState /\ s \notin {"FAULT", "SAFE_STOP", "CLEANING"}
    BY DEF FsmState
  <2> QED BY <1>2, <2>1, EnterStateSound DEF Good, CycleStep
<1> QED BY <1>1, <1>2

\* fsm_enter_fault, from FAULT and from every other state.
LEMMA EnterFaultGood ==
  ASSUME NEW c \in FsmCtx, NEW t \in Tick, Sound(c),
         NEW code \in {"BIN_FULL", "CLEAN_TIMEOUT"}
  PROVE  /\ Good(c, EnterFault(c, code, t))
         /\ EnterFault(c, code, t).state = "FAULT"
         /\ EnterFault(c, code, t).fault_code = code
         /\ EnterFault(c, code, t).clean_phase = "NONE"
<1> DEFINE d == [c EXCEPT !.fault_code = code]
<1>1. d \in FsmCtx /\ SameInputs(c, d) /\ d.fault_code = code /\ d.state = c.state
      /\ d.clean_phase = c.clean_phase
  BY DEF FsmCtx, FaultCode, SameInputs
<1>2. CASE c.state = "FAULT"
  <2>1. EnterFault(c, code, t) = [d EXCEPT !.motor = "STOP"]
    BY <1>2 DEF EnterFault
  <2>2. c.clean_phase = "NONE" /\ PhaseMotor["NONE"] = "STOP"
    BY <1>2 DEF Sound, PhaseMotor
  <2> HIDE DEF d
  <2>3. Sound([d EXCEPT !.motor = "STOP"])
    BY <1>1, <1>2, <2>2 DEF Sound, FsmCtx, Motor
  <2> QED
    BY <1>1, <1>2, <2>1, <2>2, <2>3 DEF Good, CycleStep, SameInputs, FsmCtx
<1>3. CASE c.state # "FAULT"
  <2>1. EnterFault(c, code, t) = EnterState(d, "FAULT", t)
    BY <1>3 DEF EnterFault
  <2>2. "FAULT" \in FsmState
    BY DEF FsmState
  <2> HIDE DEF d
  <2>3. EnterState(d, "FAULT", t).fault_code = code
    BY <1>1, <1>3 DEF EnterState, Halt, KeepsFault, FsmCtx
  <2> QED
    BY <1>1, <1>3, <2>1, <2>2, <2>3, RestGood
<1> QED BY <1>2, <1>3

\* fsm_recover_to_state: the fault code is cleared, then the state is left.
LEMMA RecoverToGood ==
  ASSUME NEW c \in FsmCtx, NEW t \in Tick, Sound(c),
         NEW s \in {"IDLE", "OCCUPIED", "LEAVE_CONFIRM"}, c.state # s
  PROVE  Good(c, RecoverTo(c, s, t))
<1> DEFINE d == [c EXCEPT !.fault_code = "NONE"]
<1>1. d \in FsmCtx /\ SameInputs(c, d) /\ d.state = c.state
  BY DEF FsmCtx, FaultCode, SameInputs
<1> HIDE DEF d
<1>2. s \in FsmState /\ s \notin {"FAULT", "SAFE_STOP", "CLEANING"}
  BY DEF FsmState
<1>3. RecoverTo(c, s, t) = EnterState(d, s, t)
  BY DEF RecoverTo, d
<1> QED BY <1>1, <1>2, <1>3, RestGood

\* fsm_stop_cleaning_for_protect breaks a run off.
LEMMA StopForProtectGood ==
  ASSUME NEW c \in FsmCtx, NEW t \in Tick, Sound(c), c.state = "CLEANING"
  PROVE  Good(c, StopForProtect(c, t))
<1> DEFINE d == [c EXCEPT !.fault_code = "PROTECT_TRIGGER"]
<1>1. d \in FsmCtx /\ SameInputs(c, d) /\ d.state = "CLEANING"
      /\ d.fault_code = "PROTECT_TRIGGER"
  BY DEF FsmCtx, FaultCode, SameInputs
<1> HIDE DEF d
<1>2. "SAFE_STOP" \in FsmState
  BY DEF FsmState
<1>3. StopForProtect(c, t) = EnterState(d, "SAFE_STOP", t)
  BY DEF StopForProtect, d
<1> QED BY <1>1, <1>2, <1>3, RestGood

\* fsm_try_enter_cleaning begins a run only with clear inputs.
LEMMA TryEnterCleaningGood ==
  ASSUME NEW c \in FsmCtx, NEW t \in Tick, Sound(c), c.state # "CLEANING"
  PROVE  Good(c, TryEnterCleaning(c, t))
<1>1. Good(c, BlockClean(c, t))
  BY EnterQuietGood DEF BlockClean, IdleOrOccupied
<1>2. Good(c, EnterFault(c, "BIN_FULL", t))
  BY EnterFaultGood
<1>3. ASSUME Clear(c)
      PROVE  Good(c, EnterState(c, "CLEANING", t))
  <2>1. "CLEANING" \in FsmState /\ c.clean_phase = "NONE"
    BY DEF FsmState, Sound
  <2> QED BY <1>3, <2>1, EnterStateSound DEF Good, CycleStep, Clear, SameInputs
<1>4. c.occupied \in BOOLEAN /\ c.bin_full \in BOOLEAN /\ c.protect_active \in BOOLEAN
  BY DEF FsmCtx
<1>5. CASE c.occupied
  BY <1>1, <1>5 DEF TryEnterCleaning
<1>6. CASE ~c.occupied /\ c.bin_full
  BY <1>2, <1>6 DEF TryEnterCleaning
<1>7. CASE ~c.occupied /\ ~c.bin_full /\ c.protect_active
  BY <1>1, <1>7 DEF TryEnterCleaning
<1>8. CASE Clear(c)
  BY <1>3, <1>8 DEF TryEnterCleaning, Clear
<1> QED BY <1>4, <1>5, <1>6, <1>7, <1>8 DEF Clear

\* fsm_handle_reset_recover, in the states that offer it a RESET.
LEMMA ResetRecoverGood ==
  ASSUME NEW c \in FsmCtx, NEW t \in Tick, Sound(c),
         c.state \notin {"IDLE", "OCCUPIED"}
  PROVE  Good(c, ResetRecover(c, t))
<1>1. Good(c, RecoverTo(c, IdleOrOccupied(c), t))
  BY RecoverToGood DEF IdleOrOccupied
<1> QED BY <1>1, StaysGood DEF ResetRecover
-----------------------------------------------------------------------------
(* The handlers of the states. *)

\* The IDLE case of litter_fsm_dispatch.
LEMMA InIdleGood ==
  ASSUME NEW c \in FsmCtx, NEW e, NEW t \in Tick, Sound(c), c.state = "IDLE"
  PROVE  Good(c, InIdle(c, e, t))
BY StaysGood, EnterQuietGood, EnterFaultGood, TryEnterCleaningGood DEF InIdle

\* The OCCUPIED case of litter_fsm_dispatch.
LEMMA InOccupiedGood ==
  ASSUME NEW c \in FsmCtx, NEW e, NEW t \in Tick, Sound(c), c.state = "OCCUPIED"
  PROVE  Good(c, InOccupied(c, e, t))
BY StaysGood, EnterQuietGood, EnterFaultGood, TryEnterCleaningGood DEF InOccupied

\* The end of the leave-confirm window.
LEMMA LeaveConfirmedGood ==
  ASSUME NEW c \in FsmCtx, NEW t \in Tick, Sound(c)
  PROVE  Good(c, LeaveConfirmed(c, t))
<1>1. Good(c, BlockClean(c, t))
  BY EnterQuietGood DEF BlockClean, IdleOrOccupied
<1>2. Good(c, EnterFault(c, "BIN_FULL", t))
  BY EnterFaultGood
<1>3. Good(c, EnterState(c, "OCCUPIED", t)) /\ Good(c, EnterState(c, "CLEAN_DELAY", t))
  BY EnterQuietGood
<1> QED BY <1>1, <1>2, <1>3 DEF LeaveConfirmed

\* The LEAVE_CONFIRM case of litter_fsm_dispatch.
LEMMA InLeaveConfirmGood ==
  ASSUME NEW c \in FsmCtx, NEW e, NEW t \in Tick, Sound(c), c.state = "LEAVE_CONFIRM"
  PROVE  Good(c, InLeaveConfirm(c, e, t))
BY StaysGood, EnterQuietGood, EnterFaultGood, LeaveConfirmedGood, ResetRecoverGood
   DEF InLeaveConfirm

\* The CLEAN_DELAY case of litter_fsm_dispatch.
LEMMA InCleanDelayGood ==
  ASSUME NEW c \in FsmCtx, NEW e, NEW t \in Tick, Sound(c), c.state = "CLEAN_DELAY"
  PROVE  Good(c, InCleanDelay(c, e, t))
BY StaysGood, EnterQuietGood, EnterFaultGood, TryEnterCleaningGood, ResetRecoverGood
   DEF InCleanDelay

\* The next phase restarts the clock of the phase and reverses the motor.
LEMMA StartCleanPhaseGood ==
  ASSUME NEW c \in FsmCtx, NEW t \in Tick, Sound(c), c.state = "CLEANING",
         NEW p \in {"TO_POS3", "TO_POS1"},
         c.clean_phase = IF p = "TO_POS3" THEN "TO_POS2" ELSE "TO_POS3"
  PROVE  Good(c, StartCleanPhase(c, p, t))
<1> DEFINE d == StartCleanPhase(c, p, t)
<1>1. p \in CleanPhase /\ PhaseMotor[p] \in Motor /\ p # "NONE"
  BY DEF CleanPhase, Motor, PhaseMotor
<1>2. /\ d \in FsmCtx /\ SameInputs(c, d)
      /\ d.state = c.state /\ d.fault_code = c.fault_code
      /\ d.clean_phase = p /\ d.motor = PhaseMotor[p]
  BY <1>1 DEF StartCleanPhase, FsmCtx, SameInputs
<1> HIDE DEF d
<1>3. Sound(d)
  BY <1>1, <1>2 DEF Sound
<1>4. CycleStep(c, d)
  BY <1>2 DEF CycleStep
<1> QED BY <1>2, <1>3, <1>4 DEF Good, d

\* fsm_finish_cleaning: the motor stops before CLEAN_DONE leads to IDLE.
LEMMA FinishCleaningGood ==
  ASSUME NEW c \in FsmCtx, NEW t \in Tick, Sound(c), c.state = "CLEANING"
  PROVE  Good(c, FinishCleaning(c, t))
<1> DEFINE d == [c EXCEPT !.motor = "STOP"]
<1>1. d \in FsmCtx /\ SameInputs(c, d) /\ d.state = "CLEANING"
  BY DEF FsmCtx, Motor, SameInputs
<1>2. "IDLE" \in FsmState
  BY DEF FsmState
<1>3. FinishCleaning(c, t) = EnterState(d, "IDLE", t)
  BY DEF FinishCleaning
<1> HIDE DEF d
<1> QED BY <1>1, <1>2, <1>3, RestGood

\* The CLEANING case of litter_fsm_dispatch: an arrival moves the run on only
\* if it ends the current phase.
LEMMA InCleaningGood ==
  ASSUME NEW c \in FsmCtx, NEW e, NEW t \in Tick, Sound(c), c.state = "CLEANING"
  PROVE  Good(c, InCleaning(c, e, t))
<1>1. Good(c, StopForProtect(c, t)) /\ Good(c, EnterFault(c, "BIN_FULL", t))
  BY StopForProtectGood, EnterFaultGood
<1>2. Good(c, EnterState(c, "IDLE", t)) /\ Good(c, c)
  BY EnterQuietGood, StaysGood
<1>3. ASSUME PhaseEnds(c, e)
      PROVE  Good(c, EndPhase(c, e, t))
  <2>1. CASE e = "POS2_REACHED"
    BY <1>3, <2>1, StartCleanPhaseGood DEF PhaseEnds, EndPhase
  <2>2. CASE e = "POS3_REACHED"
    BY <1>3, <2>2, StartCleanPhaseGood DEF PhaseEnds, EndPhase
  <2>3. CASE e = "POS1_REACHED"
    BY <2>3, FinishCleaningGood DEF EndPhase
  <2> QED BY <1>3, <2>1, <2>2, <2>3 DEF PhaseEnds
<1>4. CASE e = "OCCUPIED_ON"
  BY <1>1, <1>4 DEF InCleaning, PhaseEnds
<1>5. CASE e = "BIN_FULL"
  BY <1>1, <1>5 DEF InCleaning, PhaseEnds
<1>6. CASE PhaseEnds(c, e)
  BY <1>3, <1>6 DEF InCleaning, PhaseEnds
<1>7. CASE e \in {"CLEAN_DONE", "RESET"}
  <2>1. ~PhaseEnds(c, e)
    BY <1>7 DEF PhaseEnds
  <2>2. InCleaning(c, e, t) = EnterState(c, "IDLE", t)
    BY <1>7, <2>1 DEF InCleaning
  <2> QED BY <1>2, <2>2
<1>8. CASE e \notin {"OCCUPIED_ON", "BIN_FULL", "CLEAN_DONE", "RESET"} /\ ~PhaseEnds(c, e)
  <2>1. InCleaning(c, e, t) = c
    BY <1>8 DEF InCleaning
  <2> QED BY <1>2, <2>1
<1> QED BY <1>4, <1>5, <1>6, <1>7, <1>8

\* The SAFE_STOP case of litter_fsm_dispatch.
LEMMA InSafeStopGood ==
  ASSUME NEW c \in FsmCtx, NEW e, NEW t \in Tick, Sound(c), c.state = "SAFE_STOP"
  PROVE  Good(c, InSafeStop(c, e, t))
<1>1. Good(c, RecoverFromSafeStop(c, t))
  BY EnterFaultGood, RecoverToGood DEF RecoverFromSafeStop
<1> QED BY <1>1, StaysGood, ResetRecoverGood DEF InSafeStop

\* The FAULT case of litter_fsm_dispatch.
LEMMA InFaultGood ==
  ASSUME NEW c \in FsmCtx, NEW e, NEW t \in Tick, Sound(c), c.state = "FAULT"
  PROVE  Good(c, InFault(c, e, t))
BY StaysGood, ResetRecoverGood DEF InFault
-----------------------------------------------------------------------------
(* The entry points. *)

\* The events that report an input; no run begins or goes on because of one.
InputEvent == {"OCCUPIED_ON", "OCCUPIED_OFF", "BIN_FULL", "PROTECT_TRIGGER",
               "PROTECT_RELEASE"}

\* Recording the input an event reports touches nothing but the inputs.
LEMMA NoteInputSound ==
  ASSUME NEW c \in FsmCtx, NEW e \in FsmEvent, Sound(c)
  PROVE  /\ NoteInput(c, e) \in FsmCtx
         /\ Sound(NoteInput(c, e))
         /\ NoteInput(c, e).state = c.state
         /\ NoteInput(c, e).fault_code = c.fault_code
         /\ NoteInput(c, e).clean_phase = c.clean_phase
         /\ e \notin InputEvent => SameInputs(c, NoteInput(c, e))
BY DEF NoteInput, Sound, FsmCtx, SameInputs, InputEvent

\* An event that reports an input neither begins a run nor moves one on.
LEMMA InputEventBeginsNothing ==
  ASSUME NEW c \in FsmCtx, NEW e \in InputEvent, NEW t \in Tick, Sound(c),
         e # "PROTECT_TRIGGER"
  PROVE  /\ c.state = "IDLE" => InIdle(c, e, t).clean_phase \in {c.clean_phase, "NONE"}
         /\ c.state = "OCCUPIED" =>
              InOccupied(c, e, t).clean_phase \in {c.clean_phase, "NONE"}
         /\ c.state = "LEAVE_CONFIRM" =>
              InLeaveConfirm(c, e, t).clean_phase \in {c.clean_phase, "NONE"}
         /\ c.state = "CLEAN_DELAY" =>
              InCleanDelay(c, e, t).clean_phase \in {c.clean_phase, "NONE"}
         /\ c.state = "CLEANING" =>
              InCleaning(c, e, t).clean_phase \in {c.clean_phase, "NONE"}
         /\ c.state = "SAFE_STOP" =>
              InSafeStop(c, e, t).clean_phase \in {c.clean_phase, "NONE"}
         /\ c.state = "FAULT" => InFault(c, e, t).clean_phase = c.clean_phase
<1>1. \A s \in {"OCCUPIED", "LEAVE_CONFIRM"} :
        c.state # s => EnterState(c, s, t).clean_phase = "NONE"
  BY EnterStateSound DEF FsmState
<1>2. EnterFault(c, "BIN_FULL", t).clean_phase = "NONE"
  BY EnterFaultGood
<1>3. c.state = "CLEANING" => StopForProtect(c, t).clean_phase = "NONE"
  BY DEF StopForProtect, EnterState, Halt, FsmCtx
<1>4. c.state = "SAFE_STOP" => RecoverFromSafeStop(c, t).clean_phase = "NONE"
  BY <1>2 DEF RecoverFromSafeStop, RecoverTo, EnterState, Halt, FsmCtx
<1> QED
  BY <1>1, <1>2, <1>3, <1>4
     DEF InputEvent, InIdle, InOccupied, InLeaveConfirm, InCleanDelay, InCleaning, PhaseEnds,
         InSafeStop, InFault

\* litter_fsm_dispatch, any event in any state.
LEMMA DispatchSound ==
  ASSUME NEW c \in FsmCtx, NEW e \in FsmEvent, NEW t \in Tick, Sound(c)
  PROVE  Sound(Dispatch(c, e, t)) /\ CycleStep(c, Dispatch(c, e, t))
<1> DEFINE d == NoteInput(c, e)
           r == Dispatch(c, e, t)
<1>1. /\ d \in FsmCtx /\ Sound(d)
      /\ d.state = c.state /\ d.clean_phase = c.clean_phase
      /\ e \notin InputEvent => SameInputs(c, d)
  BY NoteInputSound
<1>2. CASE e = "PROTECT_TRIGGER"
  <2>1. r = IF d.state = "CLEANING" THEN StopForProtect(d, t) ELSE d
    BY <1>2 DEF Dispatch
  <2> HIDE DEF d, r
  <2>2. CASE d.state = "CLEANING"
    <3>1. StopForProtect(d, t).clean_phase = "NONE"
      BY <1>1, <2>2 DEF StopForProtect, EnterState, Halt, FsmCtx
    <3> QED BY <1>1, <2>1, <2>2, <3>1, StopForProtectGood DEF Good, CycleStep, r
  <2>3. CASE d.state # "CLEANING"
    BY <1>1, <2>1, <2>3 DEF CycleStep, r
  <2> QED BY <2>2, <2>3
<1>3. CASE e = "STALL_OR_TIMEOUT"
  <2>1. r = EnterFault(d, "CLEAN_TIMEOUT", t)
    BY <1>3 DEF Dispatch
  <2> HIDE DEF d, r
  <2> QED BY <1>1, <2>1, EnterFaultGood DEF Good, CycleStep, r
<1>4. CASE e \notin {"PROTECT_TRIGGER", "STALL_OR_TIMEOUT"}
  <2>1. /\ d.state = "IDLE" => r = InIdle(d, e, t)
        /\ d.state = "OCCUPIED" => r = InOccupied(d, e, t)
        /\ d.state = "LEAVE_CONFIRM" => r = InLeaveConfirm(d, e, t)
        /\ d.state = "CLEAN_DELAY" => r = InCleanDelay(d, e, t)
        /\ d.state = "CLEANING" => r = InCleaning(d, e, t)
        /\ d.state = "SAFE_STOP" => r = InSafeStop(d, e, t)
        /\ d.state = "FAULT" => r = InFault(d, e, t)
    BY <1>4 DEF Dispatch
  <2> HIDE DEF d, r
  <2>2. d.state \in FsmState
    BY <1>1 DEF FsmCtx
  <2>3. Good(d, r)
    BY <1>1, <2>1, <2>2, InIdleGood, InOccupiedGood, InLeaveConfirmGood, InCleanDelayGood,
       InCleaningGood, InSafeStopGood, InFaultGood DEF FsmState
  <2>4. CASE e \in InputEvent
    <3>1. r.clean_phase \in {d.clean_phase, "NONE"}
      BY <1>1, <1>4, <2>1, <2>2, <2>4, InputEventBeginsNothing DEF FsmState
    <3> QED BY <1>1, <2>3, <3>1 DEF Good, CycleStep, r
  <2>5. CASE e \notin InputEvent
    BY <1>1, <2>3, <2>5 DEF Good, CycleStep, SameInputs, Clear, r
  <2> QED BY <2>4, <2>5
<1> QED BY <1>2, <1>3, <1>4

\* litter_fsm_tick takes at most one step of the cycle.
LEMMA FsmTickSound ==
  ASSUME NEW c \in FsmCtx, NEW t \in Tick, Sound(c)
  PROVE  Sound(FsmTick(c, t)) /\ CycleStep(c, FsmTick(c, t))
<1>1. \A e \in {"PROTECT_TRIGGER", "PROTECT_RELEASE", "DELAY_TIMEOUT", "STALL_OR_TIMEOUT"} :
        Sound(Dispatch(c, e, t)) /\ CycleStep(c, Dispatch(c, e, t))
  BY DispatchSound DEF FsmEvent
<1>2. ASSUME FaultClears(c)
      PROVE  Good(c, RecoverTo(c, IdleOrOccupied(c), t))
  BY <1>2, RecoverToGood DEF FaultClears, IdleOrOccupied
<1>3. Good(c, c)
  BY StaysGood
<1> QED BY <1>1, <1>2, <1>3 DEF FsmTick, Good

\* No event but a RESET with the inputs clear touches a latched timeout.
LEMMA DispatchKeepsTimeout ==
  ASSUME NEW c \in FsmCtx, NEW e \in FsmEvent, NEW t \in Tick, Sound(c),
         c.state = "FAULT", c.fault_code = "CLEAN_TIMEOUT",
         ~(e = "RESET" /\ ~c.protect_active /\ ~c.bin_full)
  PROVE  /\ Dispatch(c, e, t).state = "FAULT"
         /\ Dispatch(c, e, t).fault_code = "CLEAN_TIMEOUT"
<1> DEFINE d == NoteInput(c, e)
<1>1. /\ d \in FsmCtx /\ Sound(d)
      /\ d.state = "FAULT" /\ d.fault_code = "CLEAN_TIMEOUT"
      /\ e = "RESET" => SameInputs(c, d)
  BY NoteInputSound DEF InputEvent
<1>2. CASE e = "PROTECT_TRIGGER"
  BY <1>1, <1>2 DEF Dispatch
<1>3. CASE e = "STALL_OR_TIMEOUT"
  <2>1. Dispatch(c, e, t) = EnterFault(d, "CLEAN_TIMEOUT", t)
    BY <1>3 DEF Dispatch
  <2> QED BY <1>1, <2>1, EnterFaultGood
<1>4. CASE e \notin {"PROTECT_TRIGGER", "STALL_OR_TIMEOUT"}
  <2>1. Dispatch(c, e, t) = InFault(d, e, t)
    BY <1>1, <1>4 DEF Dispatch
  <2>2. InFault(d, e, t) = d
    BY <1>1 DEF InFault, ResetRecover, SameInputs
  <2> QED BY <1>1, <2>1, <2>2
<1> QED BY <1>2, <1>3, <1>4

-----------------------------------------------------------------------------
(* Contexts that need not be sound, because another thread is in the middle *)
(* of changing them: fault code, phase and motor may be anything.           *)

\* The motor is driven in a run only, in the direction of its phase.
Powered(c) == c.motor # "STOP" => c.state = "CLEANING" /\ c.motor = PhaseMotor[c.clean_phase]

\* What each function of fsm.c does with any context.
Steady(c, d) == c \in FsmCtx /\ d \in FsmCtx /\ SameInputs(c, d) /\ (Powered(c) => Powered(d))

\* Two such steps are one.
LEMMA SteadyOn ==
  ASSUME NEW c, NEW d, NEW e, Steady(c, d), Steady(d, e)
  PROVE  Steady(c, e)
BY DEF Steady, SameInputs

\* Doing nothing, setting a fault code and stopping the motor.
LEMMA SteadySteps ==
  ASSUME NEW c \in FsmCtx, NEW code \in FaultCode
  PROVE  /\ Steady(c, c)
         /\ Steady(c, [c EXCEPT !.fault_code = code])
         /\ [c EXCEPT !.fault_code = code].state = c.state
         /\ Steady(c, [c EXCEPT !.motor = "STOP"])
         /\ [c EXCEPT !.motor = "STOP"].state = c.state
         /\ Steady([c EXCEPT !.fault_code = code],
                   [c EXCEPT !.fault_code = code, !.motor = "STOP"])
BY DEF Steady, SameInputs, FsmCtx, Motor, Powered

\* fsm_enter_state ends in the state it is asked for, at rest or in the first phase of
\* a run, unless it returns at once.
LEMMA EnterStateSteady ==
  ASSUME NEW c \in FsmCtx, NEW s \in FsmState, NEW t \in Tick
  PROVE  Steady(c, EnterState(c, s, t)) /\ EnterState(c, s, t).state = s
<1>1. WindowDeadline(s, t) \in Tick
  BY WindowDeadlineType
<1>2. CASE c.state = s
  BY <1>2, EnterStateAgain DEF Steady, SameInputs
<1>3. CASE c.state # s /\ s = "CLEANING"
  BY <1>1, <1>3 DEF EnterState, StartCleanPhase, Steady, Powered, SameInputs, FsmCtx, FsmState,
     FaultCode, CleanPhase, Motor, PhaseMotor
<1>4. CASE c.state # s /\ s # "CLEANING"
  BY <1>1, <1>4 DEF EnterState, Halt, Steady, Powered, SameInputs, FsmCtx, FsmState,
     FaultCode, CleanPhase, Motor
<1> QED BY <1>2, <1>3, <1>4

\* fsm_enter_fault, fsm_recover_to_state and fsm_stop_cleaning_for_protect set the code
\* and enter their state.
LEMMA CodedSteady ==
  ASSUME NEW c \in FsmCtx, NEW t \in Tick, NEW code \in FaultCode, NEW s \in FsmState
  PROVE  /\ Steady(c, EnterFault(c, code, t)) /\ EnterFault(c, code, t).state = "FAULT"
         /\ Steady(c, RecoverTo(c, s, t)) /\ RecoverTo(c, s, t).state = s
         /\ Steady(c, StopForProtect(c, t)) /\ StopForProtect(c, t).state = "SAFE_STOP"
<1>1. ASSUME NEW k \in FaultCode, NEW z \in FsmState
      PROVE  /\ Steady(c, EnterState([c EXCEPT !.fault_code = k], z, t))
             /\ EnterState([c EXCEPT !.fault_code = k], z, t).state = z
  <2>1. Steady(c, [c EXCEPT !.fault_code = k]) /\ [c EXCEPT !.fault_code = k] \in FsmCtx
    BY SteadySteps DEF Steady
  <2> QED BY <2>1, EnterStateSteady, SteadyOn
<1>2. /\ "NONE" \in FaultCode /\ "PROTECT_TRIGGER" \in FaultCode
      /\ "FAULT" \in FsmState /\ "SAFE_STOP" \in FsmState
  BY DEF FaultCode, FsmState
<1>3. Steady(c, EnterFault(c, code, t)) /\ EnterFault(c, code, t).state = "FAULT"
  <2>1. CASE c.state = "FAULT"
    <3> DEFINE d == [c EXCEPT !.fault_code = code]
    <3>1. EnterFault(c, code, t) = [d EXCEPT !.motor = "STOP"]
      BY <2>1 DEF EnterFault
    <3>2. Steady(c, d) /\ d \in FsmCtx /\ d.state = "FAULT"
      BY <2>1, SteadySteps DEF Steady
    <3> HIDE DEF d
    <3>3. Steady(d, [d EXCEPT !.motor = "STOP"]) /\ [d EXCEPT !.motor = "STOP"].state = "FAULT"
      BY <3>2, SteadySteps
    <3> QED BY <3>1, <3>2, <3>3, SteadyOn
  <2>2. CASE c.state # "FAULT"
    BY <1>1, <1>2, <2>2 DEF EnterFault
  <2> QED BY <2>1, <2>2
<1> QED BY <1>1, <1>2, <1>3 DEF RecoverTo, StopForProtect

\* fsm_try_enter_cleaning, fsm_handle_reset_recover, the recovery from SAFE_STOP and the
\* end of the leave-confirm window.
LEMMA RecoverySteady ==
  ASSUME NEW c \in FsmCtx, NEW t \in Tick
  PROVE  /\ Steady(c, TryEnterCleaning(c, t)) /\ Steady(c, ResetRecover(c, t))
         /\ Steady(c, RecoverFromSafeStop(c, t)) /\ Steady(c, LeaveConfirmed(c, t))
<1>1. \A s \in {"IDLE", "OCCUPIED", "LEAVE_CONFIRM", "CLEAN_DELAY", "CLEANING"} :
        Steady(c, EnterState(c, s, t)) /\ Steady(c, RecoverTo(c, s, t))
  BY EnterStateSteady, CodedSteady DEF FsmState, FaultCode
<1>2. Steady(c, EnterFault(c, "BIN_FULL", t)) /\ Steady(c, c)
  BY CodedSteady, SteadySteps DEF FsmState, FaultCode
<1>3. IdleOrOccupied(c) \in {"IDLE", "OCCUPIED"}
  BY DEF IdleOrOccupied
<1> QED BY <1>1, <1>2, <1>3 DEF TryEnterCleaning, ResetRecover, RecoverFromSafeStop,
           LeaveConfirmed, BlockClean

\* The end of a phase, in a run.
LEMMA EndPhaseSteady ==
  ASSUME NEW c \in FsmCtx, NEW e, NEW t \in Tick, c.state = "CLEANING"
  PROVE  Steady(c, EndPhase(c, e, t)) /\ EndPhase(c, e, t).state \in {"CLEANING", "IDLE"}
<1>1. ASSUME NEW p \in {"TO_POS3", "TO_POS1"}
      PROVE  Steady(c, StartCleanPhase(c, p, t)) /\ StartCleanPhase(c, p, t).state = "CLEANING"
  <2> DEFINE d == StartCleanPhase(c, p, t)
  <2>1. p \in CleanPhase /\ PhaseMotor[p] \in Motor
    BY DEF CleanPhase, Motor, PhaseMotor
  <2>2. /\ d \in FsmCtx /\ SameInputs(c, d) /\ d.state = "CLEANING"
        /\ d.clean_phase = p /\ d.motor = PhaseMotor[p]
    BY <2>1 DEF StartCleanPhase, FsmCtx, SameInputs
  <2> HIDE DEF d
  <2> QED BY <2>2 DEF Steady, Powered, d
<1>2. Steady(c, FinishCleaning(c, t)) /\ FinishCleaning(c, t).state = "IDLE"
  <2>1. Steady(c, [c EXCEPT !.motor = "STOP"]) /\ [c EXCEPT !.motor = "STOP"] \in FsmCtx
    BY SteadySteps DEF Steady, FaultCode
  <2> QED BY <2>1, EnterStateSteady, SteadyOn DEF FinishCleaning, FsmState
<1> QED BY <1>1, <1>2 DEF EndPhase

\* The cases of litter_fsm_dispatch.
LEMMA HandlersSteady ==
  ASSUME NEW c \in FsmCtx, NEW e, NEW t \in Tick
  PROVE  /\ Steady(c, InIdle(c, e, t)) /\ Steady(c, InOccupied(c, e, t))
         /\ Steady(c, InLeaveConfirm(c, e, t)) /\ Steady(c, InCleanDelay(c, e, t))
         /\ c.state = "CLEANING" => Steady(c, InCleaning(c, e, t))
         /\ Steady(c, InSafeStop(c, e, t)) /\ Steady(c, InFault(c, e, t))
<1>1. \A s \in {"IDLE", "OCCUPIED", "LEAVE_CONFIRM"} : Steady(c, EnterState(c, s, t))
  BY EnterStateSteady DEF FsmState
<1>2. Steady(c, EnterFault(c, "BIN_FULL", t)) /\ Steady(c, StopForProtect(c, t)) /\ Steady(c, c)
  BY CodedSteady, SteadySteps DEF FsmState, FaultCode
<1>3. /\ Steady(c, TryEnterCleaning(c, t)) /\ Steady(c, ResetRecover(c, t))
      /\ Steady(c, RecoverFromSafeStop(c, t)) /\ Steady(c, LeaveConfirmed(c, t))
  BY RecoverySteady
<1>4. Steady(c, InIdle(c, e, t)) /\ Steady(c, InOccupied(c, e, t))
  BY <1>1, <1>2, <1>3 DEF InIdle, InOccupied
<1>5. Steady(c, InLeaveConfirm(c, e, t)) /\ Steady(c, InCleanDelay(c, e, t))
  BY <1>1, <1>2, <1>3 DEF InLeaveConfirm, InCleanDelay
<1>6. Steady(c, InSafeStop(c, e, t)) /\ Steady(c, InFault(c, e, t))
  BY <1>2, <1>3 DEF InSafeStop, InFault
<1>7. ASSUME c.state = "CLEANING" PROVE Steady(c, InCleaning(c, e, t))
  <2>1. Steady(c, EndPhase(c, e, t))
    BY <1>7, EndPhaseSteady
  <2> QED BY <1>1, <1>2, <2>1 DEF InCleaning, PhaseEnds
<1> QED BY <1>4, <1>5, <1>6, <1>7

\* Recording the input an event reports touches nothing but the inputs.
LEMMA NoteInputSteady ==
  ASSUME NEW c \in FsmCtx, NEW e
  PROVE  /\ NoteInput(c, e) \in FsmCtx /\ NoteInput(c, e).state = c.state
         /\ NoteInput(c, e).fault_code = c.fault_code
         /\ Powered(c) => Powered(NoteInput(c, e))
BY DEF NoteInput, FsmCtx, Powered

\* litter_fsm_dispatch and litter_fsm_tick on any context.
LEMMA DispatchSteady ==
  ASSUME NEW c \in FsmCtx, NEW e, NEW t \in Tick
  PROVE  Dispatch(c, e, t) \in FsmCtx /\ (Powered(c) => Powered(Dispatch(c, e, t)))
<1> DEFINE d == NoteInput(c, e)
           r == Dispatch(c, e, t)
<1>1. d \in FsmCtx /\ (Powered(c) => Powered(d))
  BY NoteInputSteady
<1>2. \/ r \in {d, StopForProtect(d, t), EnterFault(d, "CLEAN_TIMEOUT", t),
                InIdle(d, e, t), InOccupied(d, e, t), InLeaveConfirm(d, e, t),
                InCleanDelay(d, e, t), InSafeStop(d, e, t), InFault(d, e, t)}
      \/ d.state = "CLEANING" /\ r = InCleaning(d, e, t)
  BY DEF Dispatch
<1> HIDE DEF d, r
<1>3. /\ Steady(d, d) /\ Steady(d, StopForProtect(d, t))
      /\ Steady(d, EnterFault(d, "CLEAN_TIMEOUT", t))
  BY <1>1, CodedSteady, SteadySteps DEF FsmState, FaultCode
<1>4. Steady(d, r)
  BY <1>1, <1>2, <1>3, HandlersSteady
<1> QED BY <1>1, <1>4 DEF Steady, r

LEMMA FsmTickSteady ==
  ASSUME NEW c \in FsmCtx, NEW t \in Tick
  PROVE  FsmTick(c, t) \in FsmCtx /\ (Powered(c) => Powered(FsmTick(c, t)))
<1>1. \A e : Dispatch(c, e, t) \in FsmCtx /\ (Powered(c) => Powered(Dispatch(c, e, t)))
  BY DispatchSteady
<1>2. Steady(c, RecoverTo(c, IdleOrOccupied(c), t))
  BY CodedSteady DEF IdleOrOccupied, FsmState, FaultCode
<1> QED BY <1>1, <1>2 DEF FsmTick, Steady
=============================================================================
