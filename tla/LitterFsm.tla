----------------------------- MODULE LitterFsm -----------------------------
(***************************************************************************)
(* The top-level state machine of the litter box (app_logic/fsm.c), as     *)
(* functions on its context record: each operator takes the context a C    *)
(* function is called with and returns the context it leaves behind.       *)
(* Logging, NULL checks and the fields that are written and never read     *)
(* (state_enter_tick, last_event_tick, cleaning_active) are left out.  The *)
(* field motor is the effect of the ops callbacks on the H-bridge.         *)
(***************************************************************************)
EXTENDS TickClock

CONSTANTS LeaveConfirm,    \* leave_confirm_ms
          CleanDelay,      \* clean_delay_ms
          TimeoutToPos2,   \* timeout_to_pos2_ms
          TimeoutToPos3,   \* timeout_to_pos3_ms
          TimeoutToPos1,   \* timeout_to_pos1_ms
          CleanTotal       \* clean_total_timeout_ms

ASSUME TimingAssumption ==
  /\ LeaveConfirm \in Nat \ {0} /\ CleanDelay \in Nat \ {0}
  /\ TimeoutToPos2 \in Nat \ {0} /\ TimeoutToPos3 \in Nat \ {0}
  /\ TimeoutToPos1 \in Nat \ {0} /\ CleanTotal \in Nat \ {0}
  /\ 2 * LeaveConfirm < TickMod /\ 2 * CleanDelay < TickMod
  /\ TimeoutToPos2 < TickMod /\ TimeoutToPos3 < TickMod
  /\ TimeoutToPos1 < TickMod /\ CleanTotal < TickMod

FsmState == {"IDLE", "OCCUPIED", "LEAVE_CONFIRM", "CLEAN_DELAY", "CLEANING",
             "SAFE_STOP", "FAULT"}
FsmEvent == {"OCCUPIED_ON", "OCCUPIED_OFF", "DELAY_TIMEOUT", "CLEAN_START",
             "CLEAN_DONE", "POS1_REACHED", "POS2_REACHED", "POS3_REACHED",
             "PROTECT_TRIGGER", "PROTECT_RELEASE", "STALL_OR_TIMEOUT",
             "BIN_FULL", "RESET"}
FaultCode == {"NONE", "BIN_FULL", "CLEAN_TIMEOUT", "PROTECT_TRIGGER"}
CleanPhase == {"NONE", "TO_POS2", "TO_POS3", "TO_POS1"}
Motor == {"STOP", "FORWARD", "REVERSE"}

FsmCtx ==
  [state : FsmState, clean_phase : CleanPhase, fault_code : FaultCode,
   occupied : BOOLEAN, bin_full : BOOLEAN, protect_active : BOOLEAN,
   deadline_tick : Tick, clean_started_tick : Tick, phase_started_tick : Tick,
   motor : Motor]

\* rt_memset, then the assignments of litter_fsm_init.
FsmInit ==
  [state |-> "IDLE", clean_phase |-> "NONE", fault_code |-> "NONE",
   occupied |-> FALSE, bin_full |-> FALSE, protect_active |-> FALSE,
   deadline_tick |-> 0, clean_started_tick |-> 0, phase_started_tick |-> 0,
   motor |-> "STOP"]

SyncInputs(c, occupied, bin_full, protect) ==
  [c EXCEPT !.occupied = occupied, !.bin_full = bin_full,
            !.protect_active = protect]

-----------------------------------------------------------------------------
(* Phases of a cleaning run. *)

PhaseMotor == [NONE |-> "STOP", TO_POS2 |-> "FORWARD",
               TO_POS3 |-> "REVERSE", TO_POS1 |-> "FORWARD"]

PhaseTimeout == [NONE |-> 0, TO_POS2 |-> TimeoutToPos2,
                 TO_POS3 |-> TimeoutToPos3, TO_POS1 |-> TimeoutToPos1]

\* Mutant: the phase clock is not restarted.
StartCleanPhase_KeepStamp(c, phase, now) ==
  [c EXCEPT !.clean_phase = phase, !.motor = PhaseMotor[phase]]

StartCleanPhase(c, phase, now) ==
  [c EXCEPT !.clean_phase = phase, !.phase_started_tick = now,
            !.motor = PhaseMotor[phase]]

-----------------------------------------------------------------------------
(* Entering a state. *)

WindowDeadline(s, now) ==
  CASE s = "LEAVE_CONFIRM" -> TickAdd(now, LeaveConfirm)
    [] s = "CLEAN_DELAY" -> TickAdd(now, CleanDelay)
    [] OTHER -> 0

\* Leave the drum at rest: no phase, motor off.
Halt(c) == [c EXCEPT !.clean_phase = "NONE", !.motor = "STOP"]

\* Mutant: SAFE_STOP forgets why it was entered.
KeepsFault_FaultOnly == {"FAULT"}

\* The states in which a fault code survives.
KeepsFault == {"SAFE_STOP", "FAULT"}

\* Mutant: FAULT is entered with the motor running.
EnterState_NoStopOnFault(c, s, now) ==
  IF c.state = s THEN c
  ELSE LET d == [c EXCEPT !.state = s, !.deadline_tick = WindowDeadline(s, now),
                          !.fault_code = IF s \in KeepsFault THEN @ ELSE "NONE"]
       IN IF s = "CLEANING"
          THEN StartCleanPhase([d EXCEPT !.clean_started_tick = now], "TO_POS2", now)
          ELSE IF s = "FAULT" THEN [d EXCEPT !.clean_phase = "NONE"] ELSE Halt(d)

\* fsm_enter_state: re-entering the current state does nothing at all.
EnterState(c, s, now) ==
  IF c.state = s THEN c
  ELSE LET d == [c EXCEPT !.state = s, !.deadline_tick = WindowDeadline(s, now),
                          !.fault_code = IF s \in KeepsFault THEN @ ELSE "NONE"]
       IN IF s = "CLEANING"
          THEN StartCleanPhase([d EXCEPT !.clean_started_tick = now], "TO_POS2", now)
          ELSE Halt(d)

\* fsm_enter_fault: in FAULT already, only the code changes and the motor is
\* stopped once more.
EnterFault(c, code, now) ==
  LET d == [c EXCEPT !.fault_code = code]
  IN IF c.state = "FAULT" THEN [d EXCEPT !.motor = "STOP"]
     ELSE EnterState(d, "FAULT", now)

RecoverTo(c, s, now) == EnterState([c EXCEPT !.fault_code = "NONE"], s, now)

IdleOrOccupied(c) == IF c.occupied THEN "OCCUPIED" ELSE "IDLE"

-----------------------------------------------------------------------------
(* Interlocks and recovery. *)

BlockClean(c, now) == EnterState(c, IdleOrOccupied(c), now)

\* Mutant: the occupied interlock is not looked at.
TryEnterCleaning_NoOccupied(c, now) ==
  CASE c.bin_full -> EnterFault(c, "BIN_FULL", now)
    [] ~c.bin_full /\ c.protect_active -> BlockClean(c, now)
    [] OTHER -> EnterState(c, "CLEANING", now)

TryEnterCleaning(c, now) ==
  CASE c.occupied -> BlockClean(c, now)
    [] ~c.occupied /\ c.bin_full -> EnterFault(c, "BIN_FULL", now)
    [] ~c.occupied /\ ~c.bin_full /\ c.protect_active -> BlockClean(c, now)
    [] OTHER -> EnterState(c, "CLEANING", now)

StopForProtect(c, now) ==
  EnterState([c EXCEPT !.fault_code = "PROTECT_TRIGGER"], "SAFE_STOP", now)

RecoverFromSafeStop(c, now) ==
  IF c.bin_full THEN EnterFault(c, "BIN_FULL", now)
  ELSE RecoverTo(c, IF c.occupied THEN "OCCUPIED" ELSE "LEAVE_CONFIRM", now)

\* Mutant: a reset recovers like the end of a protect stop.
ResetRecover_Confirms(c, now) ==
  IF c.protect_active \/ c.bin_full THEN c
  ELSE RecoverTo(c, IF c.occupied THEN "OCCUPIED" ELSE "LEAVE_CONFIRM", now)

ResetRecover(c, now) ==
  IF c.protect_active \/ c.bin_full THEN c
  ELSE RecoverTo(c, IdleOrOccupied(c), now)

\* DELAY_TIMEOUT in LEAVE_CONFIRM.
LeaveConfirmed(c, now) ==
  CASE c.bin_full -> EnterFault(c, "BIN_FULL", now)
    [] ~c.bin_full /\ c.protect_active -> BlockClean(c, now)
    [] ~c.bin_full /\ ~c.protect_active /\ c.occupied -> EnterState(c, "OCCUPIED", now)
    [] OTHER -> EnterState(c, "CLEAN_DELAY", now)

-----------------------------------------------------------------------------
(* litter_fsm_dispatch: the inputs an event reports are recorded first, then *)
(* the event is offered to the current state.                                *)

NoteInput(c, e) ==
  [c EXCEPT !.occupied = (@ /\ e # "OCCUPIED_OFF") \/ e = "OCCUPIED_ON",
            !.bin_full = @ \/ e = "BIN_FULL",
            !.protect_active = (@ /\ e # "PROTECT_RELEASE") \/ e = "PROTECT_TRIGGER"]

InIdle(c, e, now) ==
  CASE e = "OCCUPIED_ON" -> EnterState(c, "OCCUPIED", now)
    [] e = "CLEAN_START" -> TryEnterCleaning(c, now)
    [] e = "BIN_FULL" -> EnterFault(c, "BIN_FULL", now)
    [] OTHER -> c

InOccupied(c, e, now) ==
  CASE e = "OCCUPIED_OFF" -> EnterState(c, "LEAVE_CONFIRM", now)
    [] e = "CLEAN_START" -> TryEnterCleaning(c, now)
    [] e = "BIN_FULL" -> EnterFault(c, "BIN_FULL", now)
    [] OTHER -> c

InLeaveConfirm(c, e, now) ==
  CASE e = "OCCUPIED_ON" -> EnterState(c, "OCCUPIED", now)
    [] e = "DELAY_TIMEOUT" -> LeaveConfirmed(c, now)
    [] e = "RESET" -> ResetRecover(c, now)
    [] e = "BIN_FULL" -> EnterFault(c, "BIN_FULL", now)
    [] OTHER -> c

\* Mutant: a cat coming back does not abort the delay.
InCleanDelay_NoAbort(c, e, now) ==
  CASE e \in {"DELAY_TIMEOUT", "CLEAN_START"} -> TryEnterCleaning(c, now)
    [] e = "RESET" -> ResetRecover(c, now)
    [] e = "BIN_FULL" -> EnterFault(c, "BIN_FULL", now)
    [] OTHER -> c

InCleanDelay(c, e, now) ==
  CASE e = "OCCUPIED_ON" -> EnterState(c, "OCCUPIED", now)
    [] e \in {"DELAY_TIMEOUT", "CLEAN_START"} -> TryEnterCleaning(c, now)
    [] e = "RESET" -> ResetRecover(c, now)
    [] e = "BIN_FULL" -> EnterFault(c, "BIN_FULL", now)
    [] OTHER -> c

\* Mutant: an arrival anywhere ends the phase.
PhaseEnds_AnyArrival(c, e) ==
  e \in {"POS1_REACHED", "POS2_REACHED", "POS3_REACHED"}

\* Each arrival ends the phase that was heading for it and no other phase.
PhaseEnds(c, e) ==
  \/ e = "POS2_REACHED" /\ c.clean_phase = "TO_POS2"
  \/ e = "POS3_REACHED" /\ c.clean_phase = "TO_POS3"
  \/ e = "POS1_REACHED" /\ c.clean_phase = "TO_POS1"

\* fsm_finish_cleaning stops the motor and dispatches CLEAN_DONE to itself.
FinishCleaning(c, now) == EnterState([c EXCEPT !.motor = "STOP"], "IDLE", now)

EndPhase(c, e, now) ==
  CASE e = "POS2_REACHED" -> StartCleanPhase(c, "TO_POS3", now)
    [] e = "POS3_REACHED" -> StartCleanPhase(c, "TO_POS1", now)
    [] OTHER -> FinishCleaning(c, now)

InCleaning(c, e, now) ==
  CASE e = "OCCUPIED_ON" -> StopForProtect(c, now)
    [] e = "BIN_FULL" -> EnterFault(c, "BIN_FULL", now)
    [] PhaseEnds(c, e) -> EndPhase(c, e, now)
    [] e \in {"CLEAN_DONE", "RESET"} -> EnterState(c, "IDLE", now)
    [] OTHER -> c

InSafeStop(c, e, now) ==
  CASE e = "PROTECT_RELEASE" -> RecoverFromSafeStop(c, now)
    [] e = "RESET" -> ResetRecover(c, now)
    [] OTHER -> c

\* Mutant: a full bin replaces the latched fault.
InFault_BinFullOverwrites(c, e, now) ==
  CASE e = "RESET" -> ResetRecover(c, now)
    [] e = "BIN_FULL" -> EnterFault(c, "BIN_FULL", now)
    [] OTHER -> c

InFault(c, e, now) == IF e = "RESET" THEN ResetRecover(c, now) ELSE c

Dispatch(c, e, now) ==
  LET d == NoteInput(c, e)
  IN CASE e = "PROTECT_TRIGGER" ->
            IF d.state = "CLEANING" THEN StopForProtect(d, now) ELSE d
       [] e = "STALL_OR_TIMEOUT" -> EnterFault(d, "CLEAN_TIMEOUT", now)
       [] e \notin {"PROTECT_TRIGGER", "STALL_OR_TIMEOUT"} ->
            CASE d.state = "IDLE" -> InIdle(d, e, now)
              [] d.state = "OCCUPIED" -> InOccupied(d, e, now)
              [] d.state = "LEAVE_CONFIRM" -> InLeaveConfirm(d, e, now)
              [] d.state = "CLEAN_DELAY" -> InCleanDelay(d, e, now)
              [] d.state = "CLEANING" -> InCleaning(d, e, now)
              [] d.state = "SAFE_STOP" -> InSafeStop(d, e, now)
              [] OTHER -> InFault(d, e, now)

-----------------------------------------------------------------------------
(* litter_fsm_tick: timeouts and automatic recovery, at most one per call. *)

\* A deadline of 0 means that none is armed.
DeadlineExpired(now, deadline) == deadline # 0 /\ TickReached(now, deadline)

\* Mutant: the phases are trusted to bound the run.
RunOverdue_Never(c, now) == FALSE

RunOverdue(c, now) == TickSub(now, c.clean_started_tick) >= CleanTotal

PhaseOverdue(c, now) ==
  /\ PhaseTimeout[c.clean_phase] > 0
  /\ TickSub(now, c.phase_started_tick) >= PhaseTimeout[c.clean_phase]

\* Mutant: a bin with room clears any fault.
FaultClears_Any(c) == c.state = "FAULT" /\ ~c.bin_full

FaultClears(c) == c.state = "FAULT" /\ c.fault_code = "BIN_FULL" /\ ~c.bin_full

FsmTick(c, now) ==
  CASE c.state = "CLEANING" /\ c.protect_active -> Dispatch(c, "PROTECT_TRIGGER", now)
    [] c.state = "SAFE_STOP" /\ ~c.protect_active -> Dispatch(c, "PROTECT_RELEASE", now)
    [] FaultClears(c) -> RecoverTo(c, IdleOrOccupied(c), now)
    [] c.state \in {"LEAVE_CONFIRM", "CLEAN_DELAY"}
         /\ DeadlineExpired(now, c.deadline_tick) -> Dispatch(c, "DELAY_TIMEOUT", now)
    [] c.state = "CLEANING" /\ ~c.protect_active
         /\ (RunOverdue(c, now) \/ PhaseOverdue(c, now)) ->
         Dispatch(c, "STALL_OR_TIMEOUT", now)
    [] OTHER -> c
=============================================================================
