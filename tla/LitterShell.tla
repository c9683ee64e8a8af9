---------------------------- MODULE LitterShell ----------------------------
(***************************************************************************)
(* The shell command litter_timeout against the control loop.  The command *)
(* runs in the finsh thread, the lowest priority of all, takes no lock and *)
(* drives the same g_fsm_ctx: it reads the state, prints, and then goes    *)
(* through litter_fsm_dispatch, fsm_enter_fault and fsm_enter_state store  *)
(* by store.  The control thread preempts it between any two of them for   *)
(* whole iterations.                                                       *)
(***************************************************************************)
EXTENDS LogicProps

VARIABLE shell   \* where the finsh thread is inside litter_timeout

shellVars == <<vars, shell>>

ShellStep == {"idle", "called", "coded", "entering", "writing", "disarming",
              "clearing", "stopping"}

InitS == Init /\ shell = "idle"

CtxOnly == UNCHANGED <<now, hall, prev_occupied, prev_bin_full, requests, box_used>>

\* the check at the top of the command; out of CLEANING it returns at once
Call ==
  /\ shell = "idle" /\ ctx.state = "CLEANING"
  /\ shell' = "called"
  /\ UNCHANGED vars

\* fsm_enter_fault: ctx->fault_code = fault_code
WriteCode ==
  /\ shell = "called"
  /\ shell' = "coded"
  /\ ctx' = [ctx EXCEPT !.fault_code = "CLEAN_TIMEOUT"]
  /\ CtxOnly

\* fsm_enter_fault: is the machine in FAULT already?
TestFault ==
  /\ shell = "coded"
  /\ shell' = IF ctx.state = "FAULT" THEN "stopping" ELSE "entering"
  /\ UNCHANGED vars

\* fsm_enter_state: ctx->state == next_state returns
TestState ==
  /\ shell = "entering"
  /\ shell' = IF ctx.state = "FAULT" THEN "idle" ELSE "writing"
  /\ UNCHANGED vars

\* fsm_enter_state: ctx->state = next_state
WriteState ==
  /\ shell = "writing"
  /\ shell' = "disarming"
  /\ ctx' = [ctx EXCEPT !.state = "FAULT"]
  /\ CtxOnly

\* fsm_enter_state: ctx->deadline_tick = 0
ClearDeadline ==
  /\ shell = "disarming"
  /\ shell' = "clearing"
  /\ ctx' = [ctx EXCEPT !.deadline_tick = 0]
  /\ CtxOnly

\* Mutant: the FAULT case leaves the motor to somebody else.
ClearPhase_NoStop ==
  /\ shell = "clearing"
  /\ shell' = "idle"
  /\ ctx' = [ctx EXCEPT !.clean_phase = "NONE"]
  /\ CtxOnly

\* fsm_enter_state, case FSM_STATE_FAULT: ctx->clean_phase = FSM_CLEAN_PHASE_NONE
ClearPhase ==
  /\ shell = "clearing"
  /\ shell' = "stopping"
  /\ ctx' = [ctx EXCEPT !.clean_phase = "NONE"]
  /\ CtxOnly

\* fsm_motor_stop, on either way through fsm_enter_fault
StopMotor ==
  /\ shell = "stopping"
  /\ shell' = "idle"
  /\ ctx' = [ctx EXCEPT !.motor = "STOP"]
  /\ CtxOnly

Inject ==
  \/ WriteCode \/ TestFault \/ TestState \/ WriteState \/ ClearDeadline \/ ClearPhase
  \/ StopMotor

\* The control thread and the MQTT thread go on meanwhile; litter_reset is a
\* command of the thread that is busy.
NextS ==
  \/ (Iterate \/ RequestClean) /\ UNCHANGED shell
  \/ RequestReset /\ shell = "idle" /\ UNCHANGED shell
  \/ Call
  \/ Inject

\* The control thread sleeps between iterations, so the shell gets its turns
\* as well.
SpecS == InitS /\ [][NextS]_shellVars /\ WF_now(Turn) /\ WF_shell(Inject)

-----------------------------------------------------------------------------
\* However its stores interleave with the control loop, once the command has
\* returned the motor is as safe as without it.
MotorSafeAtRest == shell = "idle" => MotorSafe

\* The motor is never left on outside a run: while FAULT is half entered it may
\* still turn, but it comes to rest.
MotorComesToRest == (ctx.motor # "STOP" /\ ctx.state # "CLEANING") ~> ctx.motor = "STOP"

\* Every run ends even if the command has wiped the phase of a run that began
\* after the one it meant: the budget of the whole run does not need the phase.
CleaningEndsAnyway == ctx.state = "CLEANING" ~> ctx.state # "CLEANING"

\* The command brings FAULT about only out of CLEANING.
InjectsOnlyWhileCleaning ==
  [][shell = "writing" /\ shell' = "disarming" => ctx.state = "CLEANING"]_shellVars
=============================================================================
