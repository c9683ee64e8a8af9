----------------------------- MODULE FsmMachine -----------------------------
(***************************************************************************)
(* The state machine of fsm.c driven by an arbitrary client: any of its    *)
(* four entry points in any order with any argument, at any time.  What is *)
(* checked here holds however logic.c calls it.                            *)
(***************************************************************************)
EXTENDS LitterFsm

VARIABLES ctx,   \* the context record g_fsm_ctx
          now    \* rt_tick_get()

vars == <<ctx, now>>

Init == ctx = FsmInit /\ now \in Tick

\* litter_fsm_sync_inputs
Sync(occupied, bin_full, protect) ==
  /\ ctx' = SyncInputs(ctx, occupied, bin_full, protect)
  /\ UNCHANGED now

\* litter_fsm_dispatch
Post(e) == ctx' = Dispatch(ctx, e, now) /\ UNCHANGED now

\* litter_fsm_tick
Poll == ctx' = FsmTick(ctx, now) /\ UNCHANGED now

Clock == now' = TickAdd(now, 1) /\ UNCHANGED ctx

Next ==
  \/ \E occupied, bin_full, protect \in BOOLEAN : Sync(occupied, bin_full, protect)
  \/ \E e \in FsmEvent : Post(e)
  \/ Poll
  \/ Clock

Spec == Init /\ [][Next]_vars

-----------------------------------------------------------------------------
TypeOK == ctx \in FsmCtx /\ now \in Tick

\* The H-bridge is driven exactly during a cleaning run and in the direction of
\* its phase: every way out of CLEANING (done, reset, protect, full bin,
\* timeout) stops the motor, and no way in leaves a direction behind.
MotorFollowsPhase ==
  /\ ctx.motor = PhaseMotor[ctx.clean_phase]
  /\ ctx.clean_phase # "NONE" <=> ctx.state = "CLEANING"

\* A fault code is reported exactly while the machine is in SAFE_STOP or FAULT,
\* and it names the reason that state can be entered for; the code is written
\* before the state is entered and cleared before it is left.
FaultCodeFollowsState ==
  CASE ctx.state = "FAULT" -> ctx.fault_code \in {"BIN_FULL", "CLEAN_TIMEOUT"}
    [] ctx.state = "SAFE_STOP" -> ctx.fault_code = "PROTECT_TRIGGER"
    [] OTHER -> ctx.fault_code = "NONE"

TimedOut == ctx.state = "FAULT" /\ ctx.fault_code = "CLEAN_TIMEOUT"

\* A cleaning timeout is latched: no input, event or poll clears or renames it,
\* only a RESET posted while the inputs allow a recovery.
TimeoutLatched ==
  [][TimedOut =>
       TimedOut' \/ (Post("RESET") /\ ~ctx.protect_active /\ ~ctx.bin_full)]_vars

-----------------------------------------------------------------------------
LegOf == [NONE |-> 0, TO_POS2 |-> 1, TO_POS3 |-> 2, TO_POS1 |-> 3]

Cycle == INSTANCE CleanCycle
           WITH leg <- LegOf[ctx.clean_phase],
                drive <- ctx.motor,
                clear <- ~ctx.occupied /\ ~ctx.bin_full /\ ~ctx.protect_active

\* The state machine implements the cleaning cycle: a run starts with clear
\* inputs only, takes its legs in order, and a break ends it with the drive off.
ImplementsCycle == Cycle!Spec
=============================================================================
