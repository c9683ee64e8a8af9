----------------------------- MODULE FsmProofs -----------------------------
(***************************************************************************)
(* Theorems about FsmMachine, for every clock and every choice of windows  *)
(* and budgets.                                                            *)
(***************************************************************************)
EXTENDS FsmMachine, FsmLemmas

-----------------------------------------------------------------------------
(* The invariant. *)

IInv == Sound(ctx) /\ now \in Tick

\* The context litter_fsm_init sets up is sound.
LEMMA InitSound == Init => IInv
<1> SUFFICES ASSUME Init PROVE IInv
  OBVIOUS
<1>1. 0 \in Tick
  BY TickModAssumption DEF Tick
<1> QED
  BY <1>1 DEF Init, FsmInit, IInv, Sound, FsmCtx, FsmState, CleanPhase, FaultCode, Motor,
     PhaseMotor

\* Every step of the machine is one step of the cycle, and keeps the invariant.
LEMMA NextSound ==
  ASSUME IInv, [Next]_vars
  PROVE  IInv' /\ CycleStep(ctx, ctx')
<1>1. ctx \in FsmCtx /\ now \in Tick /\ Sound(ctx)
  BY DEF IInv, Sound
<1>2. ASSUME NEW occupied \in BOOLEAN, NEW bin_full \in BOOLEAN, NEW protect \in BOOLEAN,
             Sync(occupied, bin_full, protect)
      PROVE  IInv' /\ CycleStep(ctx, ctx')
  BY <1>1, <1>2 DEF Sync, SyncInputs, IInv, Sound, FsmCtx, CycleStep
<1>3. ASSUME NEW e \in FsmEvent, Post(e)
      PROVE  IInv' /\ CycleStep(ctx, ctx')
  BY <1>1, <1>3, DispatchSound DEF Post, IInv
<1>4. CASE Poll
  BY <1>1, <1>4, FsmTickSound DEF Poll, IInv
<1>5. CASE Clock
  BY <1>1, <1>5, TickAddType DEF Clock, IInv, CycleStep
<1>6. CASE UNCHANGED vars
  BY <1>1, <1>6 DEF vars, IInv, CycleStep
<1> QED BY <1>2, <1>3, <1>4, <1>5, <1>6 DEF Next

\* The context stays sound, whatever calls a client makes and in what order.
THEOREM FsmInvariant == Spec => []IInv
BY InitSound, NextSound, PTL DEF Spec

\* The context keeps its type whatever the client does, on a clock of any size.
THEOREM FsmTypeCorrect == Spec => []TypeOK
<1>1. IInv => TypeOK
  BY DEF IInv, Sound, TypeOK
<1> QED BY <1>1, FsmInvariant, PTL

\* The motor is driven in a cleaning run only, in the direction of its phase.
THEOREM FsmMotorFollowsPhase == Spec => []MotorFollowsPhase
<1>1. IInv => MotorFollowsPhase
  BY DEF IInv, Sound, MotorFollowsPhase
<1> QED BY <1>1, FsmInvariant, PTL

\* SAFE_STOP and FAULT name their reason, and no other state keeps one.
THEOREM FsmFaultCode == Spec => []FaultCodeFollowsState
<1>1. IInv => FaultCodeFollowsState
  BY DEF IInv, Sound, FaultCodeFollowsState
<1> QED BY <1>1, FsmInvariant, PTL

-----------------------------------------------------------------------------
(* A timeout is latched. *)

\* Nothing but a RESET with the inputs clear ends or renames a timeout.
THEOREM FsmTimeoutLatched == Spec => TimeoutLatched
<1>1. ASSUME IInv, [Next]_vars, TimedOut
      PROVE  TimedOut' \/ (Post("RESET") /\ ~ctx.protect_active /\ ~ctx.bin_full)
            \/ UNCHANGED vars
  <2>1. ctx \in FsmCtx /\ now \in Tick /\ Sound(ctx)
    BY <1>1 DEF IInv, Sound
  <2>2. ctx.state = "FAULT" /\ ctx.fault_code = "CLEAN_TIMEOUT"
    BY <1>1 DEF TimedOut
  <2>3. ASSUME NEW occupied \in BOOLEAN, NEW bin_full \in BOOLEAN, NEW protect \in BOOLEAN,
               Sync(occupied, bin_full, protect)
        PROVE  TimedOut'
    BY <2>1, <2>2, <2>3 DEF Sync, SyncInputs, TimedOut, FsmCtx
  <2>4. ASSUME NEW e \in FsmEvent, Post(e)
        PROVE  TimedOut' \/ (Post("RESET") /\ ~ctx.protect_active /\ ~ctx.bin_full)
    BY <2>1, <2>2, <2>4, DispatchKeepsTimeout DEF Post, TimedOut
  <2>5. CASE Poll
    <3>1. FsmTick(ctx, now) = ctx
      BY <2>2 DEF FsmTick, FaultClears
    <3> QED BY <2>2, <2>5, <3>1 DEF Poll, TimedOut
  <2>6. CASE Clock
    BY <2>2, <2>6 DEF Clock, TimedOut
  <2> QED BY <1>1, <2>3, <2>4, <2>5, <2>6 DEF Next
<1>2. IInv /\ [Next]_vars =>
        [TimedOut => TimedOut' \/ (Post("RESET") /\ ~ctx.protect_active /\ ~ctx.bin_full)]_vars
  BY <1>1
<1> QED BY <1>2, FsmInvariant, PTL DEF Spec, TimeoutLatched

-----------------------------------------------------------------------------
(* The machine implements the cleaning cycle. *)

\* A sound context is a position of the abstract cycle with its drive.
LEMMA SoundCycle ==
  ASSUME NEW c, Sound(c)
  PROVE  LegOf[c.clean_phase] \in 0 .. 3 /\ c.motor = Cycle!DriveOf(LegOf[c.clean_phase])
<1>1. c.clean_phase \in CleanPhase /\ c.motor = PhaseMotor[c.clean_phase]
  BY DEF Sound, FsmCtx
<1> QED BY <1>1 DEF CleanPhase, PhaseMotor, LegOf, Cycle!DriveOf

\* A run begins with clear inputs, takes its legs in order, and ends at rest.
THEOREM FsmImplementsCycle == Spec => ImplementsCycle
<1>1. Init => Cycle!Init
  BY DEF Init, FsmInit, Cycle!Init, LegOf
<1>2. ASSUME IInv, [Next]_vars
      PROVE  [Cycle!Next]_(Cycle!cycleVars)
  <2>1. Sound(ctx) /\ Sound(ctx') /\ CycleStep(ctx, ctx')
    BY <1>2, NextSound DEF IInv
  <2> DEFINE leg == LegOf[ctx.clean_phase]
             goal == LegOf[ctx'.clean_phase]
  <2>2. /\ ctx.motor = Cycle!DriveOf(leg) /\ ctx'.motor = Cycle!DriveOf(goal)
        /\ ctx.clean_phase \in CleanPhase /\ ctx'.clean_phase \in CleanPhase
        /\ Clear(ctx) \in BOOLEAN /\ Clear(ctx') \in BOOLEAN
    BY <2>1, SoundCycle DEF Sound, FsmCtx, Clear
  <2>3. CASE ctx'.clean_phase = ctx.clean_phase
    BY <2>2, <2>3 DEF Cycle!Next, Cycle!InputsChange, Clear
  <2>4. CASE ctx'.clean_phase = "NONE" /\ ctx.clean_phase # "NONE"
    BY <2>2, <2>4 DEF Cycle!Next, Cycle!Abort, Cycle!GoTo, Clear, LegOf, CleanPhase
  <2>5. CASE /\ ctx.clean_phase = "NONE" /\ ctx'.clean_phase = "TO_POS2"
             /\ Clear(ctx) /\ Clear(ctx')
    BY <2>2, <2>5 DEF Cycle!Next, Cycle!Start, Cycle!GoTo, Clear, LegOf
  <2>6. CASE SameInputs(ctx, ctx') /\ \/ ctx.clean_phase = "TO_POS2" /\ ctx'.clean_phase = "TO_POS3"
                                      \/ ctx.clean_phase = "TO_POS3" /\ ctx'.clean_phase = "TO_POS1"
    BY <2>2, <2>6 DEF Cycle!Next, Cycle!Proceed, Cycle!GoTo, SameInputs, LegOf
  <2> QED BY <2>1, <2>3, <2>4, <2>5, <2>6 DEF CycleStep
<1> QED BY <1>1, <1>2, FsmInvariant, PTL DEF Spec, ImplementsCycle, Cycle!Spec
=============================================================================
