----------------------------- MODULE LitterLogic -----------------------------
(***************************************************************************)
(* The control loop of logic.c around the state machine: the globals       *)
(* g_fsm_ctx, g_hall_state, g_prev_*, g_*_request and box_used, one action *)
(* per iteration of the control thread and one per request another thread  *)
(* queues.  The control thread has a higher priority than the threads that *)
(* queue requests (14 against 16 for MQTT and 20 for finsh) and never      *)
(* blocks inside Sensor_Logic_Running, so an iteration is one step.  The   *)
(* infrared sensor, the weight and the debounced hall position take any    *)
(* value in each iteration; LitterHall models the debounce itself.         *)
(***************************************************************************)
EXTENDS LitterFsm

HallPosition == {"UNKNOWN", "TRANSITION", "POS1_HOME", "POS2_DUMP",
                 "POS3_SAND_RETURN", "INVALID"}

CONSTANTS LoopTicks,    \* ticks that may pass between two iterations
          HallReading,  \* the stable positions a poll may come to
          UseMod        \* bound: box_used is counted modulo UseMod

ASSUME LoopAssumption ==
  /\ HallReading \subseteq HallPosition \ {"UNKNOWN"}
  /\ LoopTicks \subseteq Nat \ {0}
  /\ \A d \in LoopTicks : CleanTotal + d <= TickMod
  /\ UseMod \in Nat \ {0}

VARIABLES ctx,                    \* g_fsm_ctx
          now,                    \* rt_tick_get() in the last iteration
          stable_position,        \* g_hall_state.stable_position
          last_reported_phase,    \* g_hall_state.last_reported_phase
          last_reported_position, \* g_hall_state.last_reported_position
          prev_occupied,          \* g_prev_occupied
          prev_bin_full,          \* g_prev_bin_full
          remote_clean_request,   \* g_remote_clean_request
          reset_request,          \* g_reset_request
          box_used

hall == <<stable_position, last_reported_phase, last_reported_position>>
requests == <<remote_clean_request, reset_request>>
vars == <<ctx, now, hall, prev_occupied, prev_bin_full, requests, box_used>>

TargetPosition == [NONE |-> "UNKNOWN", TO_POS2 |-> "POS2_DUMP",
                   TO_POS3 |-> "POS3_SAND_RETURN", TO_POS1 |-> "POS1_HOME"]

ArrivalAt(position) ==
  CASE position = "POS1_HOME" -> "POS1_REACHED"
    [] position = "POS2_DUMP" -> "POS2_REACHED"
    [] position = "POS3_SAND_RETURN" -> "POS3_REACHED"
    [] OTHER -> "NONE"

-----------------------------------------------------------------------------
(* Sensor_Logic_Init, before any of the threads is started. *)

Boot(occupied, bin_full, t) ==
  LET c == SyncInputs(FsmInit, occupied, bin_full, FALSE)
      d == IF occupied THEN Dispatch(c, "OCCUPIED_ON", t) ELSE c
  IN IF bin_full THEN Dispatch(d, "BIN_FULL", t) ELSE d

Init ==
  /\ now \in Tick
  /\ prev_occupied \in BOOLEAN /\ prev_bin_full \in BOOLEAN
  /\ ctx = Boot(prev_occupied, prev_bin_full, now)
  /\ stable_position = "UNKNOWN"
  /\ last_reported_phase = "NONE" /\ last_reported_position = "UNKNOWN"
  /\ remote_clean_request = FALSE /\ reset_request = FALSE
  /\ box_used = 0

-----------------------------------------------------------------------------
(* Sensor_Logic_Running, stage by stage: each operator takes the context    *)
(* the stage before it leaves behind.                                       *)

\* logic_is_protect_active
ProtectActive(occupied, state) == occupied /\ state \in {"CLEANING", "SAFE_STOP"}

ReadInputs(c, occupied, bin_full) ==
  SyncInputs(c, occupied, bin_full, ProtectActive(occupied, c.state))

\* Mutant: a full bin is looked for in CLEANING only.
BinFullEdge_CleaningOnly(c, bin_full, t) ==
  IF bin_full /\ ~prev_bin_full /\ c.state = "CLEANING"
  THEN Dispatch(c, "BIN_FULL", t) ELSE c

BinFullEdge(c, bin_full, t) ==
  IF bin_full /\ ~prev_bin_full THEN Dispatch(c, "BIN_FULL", t) ELSE c

OccupancyEvent(c, occupied) ==
  CASE occupied /\ c.state = "CLEANING" -> "PROTECT_TRIGGER"
    [] occupied /\ c.state # "CLEANING" -> "OCCUPIED_ON"
    [] OTHER -> "OCCUPIED_OFF"

OccupancyEdge(c, occupied, t) ==
  IF c.state # "FAULT" /\ occupied # prev_occupied
  THEN Dispatch(c, OccupancyEvent(c, occupied), t) ELSE c

\* current_state is read once, before the occupancy edge: it decides whether
\* the clean request is taken at all, and whether a visit is counted.
TakesCleanRequest(c) == c.state # "FAULT" /\ remote_clean_request

ServeClean(c, take, t) == IF take THEN Dispatch(c, "CLEAN_START", t) ELSE c

\* Mutant: every way into OCCUPIED counts as a visit.
VisitStarts_AnyArrival(c, occupied) == c.state # "FAULT" /\ occupied /\ ~prev_occupied

VisitStarts(c, occupied) == c.state = "IDLE" /\ occupied /\ ~prev_occupied

ServeReset(c, t) == IF reset_request THEN Dispatch(c, "RESET", t) ELSE c

\* Mutant: one cleaning run remembers what another has consumed.
ReportedPhase_NeverForgotten(c, reports) ==
  IF reports THEN c.clean_phase ELSE last_reported_phase

\* The phase whose arrival was last handed on; forgotten outside CLEANING.
ReportedPhase(c, reports) ==
  IF c.state # "CLEANING" THEN "NONE"
  ELSE IF reports THEN c.clean_phase ELSE last_reported_phase

\* logic_dispatch_hall_event_if_needed hands the arrival on.
HallReports(c, position, bin_full, protect) ==
  /\ c.state = "CLEANING"
  /\ ~bin_full /\ ~protect
  /\ TargetPosition[c.clean_phase] # "UNKNOWN"
  /\ position = TargetPosition[c.clean_phase]
  /\ ~(last_reported_phase = c.clean_phase /\ last_reported_position = position)

ServeHall(c, reports, position, t) ==
  IF reports THEN Dispatch(c, ArrivalAt(position), t) ELSE c

Running(occupied, bin_full, position, t) ==
  LET protect == ProtectActive(occupied, ctx.state)
      edges == BinFullEdge(ReadInputs(ctx, occupied, bin_full), bin_full, t)
      takes == TakesCleanRequest(edges)
      asked == ServeClean(OccupancyEdge(edges, occupied, t), takes, t)
      served == ServeReset(asked, t)
      reports == HallReports(served, position, bin_full, protect)
  IN /\ now' = t
     /\ ctx' = FsmTick(ServeHall(served, reports, position, t), t)
     /\ stable_position' = position
     /\ last_reported_phase' = ReportedPhase(served, reports)
     /\ last_reported_position' = IF reports THEN position ELSE last_reported_position
     /\ remote_clean_request' = (remote_clean_request /\ ~takes)
     /\ reset_request' = FALSE
     /\ box_used' = IF VisitStarts(edges, occupied) THEN (box_used + 1) % UseMod
                    ELSE box_used
     /\ prev_occupied' = occupied
     /\ prev_bin_full' = bin_full

\* One turn of the control loop, LoopTicks after the one before.
Iterate ==
  \E occupied, bin_full \in BOOLEAN, position \in HallReading \cup {stable_position},
     d \in LoopTicks : Running(occupied, bin_full, position, TickAdd(now, d))

\* Sensor_Logic_RequestClean, from the MQTT thread or the shell.
RequestClean ==
  /\ remote_clean_request' = TRUE
  /\ UNCHANGED <<ctx, now, hall, prev_occupied, prev_bin_full, reset_request, box_used>>

\* Sensor_Logic_RequestReset, from the shell.
RequestReset ==
  /\ reset_request' = TRUE
  /\ UNCHANGED <<ctx, now, hall, prev_occupied, prev_bin_full, remote_clean_request,
                 box_used>>

Next == Iterate \/ RequestClean \/ RequestReset

Spec == Init /\ [][Next]_vars

\* A run of the drum begins.
RunBegins == ctx.state # "CLEANING" /\ ctx'.state = "CLEANING"

\* The control thread waits for its semaphore with a timeout, so its loop turns
\* whatever the other threads do.  Turn is what only an Iterate step does.
Turn == \E d \in LoopTicks : now' = TickAdd(now, d)

FairSpec == Spec /\ WF_now(Turn)
=============================================================================
