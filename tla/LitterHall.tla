----------------------------- MODULE LitterHall -----------------------------
(***************************************************************************)
(* The hall position of logic.c: three active-low pins read once per       *)
(* sample period, decoded one-hot and debounced against the system tick.   *)
(* Every iteration of the control loop polls it; LitterLogic sees no more  *)
(* of it than the stable position a poll returns.                          *)
(***************************************************************************)
EXTENDS TickClock

CONSTANTS SamplePeriod,  \* g_hall_cfg.sample_period_ms
          Debounce,      \* g_hall_cfg.debounce_ms
          PollTicks      \* ticks that may pass between two polls

ASSUME HallAssumption ==
  /\ SamplePeriod \in Nat \ {0} /\ Debounce \in Nat \ {0}
  /\ PollTicks \subseteq Nat \ {0}
  /\ \A d \in PollTicks : 2 * (SamplePeriod + Debounce + 2 * d) < TickMod

VARIABLES now,
          last_sample_tick, candidate_position, candidate_started_tick,
          stable_position,
          held      \* history: ticks the samples have agreed, up to Debounce

vars == <<now, last_sample_tick, candidate_position, candidate_started_tick,
          stable_position, held>>

Magnet == {"POS1_HOME", "POS2_DUMP", "POS3_SAND_RETURN"}
Decoded == Magnet \cup {"TRANSITION", "INVALID"}

\* logic_hall_decode_position: active is the set of magnets whose pin is low.
DecodePosition(active) ==
  CASE active = {} -> "TRANSITION"
    [] \E p \in Magnet : active = {p} -> CHOOSE p \in Magnet : active = {p}
    [] OTHER -> "INVALID"

\* (rt_int32_t)(t - u)
TickSigned(t, u) == IF TickReached(t, u) THEN TickSub(t, u) ELSE TickSub(t, u) - TickMod

\* Mutant: a tick short of the period will do.
SampleDue_Early(t) ==
  last_sample_tick = 0 \/ TickSigned(t, last_sample_tick) >= SamplePeriod - 1

\* A last_sample_tick of 0 reads as "never sampled".
SampleDue(t) == last_sample_tick = 0 \/ TickSigned(t, last_sample_tick) >= SamplePeriod

\* Mutant: raw tick values are compared.
HeldLongEnough_Raw(t) == t >= candidate_started_tick + Debounce

HeldLongEnough(t) == TickSigned(t, candidate_started_tick) >= Debounce

\* logic_hall_init
Init ==
  /\ now \in Tick
  /\ last_sample_tick = 0 /\ candidate_started_tick = 0
  /\ candidate_position = "UNKNOWN" /\ stable_position = "UNKNOWN"
  /\ held = 0

HeldAfter(t) ==
  IF held + TickSub(t, last_sample_tick) > Debounce THEN Debounce
  ELSE held + TickSub(t, last_sample_tick)

\* logic_hall_poll inside the sample period
PollEarly(t) ==
  /\ ~SampleDue(t)
  /\ UNCHANGED <<last_sample_tick, candidate_position, candidate_started_tick,
                 stable_position, held>>

\* a sample that differs from the candidate makes a new one
NewCandidate(t, raw) ==
  /\ SampleDue(t) /\ candidate_position # raw
  /\ last_sample_tick' = t
  /\ candidate_position' = raw /\ candidate_started_tick' = t
  /\ UNCHANGED stable_position
  /\ held' = 0

\* Mutant: every sample restarts the debounce time.
SameCandidate_Restarts(t, raw) ==
  /\ SampleDue(t) /\ candidate_position = raw
  /\ last_sample_tick' = t /\ candidate_started_tick' = t
  /\ stable_position' = IF stable_position # raw /\ HeldLongEnough(t)
                        THEN raw ELSE stable_position
  /\ UNCHANGED candidate_position
  /\ held' = HeldAfter(t)

\* a sample that agrees makes the candidate stable once it is old enough
SameCandidate(t, raw) ==
  /\ SampleDue(t) /\ candidate_position = raw
  /\ last_sample_tick' = t
  /\ stable_position' = IF stable_position # raw /\ HeldLongEnough(t)
                        THEN raw ELSE stable_position
  /\ UNCHANGED <<candidate_position, candidate_started_tick>>
  /\ held' = HeldAfter(t)

\* logic_hall_poll
HallPoll(t, active) ==
  /\ now' = t
  /\ \/ PollEarly(t)
     \/ NewCandidate(t, DecodePosition(active))
     \/ SameCandidate(t, DecodePosition(active))

Next == \E d \in PollTicks, active \in SUBSET Magnet : HallPoll(TickAdd(now, d), active)

Turn == \E d \in PollTicks : now' = TickAdd(now, d)

\* Every iteration of the control loop polls, and the loop never stops turning.
Spec == Init /\ [][Next]_vars /\ WF_now(Turn)

-----------------------------------------------------------------------------
HallTypeOK ==
  /\ now \in Tick /\ last_sample_tick \in Tick /\ candidate_started_tick \in Tick
  /\ candidate_position \in Decoded \cup {"UNKNOWN"}
  /\ stable_position \in Decoded \cup {"UNKNOWN"}
  /\ held \in 0 .. Debounce

\* The samples are as far apart as they should be, wherever the tick wraps: a
\* poll samples if the period has passed since the last sample, and only then.
\* The exception is the poll after a sample taken at tick 0, which reads as none.
SampledInTime ==
  [][last_sample_tick # 0 =>
       (last_sample_tick' # last_sample_tick
          <=> TickSub(now', last_sample_tick) >= SamplePeriod)]_vars

Abstract == INSTANCE HallDebounce
              WITH Hold <- Debounce, Position <- Decoded, Unknown <- "UNKNOWN",
                   seen <- candidate_position, stable <- stable_position

\* On a tick that wraps, the sampler implements debouncing in unbounded time: a
\* position becomes stable when, and only when, samples over the whole debounce
\* time have agreed on it.
ImplementsDebounce == Abstract!Spec

\* A drum that comes to rest is noticed: if from some time on every sample
\* reads the same position, that position becomes and stays the stable one.
Settles ==
  \A p \in Decoded :
    <>[](candidate_position = p) => <>[](stable_position = p)
=============================================================================
