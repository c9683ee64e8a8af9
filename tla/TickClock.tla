----------------------------- MODULE TickClock -----------------------------
(***************************************************************************)
(* The system tick the control code measures time with.  rt_tick_t is an   *)
(* unsigned 32-bit counter that wraps; every comparison in fsm.c and       *)
(* logic.c is a subtraction modulo 2^32, read back as unsigned or, after a *)
(* cast to rt_int32_t, as signed.  TickMod stands for 2^32.  The firmware  *)
(* runs at RT_TICK_PER_SECOND = 1000, so a duration in milliseconds and in *)
(* ticks is the same number.                                               *)
(***************************************************************************)
EXTENDS Integers

CONSTANT TickMod   \* number of tick values: 2^32 in the firmware

ASSUME TickModAssumption == TickMod \in Nat \ {0}

Tick == 0 .. TickMod - 1

\* Mutant: a sum that is not reduced to the width of rt_tick_t.
TickAdd_NoWrap(t, d) == t + d

\* Mutant: a difference that goes below 0 once t has wrapped.
TickSub_NoWrap(t, u) == t - u

\* Adding a duration to a tick, and the unsigned distance from u to t.
TickAdd(t, d) == (t + d) % TickMod
TickSub(t, u) == (t - u) % TickMod

\* Mutant: the raw values are compared, and strictly.
TickReached_Raw(t, u) == t > u

\* (rt_int32_t)(t - u) >= 0: the sign bit of the difference is clear.
TickReached(t, u) == 2 * TickSub(t, u) < TickMod
=============================================================================
