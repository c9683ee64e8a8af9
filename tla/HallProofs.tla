----------------------------- MODULE HallProofs -----------------------------
(***************************************************************************)
(* Theorems about the hall sampler, for every clock, sample period,        *)
(* debounce time and distance of the polls that the assumptions allow.     *)
(* They rest on what a sum and a difference modulo the width of the tick   *)
(* come to while the distances stay below it.                              *)
(***************************************************************************)
EXTENDS LitterHall, TLAPS

\* After a poll the last sample is younger than the period: no poll that was due
\* has been left out.
SampleRecent == last_sample_tick # 0 => TickSub(now, last_sample_tick) < SamplePeriod

HInv == HallTypeOK /\ SampleRecent

\* Reduction modulo the width of the tick, one width below and one above it.
LEMMA TickMods ==
  ASSUME NEW a \in Int, 0 - TickMod <= a, a < 2 * TickMod
  PROVE  a % TickMod = IF a < 0 THEN a + TickMod ELSE IF a < TickMod THEN a ELSE a - TickMod
BY TickModAssumption

\* As long as the distance from u stays below the width, d ticks add d to it,
\* wherever the tick wraps.
LEMMA TickSubLater ==
  ASSUME NEW t \in Tick, NEW u \in Tick, NEW d \in Nat, TickSub(t, u) + d < TickMod
  PROVE  TickSub(TickAdd(t, d), u) = TickSub(t, u) + d
<1>1. TickMod \in Nat \ {0} /\ t \in 0 .. TickMod - 1 /\ u \in 0 .. TickMod - 1
  BY TickModAssumption DEF Tick
<1>2. TickSub(t, u) = IF t < u THEN t - u + TickMod ELSE t - u
  BY <1>1, TickMods DEF TickSub
<1>3. TickAdd(t, d) = IF t + d < TickMod THEN t + d ELSE t + d - TickMod
  BY <1>1, <1>2, TickMods DEF TickAdd
<1> DEFINE s == TickAdd(t, d)
<1>4. s \in 0 .. TickMod - 1
  BY <1>1, <1>2, <1>3
<1> HIDE DEF s
<1>5. (s - u) % TickMod = IF s < u THEN s - u + TickMod ELSE s - u
  <2> DEFINE a == s - u
  <2>1. a \in Int /\ 0 - TickMod <= a /\ a < TickMod
    BY <1>1, <1>4
  <2>2. a < 0 <=> s < u
    BY <1>1, <1>4
  <2> HIDE DEF a
  <2>3. a % TickMod = IF a < 0 THEN a + TickMod ELSE IF a < TickMod THEN a ELSE a - TickMod
    BY <1>1, <2>1, TickMods
  <2>4. a % TickMod = IF s < u THEN a + TickMod ELSE a
    BY <2>1, <2>2, <2>3
  <2> QED BY <2>4 DEF a
<1>6. TickSub(s, u) = IF s < u THEN s - u + TickMod ELSE s - u
  BY <1>5 DEF TickSub
<1> QED BY <1>1, <1>2, <1>3, <1>6 DEF s

\* Sums and differences of ticks are ticks.
LEMMA TickTypes ==
  ASSUME NEW t \in Tick, NEW u \in Tick, NEW d \in Nat
  PROVE  TickAdd(t, d) \in Tick /\ TickSub(t, u) \in Tick /\ TickSub(t, t) = 0
BY TickModAssumption DEF Tick, TickAdd, TickSub

\* logic_hall_init has seen no sample.
LEMMA InitHall == Init => HInv
BY TickModAssumption, HallAssumption DEF Init, HInv, HallTypeOK, SampleRecent, Tick

\* What logic_hall_decode_position returns.
LEMMA DecodeType ==
  ASSUME NEW active \in SUBSET Magnet
  PROVE  DecodePosition(active) \in Decoded
<1>1. CASE \E p \in Magnet : active = {p}
  BY <1>1 DEF DecodePosition, Decoded
<1>2. CASE ~\E p \in Magnet : active = {p}
  BY <1>2 DEF DecodePosition, Decoded
<1> QED BY <1>1, <1>2

\* A poll keeps the invariant.
LEMMA PollHall ==
  ASSUME HInv, NEW d \in PollTicks, NEW active \in SUBSET Magnet,
         HallPoll(TickAdd(now, d), active)
  PROVE  HInv'
<1> DEFINE t == TickAdd(now, d)
           raw == DecodePosition(active)
<1>1. /\ now \in Tick /\ last_sample_tick \in Tick /\ candidate_started_tick \in Tick
      /\ candidate_position \in Decoded \cup {"UNKNOWN"}
      /\ stable_position \in Decoded \cup {"UNKNOWN"}
      /\ held \in 0 .. Debounce
  BY DEF HInv, HallTypeOK
<1>2. /\ d \in Nat \ {0} /\ SamplePeriod \in Nat \ {0} /\ Debounce \in Nat \ {0}
      /\ TickMod \in Nat \ {0}
      /\ 2 * (SamplePeriod + d) < TickMod
  BY HallAssumption, TickModAssumption
<1>3. t \in Tick /\ TickSub(t, t) = 0 /\ TickSub(now, last_sample_tick) \in Tick
      /\ TickSub(t, last_sample_tick) \in Tick
  BY <1>1, <1>2, TickTypes
<1>4. raw \in Decoded
  BY DecodeType
<1>5. now' = t /\ (PollEarly(t) \/ NewCandidate(t, raw) \/ SameCandidate(t, raw))
  BY DEF HallPoll
<1> HIDE DEF raw
<1>6. CASE PollEarly(t)
  <2>1. last_sample_tick # 0 /\ TickSigned(t, last_sample_tick) < SamplePeriod
    BY <1>2, <1>3, <1>6 DEF PollEarly, SampleDue, TickSigned, Tick
  <2>2. TickSub(now, last_sample_tick) < SamplePeriod
    BY <2>1 DEF HInv, SampleRecent
  <2>3. TickSub(t, last_sample_tick) = TickSub(now, last_sample_tick) + d
    BY <1>1, <1>2, <1>3, <2>2, TickSubLater DEF Tick
  <2>4. TickReached(t, last_sample_tick)
    BY <1>2, <1>3, <2>2, <2>3 DEF TickReached, Tick
  <2>5. TickSub(t, last_sample_tick) < SamplePeriod
    BY <2>1, <2>4 DEF TickSigned
  <2> QED BY <1>1, <1>3, <1>5, <1>6, <2>5 DEF PollEarly, HInv, HallTypeOK, SampleRecent
<1>7. CASE NewCandidate(t, raw)
  BY <1>1, <1>2, <1>3, <1>4, <1>5, <1>7 DEF NewCandidate, HInv, HallTypeOK, SampleRecent
<1>8. CASE SameCandidate(t, raw)
  <2>1. held' \in 0 .. Debounce
    BY <1>1, <1>2, <1>3, <1>8 DEF SameCandidate, HeldAfter, Tick
  <2> QED
    BY <1>1, <1>2, <1>3, <1>4, <1>5, <1>8, <2>1 DEF SameCandidate, HInv, HallTypeOK,
       SampleRecent
<1> QED BY <1>5, <1>6, <1>7, <1>8

\* The invariant is inductive.
LEMMA NextHall ==
  ASSUME HInv, [Next]_vars
  PROVE  HInv'
<1>1. CASE Next
  BY <1>1, PollHall DEF Next
<1>2. CASE UNCHANGED vars
  BY <1>2 DEF vars, HInv, HallTypeOK, SampleRecent
<1> QED BY <1>1, <1>2

\* The sampler's variables keep their types.
THEOREM HallTypeCorrect == Spec => []HallTypeOK
<1>1. HInv => HallTypeOK
  BY DEF HInv
<1> QED BY <1>1, InitHall, NextHall, PTL DEF Spec

\* What SampleDue says of a poll is what the time since the last sample says.
LEMMA PollSamples ==
  ASSUME HInv, NEW d \in PollTicks, NEW active \in SUBSET Magnet,
         HallPoll(TickAdd(now, d), active), last_sample_tick # 0
  PROVE  last_sample_tick' # last_sample_tick
           <=> TickSub(now', last_sample_tick) >= SamplePeriod
<1> DEFINE t == TickAdd(now, d)
           raw == DecodePosition(active)
<1>1. now \in Tick /\ last_sample_tick \in Tick
  BY DEF HInv, HallTypeOK
<1>2. /\ d \in Nat \ {0} /\ SamplePeriod \in Nat \ {0} /\ TickMod \in Nat \ {0}
      /\ Debounce \in Nat /\ 2 * (SamplePeriod + Debounce + 2 * d) < TickMod
  BY HallAssumption, TickModAssumption
<1>3. TickSub(now, last_sample_tick) \in Nat /\ t \in Tick /\ TickSub(t, t) = 0
  <2>1. t \in Tick /\ TickSub(now, last_sample_tick) \in Tick
    BY <1>1, <1>2, TickTypes
  <2>2. TickSub(t, t) = 0
    BY <1>2, <2>1, TickTypes
  <2> QED BY <1>2, <2>1, <2>2 DEF Tick
<1>4. TickSub(now, last_sample_tick) < SamplePeriod
  BY DEF HInv, SampleRecent
<1>5. TickSub(t, last_sample_tick) = TickSub(now, last_sample_tick) + d
  BY <1>1, <1>2, <1>3, <1>4, TickSubLater
<1>6. now' = t /\ (PollEarly(t) \/ NewCandidate(t, raw) \/ SameCandidate(t, raw))
  BY DEF HallPoll
<1> HIDE DEF raw, t
<1>7. SampleDue(t) <=> TickSub(t, last_sample_tick) >= SamplePeriod
  <2>1. TickReached(t, last_sample_tick)
    BY <1>2, <1>3, <1>4, <1>5 DEF TickReached
  <2> QED BY <2>1 DEF SampleDue, TickSigned
<1>8. t # last_sample_tick
  BY <1>2, <1>3, <1>5
<1>9. SampleDue(t) <=> last_sample_tick' # last_sample_tick
  BY <1>6, <1>8 DEF PollEarly, NewCandidate, SameCandidate
<1> QED BY <1>6, <1>7, <1>9

\* A poll samples exactly when the period has passed since the last sample, also
\* across the wrap of the tick, for every period and every distance of the polls
\* the assumptions allow: the signed distance that decides about it never
\* overflows.
THEOREM HallSampledInTime == Spec => SampledInTime
<1> DEFINE Due == last_sample_tick' # last_sample_tick
                    <=> TickSub(now', last_sample_tick) >= SamplePeriod
<1>1. HInv /\ [Next]_vars => [last_sample_tick # 0 => Due]_vars
  BY PollSamples DEF Next
<1> QED BY <1>1, InitHall, NextHall, PTL DEF Spec, SampledInTime

-----------------------------------------------------------------------------
(* The sampler implements debouncing. *)

\* After the first sample, the age of the candidate is what the samples have agreed
\* for until it is stable; from then on its stamp is of no use and may wrap.
Aged ==
  candidate_position # "UNKNOWN" =>
    /\ TickSub(now, last_sample_tick) < SamplePeriod
    /\ held < Debounce => TickSub(last_sample_tick, candidate_started_tick) = held
    /\ held = Debounce => stable_position = candidate_position

DInv == HallTypeOK /\ Aged

\* Going back by a distance and forth by it again.
LEMMA TickAddSub ==
  ASSUME NEW t \in Tick, NEW u \in Tick
  PROVE  TickAdd(u, TickSub(t, u)) = t
<1>1. TickMod \in Nat \ {0} /\ t \in 0 .. TickMod - 1 /\ u \in 0 .. TickMod - 1
  BY TickModAssumption DEF Tick
<1>2. TickSub(t, u) = IF t < u THEN t - u + TickMod ELSE t - u
  BY <1>1, TickMods DEF TickSub
<1>3. CASE t < u
  <2>1. u + TickSub(t, u) = t + TickMod
    BY <1>1, <1>2, <1>3
  <2> QED BY <1>1, <2>1, TickMods DEF TickAdd
<1>4. CASE ~(t < u)
  <2>1. u + TickSub(t, u) = t
    BY <1>1, <1>2, <1>4
  <2> QED BY <1>1, <2>1, TickMods DEF TickAdd
<1> QED BY <1>3, <1>4

\* A poll with a sample that agrees with the candidate.
LEMMA SameAged ==
  ASSUME DInv, NEW d \in PollTicks, NEW t, t = TickAdd(now, d), now' = t,
         NEW raw \in Decoded, SameCandidate(t, raw)
  PROVE  Aged' /\ Abstract!Agree
<1> DEFINE e == TickSub(t, last_sample_tick)
<1>1. /\ now \in Tick /\ last_sample_tick \in Tick /\ candidate_started_tick \in Tick
      /\ held \in 0 .. Debounce
  BY DEF DInv, HallTypeOK
<1>2. /\ d \in Nat \ {0} /\ SamplePeriod \in Nat \ {0} /\ Debounce \in Nat \ {0}
      /\ TickMod \in Nat \ {0} /\ 2 * (SamplePeriod + Debounce + 2 * d) < TickMod
  BY HallAssumption, TickModAssumption
<1>3. t \in Tick /\ TickSub(t, t) = 0 /\ TickSub(now, last_sample_tick) \in Nat
  <2>1. t \in Tick /\ TickSub(now, last_sample_tick) \in Tick
    BY <1>1, <1>2, TickTypes
  <2>2. TickSub(t, t) = 0
    BY <1>2, <2>1, TickTypes
  <2> QED BY <1>2, <2>1, <2>2 DEF Tick
<1>4. candidate_position = raw /\ raw # "UNKNOWN"
  BY DEF SameCandidate, Decoded, Magnet
<1>5. /\ TickSub(now, last_sample_tick) < SamplePeriod
      /\ held < Debounce => TickSub(last_sample_tick, candidate_started_tick) = held
      /\ held = Debounce => stable_position = candidate_position
  BY <1>4 DEF DInv, Aged
<1>6. e = TickSub(now, last_sample_tick) + d
  BY <1>1, <1>2, <1>3, <1>5, TickSubLater
<1>7. e \in Nat \ {0} /\ e < SamplePeriod + d
  BY <1>2, <1>3, <1>5, <1>6
<1>8. TickAdd(last_sample_tick, e) = t
  BY <1>1, <1>3, TickAddSub
<1>9. /\ last_sample_tick' = t /\ UNCHANGED <<candidate_position, candidate_started_tick>>
      /\ stable_position' = IF stable_position # raw /\ HeldLongEnough(t)
                            THEN raw ELSE stable_position
      /\ held' = IF held + e > Debounce THEN Debounce ELSE held + e
  BY DEF SameCandidate, HeldAfter
<1> HIDE DEF e
<1>10. ASSUME held < Debounce
       PROVE  /\ TickSub(t, candidate_started_tick) = held + e
              /\ HeldLongEnough(t) <=> held + e >= Debounce
  <2>1. TickSub(t, candidate_started_tick) = held + e
    <3>1. TickSub(last_sample_tick, candidate_started_tick) + e < TickMod
      BY <1>1, <1>2, <1>5, <1>7, <1>10
    <3> QED BY <1>1, <1>5, <1>7, <1>8, <1>10, <3>1, TickSubLater
  <2>2. 2 * (held + e) < TickMod
    BY <1>1, <1>2, <1>7, <1>10
  <2> QED BY <2>1, <2>2 DEF HeldLongEnough, TickSigned, TickReached
<1>11. held' \in held .. Debounce /\ (held < Debounce => held' > held)
  BY <1>1, <1>2, <1>7, <1>9
<1>12. stable_position' = IF held' = Debounce THEN raw ELSE stable_position
  <2>1. CASE held = Debounce
    BY <1>1, <1>4, <1>5, <1>9, <1>11, <2>1
  <2>2. CASE held < Debounce
    BY <1>1, <1>2, <1>7, <1>9, <1>10, <2>2
  <2> QED BY <1>1, <1>2, <2>1, <2>2
<1>13. Aged'
  <2>1. (held < Debounce)' => TickSub(t, candidate_started_tick) = held'
    BY <1>1, <1>2, <1>7, <1>9, <1>10
  <2> QED BY <1>2, <1>3, <1>4, <1>9, <1>12, <2>1 DEF Aged
<1>14. Abstract!Agree
  BY <1>4, <1>9, <1>11, <1>12 DEF Abstract!Agree
<1> QED BY <1>13, <1>14

\* A poll is a step of debouncing or changes nothing of it.
LEMMA NextAged ==
  ASSUME DInv, HInv, [Next]_vars
  PROVE  DInv' /\ [Abstract!Next]_<<candidate_position, held, stable_position>>
<1>1. HallTypeOK'
  BY NextHall DEF HInv
<1>2. CASE Next
  <2>1. PICK d \in PollTicks, active \in SUBSET Magnet : HallPoll(TickAdd(now, d), active)
    BY <1>2 DEF Next
  <2> DEFINE t == TickAdd(now, d)
             raw == DecodePosition(active)
  <2>2. raw \in Decoded /\ t \in Tick /\ TickSub(t, t) = 0
    BY DecodeType, TickTypes, HallAssumption DEF DInv, HallTypeOK
  <2>3. now' = t /\ (PollEarly(t) \/ NewCandidate(t, raw) \/ SameCandidate(t, raw))
    BY <2>1 DEF HallPoll
  <2> HIDE DEF raw, t
  <2>4. CASE PollEarly(t)
    <3>1. SampleRecent'
      BY NextHall DEF HInv
    <3>2. last_sample_tick # 0
      BY <2>4 DEF PollEarly, SampleDue
    <3> QED BY <1>1, <2>4, <3>1, <3>2 DEF PollEarly, DInv, Aged, SampleRecent
  <2>5. CASE NewCandidate(t, raw)
    <3>1. Aged'
      BY <2>2, <2>3, <2>5, HallAssumption DEF NewCandidate, Aged
    <3>2. Abstract!Differ
      BY <2>2, <2>5 DEF NewCandidate, Abstract!Differ
    <3> QED BY <1>1, <3>1, <3>2 DEF DInv, Abstract!Next
  <2>6. CASE SameCandidate(t, raw)
    <3>1. Aged' /\ Abstract!Agree
      BY <2>2, <2>3, <2>6, SameAged DEF t
    <3> QED BY <1>1, <3>1 DEF DInv, Abstract!Next
  <2> QED BY <2>3, <2>4, <2>5, <2>6
<1>3. CASE UNCHANGED vars
  BY <1>1, <1>3 DEF vars, DInv, Aged
<1> QED BY <1>2, <1>3

\* On a tick that wraps, the sampler debounces as if time never did, for every
\* sample period, debounce time and distance of the polls.
THEOREM HallImplementsDebounce == Spec => ImplementsDebounce
<1>1. Init => HInv /\ DInv /\ Abstract!Init
  BY InitHall DEF Init, HInv, DInv, Aged, Abstract!Init
<1>2. HInv /\ DInv /\ [Next]_vars =>
        HInv' /\ DInv' /\ [Abstract!Next]_<<candidate_position, held, stable_position>>
  BY NextHall, NextAged
<1> QED BY <1>1, <1>2, PTL DEF Spec, ImplementsDebounce, Abstract!Spec
=============================================================================
