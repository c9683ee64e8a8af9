------------------------------- MODULE MCDrum -------------------------------
(***************************************************************************)
(* LitterDrum on a line of seven places, with one or two ticks from turn   *)
(* to turn.  Noticing is four ticks: that much of the home position follows*)
(* its first place, and the budgets are one tick longer than the longest   *)
(* ways and that, so that every inequality of DrumAssumption is met with   *)
(* nothing to spare.                                                       *)
(***************************************************************************)
EXTENDS LitterDrum

MCLoopTicks == {1, 2}
MCHallReading == HallPosition \ {"UNKNOWN"}

\* States that differ only in what no step reads before writing it are one: the
\* stamps of a run that is over, the stamp of a candidate that is stable, the
\* position reported to a phase that is forgotten, and history that is settled:
\* how long the drum has stood matters while its dump position is an old one.  A clean
\* request under a run is not told from none: the next turn drops it or, if the bin
\* is full by then, keeps it, which is as if it had been made after that turn.
Cleaning == ctx.state = "CLEANING"
MCView ==
  <<[ctx EXCEPT !.clean_started_tick = IF Cleaning THEN @ ELSE 0,
                !.phase_started_tick = IF Cleaning THEN @ ELSE 0],
    now, stable_position, candidate_position, last_sample_tick,
    IF candidate_position = stable_position THEN 0 ELSE candidate_started_tick,
    last_reported_phase,
    IF last_reported_phase = "NONE" THEN "UNKNOWN" ELSE last_reported_position,
    prev_occupied, prev_bin_full, remote_clean_request /\ ~Cleaning, reset_request,
    pins, place, heartbeat,
    stalled /\ ctx.state \in {"CLEANING", "FAULT"},
    IF stable_position = "POS2_DUMP" /\ place \notin Zone["POS2_DUMP"] THEN still ELSE Noticing>>
=============================================================================
