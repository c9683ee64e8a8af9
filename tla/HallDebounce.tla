---------------------------- MODULE HallDebounce ----------------------------
(***************************************************************************)
(* What debouncing the hall position promises, in a time that never wraps: *)
(* held is for how long all samples have agreed on the position seen last, *)
(* and the stable position follows it as soon as, and only when, they have *)
(* agreed for Hold ticks.                                                  *)
(***************************************************************************)
EXTENDS Integers

CONSTANTS Hold,        \* debounce time in ticks
          Position,    \* what a sample can read
          Unknown      \* before any sample

VARIABLES seen, held, stable

Init == seen = Unknown /\ held = 0 /\ stable = Unknown

\* A sample that agrees with the one before it; held saturates at Hold.
Agree ==
  /\ UNCHANGED seen
  /\ held' \in held .. Hold /\ (held < Hold => held' > held)
  /\ stable' = IF held' = Hold THEN seen ELSE stable

Differ ==
  /\ seen' \in Position \ {seen}
  /\ held' = 0
  /\ UNCHANGED stable

Next == Agree \/ Differ

Spec == Init /\ [][Next]_<<seen, held, stable>>
=============================================================================
