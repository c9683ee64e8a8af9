--------------------------- MODULE LitterHistory ---------------------------
(***************************************************************************)
(* LitterLogic with history variables, which no step of the code reads or  *)
(* writes, to say what a state alone cannot: for how long the box has been *)
(* empty, whether a visit is still to be cleaned up after, and what the    *)
(* box was like when a clean was asked for.                                *)
(***************************************************************************)
EXTENDS LitterLogic

VARIABLES quiet,         \* ticks since the first sample of an empty box
          visited,       \* a cat was seen since a run last began or a reset was served
          asked_blocked  \* the pending request was queued with an input set

histVars == <<vars, quiet, visited, asked_blocked>>

\* Both windows in a row; bound: quiet saturates here.
BothWindows == LeaveConfirm + CleanDelay

Elapsed == TickSub(now', now)

QuietAfter ==
  IF prev_occupied \/ prev_occupied' THEN 0
  ELSE IF quiet + Elapsed > BothWindows THEN BothWindows ELSE quiet + Elapsed

InitH == Init /\ quiet = 0 /\ visited = prev_occupied /\ asked_blocked = FALSE

IterateH ==
  /\ Iterate
  /\ quiet' = QuietAfter
  /\ visited' = (prev_occupied' \/ (visited /\ ~RunBegins /\ ~reset_request))
  /\ asked_blocked' = (asked_blocked /\ remote_clean_request')

RequestCleanH ==
  /\ RequestClean
  /\ asked_blocked' = (prev_occupied \/ prev_bin_full)
  /\ UNCHANGED <<quiet, visited>>

RequestResetH == RequestReset /\ UNCHANGED <<quiet, visited, asked_blocked>>

NextH == IterateH \/ RequestCleanH \/ RequestResetH

SpecH == InitH /\ [][NextH]_histVars

FairSpecH == SpecH /\ WF_now(Turn)

\* A run nobody asked for begins only after the box has been empty for the
\* whole leave-confirm window and the whole clean delay without a break: a cat
\* that looks in again, a protect stop or a fault in between starts both anew.
UnaskedRunWaits == [][RunBegins => remote_clean_request \/ quiet' >= BothWindows]_histVars

\* A run nobody asked for answers a visit of its own, one that no run and no
\* reset has come after: however protect stops, faults, aborted runs and resets
\* follow each other, no visit is cleaned up after twice, and neither a fault
\* that clears nor a reset sets the drum off by itself.
RunAnswersVisit == [][RunBegins => remote_clean_request \/ visited]_histVars

\* A request queued while the box is occupied or the bin is full starts no run.
BlockedRequestStartsNothing == [][RunBegins => ~asked_blocked]_histVars
=============================================================================
