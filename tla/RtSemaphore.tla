---------------------------- MODULE RtSemaphore ----------------------------
(***************************************************************************)
(* rt_sem_take and rt_sem_release of ipc.c, called by any threads in any   *)
(* order, with every time-out.  Each function runs with the interrupts     *)
(* disabled up to the point where it calls rt_schedule, so a call is one   *)
(* step, or two when the caller waits in between.  A take that does not    *)
(* want to wait, and a release at the limit of the counter, change nothing *)
(* and are not written down.                                               *)
(***************************************************************************)
EXTENDS RtThread, SequencesExt

CONSTANT SemValueMax   \* RT_SEM_VALUE_MAX: 65535

ASSUME SemAssumption == SemValueMax \in Nat \ {0}

VARIABLES value,       \* sem->value
          waiting,     \* sem->parent.suspend_thread
          call         \* what each thread has called and not returned from

semVars == <<stat, error, timer, value, waiting, call>>

\* _ipc_list_suspend with RT_IPC_FLAG_PRIO: before the first thread of lower
\* priority, or last.
IpcListSuspend(list, t) ==
  LET behind == {i \in DOMAIN list : Priority[t] < Priority[list[i]]}
  IN  InsertAt(list, IF behind = {} THEN Len(list) + 1 ELSE Min(behind), t)

\* rt_list_remove of a thread's node, wherever it is linked
IpcListRemove(list, t) ==
  IF t \in ToSet(list) THEN RemoveAt(list, CHOOSE i \in DOMAIN list : list[i] = t) ELSE list

SemInit == ThreadInit /\ value \in 0 .. SemValueMax /\ waiting = <<>>
                      /\ call = [t \in Threads |-> "none"]

Calls(t) == Running(t) /\ call[t] = "none"

Returns(t, from) == Running(t) /\ call[t] = from /\ call' = [call EXCEPT ![t] = "none"]

SemTakeNow(t) ==
  /\ Calls(t) /\ value > 0
  /\ value' = value - 1
  /\ UNCHANGED <<threadVars, waiting, call>>

SemTakeWaits(t, timeout) ==
  /\ Calls(t) /\ value = 0
  /\ SuspendFor(t, timeout)
  /\ waiting' = IpcListSuspend(waiting, t)
  /\ call' = [call EXCEPT ![t] = "take"]
  /\ UNCHANGED value

\* The thread runs again: error is the result of the call.
SemTakeReturns(t) == Returns(t, "take") /\ UNCHANGED <<threadVars, value, waiting>>

\* Mutant: the counter goes up as well when a waiter is woken.
SemRelease_Twice(t) ==
  /\ Calls(t) /\ value < SemValueMax
  /\ value' = value + 1
  /\ IF waiting = <<>>
     THEN UNCHANGED <<threadVars, waiting>>
     ELSE ThreadResume(Head(waiting)) /\ waiting' = Tail(waiting)
  /\ UNCHANGED call

\* Mutant: the counter goes up whoever waits.
SemRelease_WakesNobody(t) ==
  /\ Calls(t) /\ value < SemValueMax
  /\ value' = value + 1
  /\ UNCHANGED <<threadVars, waiting, call>>

SemRelease(t) ==
  /\ Calls(t)
  /\ \/ /\ waiting # <<>>
        /\ ThreadResume(Head(waiting)) /\ waiting' = Tail(waiting)
        /\ UNCHANGED value
     \/ /\ waiting = <<>> /\ value < SemValueMax
        /\ value' = value + 1
        /\ UNCHANGED <<threadVars, waiting>>
  /\ UNCHANGED call

\* rt_thread_sleep
Sleep(t, ticks) ==
  /\ Calls(t)
  /\ SuspendFor(t, ticks)
  /\ call' = [call EXCEPT ![t] = "sleep"]
  /\ UNCHANGED <<value, waiting>>

SleepReturns(t) ==
  /\ Returns(t, "sleep")
  /\ error' = [error EXCEPT ![t] = "EOK"]
  /\ UNCHANGED <<stat, timer, value, waiting>>

\* Mutant: the thread stays on the list it waited on.
TimeOut_StaysListed(t) == ThreadTimeout(t) /\ UNCHANGED <<value, waiting, call>>

\* _thread_timeout, for whatever the thread waits
TimeOut(t) ==
  /\ ThreadTimeout(t)
  /\ waiting' = IpcListRemove(waiting, t)
  /\ UNCHANGED <<value, call>>

TickPasses == TickIncrease /\ UNCHANGED <<value, waiting, call>>

Waits == 1 .. MaxWait

SemStep(t) ==
  \/ SemTakeNow(t) \/ SemTakeReturns(t) \/ SemRelease(t) \/ SleepReturns(t)
  \/ \E timeout \in Waits \cup {RT_WAITING_FOREVER} : SemTakeWaits(t, timeout)
  \/ \E ticks \in Waits : Sleep(t, ticks)

SemNext == TickPasses \/ \E t \in Threads : SemStep(t) \/ TimeOut(t)

SemSpec == SemInit /\ [][SemNext]_semVars

-----------------------------------------------------------------------------
Waiters == ToSet(waiting)

\* The suspend list holds exactly the threads that are suspended in a take, once
\* each, the urgent ones first; whoever has a timer running is suspended, so
\* that _thread_timeout finds the state it asserts.
SemTypeOK ==
  /\ ThreadTypeOK
  /\ value \in 0 .. SemValueMax
  /\ waiting \in Seq(Threads) /\ IsInjective(waiting)
  /\ call \in [Threads -> {"none", "take", "sleep"}]
  /\ Waiters = {t \in Threads : call[t] = "take" /\ ~Ready(t)}
  /\ \A t \in Threads : (timer[t] # Stopped \/ call[t] = "none") => (Ready(t) <=> call[t] = "none")
  /\ \A i, j \in DOMAIN waiting : i < j => Priority[waiting[i]] <= Priority[waiting[j]]

\* Nobody waits while the counter holds a token: no wake-up is lost, whichever
\* of a release and a time-out comes first.
NoLostWakeup == waiting # <<>> => value = 0

Before == {p \in (DOMAIN waiting) \X (DOMAIN waiting) : p[1] < p[2]}
Ahead == {<<waiting[p[1]], waiting[p[2]]>> : p \in Before}

Woken(result) == {t \in Threads : call[t] = "take" /\ Ready(t) /\ error[t] = result}

Tokens == INSTANCE TokenQueue
  WITH Askers <- Threads, Rank <- Priority, MaxTokens <- SemValueMax, tokens <- value,
       waiters <- Waiters, ahead <- Ahead, granted <- Woken("EOK"),
       refused <- Woken("ETIMEOUT")

\* The semaphore keeps its promise: no token is lost or made up, none is left
\* while somebody waits, the waiters are served by priority and then in turn,
\* and a take that times out has taken nothing.
ImplementsTokens == Tokens!Spec
=============================================================================
