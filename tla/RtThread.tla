------------------------------ MODULE RtThread ------------------------------
(***************************************************************************)
(* The RT-Thread scheduling the firmware's threads run under: one core,    *)
(* strict priorities, and the timer every thread has for waits that end by *)
(* themselves.  A timer counts the ticks that are left, which abstracts    *)
(* from the deadlines and the sorted list of timer.c.                      *)
(***************************************************************************)
EXTENDS Integers

CONSTANTS Threads,
          Priority,   \* of each thread: 0 is the highest
          MaxWait     \* bound: the longest wait in ticks

ASSUME ThreadAssumption == Priority \in [Threads -> Nat] /\ MaxWait \in Nat \ {0}

VARIABLES stat,       \* "suspended", or "ready": READY or RUNNING
          error,      \* thread->error
          timer       \* ticks until the thread's timer is due, or Stopped

threadVars == <<stat, error, timer>>

Stopped == -1

\* A wait without end starts no timer.
RT_WAITING_FOREVER == Stopped

Ready(t) == stat[t] = "ready"

\* rt_timer_check runs inside the tick interrupt, before any thread goes on.
InInterrupt == \E t \in Threads : timer[t] = 0

\* rt_schedule: a ready thread with none of higher priority ready.  Among equals
\* the time slice decides, so that any of them may run.
Running(t) ==
  /\ Ready(t) /\ ~InInterrupt
  /\ \A u \in Threads : Ready(u) => Priority[t] <= Priority[u]

\* What rt_sem_take and rt_thread_sleep do to wait: reset the error, suspend the
\* thread, and start its timer.
SuspendFor(t, ticks) ==
  /\ stat' = [stat EXCEPT ![t] = "suspended"]
  /\ error' = [error EXCEPT ![t] = "EOK"]
  /\ timer' = [timer EXCEPT ![t] = ticks]

\* rt_thread_resume, less the list the thread is taken off
ThreadResume(t) ==
  /\ stat' = [stat EXCEPT ![t] = "ready"]
  /\ timer' = [timer EXCEPT ![t] = Stopped]
  /\ UNCHANGED error

\* _thread_timeout, less the list the thread is taken off
ThreadTimeout(t) ==
  /\ timer[t] = 0
  /\ error' = [error EXCEPT ![t] = "ETIMEOUT"]
  /\ stat' = [stat EXCEPT ![t] = "ready"]
  /\ timer' = [timer EXCEPT ![t] = Stopped]

\* rt_tick_increase, up to rt_timer_check
TickIncrease ==
  /\ ~InInterrupt
  /\ timer' = [t \in Threads |-> IF timer[t] > 0 THEN timer[t] - 1 ELSE timer[t]]
  /\ UNCHANGED <<stat, error>>

\* All threads are started before the first of them runs.
ThreadInit ==
  /\ stat = [t \in Threads |-> "ready"]
  /\ error = [t \in Threads |-> "EOK"]
  /\ timer = [t \in Threads |-> Stopped]

ThreadTypeOK ==
  /\ stat \in [Threads -> {"ready", "suspended"}]
  /\ error \in [Threads -> {"EOK", "ETIMEOUT"}]
  /\ timer \in [Threads -> {Stopped} \cup 0 .. MaxWait]
=============================================================================
