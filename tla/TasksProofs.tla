----------------------------- MODULE TasksProofs ----------------------------
(***************************************************************************)
(* Theorems about the threads of the firmware, for every period, drawing   *)
(* time and mailbox size the assumptions allow.  What they do with their   *)
(* semaphore is a behaviour of RtSemaphore, which carries the theorems     *)
(* about it over to them; the rest is about what passes from one thread to *)
(* the other, and about the time it takes.                                 *)
(***************************************************************************)
EXTENDS LitterTasks, SemProofs

\* The threads there are, and the waits the firmware asks for.
LEMMA Firmware ==
  /\ "main" \in Threads /\ "sensor" \in Threads /\ "control" \in Threads
  /\ LoopPeriod \in Waits /\ Gap \in Waits /\ Pause \in Waits /\ DisplayRest \in Waits
  /\ TurnTime \in [Threads -> Nat]
BY TasksAssumption

\* Each step of a thread is a call of the kernel, or does not concern it.
LEMMA SensorCalls ==
  ASSUME SensorStep
  PROVE  SemStep("sensor") \/ UNCHANGED semVars
BY Firmware DEF SensorStep, SemStep, ReadSensor, SendTem, GapBegins, GapEnds, SendHum, Notify,
                PauseBegins, PauseEnds

LEMMA ControlCalls ==
  ASSUME ControlStep
  PROVE  SemStep("control") \/ UNCHANGED semVars
BY Firmware DEF ControlStep, SemStep, TakeNow, TakeWaits, TakeReturns, RecvTem, RecvHum, RunControl

LEMMA DisplayCalls ==
  ASSUME DisplayStep
  PROVE  SemStep("main") \/ UNCHANGED semVars
BY Firmware DEF DisplayStep, SemStep, DrawEnds, RestEnds

LEMMA StepCalls ==
  ASSUME [Next]_tasksVars
  PROVE  [SemNext]_semVars
<1>1. CASE SensorStep
  BY <1>1, SensorCalls, Firmware DEF SemNext
<1>2. CASE ControlStep
  BY <1>2, ControlCalls, Firmware DEF SemNext
<1>3. CASE DisplayStep
  BY <1>3, DisplayCalls, Firmware DEF SemNext
<1>4. CASE ParserTick \/ Tick
  BY <1>4 DEF ParserTick, Tick, SemNext
<1>5. ASSUME NEW t \in Threads, Expire(t) PROVE SemNext
  BY <1>5 DEF Expire, SemNext
<1>6. CASE UNCHANGED tasksVars
  BY <1>6 DEF tasksVars, semVars
<1> QED BY <1>1, <1>2, <1>3, <1>4, <1>5, <1>6 DEF Next

LEMMA InitCalls == Init => SemInit
BY SemAssumption DEF Init, SemInit

\* The firmware's threads use the kernel as RtSemaphore lets any threads use it.
THEOREM TasksUseSemaphore == Spec => SemSpec
BY InitCalls, StepCalls, PTL DEF Spec, SemSpec

\* The control thread never sleeps on a reading that has been announced: the token
\* of ReadSensor_Task wakes it whenever the two calls meet.
THEOREM TasksNoLostWakeup == Spec => []NoLostWakeup
BY TasksUseSemaphore, SemNoLostWakeup, PTL

\* The firmware's dht11_sem implements the abstract semaphore.
THEOREM TasksImplementTokens == Spec => ImplementsTokens
BY TasksUseSemaphore, SemImplementsTokens, PTL

-----------------------------------------------------------------------------
\* Once the sensor has answered, its answer is in the buffer for good.
ClimateInv == succeeded => sample = "real" /\ climate = "real"

LEMMA StepClimate ==
  ASSUME ClimateInv, [Next]_tasksVars
  PROVE  ClimateInv'
<1>1. ASSUME NEW result \in {"real", "failed"}, ReadSensor(result) PROVE ClimateInv'
  BY <1>1 DEF ReadSensor, ClimateInv
<1>2. CASE UNCHANGED <<sample, climate, succeeded>>
  BY <1>2 DEF ClimateInv
<1>3. SensorStep => (\E result \in {"real", "failed"} : ReadSensor(result)) \/ UNCHANGED <<sample, climate, succeeded>>
  BY DEF SensorStep, SendTem, GapBegins, GapEnds, SendHum, Notify, PauseBegins, PauseEnds, reading
<1>4. ControlStep => UNCHANGED <<sample, climate, succeeded>>
  BY DEF ControlStep, TakeNow, TakeWaits, TakeReturns, RecvTem, RecvHum, RunControl, reading
<1>5. DisplayStep \/ ParserTick \/ Tick \/ (\E t \in Threads : Expire(t)) => UNCHANGED <<sample, climate, succeeded>>
  BY DEF DisplayStep, DrawEnds, RestEnds, ParserTick, Tick, Expire, reading
<1>6. UNCHANGED tasksVars => UNCHANGED <<sample, climate, succeeded>>
  BY DEF tasksVars, reading
<1> QED BY <1>1, <1>2, <1>3, <1>4, <1>5, <1>6 DEF Next

\* ReadSensor_Task ignores the result of rt_device_read, and still shows an answer of
\* the sensor from the first one on: a failed read leaves the buffer as it was.
THEOREM TasksClimateReal == Spec => []ClimateReal
<1>1. Init => ClimateInv
  BY DEF Init, ClimateInv
<1>2. ClimateInv => ClimateReal
  BY DEF ClimateInv, ClimateReal
<1> QED BY <1>1, <1>2, StepClimate, PTL DEF Spec

-----------------------------------------------------------------------------
(* Types. *)

\* A mailbox stays one when something is sent to it or received from it.
LEMMA MailboxType ==
  ASSUME NEW V, NEW mb \in MbType(V), NEW v \in V
  PROVE  MbSend(mb, v) \in MbType(V) /\ MbRecv(mb) \in MbType(V) /\ MbFirst(mb) \in V
<1>1. \A i \in Slot : NextSlot(i) \in Slot
  BY MbAssumption DEF Slot, NextSlot
<1>2. /\ mb.pool \in [Slot -> V] /\ mb.in_offset \in Slot /\ mb.out_offset \in Slot
      /\ mb.entry \in 0 .. MbSize
  BY DEF MbType
<1>3. MbFirst(mb) \in V
  BY <1>2 DEF MbFirst
<1>4. MbSend(mb, v) \in MbType(V)
  <2>1. CASE MbFull(mb)
    BY <2>1 DEF MbSend
  <2>2. CASE ~MbFull(mb)
    <3>1. mb.entry + 1 \in 0 .. MbSize
      BY <1>2, <2>2, MbAssumption DEF MbFull
    <3> QED BY <1>1, <1>2, <2>2, <3>1 DEF MbSend, MbType
  <2> QED BY <2>1, <2>2
<1>5. MbRecv(mb) \in MbType(V)
  <2>1. CASE MbEmpty(mb)
    BY <2>1 DEF MbRecv
  <2>2. CASE ~MbEmpty(mb)
    <3>1. mb.entry - 1 \in 0 .. MbSize
      BY <1>2, <2>2, MbAssumption DEF MbEmpty
    <3> QED BY <1>1, <1>2, <2>2, <3>1 DEF MbRecv, MbType
  <2> QED BY <2>1, <2>2
<1> QED BY <1>3, <1>4, <1>5

At == [main |-> {"draw", "resting"}, sensor |-> SensorAt, control |-> ControlAt]

\* Where the threads are, and for how long they have run.
Places ==
  /\ DOMAIN pc = Threads /\ DOMAIN spent = Threads
  /\ \A t \in Threads : pc[t] \in At[t] /\ spent[t] \in 0 .. TurnTime[t]

\* What they exchange.
Goods ==
  /\ tem_mb \in MbType(Round \cup {None}) /\ hum_mb \in MbType(Round \cup {None})
  /\ cur_tem \in Round \cup {None} /\ cur_hum \in Round \cup {None}
  /\ round \in Round
  /\ sample \in {"junk", "negative", "real"} /\ climate \in {"zero", "junk", "real"}
  /\ succeeded \in BOOLEAN /\ late \in 0 .. LoopBound + 1
  /\ parsed \in 0 .. ParseTime /\ quiet \in 0 .. LineQuiet

LEMMA LoopBoundType ==
  LoopBound \in Nat /\ ParseTime \in Nat /\ LineQuiet \in Nat \ {0}
BY Firmware, TasksAssumption DEF LoopBound, Waits

LEMMA PlacesStay ==
  ASSUME Places, NEW t \in Threads, NEW from, NEW to \in At[t],
         Go(t, from, to) \/ EndTurn(t, from, to)
  PROVE  Places'
<1>1. pc' = [pc EXCEPT ![t] = to] /\ (spent' = spent \/ spent' = [spent EXCEPT ![t] = 0])
  BY DEF Go, EndTurn, Jump
<1>2. TurnTime[t] \in Nat
  BY Firmware
<1> QED BY <1>1, <1>2 DEF Places

LEMMA SensorTypes ==
  ASSUME Places, Goods, SensorStep
  PROVE  Places' /\ Goods'
<1>0. "sensor" \in Threads /\ At["sensor"] = SensorAt /\ Rounds \in Nat \ {0}
  BY TasksAssumption, MbAssumption DEF At
<1>1. ASSUME NEW result \in {"real", "failed"}, ReadSensor(result) PROVE Places' /\ Goods'
  <2>1. Places'
    BY <1>0, <1>1, PlacesStay DEF ReadSensor, Goes, SensorAt
  <2>2. Goods'
    BY <1>1 DEF ReadSensor, Goods, exchange, line
  <2> QED BY <2>1, <2>2
<1>2. CASE SendTem
  <2>1. Places'
    BY <1>0, <1>2, PlacesStay DEF SendTem, Goes, SensorAt
  <2>2. tem_mb' \in MbType(Round \cup {None})
    BY <1>2, MailboxType DEF SendTem, Goods
  <2> QED BY <1>2, <2>1, <2>2 DEF SendTem, Goods, reading, line
<1>3. CASE GapBegins \/ PauseBegins
  BY <1>0, <1>3, PlacesStay DEF GapBegins, PauseBegins, SensorAt, Goods, exchange, reading, line
<1>4. CASE GapEnds \/ Notify
  BY <1>0, <1>4, PlacesStay DEF GapEnds, Notify, SensorAt, Goods, exchange, reading, line
<1>5. CASE SendHum
  <2>1. Places'
    BY <1>0, <1>5, PlacesStay DEF SendHum, Goes, SensorAt
  <2>2. hum_mb' \in MbType(Round \cup {None})
    BY <1>5, MailboxType DEF SendHum, Goods
  <2> QED BY <1>5, <2>1, <2>2 DEF SendHum, Goods, reading, line
<1>6. CASE PauseEnds
  <2>1. Places'
    BY <1>0, <1>6, PlacesStay DEF PauseEnds, SensorAt
  <2>2. round' \in Round
    BY <1>0, <1>6 DEF PauseEnds, Goods, Round
  <2> QED BY <1>6, <2>1, <2>2 DEF PauseEnds, Goods, exchange, line
<1> QED BY <1>1, <1>2, <1>3, <1>4, <1>5, <1>6 DEF SensorStep

LEMMA ControlTypes ==
  ASSUME Places, Goods, ControlStep
  PROVE  Places' /\ Goods'
<1>0. "control" \in Threads /\ At["control"] = ControlAt
  BY TasksAssumption DEF At
<1>1. CASE TakeNow \/ TakeWaits
  BY <1>0, <1>1, PlacesStay DEF TakeNow, TakeWaits, ControlAt, Goods, exchange, reading, line
<1>2. CASE TakeReturns
  BY <1>0, <1>2, PlacesStay DEF TakeReturns, ControlAt, Goods, exchange, reading, line
<1>3. CASE RecvTem
  <2>1. Places'
    BY <1>0, <1>3, PlacesStay DEF RecvTem, Goes, ControlAt
  <2>2. tem_mb' \in MbType(Round \cup {None}) /\ cur_tem' \in Round \cup {None}
    BY <1>3, MailboxType DEF RecvTem, Goods
  <2> QED BY <1>3, <2>1, <2>2 DEF RecvTem, Goods, reading, line
<1>4. CASE RecvHum
  <2>1. Places'
    BY <1>0, <1>4, PlacesStay DEF RecvHum, Goes, ControlAt
  <2>2. hum_mb' \in MbType(Round \cup {None}) /\ cur_hum' \in Round \cup {None}
    BY <1>4, MailboxType DEF RecvHum, Goods
  <2> QED BY <1>4, <2>1, <2>2 DEF RecvHum, Goods, reading, line
<1>5. CASE RunControl
  <2>1. Places'
    BY <1>0, <1>5, PlacesStay DEF RunControl, ControlAt
  <2>2. late' \in 0 .. LoopBound + 1
    BY <1>5, LoopBoundType DEF RunControl
  <2> QED BY <1>5, <2>1, <2>2 DEF RunControl, Goods, exchange, reading, line
<1> QED BY <1>1, <1>2, <1>3, <1>4, <1>5 DEF ControlStep

LEMMA OtherTypes ==
  ASSUME Places, Goods, DisplayStep \/ ParserTick \/ Tick \/ (\E t \in Threads : Expire(t)) \/ UNCHANGED tasksVars
  PROVE  Places' /\ Goods'
<1>0. "main" \in Threads /\ At["main"] = {"draw", "resting"}
  BY TasksAssumption DEF At
<1>1. CASE DisplayStep
  BY <1>0, <1>1, PlacesStay DEF DisplayStep, DrawEnds, RestEnds, Goods, exchange, reading, line
<1>2. CASE Tick
  <2>1. Places'
    <3>1. \A t \in Threads : spent'[t] \in 0 .. TurnTime[t]
      BY <1>2, Firmware DEF Tick, Places
    <3> QED BY <1>2, <3>1 DEF Tick, Places
  <2>2. late' \in 0 .. LoopBound + 1
    BY <1>2, LoopBoundType DEF Tick, Later, Goods
  <2>3. parsed' \in 0 .. ParseTime /\ quiet' \in 0 .. LineQuiet
    BY <1>2, LoopBoundType DEF Tick, Goods
  <2> QED BY <1>2, <2>1, <2>2, <2>3 DEF Tick, Goods, exchange, reading
<1>5. CASE ParserTick
  <2>1. late' \in 0 .. LoopBound + 1 /\ parsed' \in 0 .. ParseTime /\ quiet' \in 0 .. LineQuiet
    BY <1>5, LoopBoundType DEF ParserTick, Later, Goods
  <2> QED BY <1>5, <2>1 DEF ParserTick, Places, Goods, exchange, reading
<1>3. ASSUME NEW t \in Threads, Expire(t) PROVE Places' /\ Goods'
  BY <1>3 DEF Expire, Places, Goods, exchange, reading, line
<1>4. CASE UNCHANGED tasksVars
  BY <1>4 DEF tasksVars, Places, Goods, exchange, reading, line
<1> QED BY <1>1, <1>2, <1>3, <1>4, <1>5

LEMMA InitTypes == Init => Places /\ Goods
<1> SUFFICES ASSUME Init PROVE Places /\ Goods
  OBVIOUS
<1>1. Places
  <2>1. \A t \in Threads : 0 \in 0 .. TurnTime[t]
    BY Firmware
  <2>2. DOMAIN pc = Threads /\ DOMAIN spent = Threads
    BY TasksAssumption DEF Init
  <2>3. \A t \in Threads : pc[t] \in At[t]
    BY TasksAssumption DEF Init, At, SensorAt, ControlAt
  <2> QED BY <2>1, <2>2, <2>3 DEF Places, Init
<1>2. Goods
  <2>1. MbInit(None) \in MbType(Round \cup {None})
    BY MbAssumption DEF MbInit, MbType, Slot
  <2>2. 0 \in Round
    BY TasksAssumption, MbAssumption DEF Round
  <2>3. 0 \in 0 .. LoopBound + 1 /\ 0 \in 0 .. ParseTime /\ LineQuiet \in 0 .. LineQuiet
    BY LoopBoundType
  <2>4. /\ tem_mb = MbInit(None) /\ hum_mb = MbInit(None) /\ cur_tem = None /\ cur_hum = None
        /\ round = 0 /\ late = 0 /\ parsed = 0 /\ quiet = LineQuiet
        /\ sample \in {"junk", "negative"} /\ climate = "zero" /\ succeeded = FALSE
    BY DEF Init
  <2> QED BY <2>1, <2>2, <2>3, <2>4 DEF Goods
<1> QED BY <1>1, <1>2

\* The threads' variables keep their types, and the suspend list of dht11_sem holds
\* exactly those who wait for it.
THEOREM TasksTypeCorrect == Spec => []TasksTypeOK
<1>1. Places /\ Goods /\ [Next]_tasksVars => (Places /\ Goods)'
  BY SensorTypes, ControlTypes, OtherTypes DEF Next
<1>2. Spec => [](Places /\ Goods)
  BY InitTypes, <1>1, PTL DEF Spec
<1>3. SemInv /\ Places /\ Goods => TasksTypeOK
  BY TasksAssumption DEF SemInv, Places, Goods, TasksTypeOK, At
<1> QED BY <1>2, <1>3, TasksUseSemaphore, SemInvariant, PTL

-----------------------------------------------------------------------------
(* Where the threads are and what the kernel knows of them. *)

\* What each thread has called follows from where it is; every wait has an end; and
\* the threads that sleep begin a new turn when they wake.
Linked ==
  /\ call["main"] = (IF pc["main"] = "resting" THEN "sleep" ELSE "none")
  /\ call["sensor"] = (IF pc["sensor"] \in {"gap_ends", "pause_ends"} THEN "sleep" ELSE "none")
  /\ call["control"] = (IF pc["control"] = "taking" THEN "take" ELSE "none")
  /\ \A t \in Threads : timer[t] = Stopped <=> Ready(t)
  /\ \A t \in {"main", "sensor"} : ~Ready(t) => spent[t] = 0

Kernel == SemInv /\ Places /\ Goods /\ Linked

\* The kernel's state by its parts.
LEMMA KernelTypes ==
  ASSUME Kernel
  PROVE  /\ stat \in [Threads -> {"ready", "suspended"}]
         /\ error \in [Threads -> {"EOK", "ETIMEOUT"}]
         /\ timer \in [Threads -> {Stopped} \cup 0 .. MaxWait]
         /\ call \in [Threads -> {"none", "take", "sleep"}]
         /\ value \in 0 .. SemValueMax
         /\ DOMAIN pc = Threads /\ DOMAIN spent = Threads
         /\ \A t \in Threads : spent[t] \in 0 .. TurnTime[t]
         /\ pc["main"] \in {"draw", "resting"} /\ pc["sensor"] \in SensorAt /\ pc["control"] \in ControlAt
         /\ Threads = {"main", "sensor", "control"}
BY TasksAssumption DEF Kernel, SemInv, SemTypeOK, ThreadTypeOK, Places, At

\* Whoever calls or returns runs, and then nobody of higher priority is ready and no
\* timer is due.
LEMMA WhoRuns ==
  ASSUME Kernel
  PROVE  /\ \A t \in Threads : Running(t) => Ready(t) /\ \A u \in Threads : timer[u] # 0
         /\ Running("sensor") => ~Ready("main")
         /\ Running("control") => ~Ready("main") /\ ~Ready("sensor")
<1>1. Priority \in [Threads -> Nat]
  BY ThreadAssumption
<1> QED BY <1>1, TasksAssumption DEF Running, InInterrupt

\* The suspend list holds the control thread or nobody.
LEMMA ListHolds ==
  ASSUME Kernel
  PROVE  /\ waiting = <<>> => Ready("control")
         /\ waiting # <<>> => /\ Head(waiting) = "control" /\ ~Ready("control")
                              /\ pc["control"] = "taking" /\ value = 0
<1>1. Waiters = {t \in Threads : call[t] = "take" /\ ~Ready(t)} /\ waiting \in Seq(Threads)
  BY DEF Kernel, SemInv, SemTypeOK
<1>2. \A t \in Waiters : t = "control" /\ pc["control"] = "taking"
  BY <1>1, KernelTypes DEF Kernel, Linked
<1>3. ASSUME waiting = <<>> PROVE Ready("control")
  <2>1. Waiters = {}
    BY <1>3 DEF Waiters, ToSet
  <2>2. ~Ready("control") => call["control"] = "take"
    BY KernelTypes DEF Kernel, Linked, SemInv, SemTypeOK
  <2> QED BY <1>1, <2>1, <2>2, Firmware
<1>4. ASSUME waiting # <<>>
      PROVE  Head(waiting) = "control" /\ ~Ready("control") /\ pc["control"] = "taking" /\ value = 0
  <2>1. Head(waiting) \in Waiters
    <3>1. Head(waiting) = waiting[1] /\ 1 \in 1 .. Len(waiting)
      BY <1>1, <1>4, TailRemoves
    <3> QED BY <1>1, <3>1 DEF Waiters, ToSet
  <2>2. value = 0
    BY <1>4 DEF Kernel, SemInv, NoLostWakeup
  <2> QED BY <1>1, <1>2, <2>1, <2>2
<1> QED BY <1>3, <1>4

-----------------------------------------------------------------------------
(* Each action keeps the link between places and calls. *)

\* A thread works on without a call of the kernel.
LEMMA WorkLinked ==
  ASSUME Kernel, NEW t \in Threads, NEW from, NEW to \in At[t],
         Goes(t, from, to) \/ (Calls(t) /\ EndTurn(t, from, to)), UNCHANGED semVars,
         to \notin {"resting", "gap_ends", "pause_ends", "taking"}
  PROVE  Linked'
<1>1. /\ UNCHANGED <<stat, timer, call>> /\ call[t] = "none" /\ pc' = [pc EXCEPT ![t] = to]
      /\ spent' = spent \/ spent' = [spent EXCEPT ![t] = 0]
  BY DEF Goes, Go, EndTurn, Jump, Calls, semVars
<1> QED BY <1>1, KernelTypes DEF Kernel, Linked, Ready

\* A thread goes to sleep at the end of its turn.
LEMMA SleepLinked ==
  ASSUME Kernel, NEW t \in {"main", "sensor"}, NEW from, NEW to, NEW ticks \in Waits,
         EndTurn(t, from, to), Sleep(t, ticks),
         to \in (IF t = "main" THEN {"resting"} ELSE {"gap_ends", "pause_ends"})
  PROVE  Linked'
<1>1. /\ stat' = [stat EXCEPT ![t] = "suspended"] /\ timer' = [timer EXCEPT ![t] = ticks]
      /\ call' = [call EXCEPT ![t] = "sleep"] /\ pc' = [pc EXCEPT ![t] = to]
      /\ spent' = [spent EXCEPT ![t] = 0]
  BY DEF EndTurn, Jump, Sleep, SuspendFor
<1>2. ticks # Stopped
  BY DEF Waits, Stopped
<1> QED BY <1>1, <1>2, KernelTypes DEF Kernel, Linked, Ready

\* A sleep is over.
LEMMA WakeLinked ==
  ASSUME Kernel, NEW t \in {"main", "sensor"}, NEW from, NEW to \in {"draw", "send_hum", "read"},
         Go(t, from, to), SleepReturns(t)
  PROVE  Linked'
<1>1. /\ UNCHANGED <<stat, timer, spent>> /\ call' = [call EXCEPT ![t] = "none"]
      /\ pc' = [pc EXCEPT ![t] = to]
  BY DEF Go, Jump, SleepReturns, Returns
<1> QED BY <1>1, KernelTypes DEF Kernel, Linked, Ready

LEMMA SensorLinked ==
  ASSUME Kernel, SensorStep
  PROVE  Linked'
<1>0. "sensor" \in Threads /\ At["sensor"] = SensorAt
  BY TasksAssumption DEF At
<1>1. ASSUME NEW result \in {"real", "failed"}, ReadSensor(result) PROVE Linked'
  BY <1>0, <1>1, WorkLinked DEF ReadSensor, SensorAt
<1>2. CASE SendTem
  BY <1>0, <1>2, WorkLinked DEF SendTem, SensorAt
<1>3. CASE SendHum
  BY <1>0, <1>3, WorkLinked DEF SendHum, SensorAt
<1>4. CASE GapBegins
  BY <1>4, Firmware, SleepLinked DEF GapBegins
<1>5. CASE PauseBegins
  BY <1>5, Firmware, SleepLinked DEF PauseBegins
<1>6. CASE GapEnds
  BY <1>6, WakeLinked DEF GapEnds
<1>7. CASE PauseEnds
  BY <1>7, WakeLinked DEF PauseEnds
<1>8. CASE Notify
  <2>1. pc' = [pc EXCEPT !["sensor"] = "pause"] /\ pc["sensor"] = "release" /\ UNCHANGED <<call, spent>>
    BY <1>8 DEF Notify, Go, Jump, SemRelease
  <2>2. \/ UNCHANGED <<stat, timer>>
        \/ stat' = [stat EXCEPT !["control"] = "ready"] /\ timer' = [timer EXCEPT !["control"] = Stopped]
    BY <1>8, ListHolds DEF Notify, SemRelease, ThreadResume, threadVars
  <2> QED BY <2>1, <2>2, KernelTypes DEF Kernel, Linked, Ready
<1> QED BY <1>1, <1>2, <1>3, <1>4, <1>5, <1>6, <1>7, <1>8 DEF SensorStep

LEMMA ControlLinked ==
  ASSUME Kernel, ControlStep
  PROVE  Linked'
<1>0. "control" \in Threads /\ At["control"] = ControlAt
  BY TasksAssumption DEF At
<1>1. CASE TakeNow
  <2>1. pc' = [pc EXCEPT !["control"] = "recv_tem"] /\ pc["control"] = "take" /\ UNCHANGED <<stat, timer, call, spent>>
    BY <1>1 DEF TakeNow, Go, Jump, SemTakeNow, threadVars
  <2> QED BY <2>1, KernelTypes DEF Kernel, Linked, Ready
<1>2. CASE TakeWaits
  <2>1. /\ pc' = [pc EXCEPT !["control"] = "taking"] /\ UNCHANGED spent
        /\ stat' = [stat EXCEPT !["control"] = "suspended"] /\ timer' = [timer EXCEPT !["control"] = LoopPeriod]
        /\ call' = [call EXCEPT !["control"] = "take"]
    BY <1>2 DEF TakeWaits, Go, Jump, SemTakeWaits, SuspendFor
  <2>2. LoopPeriod # Stopped
    BY Firmware DEF Waits, Stopped
  <2> QED BY <2>1, <2>2, KernelTypes DEF Kernel, Linked, Ready
<1>3. CASE TakeReturns
  <2>1. /\ pc' = [pc EXCEPT !["control"] = IF error["control"] = "EOK" THEN "recv_tem" ELSE "run"]
        /\ UNCHANGED <<stat, timer, spent>> /\ call' = [call EXCEPT !["control"] = "none"]
    BY <1>3 DEF TakeReturns, Go, Jump, SemTakeReturns, Returns, threadVars
  <2> QED BY <2>1, KernelTypes DEF Kernel, Linked, Ready
<1>4. CASE RecvTem
  BY <1>0, <1>4, WorkLinked DEF RecvTem, ControlAt
<1>5. CASE RecvHum
  BY <1>0, <1>5, WorkLinked DEF RecvHum, ControlAt
<1>6. CASE RunControl
  BY <1>0, <1>6, WorkLinked DEF RunControl, ControlAt
<1> QED BY <1>1, <1>2, <1>3, <1>4, <1>5, <1>6 DEF ControlStep

LEMMA OtherLinked ==
  ASSUME Kernel, DisplayStep \/ ParserTick \/ Tick \/ (\E t \in Threads : Expire(t)) \/ UNCHANGED tasksVars
  PROVE  Linked'
<1>1. CASE DrawEnds
  BY <1>1, Firmware, SleepLinked DEF DrawEnds
<1>2. CASE RestEnds
  BY <1>2, WakeLinked DEF RestEnds
<1>3. CASE Tick
  <2>1. /\ UNCHANGED <<stat, call, pc>>
        /\ timer' = [t \in Threads |-> IF timer[t] > 0 THEN timer[t] - 1 ELSE timer[t]]
        /\ spent' = [t \in Threads |-> IF Running(t) THEN spent[t] + 1 ELSE spent[t]]
    BY <1>3 DEF Tick, TickPasses, TickIncrease
  <2>2. \A t \in Threads : timer'[t] = Stopped <=> timer[t] = Stopped
    BY <2>1, KernelTypes, ThreadAssumption DEF Stopped
  <2>3. \A t \in Threads : ~Ready(t) => spent'[t] = spent[t]
    BY <2>1, KernelTypes DEF Running
  <2> QED BY <2>1, <2>2, <2>3, KernelTypes DEF Kernel, Linked, Ready
<1>4. ASSUME NEW t \in Threads, Expire(t) PROVE Linked'
  BY <1>4, KernelTypes DEF Expire, TimeOut, ThreadTimeout, Kernel, Linked, Ready
<1>5. CASE UNCHANGED tasksVars
  BY <1>5 DEF tasksVars, Kernel, Linked, Ready
<1>6. CASE ParserTick
  <2>1. /\ UNCHANGED <<stat, call, pc, spent>>
        /\ timer' = [t \in Threads |-> IF timer[t] > 0 THEN timer[t] - 1 ELSE timer[t]]
    BY <1>6 DEF ParserTick, TickPasses, TickIncrease
  <2>2. \A t \in Threads : timer'[t] = Stopped <=> timer[t] = Stopped
    BY <2>1, KernelTypes, ThreadAssumption DEF Stopped
  <2> QED BY <2>1, <2>2, KernelTypes DEF Kernel, Linked, Ready
<1> QED BY <1>1, <1>2, <1>3, <1>4, <1>5, <1>6 DEF DisplayStep

LEMMA InitKernel == Init => Kernel
<1> SUFFICES ASSUME Init PROVE Kernel
  OBVIOUS
<1>1. SemInv
  BY InitCalls, InitSem
<1>2. Linked
  BY TasksAssumption DEF Init, ThreadInit, Linked, Ready
<1> QED BY <1>1, <1>2, InitTypes DEF Kernel

LEMMA StepKernel ==
  ASSUME Kernel, [Next]_tasksVars
  PROVE  Kernel'
<1>1. SemInv'
  BY StepCalls, StepSem, StutterSem DEF Kernel
<1>2. Places' /\ Goods'
  BY SensorTypes, ControlTypes, OtherTypes DEF Next, Kernel
<1>3. Linked'
  BY SensorLinked, ControlLinked, OtherLinked DEF Next
<1> QED BY <1>1, <1>2, <1>3 DEF Kernel

-----------------------------------------------------------------------------
(* A tick, and what it leaves a thread to do. *)

\* Which thread runs, when no timer is due.
LEMMA Runs ==
  ASSUME Kernel, ~InInterrupt
  PROVE  /\ Ready("main") => Running("main") /\ ~Running("sensor") /\ ~Running("control")
         /\ ~Ready("main") /\ Ready("sensor") => ~Running("main") /\ Running("sensor") /\ ~Running("control")
         /\ ~Ready("main") /\ ~Ready("sensor") /\ Ready("control") =>
              ~Running("main") /\ ~Running("sensor") /\ Running("control")
         /\ ~Ready("main") /\ ~Ready("sensor") /\ ~Ready("control") =>
              ~Running("main") /\ ~Running("sensor") /\ ~Running("control")
<1>1. Priority \in [Threads -> Nat] /\ Threads = {"main", "sensor", "control"}
  BY ThreadAssumption, TasksAssumption
<1> QED BY <1>1, TasksAssumption DEF Running

Tc == TurnTime["control"]
Ts == TurnTime["sensor"]
Tm == TurnTime["main"]
Ta == ParseTime

\* The times in question are numbers, in the order the assumption says.
LEMMA Times ==
  /\ Tc \in Nat /\ Ts \in Nat /\ Tm \in Nat /\ Ta \in Nat /\ LineQuiet \in Nat \ {0}
  /\ LoopPeriod \in Nat \ {0} /\ Gap \in Nat \ {0} /\ Pause \in Nat \ {0} /\ DisplayRest \in Nat \ {0}
  /\ DisplayRest > LoopPeriod + 2 * Tc + 2 * Ts + Ta
  /\ Pause > LoopPeriod + 2 * Tc + Tm + Ta
  /\ LineQuiet > LoopPeriod + 2 * Tc + 2 * Ts + Tm
<1>1. TurnTime \in [Threads -> Nat]
  BY Firmware
<1>2. \A w \in Waits : w \in Nat \ {0}
  BY ThreadAssumption DEF Waits
<1> QED BY <1>1, <1>2, Firmware, TasksAssumption DEF Tc, Ts, Tm, Ta

\* What a tick does.
LEMMA TickDoes ==
  ASSUME Kernel, Tick
  PROVE  /\ ~InInterrupt /\ UNCHANGED <<stat, error, value, waiting, call, pc>>
         /\ \A t \in Threads : timer'[t] = IF Ready(t) THEN timer[t] ELSE timer[t] - 1
         /\ \A t \in Threads : ~Ready(t) => timer[t] \in Nat \ {0}
         /\ \A t \in Threads : spent'[t] = (IF Running(t) THEN spent[t] + 1 ELSE spent[t])
         /\ \A t \in Threads : Running(t) => spent[t] < TurnTime[t]
         /\ quiet < LineQuiet => quiet' = quiet + 1
         /\ quiet + 1 < LineQuiet => parsed' = parsed
<1>1. /\ ~InInterrupt /\ UNCHANGED <<stat, error, value, waiting, call, pc>>
      /\ timer' = [t \in Threads |-> IF timer[t] > 0 THEN timer[t] - 1 ELSE timer[t]]
      /\ spent' = [t \in Threads |-> IF Running(t) THEN spent[t] + 1 ELSE spent[t]]
      /\ \A t \in Threads : Running(t) => spent[t] < TurnTime[t]
  BY DEF Tick, TickPasses, TickIncrease
<1>2. \A t \in Threads : timer[t] \in {-1} \cup 0 .. MaxWait /\ timer[t] # 0 /\ (Ready(t) <=> timer[t] = -1)
  BY <1>1, KernelTypes DEF InInterrupt, Kernel, Linked, Stopped
<1>3. /\ quiet < LineQuiet => quiet' = quiet + 1
      /\ quiet + 1 < LineQuiet => parsed' = parsed
  BY LoopBoundType DEF Tick, Kernel, Goods
<1> QED BY <1>1, <1>2, <1>3, ThreadAssumption

\* What a tick of the AT parser does.
LEMMA ParserTickDoes ==
  ASSUME Kernel, ParserTick
  PROVE  /\ ~InInterrupt /\ UNCHANGED <<stat, error, value, waiting, call, pc, spent>>
         /\ \A t \in Threads : timer'[t] = IF Ready(t) THEN timer[t] ELSE timer[t] - 1
         /\ \A t \in Threads : ~Ready(t) => timer[t] \in Nat \ {0}
         /\ parsed < ParseTime /\ parsed' = parsed + 1 /\ quiet' = 0
<1>1. /\ ~InInterrupt /\ UNCHANGED <<stat, error, value, waiting, call, pc, spent>>
      /\ timer' = [t \in Threads |-> IF timer[t] > 0 THEN timer[t] - 1 ELSE timer[t]]
      /\ parsed < ParseTime /\ parsed' = parsed + 1 /\ quiet' = 0
  BY DEF ParserTick, TickPasses, TickIncrease
<1>2. \A t \in Threads : timer[t] \in {-1} \cup 0 .. MaxWait /\ timer[t] # 0 /\ (Ready(t) <=> timer[t] = -1)
  BY <1>1, KernelTypes DEF InInterrupt, Kernel, Linked, Stopped
<1> QED BY <1>1, <1>2, ThreadAssumption

\* How long the AT parser may still run: if it has run already, what it has left; and
\* otherwise all it ever has.
ParserLeft(ran) == IF ran THEN Ta - parsed ELSE Ta

LEMMA ParserLeftType ==
  ASSUME Kernel
  PROVE  /\ parsed \in 0 .. Ta /\ quiet \in 0 .. LineQuiet
         /\ \A p \in BOOLEAN : ParserLeft(p) \in 0 .. Ta
<1>1. parsed \in 0 .. Ta /\ quiet \in 0 .. LineQuiet
  BY DEF Kernel, Goods, Ta
<1> QED BY <1>1, Times DEF ParserLeft

\* How long the control thread may run on until it takes again, and one tick more.
Need == Tc - spent["control"] + 1 + (IF pc["control"] = "take" THEN 0 ELSE Tc)

\* The display may still draw, unless it has drawn and rests.
DrawsLeft(drawn) == IF drawn THEN 0 ELSE Tm - spent["main"]

\* The sensor thread sleeps for what the display, the AT parser and the control thread
\* still need; if the display has drawn already, it rests for what the two others need;
\* and if the parser has run already, the line is not quiet for long enough before.
SleepsLongEnough(drawn, ran) ==
  /\ Need + DrawsLeft(drawn) + ParserLeft(ran) <= timer["sensor"]
  /\ drawn => ~Ready("main") /\ Need + ParserLeft(ran) <= timer["main"]
  /\ ran => Need + DrawsLeft(drawn) <= LineQuiet - quiet

\* The token of a reading is taken before the sensor thread wakes for the next.
TakenInTime ==
  /\ value \in {0, 1}
  /\ value = 1 =>
       /\ Ready("control")
       /\ pc["sensor"] \in {"pause", "pause_ends"}
       /\ pc["sensor"] = "pause_ends" =>
            /\ ~Ready("sensor")
            /\ \E drawn, ran \in BOOLEAN : SleepsLongEnough(drawn, ran)

LEMMA NeedType ==
  ASSUME Kernel
  PROVE  /\ Need \in 1 .. 2 * Tc + 1
         /\ spent["main"] \in 0 .. Tm /\ spent["control"] \in 0 .. Tc /\ spent["sensor"] \in 0 .. Ts
         /\ timer["main"] \in Int /\ timer["sensor"] \in Int /\ timer["control"] \in Int
<1>1. \A t \in Threads : timer[t] \in Int
  <2>1. \A t \in Threads : timer[t] \in {-1} \cup 0 .. MaxWait
    BY KernelTypes DEF Stopped
  <2>2. (0 .. MaxWait) \subseteq Int /\ -1 \in Int
    OBVIOUS
  <2> QED BY <2>1, <2>2
<1>2. spent["main"] \in 0 .. Tm /\ spent["control"] \in 0 .. Tc /\ spent["sensor"] \in 0 .. Ts
  BY KernelTypes DEF Tc, Ts, Tm
<1>3. Need \in 1 .. 2 * Tc + 1
  BY <1>2, Times DEF Need
<1> QED BY <1>1, <1>2, <1>3, Firmware

LEMMA EnoughTypes ==
  ASSUME Kernel, NEW d \in BOOLEAN, NEW p \in BOOLEAN
  PROVE  /\ DrawsLeft(d) \in 0 .. Tm /\ ParserLeft(p) \in 0 .. Ta /\ LineQuiet - quiet \in Nat
         /\ Need \in Nat \ {0} /\ Tm \in Nat /\ Ta \in Nat
<1>1. LineQuiet - quiet \in Nat
  BY ParserLeftType, Times
<1> QED BY <1>1, NeedType, ParserLeftType, Times DEF DrawsLeft

NeedsTime == Need \in Nat \ {0} /\ \A d \in BOOLEAN : DrawsLeft(d) \in Nat

LEMMA KernelNeedsTime == Kernel => NeedsTime
BY NeedType, Times DEF NeedsTime, DrawsLeft

\* A sleep stays long enough when nobody needs more than before and no time passes.
LEMMA StillEnough ==
  ASSUME Kernel, NEW d \in BOOLEAN, NEW p \in BOOLEAN, SleepsLongEnough(d, p),
         Need' <= Need, Need' \in Int, DrawsLeft(d)' <= DrawsLeft(d), DrawsLeft(d)' \in Int,
         UNCHANGED <<parsed, quiet>>,
         timer'["sensor"] = timer["sensor"],
         d => ~Ready("main")' /\ timer'["main"] = timer["main"]
  PROVE  SleepsLongEnough(d, p)'
<1>1. ParserLeft(p)' = ParserLeft(p)
  BY DEF ParserLeft
<1>2. timer["sensor"] \in Int /\ timer["main"] \in Int
  BY NeedType
<1> QED BY <1>1, <1>2, EnoughTypes DEF SleepsLongEnough

LEMMA SensorInTime ==
  ASSUME Kernel, TakenInTime, SensorStep
  PROVE  TakenInTime'
<1>1. CASE (\E result \in {"real", "failed"} : ReadSensor(result)) \/ SendTem \/ SendHum
  <2>1. value = 0 /\ value' = 0
    BY <1>1, SemAssumption DEF ReadSensor, SendTem, SendHum, Goes, Go, Jump, semVars, TakenInTime
  <2> QED BY <2>1 DEF TakenInTime
<1>2. CASE GapBegins \/ GapEnds
  <2>1. value = 0 /\ value' = 0
    BY <1>2 DEF GapBegins, GapEnds, EndTurn, Go, Jump, Sleep, SleepReturns, TakenInTime
  <2> QED BY <2>1 DEF TakenInTime
<1>3. CASE PauseEnds
  <2>1. value = 0 /\ value' = 0
    BY <1>3 DEF PauseEnds, Go, Jump, SleepReturns, Returns, Running, TakenInTime
  <2> QED BY <2>1 DEF TakenInTime
<1>4. CASE Notify
  <2>1. value = 0 /\ pc' = [pc EXCEPT !["sensor"] = "pause"]
    BY <1>4 DEF Notify, Go, Jump, TakenInTime
  <2>2. value' = 0 \/ (value' = 1 /\ waiting = <<>> /\ UNCHANGED stat)
    BY <1>4, <2>1 DEF Notify, SemRelease, threadVars
  <2> QED BY <2>1, <2>2, ListHolds, KernelTypes DEF TakenInTime, Ready
<1>5. CASE PauseBegins
  <2>1. /\ Running("sensor") /\ pc' = [pc EXCEPT !["sensor"] = "pause_ends"] /\ value' = value
        /\ spent' = [spent EXCEPT !["sensor"] = 0] /\ stat' = [stat EXCEPT !["sensor"] = "suspended"]
        /\ timer' = [timer EXCEPT !["sensor"] = Pause] /\ UNCHANGED <<parsed, quiet>>
    BY <1>5 DEF PauseBegins, EndTurn, Jump, Sleep, SuspendFor, Calls, line
  <2>2. Need' = Need /\ Ready("control")' = Ready("control") /\ ~Ready("sensor")' /\ timer'["sensor"] = Pause
        /\ spent'["main"] = spent["main"] /\ pc'["sensor"] = "pause_ends"
    BY <2>1, KernelTypes DEF Need, Ready
  <2>0. PICK no \in BOOLEAN : ~no
    OBVIOUS
  <2>3. Need + (Tm - spent["main"]) + Ta <= Pause
    BY NeedType, Times
  <2>4. SleepsLongEnough(no, no)'
    BY <2>0, <2>1, <2>2, <2>3 DEF SleepsLongEnough, DrawsLeft, ParserLeft
  <2> QED BY <2>1, <2>2, <2>4 DEF TakenInTime
<1> QED BY <1>1, <1>2, <1>3, <1>4, <1>5 DEF SensorStep

LEMMA ControlInTime ==
  ASSUME Kernel, TakenInTime, ControlStep
  PROVE  TakenInTime'
<1>1. CASE TakeNow
  <2>1. value' = 0
    BY <1>1 DEF TakeNow, SemTakeNow, TakenInTime
  <2> QED BY <2>1 DEF TakenInTime
<1>2. CASE TakeWaits
  <2>1. value' = 0
    BY <1>2 DEF TakeWaits, SemTakeWaits
  <2> QED BY <2>1 DEF TakenInTime
<1>3. CASE TakeReturns \/ RecvTem \/ RecvHum \/ RunControl
  <2>1. /\ UNCHANGED <<stat, timer, value, parsed, quiet>> /\ pc["control"] # "take"
        /\ \/ /\ \E to \in ControlAt : pc' = [pc EXCEPT !["control"] = to]
              /\ pc'["control"] # "take" /\ UNCHANGED spent
           \/ pc' = [pc EXCEPT !["control"] = "take"] /\ spent' = [spent EXCEPT !["control"] = 0]
    BY <1>3, KernelTypes DEF TakeReturns, RecvTem, RecvHum, RunControl, Goes, Go, EndTurn, Jump, SemTakeReturns,
             threadVars, semVars, ControlAt, line
  <2>2. Need' <= Need /\ Need' \in Int
    BY <2>1, NeedType, KernelTypes, Times DEF Need
  <2>3. pc'["sensor"] = pc["sensor"] /\ spent'["main"] = spent["main"]
    BY <2>1, KernelTypes
  <2>4. ASSUME NEW d \in BOOLEAN, NEW p \in BOOLEAN, SleepsLongEnough(d, p)
        PROVE  SleepsLongEnough(d, p)'
    <3>1. DrawsLeft(d)' = DrawsLeft(d) /\ DrawsLeft(d) \in Int
      BY <2>3, EnoughTypes DEF DrawsLeft
    <3>2. d => ~Ready("main")'
      BY <2>1, <2>4 DEF SleepsLongEnough, Ready
    <3>3. Need' <= Need /\ Need' \in Int /\ UNCHANGED <<parsed, quiet>>
          /\ timer'["sensor"] = timer["sensor"] /\ timer'["main"] = timer["main"]
      BY <2>1, <2>2
    <3> QED BY <2>4, <3>1, <3>2, <3>3, StillEnough
  <2> QED BY <2>1, <2>3, <2>4 DEF TakenInTime, Ready
<1> QED BY <1>1, <1>2, <1>3 DEF ControlStep

\* When a tick passes, whoever needs it has one less left.
LEMMA TickEnough ==
  ASSUME Kernel, Kernel', Tick, Ready("control"), ~Ready("sensor"),
         NEW d \in BOOLEAN, NEW p \in BOOLEAN, SleepsLongEnough(d, p)
  PROVE  SleepsLongEnough(d, p)'
<1>1. UNCHANGED <<stat, pc>> /\ ~InInterrupt /\ timer'["sensor"] = timer["sensor"] - 1
  BY TickDoes, Firmware
<1>2. Need' + DrawsLeft(d)' = Need + DrawsLeft(d) - 1 /\ Need' <= Need
      /\ (~Ready("main") => Need' = Need - 1 /\ timer'["main"] = timer["main"] - 1)
  <2>1. CASE Ready("main")
    <3>1. spent'["main"] = spent["main"] + 1 /\ spent'["control"] = spent["control"] /\ ~d
      BY <1>1, <2>1, TickDoes, Runs, Firmware DEF SleepsLongEnough
    <3>2. Need' = Need
      BY <1>1, <3>1 DEF Need
    <3> QED BY <2>1, <3>1, <3>2, NeedType, Times DEF DrawsLeft
  <2>2. CASE ~Ready("main")
    <3>1. spent'["main"] = spent["main"] /\ spent'["control"] = spent["control"] + 1
          /\ timer'["main"] = timer["main"] - 1
      BY <1>1, <2>2, TickDoes, Runs, Firmware
    <3>2. Need' = Need - 1
      BY <1>1, <3>1, NeedType, Times DEF Need
    <3> QED BY <3>1, <3>2, NeedType, Times DEF DrawsLeft
  <2> QED BY <2>1, <2>2
<1>3. /\ DrawsLeft(d) \in Nat /\ ParserLeft(p) \in Nat /\ LineQuiet - quiet \in Nat /\ Need \in Nat \ {0}
      /\ timer["sensor"] \in Int /\ timer["main"] \in Int /\ quiet \in Int /\ LineQuiet \in Int
  BY EnoughTypes, NeedType, ParserLeftType, Times
<1>4. Need' \in Nat \ {0} /\ DrawsLeft(d)' \in Nat
  <2>1. NeedsTime'
    BY KernelNeedsTime, PTL
  <2> QED BY <2>1 DEF NeedsTime
<1>5. p => quiet + 1 < LineQuiet
  BY <1>2, <1>3, <1>4 DEF SleepsLongEnough
<1>6. ParserLeft(p)' = ParserLeft(p) /\ (p => quiet' = quiet + 1)
  BY <1>3, <1>5, TickDoes DEF ParserLeft
<1>7. ~Ready("main")' <=> ~Ready("main")
  BY <1>1 DEF Ready
<1> QED BY <1>1, <1>2, <1>3, <1>4, <1>5, <1>6, <1>7 DEF SleepsLongEnough

\* Sums with one less in them.
LEMMA LessLeft ==
  ASSUME NEW n \in Int, NEW m \in Int, NEW a \in Int, NEW b \in Int, NEW t \in Int, b <= a - 1
  PROVE  (n + m + a <= t => n + m + b <= t - 1) /\ (n + a <= t => n + b <= t - 1)
OBVIOUS

\* When the parser takes a tick, it is the parser that has one less left.
LEMMA ParserTickEnough ==
  ASSUME Kernel, ParserTick, ~Ready("sensor"),
         NEW d \in BOOLEAN, NEW p \in BOOLEAN, SleepsLongEnough(d, p),
         NEW q \in BOOLEAN, q = TRUE
  PROVE  SleepsLongEnough(d, q)'
<1>1. /\ UNCHANGED <<stat, pc, spent>> /\ timer'["sensor"] = timer["sensor"] - 1 /\ quiet' = 0
      /\ ~Ready("main") => timer'["main"] = timer["main"] - 1
  BY ParserTickDoes, Firmware
<1>2. Need' = Need /\ DrawsLeft(d)' = DrawsLeft(d) /\ (Ready("main")' <=> Ready("main"))
  BY <1>1 DEF Need, DrawsLeft, Ready
<1>3. ParserLeft(q)' <= ParserLeft(p) - 1 /\ ParserLeft(q)' \in Int /\ ParserLeft(p) \in Int
  <2>1. ParserLeft(q)' = Ta - (parsed + 1) /\ parsed \in Int /\ ParserLeft(p) \in Int /\ Ta \in Int
    BY ParserTickDoes, ParserLeftType, Times DEF ParserLeft, Ta
  <2>2. ParserLeft(p) = Ta - parsed \/ ParserLeft(p) = Ta
    BY DEF ParserLeft
  <2>3. parsed >= 0
    BY ParserLeftType, Times
  <2> QED BY <2>1, <2>2, <2>3
<1>4. /\ Need \in Int /\ DrawsLeft(d) \in Int
      /\ timer["sensor"] \in Int /\ timer["main"] \in Int
  BY EnoughTypes, NeedType, Times
<1>5. Need + DrawsLeft(d) <= LineQuiet - 0
  <2>1. DrawsLeft(d) \in 0 .. Tm /\ Need \in 1 .. 2 * Tc + 1
    BY EnoughTypes, NeedType
  <2> QED BY <2>1, Times
<1>6. Need + DrawsLeft(d) + ParserLeft(q)' <= timer["sensor"] - 1
  <2>1. Need + DrawsLeft(d) + ParserLeft(p) <= timer["sensor"]
    BY DEF SleepsLongEnough
  <2> QED BY <1>3, <1>4, <2>1, LessLeft, Zenon
<1>7. d => ~Ready("main") /\ Need + ParserLeft(q)' <= timer["main"] - 1
  <2>1. SUFFICES ASSUME d PROVE ~Ready("main") /\ Need + ParserLeft(q)' <= timer["main"] - 1
    OBVIOUS
  <2>2. ~Ready("main") /\ Need + ParserLeft(p) <= timer["main"]
    BY <2>1 DEF SleepsLongEnough
  <2> QED BY <1>3, <1>4, <2>2, LessLeft, Zenon
<1> QED BY <1>1, <1>2, <1>5, <1>6, <1>7 DEF SleepsLongEnough

LEMMA OtherInTime ==
  ASSUME Kernel, Kernel', TakenInTime,
         DisplayStep \/ ParserTick \/ Tick \/ (\E t \in Threads : Expire(t)) \/ UNCHANGED tasksVars
  PROVE  TakenInTime'
<1>0. CASE value = 0 /\ value' = 0
  BY <1>0 DEF TakenInTime
<1>1. CASE DrawEnds
  <2>1. /\ Ready("main") /\ pc' = [pc EXCEPT !["main"] = "resting"] /\ value' = value
        /\ spent' = [spent EXCEPT !["main"] = 0] /\ stat' = [stat EXCEPT !["main"] = "suspended"]
        /\ timer' = [timer EXCEPT !["main"] = DisplayRest] /\ UNCHANGED <<parsed, quiet>>
    BY <1>1 DEF DrawEnds, EndTurn, Jump, Sleep, SuspendFor, Calls, Running, line
  <2>2. /\ Need' = Need /\ (Ready("control")' <=> Ready("control")) /\ (Ready("sensor")' <=> Ready("sensor"))
        /\ ~Ready("main")' /\ timer'["sensor"] = timer["sensor"] /\ timer'["main"] = DisplayRest
        /\ pc'["sensor"] = pc["sensor"]
    BY <2>1, KernelTypes DEF Need, Ready
  <2>0. PICK yes \in BOOLEAN : yes
    OBVIOUS
  <2>3. ASSUME NEW d \in BOOLEAN, NEW p \in BOOLEAN, SleepsLongEnough(d, p)
        PROVE  SleepsLongEnough(yes, p)'
    <3>1. ParserLeft(p)' = ParserLeft(p) /\ DrawsLeft(yes)' = 0 /\ quiet' = quiet
      BY <2>0, <2>1 DEF ParserLeft, DrawsLeft
    <3>2. Need + ParserLeft(p) <= DisplayRest
      BY EnoughTypes, NeedType, Times
    <3>3. /\ Need \in Int /\ ParserLeft(p) \in Int /\ DrawsLeft(d) \in Nat /\ timer["sensor"] \in Int
          /\ LineQuiet - quiet \in Int
      BY EnoughTypes, NeedType
    <3>4. /\ Need' + DrawsLeft(yes)' + ParserLeft(p)' <= timer'["sensor"]
          /\ p => Need' + DrawsLeft(yes)' <= LineQuiet - quiet'
      BY <2>2, <2>3, <3>1, <3>3 DEF SleepsLongEnough
    <3> QED BY <2>2, <3>1, <3>2, <3>4 DEF SleepsLongEnough
  <2> QED BY <2>1, <2>2, <2>3 DEF TakenInTime
<1>2. CASE RestEnds
  <2>1. pc' = [pc EXCEPT !["main"] = "draw"] /\ UNCHANGED <<stat, timer, spent, value, parsed, quiet>>
    BY <1>2 DEF RestEnds, Go, Jump, SleepReturns, line
  <2>2. Need' = Need /\ pc'["sensor"] = pc["sensor"]
    BY <2>1, KernelTypes DEF Need
  <2> QED BY <2>1, <2>2 DEF TakenInTime, SleepsLongEnough, DrawsLeft, ParserLeft, Ready
<1>3. CASE Tick
  <2>1. UNCHANGED <<stat, pc, value>>
    BY <1>3, TickDoes
  <2>2. value = 1 /\ pc["sensor"] = "pause_ends" =>
          \E drawn, ran \in BOOLEAN : SleepsLongEnough(drawn, ran)'
    BY <1>3, TickEnough DEF TakenInTime
  <2> QED BY <2>1, <2>2 DEF TakenInTime, Ready
<1>7. CASE ParserTick
  <2>1. UNCHANGED <<stat, pc, value>>
    BY <1>7, ParserTickDoes
  <2>0. PICK yes \in BOOLEAN : yes = TRUE
    OBVIOUS
  <2>2. value = 1 /\ pc["sensor"] = "pause_ends" =>
          \E drawn, ran \in BOOLEAN : SleepsLongEnough(drawn, ran)'
    BY <1>7, <2>0, ParserTickEnough DEF TakenInTime
  <2> QED BY <2>1, <2>2 DEF TakenInTime, Ready
<1>4. ASSUME NEW t \in Threads, Expire(t), value = 1 PROVE TakenInTime'
  <2>1. /\ timer[t] = 0 /\ stat' = [stat EXCEPT ![t] = "ready"] /\ timer' = [timer EXCEPT ![t] = Stopped]
        /\ UNCHANGED <<value, pc, spent, parsed, quiet>>
    BY <1>4 DEF Expire, TimeOut, ThreadTimeout, line
  <2>2. ~Ready(t)
    BY <2>1 DEF Kernel, Linked, Stopped
  <2>3. CASE t = "main"
    <3>1. /\ timer'["sensor"] = timer["sensor"] /\ Need' = Need
          /\ (Ready("control")' <=> Ready("control")) /\ (Ready("sensor")' <=> Ready("sensor"))
      BY <2>1, <2>2, <2>3, KernelTypes DEF Need, Ready
    <3>2. ASSUME NEW d \in BOOLEAN, NEW p \in BOOLEAN, SleepsLongEnough(d, p)
          PROVE  SleepsLongEnough(d, p)'
      <4>1. ~d
        BY <2>1, <2>3, <3>2, EnoughTypes DEF SleepsLongEnough
      <4>2. DrawsLeft(d)' = DrawsLeft(d)
        BY <2>1 DEF DrawsLeft
      <4> QED BY <2>1, <3>1, <3>2, <4>1, <4>2, StillEnough, EnoughTypes
    <3> QED BY <1>4, <2>1, <3>1, <3>2 DEF TakenInTime
  <2>4. CASE t = "sensor"
    <3>1. \A d, p \in BOOLEAN : ~SleepsLongEnough(d, p)
      BY <2>1, <2>4, EnoughTypes DEF SleepsLongEnough
    <3>2. pc["sensor"] = "pause"
      BY <1>4, <3>1 DEF TakenInTime
    <3>3. Ready("control")' <=> Ready("control")
      BY <2>1, <2>4, KernelTypes DEF Ready
    <3> QED BY <1>4, <2>1, <3>2, <3>3 DEF TakenInTime
  <2>5. t # "control"
    BY <1>4, <2>2 DEF TakenInTime
  <2> QED BY <2>3, <2>4, <2>5, TasksAssumption
<1>5. CASE UNCHANGED tasksVars
  <2>1. UNCHANGED <<stat, timer, value, pc, spent, parsed, quiet>>
    BY <1>5 DEF tasksVars, line
  <2> QED BY <2>1 DEF TakenInTime, SleepsLongEnough, DrawsLeft, ParserLeft, Ready, Need
<1>6. ASSUME NEW t \in Threads, Expire(t) PROVE value' = value
  BY <1>6 DEF Expire, TimeOut
<1> QED BY <1>0, <1>1, <1>2, <1>3, <1>4, <1>5, <1>6, <1>7 DEF DisplayStep, TakenInTime

-----------------------------------------------------------------------------
(* A mailbox is a queue. *)

\* The slots of a ring buffer, counted from where it begins.
LEMMA SlotsAfter ==
  ASSUME NEW o \in Slot, NEW n \in 0 .. MbSize
  PROVE  /\ SlotAfter(o, n) \in Slot
         /\ n < MbSize => NextSlot(SlotAfter(o, n)) = SlotAfter(o, n + 1)
         /\ n > 0 => SlotAfter(NextSlot(o), n - 1) = SlotAfter(o, n)
         /\ \A i \in 0 .. MbSize - 1 : n < MbSize /\ i # n => SlotAfter(o, i) # SlotAfter(o, n)
<1>1. MbSize \in Nat \ {0} /\ o \in 0 .. MbSize - 1
  BY MbAssumption DEF Slot
<1>2. SlotAfter(o, n) \in Slot
  BY <1>1 DEF SlotAfter, Slot
<1>3. n < MbSize => NextSlot(SlotAfter(o, n)) = SlotAfter(o, n + 1)
  BY <1>1 DEF SlotAfter, NextSlot
<1>4. n > 0 => SlotAfter(NextSlot(o), n - 1) = SlotAfter(o, n)
  BY <1>1 DEF SlotAfter, NextSlot
<1>5. \A i \in 0 .. MbSize - 1 : n < MbSize /\ i # n => SlotAfter(o, i) # SlotAfter(o, n)
  BY <1>1 DEF SlotAfter
<1> QED BY <1>2, <1>3, <1>4, <1>5

\* What rt_mb_send leaves in the ring buffer, place by place.
LEMMA SendItems ==
  ASSUME NEW V, NEW mb \in MbType(V), NEW v \in V, MbConsistent(mb), ~MbFull(mb)
  PROVE  LET m == MbSend(mb, v)
         IN  /\ m \in MbType(V) /\ MbConsistent(m) /\ m.entry = mb.entry + 1
             /\ \A i \in 1 .. mb.entry : MbContents(m)[i] = MbContents(mb)[i]
             /\ MbContents(m)[mb.entry + 1] = v
<1> DEFINE m == MbSend(mb, v)
<1>1. /\ mb.pool \in [Slot -> V] /\ mb.in_offset \in Slot /\ mb.out_offset \in Slot
      /\ mb.entry \in 0 .. MbSize - 1 /\ MbSize \in Nat \ {0}
  BY MbAssumption DEF MbType, MbFull
<1>2. m \in MbType(V)
  BY MailboxType
<1>3. /\ m.pool = [mb.pool EXCEPT ![mb.in_offset] = v] /\ m.in_offset = NextSlot(mb.in_offset)
      /\ m.out_offset = mb.out_offset /\ m.entry = mb.entry + 1
  BY <1>1 DEF MbSend, MbFull, MbType
<1>4. MbConsistent(m)
  BY <1>1, <1>3, SlotsAfter DEF MbConsistent
<1>5. \A i \in 1 .. mb.entry : SlotAfter(mb.out_offset, i - 1) \in Slot \ {mb.in_offset}
  <2> TAKE i \in 1 .. mb.entry
  <2>1. i - 1 \in 0 .. MbSize /\ i - 1 \in 0 .. MbSize - 1 /\ i - 1 # mb.entry
    BY <1>1
  <2> QED BY <1>1, <2>1, SlotsAfter DEF MbConsistent
<1>6. mb.in_offset = SlotAfter(m.out_offset, (mb.entry + 1) - 1)
  BY <1>1, <1>3 DEF MbConsistent
<1>7. \A i \in 1 .. mb.entry + 1 : MbContents(m)[i] = m.pool[SlotAfter(m.out_offset, i - 1)]
  BY <1>3 DEF MbContents
<1>8. \A i \in 1 .. mb.entry : MbContents(mb)[i] = mb.pool[SlotAfter(mb.out_offset, i - 1)]
  BY DEF MbContents
<1>9. \A i \in 1 .. mb.entry : MbContents(m)[i] = MbContents(mb)[i]
  <2> TAKE i \in 1 .. mb.entry
  <2>1. i \in 1 .. mb.entry + 1
    BY <1>1
  <2>2. m.pool[SlotAfter(mb.out_offset, i - 1)] = mb.pool[SlotAfter(mb.out_offset, i - 1)]
    BY <1>1, <1>3, <1>5
  <2> QED BY <1>3, <1>7, <1>8, <2>1, <2>2
<1>10. MbContents(m)[mb.entry + 1] = v
  <2>1. mb.entry + 1 \in 1 .. mb.entry + 1
    BY <1>1
  <2>2. m.pool[mb.in_offset] = v
    BY <1>1, <1>3
  <2> QED BY <1>6, <1>7, <2>1, <2>2
<1> QED BY <1>2, <1>3, <1>4, <1>9, <1>10

\* What rt_mb_recv leaves, and that it returns the oldest.
LEMMA RecvItems ==
  ASSUME NEW V, NEW mb \in MbType(V), MbConsistent(mb), ~MbEmpty(mb)
  PROVE  LET m == MbRecv(mb)
         IN  /\ MbConsistent(m) /\ m.entry = mb.entry - 1
             /\ \A i \in 1 .. mb.entry - 1 : MbContents(m)[i] = MbContents(mb)[i + 1]
             /\ MbFirst(mb) = MbContents(mb)[1] /\ mb.entry \in 1 .. MbSize
<1> DEFINE m == MbRecv(mb)
<1>1. /\ mb.pool \in [Slot -> V] /\ mb.in_offset \in Slot /\ mb.out_offset \in Slot
      /\ mb.entry \in 1 .. MbSize /\ MbSize \in Nat \ {0}
  BY MbAssumption DEF MbType, MbEmpty
<1>2. /\ m.pool = mb.pool /\ m.in_offset = mb.in_offset
      /\ m.out_offset = NextSlot(mb.out_offset) /\ m.entry = mb.entry - 1
  BY <1>1 DEF MbRecv, MbEmpty, MbType
<1>3. MbConsistent(m)
  <2>1. mb.entry \in 0 .. MbSize /\ mb.entry > 0
    BY <1>1
  <2> QED BY <1>1, <1>2, <2>1, SlotsAfter DEF MbConsistent
<1>4. \A i \in 1 .. mb.entry - 1 : SlotAfter(NextSlot(mb.out_offset), i - 1) = SlotAfter(mb.out_offset, i)
  <2> TAKE i \in 1 .. mb.entry - 1
  <2>1. i \in 0 .. MbSize /\ i > 0
    BY <1>1
  <2> QED BY <1>1, <2>1, SlotsAfter
<1>5. \A i \in 1 .. mb.entry - 1 : MbContents(m)[i] = MbContents(mb)[i + 1]
  <2> TAKE i \in 1 .. mb.entry - 1
  <2>1. i + 1 \in 1 .. mb.entry /\ (i + 1) - 1 = i
    BY <1>1
  <2>2. MbContents(m)[i] = mb.pool[SlotAfter(NextSlot(mb.out_offset), i - 1)]
    BY <1>2 DEF MbContents
  <2>3. MbContents(mb)[i + 1] = mb.pool[SlotAfter(mb.out_offset, i)]
    BY <2>1 DEF MbContents
  <2> QED BY <1>4, <2>2, <2>3
<1>6. MbFirst(mb) = MbContents(mb)[1]
  <2>1. 1 \in 1 .. mb.entry /\ SlotAfter(mb.out_offset, 1 - 1) = mb.out_offset
    BY <1>1 DEF SlotAfter, Slot
  <2> QED BY <2>1 DEF MbFirst, MbContents
<1> QED BY <1>1, <1>2, <1>3, <1>5, <1>6

\* The ring buffer of a mailbox is a queue of at most MbSize values: what rt_mb_send
\* accepts comes last, rt_mb_recv takes the first, and the others stay in order also
\* where the offsets start again at 0.
THEOREM MailboxIsQueue ==
  ASSUME NEW V, NEW mb \in MbType(V), NEW v \in V, MbConsistent(mb)
  PROVE  /\ MbContents(mb) \in Seq(V) /\ Len(MbContents(mb)) = mb.entry
         /\ ~MbFull(mb) => MbConsistent(MbSend(mb, v)) /\ MbContents(MbSend(mb, v)) = Append(MbContents(mb), v)
         /\ ~MbEmpty(mb) => /\ MbConsistent(MbRecv(mb)) /\ MbContents(MbRecv(mb)) = Tail(MbContents(mb))
                            /\ MbFirst(mb) = Head(MbContents(mb))
<1>1. ASSUME NEW q \in MbType(V)
      PROVE  MbContents(q) \in Seq(V) /\ Len(MbContents(q)) = q.entry
  <2>1. q.pool \in [Slot -> V] /\ q.out_offset \in Slot /\ q.entry \in 0 .. MbSize /\ MbSize \in Nat \ {0}
    BY MbAssumption DEF MbType
  <2>2. \A i \in 1 .. q.entry : SlotAfter(q.out_offset, i - 1) \in Slot
    BY <2>1 DEF SlotAfter, Slot
  <2>3. MbContents(q) \in [1 .. q.entry -> V]
    BY <2>1, <2>2 DEF MbContents
  <2> QED BY <2>1, <2>3
<1>2. ASSUME ~MbFull(mb)
      PROVE  MbConsistent(MbSend(mb, v)) /\ MbContents(MbSend(mb, v)) = Append(MbContents(mb), v)
  <2> DEFINE m == MbSend(mb, v)
             c == MbContents(mb)
             d == MbContents(m)
  <2>1. /\ m \in MbType(V) /\ MbConsistent(m) /\ m.entry = mb.entry + 1
        /\ (\A i \in 1 .. mb.entry : d[i] = c[i]) /\ d[mb.entry + 1] = v
    BY <1>2, SendItems
  <2>2. c \in Seq(V) /\ Len(c) = mb.entry /\ d \in Seq(V) /\ Len(d) = mb.entry + 1
    BY <1>1, <2>1
  <2>3. MbConsistent(MbSend(mb, v))
    BY <2>1
  <2> HIDE DEF m, c, d
  <2>4. Append(c, v) \in Seq(V) /\ Len(Append(c, v)) = Len(c) + 1
        /\ \A i \in 1 .. Len(c) + 1 : Append(c, v)[i] = IF i <= Len(c) THEN c[i] ELSE v
    BY <2>2
  <2>5. \A i \in 1 .. Len(d) : d[i] = Append(c, v)[i]
    BY <2>1, <2>2, <2>4
  <2>6. d = Append(c, v)
    BY <2>2, <2>4, <2>5, SeqEqual
  <2> QED BY <2>3, <2>6 DEF c, d, m
<1>3. ASSUME ~MbEmpty(mb)
      PROVE  /\ MbConsistent(MbRecv(mb)) /\ MbContents(MbRecv(mb)) = Tail(MbContents(mb))
             /\ MbFirst(mb) = Head(MbContents(mb))
  <2> DEFINE m == MbRecv(mb)
             c == MbContents(mb)
             d == MbContents(m)
  <2>1. /\ MbConsistent(m) /\ m.entry = mb.entry - 1 /\ mb.entry \in 1 .. MbSize
        /\ (\A i \in 1 .. mb.entry - 1 : d[i] = c[i + 1]) /\ MbFirst(mb) = c[1]
    BY <1>3, RecvItems
  <2>2. m \in MbType(V)
    BY MailboxType
  <2>3. c \in Seq(V) /\ Len(c) = mb.entry /\ d \in Seq(V) /\ Len(d) = mb.entry - 1 /\ c # <<>>
    BY <1>1, <2>1, <2>2, MbAssumption
  <2>4. MbConsistent(MbRecv(mb)) /\ MbFirst(mb) = Head(MbContents(mb))
    BY <2>1, <2>3
  <2> HIDE DEF m, c, d
  <2>5. Tail(c) \in Seq(V) /\ Len(Tail(c)) = Len(c) - 1 /\ \A i \in 1 .. Len(c) - 1 : Tail(c)[i] = c[i + 1]
    BY <2>3, HeadTailProperties
  <2>6. \A i \in 1 .. Len(d) : d[i] = Tail(c)[i]
    BY <2>1, <2>3, <2>5
  <2>7. d = Tail(c)
    BY <2>3, <2>5, <2>6, SeqEqual
  <2> QED BY <2>4, <2>7 DEF c, d, m
<1> QED BY <1>1, <1>2, <1>3

-----------------------------------------------------------------------------
(* Every token is a reading. *)

\* The control thread holds a token it has not used.
HoldsToken ==
  \/ pc["control"] = "recv_tem"
  \/ pc["control"] = "taking" /\ Ready("control") /\ error["control"] = "EOK"

LEMMA TakenHolds == Kernel => (Taken <=> HoldsToken)
<1> SUFFICES ASSUME Kernel PROVE Taken <=> HoldsToken
  OBVIOUS
<1>1. \A t \in Threads : call[t] = "take" <=> t = "control" /\ pc["control"] = "taking"
  BY KernelTypes DEF Kernel, Linked, Ready
<1> QED BY <1>1, Firmware DEF Taken, Woken, HoldsToken

LEMMA TakenIs ==
  ASSUME Kernel, Kernel'
  PROVE  (Taken <=> HoldsToken) /\ (Taken' <=> HoldsToken')
<1>1. Kernel' => (Taken' <=> HoldsToken')
  BY TakenHolds, PTL
<1> QED BY <1>1, TakenHolds

TemSent == {"gap", "gap_ends", "send_hum", "release"}

\* TokensCountReadings by its parts.
LEMMA CountIs ==
  TokensCountReadings <=>
    /\ tem_mb.entry = value + Flag(Taken) + Flag(pc["sensor"] \in TemSent)
    /\ hum_mb.entry = value + Flag(Taken) + Flag(pc["sensor"] = "release") + Flag(pc["control"] = "recv_hum")
BY DEF TokensCountReadings, TemSent

\* How full the mailboxes are when something is sent, and when something is received.
LEMMA CountBounds ==
  ASSUME Kernel, TakenInTime, TokensCountReadings
  PROVE  /\ pc["sensor"] = "send_tem" => ~MbFull(tem_mb)
         /\ pc["sensor"] = "send_hum" => ~MbFull(hum_mb)
         /\ pc["control"] = "recv_tem" => ~MbEmpty(tem_mb)
         /\ pc["control"] = "recv_hum" => ~MbEmpty(hum_mb)
<1>1. MbSize \in Nat /\ MbSize >= 2
  BY MbAssumption, TasksAssumption
<1>2. value \in {0, 1} /\ (pc["sensor"] \in {"send_tem", "send_hum"} => value = 0)
  BY DEF TakenInTime
<1>3. Taken => pc["control"] # "recv_hum"
  BY DEF Taken
<1>4. pc["control"] = "recv_tem" => Taken
  BY DEF Taken
<1>5. \A b : Flag(b) \in {0, 1}
  BY DEF Flag
<1>6. /\ pc["sensor"] = "send_tem" => tem_mb.entry \in {0, 1}
      /\ pc["sensor"] = "send_hum" => hum_mb.entry \in {0, 1}
  BY <1>2, <1>3, CountIs DEF Flag, TemSent
<1>7. /\ pc["control"] = "recv_tem" => tem_mb.entry >= 1
      /\ pc["control"] = "recv_hum" => hum_mb.entry >= 1
  BY <1>2, <1>3, <1>4, CountIs DEF Flag, TemSent
<1> QED BY <1>1, <1>6, <1>7 DEF MbFull, MbEmpty

\* A step that touches neither mailbox nor token nor what has been sent.
LEMMA CountStays ==
  ASSUME TokensCountReadings, UNCHANGED <<tem_mb, hum_mb>>, value' + Flag(Taken)' = value + Flag(Taken),
         pc'["sensor"] \in TemSent <=> pc["sensor"] \in TemSent,
         pc'["sensor"] = "release" <=> pc["sensor"] = "release",
         pc'["control"] = "recv_hum" <=> pc["control"] = "recv_hum"
  PROVE  TokensCountReadings'
BY CountIs DEF Flag, TokensCountReadings, TemSent

LEMMA SensorCount ==
  ASSUME Kernel, TakenInTime, TokensCountReadings, SensorStep, Kernel'
  PROVE  TokensCountReadings'
<1>1. ASSUME NEW from, NEW to, pc["sensor"] = from, pc' = [pc EXCEPT !["sensor"] = to],
             UNCHANGED <<tem_mb, hum_mb, value>>, error'["control"] = error["control"],
             stat'["control"] = stat["control"],
             (from \in TemSent <=> to \in TemSent) /\ (from = "release" <=> to = "release")
      PROVE  TokensCountReadings'
  <2>1. pc'["sensor"] = to /\ pc'["control"] = pc["control"]
    BY <1>1, KernelTypes
  <2>2. Taken' <=> Taken
    BY <1>1, <2>1, TakenIs DEF HoldsToken, Ready
  <2>3. value' + Flag(Taken)' = value + Flag(Taken)
    BY <1>1, <2>2 DEF Flag
  <2> QED BY <1>1, <2>1, <2>3, CountStays
<1>2. CASE (\E result \in {"real", "failed"} : ReadSensor(result)) \/ PauseEnds
  <2>1. \E from, to : /\ pc["sensor"] = from /\ pc' = [pc EXCEPT !["sensor"] = to]
                      /\ from \in {"read", "pause_ends"} /\ to \in {"send_tem", "read"}
    BY <1>2 DEF ReadSensor, PauseEnds, Goes, Go, Jump
  <2>2. UNCHANGED <<tem_mb, hum_mb, value, stat>> /\ error'["control"] = error["control"]
    BY <1>2, KernelTypes DEF ReadSensor, PauseEnds, Goes, SleepReturns, semVars, exchange
  <2> QED BY <1>1, <2>1, <2>2 DEF TemSent
<1>3. CASE GapBegins \/ GapEnds
  <2>1. \E from, to : /\ pc["sensor"] = from /\ pc' = [pc EXCEPT !["sensor"] = to]
                      /\ from \in {"gap", "gap_ends"} /\ to \in {"gap_ends", "send_hum"}
    BY <1>3 DEF GapBegins, GapEnds, EndTurn, Go, Jump
  <2>2. /\ UNCHANGED <<tem_mb, hum_mb, value>>
        /\ error'["control"] = error["control"] /\ stat'["control"] = stat["control"]
    BY <1>3, KernelTypes DEF GapBegins, GapEnds, Sleep, SuspendFor, SleepReturns, exchange
  <2> QED BY <1>1, <2>1, <2>2 DEF TemSent
<1>4. CASE PauseBegins
  <2>1. pc["sensor"] = "pause" /\ pc' = [pc EXCEPT !["sensor"] = "pause_ends"]
    BY <1>4 DEF PauseBegins, EndTurn, Jump
  <2>2. /\ UNCHANGED <<tem_mb, hum_mb, value>>
        /\ error'["control"] = error["control"] /\ stat'["control"] = stat["control"]
    BY <1>4, KernelTypes DEF PauseBegins, Sleep, SuspendFor, exchange
  <2> QED BY <1>1, <2>1, <2>2 DEF TemSent
<1>5. CASE SendTem
  <2>1. /\ pc["sensor"] = "send_tem" /\ pc' = [pc EXCEPT !["sensor"] = "gap"]
        /\ tem_mb' = MbSend(tem_mb, round) /\ UNCHANGED <<stat, error, value, hum_mb>>
    BY <1>5 DEF SendTem, Goes, Go, Jump, semVars
  <2>2. tem_mb'.entry = tem_mb.entry + 1
    BY <2>1, CountBounds DEF Kernel, Goods, MbSend, MbType
  <2>3. pc'["sensor"] = "gap" /\ pc'["control"] = pc["control"]
    BY <2>1, KernelTypes
  <2>4. Taken' <=> Taken
    BY <2>1, <2>3, TakenIs DEF HoldsToken, Ready
  <2> QED BY <2>1, <2>2, <2>3, <2>4, CountIs DEF Flag, TemSent, TokensCountReadings, TakenInTime
<1>6. CASE SendHum
  <2>1. /\ pc["sensor"] = "send_hum" /\ pc' = [pc EXCEPT !["sensor"] = "release"]
        /\ hum_mb' = MbSend(hum_mb, round) /\ UNCHANGED <<stat, error, value, tem_mb>>
    BY <1>6 DEF SendHum, Goes, Go, Jump, semVars
  <2>2. hum_mb'.entry = hum_mb.entry + 1
    BY <2>1, CountBounds DEF Kernel, Goods, MbSend, MbType
  <2>3. pc'["sensor"] = "release" /\ pc'["control"] = pc["control"]
    BY <2>1, KernelTypes
  <2>4. Taken' <=> Taken
    BY <2>1, <2>3, TakenIs DEF HoldsToken, Ready
  <2> QED BY <2>1, <2>2, <2>3, <2>4, CountIs DEF Flag, TemSent, TokensCountReadings, TakenInTime
<1>7. CASE Notify
  <2>1. /\ pc["sensor"] = "release" /\ pc' = [pc EXCEPT !["sensor"] = "pause"]
        /\ UNCHANGED <<tem_mb, hum_mb, error>>
    BY <1>7 DEF Notify, Go, Jump, SemRelease, ThreadResume, threadVars, exchange
  <2>2. pc'["sensor"] = "pause" /\ pc'["control"] = pc["control"]
    BY <2>1, KernelTypes
  <2>3. CASE waiting = <<>>
    <3>1. value' = value + 1 /\ UNCHANGED stat
      BY <1>7, <2>3 DEF Notify, SemRelease, threadVars
    <3>2. Taken' <=> Taken
      BY <2>1, <2>2, <3>1, TakenIs DEF HoldsToken, Ready
    <3> QED BY <2>1, <2>2, <3>1, <3>2, CountIs DEF Flag, TemSent, TokensCountReadings, TakenInTime
  <2>4. CASE waiting # <<>>
    <3>1. value' = value /\ stat' = [stat EXCEPT !["control"] = "ready"]
      BY <1>7, <2>4, ListHolds DEF Notify, SemRelease, ThreadResume
    <3>2. ~Ready("control") /\ pc["control"] = "taking" /\ error["control"] = "EOK"
      BY <2>4, ListHolds, Firmware DEF Kernel, SemInv
    <3>3. ~Taken /\ Taken'
      BY <2>1, <2>2, <3>1, <3>2, TakenIs, KernelTypes DEF HoldsToken, Ready
    <3> QED BY <2>1, <2>2, <3>1, <3>3, CountIs DEF Flag, TemSent, TokensCountReadings, TakenInTime
  <2> QED BY <2>3, <2>4
<1> QED BY <1>2, <1>3, <1>4, <1>5, <1>6, <1>7 DEF SensorStep

LEMMA ControlCount ==
  ASSUME Kernel, TakenInTime, TokensCountReadings, ControlStep, Kernel'
  PROVE  TokensCountReadings'
<1>1. ASSUME NEW to, pc' = [pc EXCEPT !["control"] = to], pc["control"] # "recv_hum", to # "recv_hum",
             UNCHANGED <<tem_mb, hum_mb>>, value' + Flag(Taken)' = value + Flag(Taken)
      PROVE  TokensCountReadings'
  <2>1. pc'["sensor"] = pc["sensor"] /\ pc'["control"] = to
    BY <1>1, KernelTypes
  <2> QED BY <1>1, <2>1, CountStays
<1>2. CASE TakeNow
  <2>1. /\ pc["control"] = "take" /\ pc' = [pc EXCEPT !["control"] = "recv_tem"] /\ value' = value - 1
        /\ UNCHANGED <<tem_mb, hum_mb>>
    BY <1>2 DEF TakeNow, Go, Jump, SemTakeNow, exchange
  <2>2. ~Taken /\ Taken'
    BY <2>1, TakenIs, KernelTypes DEF HoldsToken
  <2>3. value' + Flag(Taken)' = value + Flag(Taken)
    BY <2>1, <2>2 DEF Flag, TakenInTime
  <2> QED BY <1>1, <2>1, <2>3
<1>3. CASE TakeWaits
  <2>1. /\ pc["control"] = "take" /\ pc' = [pc EXCEPT !["control"] = "taking"] /\ value' = value
        /\ stat' = [stat EXCEPT !["control"] = "suspended"] /\ UNCHANGED <<tem_mb, hum_mb>>
    BY <1>3 DEF TakeWaits, Go, Jump, SemTakeWaits, SuspendFor, exchange
  <2>2. ~Taken /\ ~Taken'
    BY <2>1, TakenIs, KernelTypes DEF HoldsToken, Ready
  <2>3. value' + Flag(Taken)' = value + Flag(Taken)
    BY <2>1, <2>2 DEF Flag
  <2> QED BY <1>1, <2>1, <2>3
<1>4. CASE TakeReturns
  <2>1. /\ pc["control"] = "taking" /\ Ready("control") /\ value' = value
        /\ pc' = [pc EXCEPT !["control"] = IF error["control"] = "EOK" THEN "recv_tem" ELSE "run"]
        /\ UNCHANGED <<tem_mb, hum_mb>>
    BY <1>4 DEF TakeReturns, Go, Jump, SemTakeReturns, Returns, Running, exchange
  <2>2. Taken' <=> Taken
    BY <2>1, TakenIs, KernelTypes DEF HoldsToken
  <2>3. value' + Flag(Taken)' = value + Flag(Taken)
    BY <2>1, <2>2 DEF Flag
  <2> QED BY <1>1, <2>1, <2>3
<1>5. CASE RecvTem
  <2>1. /\ pc["control"] = "recv_tem" /\ pc' = [pc EXCEPT !["control"] = "recv_hum"]
        /\ tem_mb' = MbRecv(tem_mb) /\ UNCHANGED <<value, hum_mb>>
    BY <1>5 DEF RecvTem, Goes, Go, Jump, semVars
  <2>2. tem_mb'.entry = tem_mb.entry - 1
    BY <2>1, CountBounds DEF Kernel, Goods, MbRecv, MbType
  <2>3. pc'["sensor"] = pc["sensor"] /\ pc'["control"] = "recv_hum"
    BY <2>1, KernelTypes
  <2>4. Taken /\ ~Taken'
    BY <2>1, <2>3, TakenIs DEF HoldsToken
  <2> QED BY <2>1, <2>2, <2>3, <2>4, CountIs DEF Flag, TemSent, TokensCountReadings, TakenInTime
<1>6. CASE RecvHum
  <2>1. /\ pc["control"] = "recv_hum" /\ pc' = [pc EXCEPT !["control"] = "run"]
        /\ hum_mb' = MbRecv(hum_mb) /\ UNCHANGED <<value, tem_mb>>
    BY <1>6 DEF RecvHum, Goes, Go, Jump, semVars
  <2>2. hum_mb'.entry = hum_mb.entry - 1
    BY <2>1, CountBounds DEF Kernel, Goods, MbRecv, MbType
  <2>3. pc'["sensor"] = pc["sensor"] /\ pc'["control"] = "run"
    BY <2>1, KernelTypes
  <2>4. ~Taken /\ ~Taken'
    BY <2>1, <2>3, TakenIs DEF HoldsToken
  <2> QED BY <2>1, <2>2, <2>3, <2>4, CountIs DEF Flag, TemSent, TokensCountReadings, TakenInTime
<1>7. CASE RunControl
  <2>1. /\ pc["control"] = "run" /\ pc' = [pc EXCEPT !["control"] = "take"]
        /\ UNCHANGED <<value, tem_mb, hum_mb>>
    BY <1>7 DEF RunControl, EndTurn, Jump, semVars, exchange
  <2>2. ~Taken /\ ~Taken'
    BY <2>1, TakenIs, KernelTypes DEF HoldsToken
  <2>3. value' + Flag(Taken)' = value + Flag(Taken)
    BY <2>1, <2>2 DEF Flag
  <2> QED BY <1>1, <2>1, <2>3
<1> QED BY <1>2, <1>3, <1>4, <1>5, <1>6, <1>7 DEF ControlStep

LEMMA OtherCount ==
  ASSUME Kernel, TakenInTime, TokensCountReadings, Kernel',
         DisplayStep \/ ParserTick \/ Tick \/ (\E t \in Threads : Expire(t)) \/ UNCHANGED tasksVars
  PROVE  TokensCountReadings'
<1>1. /\ UNCHANGED <<tem_mb, hum_mb, value>>
      /\ pc'["sensor"] = pc["sensor"] /\ pc'["control"] = pc["control"]
  <2>1. UNCHANGED pc \/ \E to : pc' = [pc EXCEPT !["main"] = to]
    BY DEF DisplayStep, DrawEnds, RestEnds, EndTurn, Go, Jump, ParserTick, Tick, Expire, tasksVars
  <2>2. UNCHANGED <<tem_mb, hum_mb, value>>
    BY DEF DisplayStep, DrawEnds, RestEnds, Sleep, SleepReturns, ParserTick, Tick, TickPasses,
           Expire, TimeOut, tasksVars, exchange
  <2> QED BY <2>1, <2>2, KernelTypes
<1>2. Taken' <=> Taken
  <2>1. CASE DisplayStep \/ ParserTick \/ Tick \/ UNCHANGED tasksVars
    <3>1. stat'["control"] = stat["control"] /\ error'["control"] = error["control"]
      BY <2>1, KernelTypes DEF DisplayStep, DrawEnds, RestEnds, Sleep, SleepReturns, SuspendFor,
                  ParserTick, Tick, TickPasses, TickIncrease, tasksVars
    <3> QED BY <1>1, <3>1, TakenIs DEF HoldsToken, Ready
  <2>2. ASSUME NEW t \in Threads, Expire(t) PROVE Taken' <=> Taken
    <3>1. /\ timer[t] = 0 /\ stat' = [stat EXCEPT ![t] = "ready"] /\ error' = [error EXCEPT ![t] = "ETIMEOUT"]
      BY <2>2 DEF Expire, TimeOut, ThreadTimeout
    <3>2. ~Ready(t)
      BY <3>1 DEF Kernel, Linked, Stopped
    <3> QED BY <1>1, <3>1, <3>2, TakenIs, KernelTypes DEF HoldsToken, Ready
  <2> QED BY <2>1, <2>2
<1>3. value' + Flag(Taken)' = value + Flag(Taken)
  BY <1>1, <1>2 DEF Flag
<1> QED BY <1>1, <1>3, CountStays

-----------------------------------------------------------------------------
(* What is in the mailboxes. *)

Following(r) == IF r = None THEN 0 ELSE (r + 1) % Rounds

\* The newest value on its way through a mailbox, the one that was received if none is.
Newest(mb, cur) == IF MbEmpty(mb) THEN cur ELSE MbContents(mb)[mb.entry]

\* A mailbox holds the readings that follow the one that was received, in order.
Chained(mb, cur) ==
  /\ MbConsistent(mb)
  /\ \A i \in 1 .. mb.entry :
       MbContents(mb)[i] = Following(IF i = 1 THEN cur ELSE MbContents(mb)[i - 1])

LEMMA ChainSend ==
  ASSUME NEW V, NEW mb \in MbType(V), NEW cur, NEW v \in V, ~MbFull(mb), Chained(mb, cur),
         v = Following(Newest(mb, cur))
  PROVE  Chained(MbSend(mb, v), cur) /\ Newest(MbSend(mb, v), cur) = v
<1> DEFINE m == MbSend(mb, v)
<1>1. /\ MbConsistent(m) /\ m.entry = mb.entry + 1
      /\ \A i \in 1 .. mb.entry : MbContents(m)[i] = MbContents(mb)[i]
      /\ MbContents(m)[mb.entry + 1] = v
  BY SendItems DEF Chained
<1>2. mb.entry \in Nat
  BY MbAssumption DEF MbType
<1> HIDE DEF m
<1>3. Newest(m, cur) = v
  BY <1>1, <1>2 DEF Newest, MbEmpty
<1>4. ASSUME NEW i \in 1 .. m.entry
      PROVE  MbContents(m)[i] = Following(IF i = 1 THEN cur ELSE MbContents(m)[i - 1])
  <2>1. CASE i <= mb.entry
    <3>1. i \in 1 .. mb.entry /\ (i # 1 => i - 1 \in 1 .. mb.entry)
      BY <1>1, <1>2, <2>1
    <3> QED BY <1>1, <3>1 DEF Chained
  <2>2. CASE i = mb.entry + 1
    <3>1. CASE i = 1
      BY <1>1, <1>2, <2>2, <3>1 DEF Newest, MbEmpty
    <3>2. CASE i # 1
      <4>1. i - 1 = mb.entry /\ mb.entry \in 1 .. mb.entry /\ mb.entry # 0
        BY <1>2, <2>2, <3>2
      <4>2. MbContents(m)[i - 1] = MbContents(mb)[mb.entry]
        BY <1>1, <4>1
      <4>3. Newest(mb, cur) = MbContents(mb)[mb.entry]
        BY <4>1 DEF Newest, MbEmpty
      <4> QED BY <1>1, <2>2, <3>2, <4>2, <4>3
    <3> QED BY <3>1, <3>2
  <2> QED BY <1>1, <1>2, <2>1, <2>2
<1>5. Chained(m, cur)
  BY <1>1, <1>4 DEF Chained
<1> QED BY <1>3, <1>5 DEF m

LEMMA ChainRecv ==
  ASSUME NEW V, NEW mb \in MbType(V), NEW cur, ~MbEmpty(mb), Chained(mb, cur)
  PROVE  /\ MbFirst(mb) = Following(cur) /\ Chained(MbRecv(mb), MbFirst(mb))
         /\ Newest(MbRecv(mb), MbFirst(mb)) = Newest(mb, cur)
<1> DEFINE m == MbRecv(mb)
<1>1. /\ MbConsistent(m) /\ m.entry = mb.entry - 1
      /\ \A i \in 1 .. mb.entry - 1 : MbContents(m)[i] = MbContents(mb)[i + 1]
      /\ MbFirst(mb) = MbContents(mb)[1] /\ mb.entry \in 1 .. MbSize
  BY RecvItems DEF Chained
<1>2. mb.entry \in Nat \ {0}
  BY <1>1, MbAssumption
<1> HIDE DEF m
<1>3. MbFirst(mb) = Following(cur)
  BY <1>1, <1>2 DEF Chained
<1>4. ASSUME NEW i \in 1 .. m.entry
      PROVE  MbContents(m)[i] = Following(IF i = 1 THEN MbFirst(mb) ELSE MbContents(m)[i - 1])
  <2>1. /\ i \in 1 .. mb.entry - 1 /\ i + 1 \in 1 .. mb.entry /\ i + 1 # 1 /\ (i + 1) - 1 = i
        /\ i # 1 => i - 1 \in 1 .. mb.entry - 1 /\ (i - 1) + 1 = i
    BY <1>1, <1>2
  <2>2. MbContents(mb)[i + 1] = Following(MbContents(mb)[i])
    <3>1. MbContents(mb)[i + 1] = Following(IF i + 1 = 1 THEN cur ELSE MbContents(mb)[(i + 1) - 1])
      BY <2>1 DEF Chained
    <3> QED BY <2>1, <3>1
  <2>3. CASE i = 1
    BY <1>1, <2>1, <2>2, <2>3
  <2>4. CASE i # 1
    <3>1. MbContents(m)[i - 1] = MbContents(mb)[(i - 1) + 1]
      BY <1>1, <2>1, <2>4
    <3> QED BY <1>1, <2>1, <2>2, <2>4, <3>1
  <2> QED BY <2>3, <2>4
<1>5. Chained(m, MbFirst(mb))
  BY <1>1, <1>4 DEF Chained
<1>6. Newest(m, MbFirst(mb)) = Newest(mb, cur)
  <2>1. CASE mb.entry = 1
    BY <1>1, <2>1 DEF Newest, MbEmpty
  <2>2. CASE mb.entry # 1
    <3>1. mb.entry - 1 \in 1 .. mb.entry - 1 /\ (mb.entry - 1) + 1 = mb.entry /\ mb.entry - 1 # 0 /\ mb.entry # 0
      BY <1>2, <2>2
    <3>2. MbContents(m)[mb.entry - 1] = MbContents(mb)[(mb.entry - 1) + 1]
      BY <1>1, <3>1
    <3> QED BY <1>1, <3>1, <3>2 DEF Newest, MbEmpty
  <2> QED BY <2>1, <2>2
<1> QED BY <1>3, <1>5, <1>6 DEF m

\* What is under way: both mailboxes carry the readings in order up to the one the
\* sensor thread is at, and the control thread is half way through one or between two.
UnderWay ==
  /\ Chained(tem_mb, cur_tem) /\ Chained(hum_mb, cur_hum)
  /\ round = IF pc["sensor"] \in {"read", "send_tem"}
             THEN Following(Newest(tem_mb, cur_tem)) ELSE Newest(tem_mb, cur_tem)
  /\ round = IF pc["sensor"] \in {"release", "pause", "pause_ends"}
             THEN Newest(hum_mb, cur_hum) ELSE Following(Newest(hum_mb, cur_hum))
  /\ cur_tem = IF pc["control"] = "recv_hum" THEN Following(cur_hum) ELSE cur_hum

\* All that holds of the threads' data in every state.
Tasks == Kernel /\ TakenInTime /\ TokensCountReadings

LEMMA SensorUnderWay ==
  ASSUME Tasks, UnderWay, SensorStep
  PROVE  UnderWay'
<1>0. /\ tem_mb \in MbType(Round \cup {None}) /\ hum_mb \in MbType(Round \cup {None})
      /\ round \in Round \cup {None} /\ round \in Round /\ round # None
  BY TasksAssumption, MbAssumption DEF Tasks, Kernel, Goods, Round, None
<1>1. CASE SendTem
  <2>1. /\ pc["sensor"] = "send_tem" /\ pc' = [pc EXCEPT !["sensor"] = "gap"]
        /\ tem_mb' = MbSend(tem_mb, round) /\ UNCHANGED <<hum_mb, cur_tem, cur_hum, round>>
    BY <1>1 DEF SendTem, Goes, Go, Jump, reading
  <2>2. pc'["sensor"] = "gap" /\ pc'["control"] = pc["control"]
    BY <2>1, KernelTypes DEF Tasks
  <2>3. ~MbFull(tem_mb)
    BY <2>1, CountBounds DEF Tasks
  <2>4. Chained(tem_mb', cur_tem) /\ Newest(tem_mb', cur_tem) = round
    BY <1>0, <2>1, <2>3, ChainSend DEF UnderWay
  <2> QED BY <2>1, <2>2, <2>4 DEF UnderWay, Newest, Chained
<1>2. CASE SendHum
  <2>1. /\ pc["sensor"] = "send_hum" /\ pc' = [pc EXCEPT !["sensor"] = "release"]
        /\ hum_mb' = MbSend(hum_mb, round) /\ UNCHANGED <<tem_mb, cur_tem, cur_hum, round>>
    BY <1>2 DEF SendHum, Goes, Go, Jump, reading
  <2>2. pc'["sensor"] = "release" /\ pc'["control"] = pc["control"]
    BY <2>1, KernelTypes DEF Tasks
  <2>3. ~MbFull(hum_mb)
    BY <2>1, CountBounds DEF Tasks
  <2>4. Chained(hum_mb', cur_hum) /\ Newest(hum_mb', cur_hum) = round
    BY <1>0, <2>1, <2>3, ChainSend DEF UnderWay
  <2> QED BY <2>1, <2>2, <2>4 DEF UnderWay, Newest, Chained
<1>3. CASE PauseEnds
  <2>1. /\ pc["sensor"] = "pause_ends" /\ pc' = [pc EXCEPT !["sensor"] = "read"]
        /\ round' = (round + 1) % Rounds /\ UNCHANGED <<tem_mb, hum_mb, cur_tem, cur_hum>>
    BY <1>3 DEF PauseEnds, Go, Jump, exchange
  <2>2. pc'["sensor"] = "read" /\ pc'["control"] = pc["control"]
    BY <2>1, KernelTypes DEF Tasks
  <2>3. round' = Following(round)
    BY <1>0, <2>1 DEF Following
  <2> QED BY <2>1, <2>2, <2>3 DEF UnderWay, Newest, Chained
<1>4. CASE (\E result \in {"real", "failed"} : ReadSensor(result)) \/ GapBegins \/ GapEnds \/ Notify \/ PauseBegins
  <2>1. /\ UNCHANGED <<tem_mb, hum_mb, cur_tem, cur_hum, round>>
        /\ \E to \in SensorAt : /\ pc' = [pc EXCEPT !["sensor"] = to]
                                /\ pc["sensor"] \in {"read", "send_tem"} <=> to \in {"read", "send_tem"}
                                /\ pc["sensor"] \in {"release", "pause", "pause_ends"} <=> to \in {"release", "pause", "pause_ends"}
    BY <1>4 DEF ReadSensor, GapBegins, GapEnds, Notify, PauseBegins, Goes, Go, EndTurn, Jump, exchange, reading, SensorAt
  <2>2. /\ pc'["control"] = pc["control"]
        /\ pc["sensor"] \in {"read", "send_tem"} <=> pc'["sensor"] \in {"read", "send_tem"}
        /\ pc["sensor"] \in {"release", "pause", "pause_ends"} <=> pc'["sensor"] \in {"release", "pause", "pause_ends"}
    BY <2>1, KernelTypes DEF Tasks
  <2> QED BY <2>1, <2>2 DEF UnderWay, Newest, Chained
<1> QED BY <1>1, <1>2, <1>3, <1>4 DEF SensorStep

\* What the control thread takes out of a mailbox is the next of its kind.
LEMMA Receives ==
  ASSUME Tasks, UnderWay
  PROVE  /\ pc["control"] = "recv_tem" => ~MbEmpty(tem_mb) /\ MbFirst(tem_mb) = Following(cur_tem)
         /\ pc["control"] = "recv_hum" => ~MbEmpty(hum_mb) /\ MbFirst(hum_mb) = Following(cur_hum)
<1>1. tem_mb \in MbType(Round \cup {None}) /\ hum_mb \in MbType(Round \cup {None})
  BY DEF Tasks, Kernel, Goods
<1> QED BY <1>1, ChainRecv, CountBounds DEF Tasks, UnderWay

LEMMA ControlUnderWay ==
  ASSUME Tasks, UnderWay, ControlStep
  PROVE  UnderWay'
<1>0. tem_mb \in MbType(Round \cup {None}) /\ hum_mb \in MbType(Round \cup {None})
  BY DEF Tasks, Kernel, Goods
<1>1. CASE RecvTem
  <2>1. /\ pc["control"] = "recv_tem" /\ pc' = [pc EXCEPT !["control"] = "recv_hum"]
        /\ tem_mb' = MbRecv(tem_mb) /\ cur_tem' = MbFirst(tem_mb) /\ UNCHANGED <<hum_mb, cur_hum, round>>
    BY <1>1, Receives DEF RecvTem, Goes, Go, Jump, reading
  <2>2. pc'["control"] = "recv_hum" /\ pc'["sensor"] = pc["sensor"]
    BY <2>1, KernelTypes DEF Tasks
  <2>3. /\ MbFirst(tem_mb) = Following(cur_tem) /\ Chained(tem_mb', cur_tem')
        /\ Newest(tem_mb', cur_tem') = Newest(tem_mb, cur_tem)
    BY <1>0, <2>1, ChainRecv, Receives DEF UnderWay
  <2> QED BY <2>1, <2>2, <2>3 DEF UnderWay, Newest, Chained
<1>2. CASE RecvHum
  <2>1. /\ pc["control"] = "recv_hum" /\ pc' = [pc EXCEPT !["control"] = "run"]
        /\ hum_mb' = MbRecv(hum_mb) /\ cur_hum' = MbFirst(hum_mb) /\ UNCHANGED <<tem_mb, cur_tem, round>>
    BY <1>2, Receives DEF RecvHum, Goes, Go, Jump, reading
  <2>2. pc'["control"] = "run" /\ pc'["sensor"] = pc["sensor"]
    BY <2>1, KernelTypes DEF Tasks
  <2>3. /\ MbFirst(hum_mb) = Following(cur_hum) /\ Chained(hum_mb', cur_hum')
        /\ Newest(hum_mb', cur_hum') = Newest(hum_mb, cur_hum)
    BY <1>0, <2>1, ChainRecv, Receives DEF UnderWay
  <2> QED BY <2>1, <2>2, <2>3 DEF UnderWay, Newest, Chained
<1>3. CASE TakeNow \/ TakeWaits \/ TakeReturns \/ RunControl
  <2>1. /\ UNCHANGED <<tem_mb, hum_mb, cur_tem, cur_hum, round>> /\ pc["control"] # "recv_hum"
        /\ \E to \in ControlAt \ {"recv_hum"} : pc' = [pc EXCEPT !["control"] = to]
    BY <1>3 DEF TakeNow, TakeWaits, TakeReturns, RunControl, Go, EndTurn, Jump, exchange, reading, ControlAt
  <2>2. pc'["sensor"] = pc["sensor"] /\ pc'["control"] # "recv_hum"
    BY <2>1, KernelTypes DEF Tasks
  <2> QED BY <2>1, <2>2 DEF UnderWay, Newest, Chained
<1> QED BY <1>1, <1>2, <1>3 DEF ControlStep

LEMMA OtherUnderWay ==
  ASSUME Tasks, UnderWay, DisplayStep \/ ParserTick \/ Tick \/ (\E t \in Threads : Expire(t)) \/ UNCHANGED tasksVars
  PROVE  UnderWay'
<1>1. UNCHANGED pc \/ \E to : pc' = [pc EXCEPT !["main"] = to]
  BY DEF DisplayStep, DrawEnds, RestEnds, EndTurn, Go, Jump, ParserTick, Tick, Expire, tasksVars
<1>2. UNCHANGED <<tem_mb, hum_mb, cur_tem, cur_hum, round>>
  BY DEF DisplayStep, DrawEnds, RestEnds, ParserTick, Tick, Expire, tasksVars, exchange, reading
<1>3. pc'["sensor"] = pc["sensor"] /\ pc'["control"] = pc["control"]
  BY <1>1, KernelTypes DEF Tasks
<1> QED BY <1>2, <1>3 DEF UnderWay, Newest, Chained

LEMMA InitTasks == Init => Tasks /\ UnderWay
<1> SUFFICES ASSUME Init PROVE Tasks /\ UnderWay
  OBVIOUS
<1>1. Kernel
  BY InitKernel
<1>2. value = 0 /\ tem_mb = MbInit(None) /\ hum_mb = MbInit(None) /\ cur_tem = None /\ cur_hum = None
      /\ round = 0 /\ pc["sensor"] = "read" /\ pc["control"] = "take"
  BY DEF Init
<1>3. MbInit(None).entry = 0 /\ MbConsistent(MbInit(None))
  BY MbAssumption DEF MbInit, MbConsistent, SlotAfter
<1>4. ~Taken
  BY <1>1, <1>2, TakenHolds DEF HoldsToken
<1>5. TokensCountReadings
  BY <1>2, <1>3, <1>4, CountIs DEF Flag, TemSent
<1>6. UnderWay
  BY <1>2, <1>3 DEF UnderWay, Chained, Newest, MbEmpty, Following
<1> QED BY <1>1, <1>2, <1>5, <1>6 DEF Tasks, TakenInTime

LEMMA StepTasks ==
  ASSUME Tasks, [Next]_tasksVars
  PROVE  Tasks'
<1>1. Kernel'
  BY StepKernel DEF Tasks
<1>2. TakenInTime'
  BY <1>1, SensorInTime, ControlInTime, OtherInTime DEF Next, Tasks
<1>3. TokensCountReadings'
  BY <1>1, SensorCount, ControlCount, OtherCount DEF Next, Tasks
<1> QED BY <1>1, <1>2, <1>3 DEF Tasks

LEMMA StepUnderWay ==
  ASSUME Tasks, UnderWay, [Next]_tasksVars
  PROVE  UnderWay'
BY SensorUnderWay, ControlUnderWay, OtherUnderWay DEF Next

LEMMA TasksInvariant == Spec => [](Tasks /\ UnderWay)
<1>1. Tasks /\ UnderWay /\ [Next]_tasksVars => (Tasks /\ UnderWay)'
  BY StepTasks, StepUnderWay
<1> QED BY InitTasks, <1>1, PTL DEF Spec

\* Each token the threads pass on, in whoever's hands, stands for one message in
\* either mailbox: no rt_mb_send or rt_mb_recv goes without its half of a reading.
THEOREM TasksTokensCountReadings == Spec => []TokensCountReadings
BY TasksInvariant, PTL DEF Tasks

\* No reading is lost to a full mailbox, however long the display draws and whatever
\* the control thread is at when the sensor thread wakes.
THEOREM TasksNeverFull == Spec => []NeverFull
<1>1. Tasks => NeverFull
  BY CountBounds DEF Tasks, NeverFull
<1> QED BY TasksInvariant, <1>1, PTL

\* The control loop turns with the two halves of one reading.
THEOREM TasksPairsMatch == Spec => []PairsMatch
<1>1. UnderWay => PairsMatch
  BY DEF UnderWay, PairsMatch
<1> QED BY TasksInvariant, <1>1, PTL

\* The readings arrive one after the other, none of them twice and none left out.
THEOREM TasksInOrder == Spec => InOrder
<1>1. ASSUME Tasks, UnderWay, [Next]_tasksVars, cur_tem' # cur_tem
      PROVE  cur_tem' = IF cur_tem = None THEN 0 ELSE (cur_tem + 1) % Rounds
  <2>1. RecvTem
    BY <1>1 DEF Next, SensorStep, ReadSensor, SendTem, GapBegins, GapEnds, SendHum, Notify, PauseBegins, PauseEnds,
                ControlStep, TakeNow, TakeWaits, TakeReturns, RecvHum, RunControl,
                DisplayStep, DrawEnds, RestEnds, ParserTick, Tick, Expire, exchange, tasksVars
  <2>2. pc["control"] = "recv_tem" /\ cur_tem' = IF MbEmpty(tem_mb) THEN cur_tem ELSE MbFirst(tem_mb)
    BY <2>1 DEF RecvTem, Goes, Go, Jump
  <2> QED BY <1>1, <2>2, Receives DEF Following
<1>2. Tasks /\ UnderWay /\ [Next]_tasksVars =>
        [cur_tem' # cur_tem => cur_tem' = IF cur_tem = None THEN 0 ELSE (cur_tem + 1) % Rounds]_tasksVars
  BY <1>1
<1> QED BY TasksInvariant, <1>2, PTL DEF Spec, InOrder

-----------------------------------------------------------------------------
(* The control loop is on time. *)

\* How long the control thread has to wait and to run before its loop turns, and how
\* long the others may run before that: the display draws once more if it has not drawn
\* since the loop turned, the sensor thread takes the turns of one more reading if it has
\* not finished one since, and the AT parser has ParserLeft.
ControlLeft == Tc - spent["control"] + (IF pc["control"] = "take" THEN LoopPeriod
                                        ELSE IF Ready("control") THEN 0 ELSE timer["control"])

MainLeft(drawn) == IF Ready("main") THEN Tm - spent["main"] ELSE IF drawn THEN 0 ELSE Tm

Reads == {"pause_ends", "read", "send_tem", "gap"}

SensorLeft(read) ==
  IF Ready("sensor") THEN (IF pc["sensor"] \in Reads THEN 2 * Ts ELSE Ts) - spent["sensor"]
  ELSE IF pc["sensor"] = "gap_ends" THEN Ts ELSE IF read THEN 0 ELSE 2 * Ts

\* A thread that has drawn, or read, sleeps for longer than all that is left; and after
\* the parser has run, the line is not quiet for long enough before.
OnTimeAs(drawn, read, ran) ==
  /\ late + ControlLeft + MainLeft(drawn) + SensorLeft(read) + ParserLeft(ran) <= LoopBound
  /\ drawn /\ ~Ready("main") => ControlLeft + SensorLeft(read) + ParserLeft(ran) < timer["main"]
  /\ read /\ ~Ready("sensor") /\ pc["sensor"] = "pause_ends" =>
       ControlLeft + MainLeft(drawn) + ParserLeft(ran) < timer["sensor"]
  /\ ran => ControlLeft + MainLeft(drawn) + SensorLeft(read) < LineQuiet - quiet

OnTime ==
  ControlLeft <= LoopPeriod + Tc /\ \E drawn, read, ran \in BOOLEAN : OnTimeAs(drawn, read, ran)

LeftOK ==
  /\ ControlLeft \in Nat /\ late \in Nat /\ LoopBound = LoopPeriod + Tc + 2 * Ts + Tm + Ta
  /\ \A t \in Threads : timer[t] \in Int
  /\ \A t \in Threads : ~Ready(t) => timer[t] >= 0
  /\ \A d \in BOOLEAN : MainLeft(d) \in 0 .. Tm /\ SensorLeft(d) \in 0 .. 2 * Ts /\ ParserLeft(d) \in 0 .. Ta
  /\ quiet \in Nat /\ LineQuiet \in Nat

LEMMA LeftTypes == Kernel => LeftOK
<1> SUFFICES ASSUME Kernel PROVE LeftOK
  OBVIOUS
<1>0. \A t \in Threads : timer[t] \in {-1} \cup 0 .. MaxWait
  BY KernelTypes DEF Stopped
<1>1. \A t \in Threads : timer[t] \in Int
  <2>1. (0 .. MaxWait) \subseteq Int /\ -1 \in Int
    OBVIOUS
  <2> QED BY <1>0, <2>1
<1>10. ASSUME NEW t \in Threads, ~Ready(t) PROVE timer[t] >= 0
  <2>1. timer[t] \in 0 .. MaxWait
    BY <1>0, <1>10 DEF Kernel, Linked, Stopped
  <2> QED BY <2>1, ThreadAssumption
<1>2. ControlLeft \in Nat
  BY <1>1, <1>10, NeedType, Times, Firmware DEF ControlLeft
<1>3. late \in Nat /\ LoopBound = LoopPeriod + Tc + 2 * Ts + Tm + Ta
  BY LoopBoundType DEF Kernel, Goods, LoopBound, Tc, Ts, Tm, Ta
<1>6. quiet \in Nat /\ LineQuiet \in Nat /\ \A d \in BOOLEAN : ParserLeft(d) \in 0 .. Ta
  BY ParserLeftType, Times
<1>4. ASSUME NEW d \in BOOLEAN PROVE MainLeft(d) \in 0 .. Tm
  BY NeedType, Times DEF MainLeft
<1>5. ASSUME NEW d \in BOOLEAN PROVE SensorLeft(d) \in 0 .. 2 * Ts
  <2>1. Ready("sensor") /\ pc["sensor"] \notin Reads => SensorLeft(d) = Ts - spent["sensor"]
    BY DEF SensorLeft
  <2>2. Ready("sensor") /\ pc["sensor"] \in Reads => SensorLeft(d) = 2 * Ts - spent["sensor"]
    BY DEF SensorLeft
  <2>3. ~Ready("sensor") => SensorLeft(d) \in {0, Ts, 2 * Ts}
    BY DEF SensorLeft
  <2> QED BY <2>1, <2>2, <2>3, NeedType, Times
<1> QED BY <1>1, <1>2, <1>3, <1>4, <1>5, <1>6, <1>10 DEF LeftOK

\* A step that lets no time pass, and after which no thread has more left than before,
\* unless it begins a sleep that is long enough.
LEMMA StaysOnTime ==
  ASSUME Kernel, Kernel', NEW d \in BOOLEAN, NEW r \in BOOLEAN, NEW p \in BOOLEAN, OnTimeAs(d, r, p), OnTime,
         UNCHANGED <<late, parsed, quiet>>,
         ControlLeft' <= ControlLeft, MainLeft(d)' <= MainLeft(d), SensorLeft(r)' <= SensorLeft(r),
         ~Ready("main")' => ~Ready("main") /\ timer'["main"] = timer["main"],
         ~Ready("sensor")' => /\ ~Ready("sensor") /\ timer'["sensor"] = timer["sensor"]
                              /\ pc'["sensor"] = pc["sensor"]
  PROVE  OnTime'
<1>1. LeftOK /\ LeftOK'
  BY LeftTypes, PTL
<1>2. /\ ControlLeft \in Nat /\ late \in Nat /\ timer["main"] \in Int /\ timer["sensor"] \in Int
      /\ MainLeft(d) \in Nat /\ SensorLeft(r) \in Nat /\ ParserLeft(p) \in Nat /\ LoopBound \in Nat
      /\ LineQuiet - quiet \in Int
  BY <1>1, Times, Firmware, LoopBoundType DEF LeftOK
<1>3. ControlLeft' \in Nat /\ MainLeft(d)' \in Nat /\ SensorLeft(r)' \in Nat /\ ParserLeft(p)' = ParserLeft(p)
  BY <1>1, Times DEF LeftOK, ParserLeft
<1>4. ControlLeft' <= LoopPeriod + Tc
  BY <1>2, <1>3, Times DEF OnTime
<1>5. OnTimeAs(d, r, p)'
  <2>1. late' + ControlLeft' + MainLeft(d)' + SensorLeft(r)' + ParserLeft(p)' <= LoopBound
    BY <1>2, <1>3 DEF OnTimeAs
  <2>2. d /\ ~Ready("main")' => ControlLeft' + SensorLeft(r)' + ParserLeft(p)' < timer'["main"]
    BY <1>2, <1>3 DEF OnTimeAs
  <2>3. r /\ ~Ready("sensor")' /\ pc'["sensor"] = "pause_ends" =>
          ControlLeft' + MainLeft(d)' + ParserLeft(p)' < timer'["sensor"]
    BY <1>2, <1>3 DEF OnTimeAs
  <2>4. p => ControlLeft' + MainLeft(d)' + SensorLeft(r)' < LineQuiet - quiet'
    BY <1>2, <1>3 DEF OnTimeAs
  <2> QED BY <2>1, <2>2, <2>3, <2>4 DEF OnTimeAs
<1> QED BY <1>4, <1>5 DEF OnTime

\* What is left of a thread changes only with what is its own.
LEMMA LeftDepends ==
  ASSUME Kernel
  PROVE  /\ spent'["control"] = spent["control"] /\ stat'["control"] = stat["control"]
              /\ timer'["control"] = timer["control"] /\ pc'["control"] = pc["control"]
              => ControlLeft' = ControlLeft
         /\ spent'["main"] = spent["main"] /\ stat'["main"] = stat["main"]
              => \A d \in BOOLEAN : MainLeft(d)' = MainLeft(d)
         /\ spent'["sensor"] = spent["sensor"] /\ stat'["sensor"] = stat["sensor"]
              /\ pc'["sensor"] = pc["sensor"]
              => \A r \in BOOLEAN : SensorLeft(r)' = SensorLeft(r)
BY DEF ControlLeft, MainLeft, SensorLeft, Ready

LEMMA SensorOnTime ==
  ASSUME Kernel, Kernel', OnTime, SensorStep
  PROVE  OnTime'
<1>0. PICK d \in BOOLEAN, r \in BOOLEAN, p \in BOOLEAN : OnTimeAs(d, r, p)
  BY DEF OnTime
<1>1. LeftOK /\ LeftOK' /\ UNCHANGED <<late, parsed, quiet>> /\ spent["sensor"] \in 0 .. Ts
  <2>1. LeftOK /\ LeftOK'
    BY LeftTypes, PTL
  <2>2. UNCHANGED <<late, parsed, quiet>>
    BY DEF SensorStep, ReadSensor, SendTem, GapBegins, GapEnds, SendHum, Notify, PauseBegins, PauseEnds, line
  <2> QED BY <2>1, <2>2, NeedType
<1>2. Running("sensor") /\ Ready("sensor") /\ ~Ready("main")
  <2>1. Running("sensor")
    BY DEF SensorStep, ReadSensor, SendTem, GapBegins, GapEnds, SendHum, Notify, PauseBegins, PauseEnds,
           Goes, Sleep, SleepReturns, SemRelease, Calls, Returns
  <2> QED BY <2>1, WhoRuns, Firmware
<1>3. CASE (\E result \in {"real", "failed"} : ReadSensor(result)) \/ SendTem \/ SendHum \/ GapEnds \/ PauseEnds
  <2>1. /\ UNCHANGED <<stat, timer, spent>>
        /\ \E to \in SensorAt : /\ pc' = [pc EXCEPT !["sensor"] = to]
                                /\ pc["sensor"] \in Reads <=> to \in Reads
    BY <1>3 DEF ReadSensor, SendTem, SendHum, GapEnds, PauseEnds, Goes, Go, Jump, SleepReturns, semVars, SensorAt, Reads
  <2>2. (pc["sensor"] \in Reads <=> pc'["sensor"] \in Reads) /\ pc'["control"] = pc["control"]
    BY <2>1, KernelTypes
  <2>3. ControlLeft' = ControlLeft /\ MainLeft(d)' = MainLeft(d)
    BY <2>1, <2>2, LeftDepends
  <2>4. SensorLeft(r)' = SensorLeft(r)
    BY <1>2, <2>1, <2>2 DEF SensorLeft, Ready
  <2> QED BY <1>0, <1>1, <1>2, <2>1, <2>3, <2>4, StaysOnTime DEF LeftOK, Ready
<1>4. CASE Notify
  <2>1. /\ UNCHANGED spent /\ pc' = [pc EXCEPT !["sensor"] = "pause"] /\ pc["sensor"] = "release"
        /\ \/ UNCHANGED <<stat, timer>>
           \/ /\ stat' = [stat EXCEPT !["control"] = "ready"] /\ ~Ready("control")
              /\ timer' = [timer EXCEPT !["control"] = Stopped] /\ pc["control"] = "taking"
    BY <1>4, ListHolds DEF Notify, Go, Jump, SemRelease, ThreadResume, threadVars
  <2>2. pc'["control"] = pc["control"] /\ pc'["sensor"] = "pause"
    BY <2>1, KernelTypes
  <2>3. stat'["main"] = stat["main"] /\ stat'["sensor"] = stat["sensor"]
        /\ timer'["main"] = timer["main"] /\ timer'["sensor"] = timer["sensor"]
    BY <2>1, KernelTypes
  <2>4. ControlLeft' <= ControlLeft
    <3>1. CASE UNCHANGED <<stat, timer>>
      BY <1>1, <2>1, <2>2, <3>1, LeftDepends DEF LeftOK
    <3>2. CASE ~Ready("control") /\ pc["control"] = "taking" /\ stat' = [stat EXCEPT !["control"] = "ready"]
      <4>1. ControlLeft' = Tc - spent["control"] /\ ControlLeft = Tc - spent["control"] + timer["control"]
        BY <2>1, <2>2, <3>2, KernelTypes, NeedType, Times DEF ControlLeft, Ready
      <4>2. timer["control"] >= 0 /\ timer["control"] \in Int
        BY <1>1, <3>2, Firmware DEF LeftOK
      <4> QED BY <4>1, <4>2, NeedType, Times
    <3> QED BY <2>1, <3>1, <3>2
  <2>5. MainLeft(d)' = MainLeft(d)
    BY <2>1, <2>3, LeftDepends
  <2>6. SensorLeft(r)' = SensorLeft(r)
    BY <1>2, <2>1, <2>2, <2>3 DEF SensorLeft, Ready, Reads
  <2> QED BY <1>0, <1>1, <1>2, <2>3, <2>4, <2>5, <2>6, StaysOnTime DEF LeftOK, Ready
<1>5. CASE GapBegins \/ PauseBegins
  <2>1. /\ \/ pc["sensor"] = "gap" /\ pc' = [pc EXCEPT !["sensor"] = "gap_ends"]
           \/ pc["sensor"] = "pause" /\ pc' = [pc EXCEPT !["sensor"] = "pause_ends"] /\ timer' = [timer EXCEPT !["sensor"] = Pause]
        /\ stat' = [stat EXCEPT !["sensor"] = "suspended"] /\ spent' = [spent EXCEPT !["sensor"] = 0]
        /\ \E ticks : timer' = [timer EXCEPT !["sensor"] = ticks]
    BY <1>5 DEF GapBegins, PauseBegins, EndTurn, Jump, Sleep, SuspendFor
  <2>2. /\ pc'["control"] = pc["control"] /\ stat'["main"] = stat["main"] /\ stat'["control"] = stat["control"]
        /\ timer'["main"] = timer["main"] /\ timer'["control"] = timer["control"]
        /\ spent'["main"] = spent["main"] /\ spent'["control"] = spent["control"] /\ ~Ready("sensor")'
    BY <2>1, KernelTypes DEF Ready
  <2>3. ControlLeft' = ControlLeft /\ MainLeft(d)' = MainLeft(d)
    BY <2>2, LeftDepends
  <2>4. \E q \in BOOLEAN : /\ SensorLeft(q)' <= SensorLeft(r)
                           /\ q /\ pc'["sensor"] = "pause_ends" => timer'["sensor"] = Pause
    <3>1. CASE pc["sensor"] = "gap"
      <4>1. pc'["sensor"] = "gap_ends"
        BY <2>1, <3>1, KernelTypes
      <4>2. SensorLeft(r)' = Ts /\ SensorLeft(r) = 2 * Ts - spent["sensor"]
        BY <1>2, <2>2, <3>1, <4>1 DEF SensorLeft, Reads
      <4>3. SensorLeft(r)' <= SensorLeft(r)
        BY <1>1, <4>2, Times
      <4> QED BY <4>1, <4>3
    <3>2. CASE pc["sensor"] = "pause"
      <4>1. pc'["sensor"] = "pause_ends" /\ timer'["sensor"] = Pause
        BY <2>1, <3>2, KernelTypes
      <4>2. PICK q \in BOOLEAN : q
        OBVIOUS
      <4>3. SensorLeft(q)' = 0
        BY <2>2, <4>1, <4>2 DEF SensorLeft
      <4>4. SensorLeft(r) \in 0 .. 2 * Ts
        BY <1>1 DEF LeftOK
      <4>5. SensorLeft(q)' <= SensorLeft(r)
        BY <4>3, <4>4, Times
      <4> QED BY <4>1, <4>5
    <3> QED BY <2>1, <3>1, <3>2
  <2>5. PICK q \in BOOLEAN : /\ SensorLeft(q)' <= SensorLeft(r)
                             /\ q /\ pc'["sensor"] = "pause_ends" => timer'["sensor"] = Pause
    BY <2>4
  <2>8. ParserLeft(p)' = ParserLeft(p)
    BY <1>1 DEF ParserLeft
  <2>6. ControlLeft + MainLeft(d) + ParserLeft(p) < Pause
    BY <1>1, Times DEF LeftOK, OnTime
  <2>7. OnTimeAs(d, q, p)'
    <3>1. /\ ControlLeft \in Nat /\ MainLeft(d) \in Nat /\ SensorLeft(r) \in Nat /\ SensorLeft(q)' \in Nat
          /\ late \in Nat /\ timer["main"] \in Int /\ LoopBound \in Nat /\ ParserLeft(p) \in Nat
          /\ LineQuiet - quiet \in Int
      BY <1>1, Times, Firmware, LoopBoundType DEF LeftOK
    <3>2. late' + ControlLeft' + MainLeft(d)' + SensorLeft(q)' + ParserLeft(p)' <= LoopBound
      BY <1>0, <1>1, <2>3, <2>5, <2>8, <3>1 DEF OnTimeAs
    <3>3. d /\ ~Ready("main")' => ControlLeft' + SensorLeft(q)' + ParserLeft(p)' < timer'["main"]
      BY <1>0, <2>2, <2>3, <2>5, <2>8, <3>1 DEF OnTimeAs, Ready
    <3>4. p => ControlLeft' + MainLeft(d)' + SensorLeft(q)' < LineQuiet - quiet'
      BY <1>0, <1>1, <2>3, <2>5, <3>1 DEF OnTimeAs
    <3> QED BY <2>3, <2>5, <2>6, <2>8, <3>2, <3>3, <3>4 DEF OnTimeAs
  <2> QED BY <2>3, <2>7 DEF OnTime
<1> QED BY <1>3, <1>4, <1>5 DEF SensorStep

LEMMA ControlOnTime ==
  ASSUME Kernel, Kernel', OnTime, ControlStep
  PROVE  OnTime'
<1>0. PICK d \in BOOLEAN, r \in BOOLEAN, p \in BOOLEAN : OnTimeAs(d, r, p)
  BY DEF OnTime
<1>1. LeftOK /\ LeftOK'
  BY LeftTypes, PTL
<1>2. Ready("control") /\ ~Ready("main") /\ ~Ready("sensor")
  <2>1. Running("control")
    BY DEF ControlStep, TakeNow, TakeWaits, TakeReturns, RecvTem, RecvHum, RunControl,
           Goes, SemTakeNow, SemTakeWaits, SemTakeReturns, Calls, Returns
  <2> QED BY <2>1, WhoRuns, Firmware
<1>3. CASE TakeNow \/ TakeWaits \/ TakeReturns \/ RecvTem \/ RecvHum
  <2>1. /\ UNCHANGED <<spent, late, parsed, quiet>>
        /\ \E to \in ControlAt : pc' = [pc EXCEPT !["control"] = to]
        /\ stat'["main"] = stat["main"] /\ stat'["sensor"] = stat["sensor"]
        /\ timer'["main"] = timer["main"] /\ timer'["sensor"] = timer["sensor"]
    BY <1>3, KernelTypes DEF TakeNow, TakeWaits, TakeReturns, RecvTem, RecvHum, Goes, Go, Jump, SemTakeNow,
             SemTakeWaits, SemTakeReturns, SuspendFor, threadVars, semVars, ControlAt, line
  <2>2. pc'["sensor"] = pc["sensor"]
    BY <2>1, KernelTypes
  <2>3. MainLeft(d)' = MainLeft(d) /\ SensorLeft(r)' = SensorLeft(r)
    BY <2>1, <2>2, LeftDepends
  <2>4. ControlLeft' <= ControlLeft
    <3>1. CASE TakeWaits
      <4>1. /\ pc["control"] = "take" /\ pc' = [pc EXCEPT !["control"] = "taking"]
            /\ timer' = [timer EXCEPT !["control"] = LoopPeriod] /\ stat' = [stat EXCEPT !["control"] = "suspended"]
        BY <3>1 DEF TakeWaits, Go, Jump, SemTakeWaits, SuspendFor
      <4>2. ControlLeft' = Tc - spent["control"] + LoopPeriod /\ ControlLeft = Tc - spent["control"] + LoopPeriod
        BY <2>1, <4>1, KernelTypes DEF ControlLeft, Ready
      <4> QED BY <4>2, NeedType, Times
    <3>2. CASE TakeNow \/ TakeReturns \/ RecvTem \/ RecvHum
      <4>1. /\ pc' = [pc EXCEPT !["control"] = pc'["control"]] /\ pc'["control"] # "take" /\ UNCHANGED stat
        BY <3>2, KernelTypes DEF TakeNow, TakeReturns, RecvTem, RecvHum, Goes, Go, Jump, SemTakeNow, SemTakeReturns,
                                 threadVars, semVars
      <4>2. ControlLeft' = Tc - spent["control"]
        BY <1>2, <2>1, <4>1, Times, NeedType DEF ControlLeft, Ready
      <4>3. ControlLeft = Tc - spent["control"] \/ ControlLeft = Tc - spent["control"] + LoopPeriod
        BY <1>2, Times, NeedType DEF ControlLeft
      <4> QED BY <4>2, <4>3, NeedType, Times
    <3> QED BY <1>3, <3>1, <3>2
  <2> QED BY <1>0, <1>1, <1>2, <2>1, <2>2, <2>3, <2>4, StaysOnTime DEF LeftOK, Ready
<1>4. CASE RunControl
  <2>1. /\ late' = 0 /\ pc' = [pc EXCEPT !["control"] = "take"] /\ spent' = [spent EXCEPT !["control"] = 0]
    BY <1>4 DEF RunControl, EndTurn, Jump
  <2>2. ControlLeft' = Tc + LoopPeriod
    BY <2>1, KernelTypes, Times DEF ControlLeft
  <2>0. PICK no \in BOOLEAN : ~no
    OBVIOUS
  <2>3. OnTimeAs(no, no, no)'
    <3>1. MainLeft(no)' \in 0 .. Tm /\ SensorLeft(no)' \in 0 .. 2 * Ts /\ ParserLeft(no)' \in 0 .. Ta
      BY <1>1 DEF LeftOK
    <3>2. LoopBound = LoopPeriod + Tc + 2 * Ts + Tm + Ta
      BY <1>1 DEF LeftOK
    <3>3. late' + ControlLeft' + MainLeft(no)' + SensorLeft(no)' + ParserLeft(no)' <= LoopBound
      BY <2>1, <2>2, <3>1, <3>2, Times
    <3> QED BY <2>0, <3>3 DEF OnTimeAs
  <2>4. ControlLeft' <= LoopPeriod + Tc
    BY <2>2, Times
  <2> QED BY <2>3, <2>4 DEF OnTime
<1> QED BY <1>3, <1>4 DEF ControlStep

LEMMA DisplayOnTime ==
  ASSUME Kernel, Kernel', OnTime, DisplayStep
  PROVE  OnTime'
<1>0. PICK d \in BOOLEAN, r \in BOOLEAN, p \in BOOLEAN : OnTimeAs(d, r, p)
  BY DEF OnTime
<1>1. LeftOK /\ LeftOK'
  BY LeftTypes, PTL
<1>2. CASE RestEnds
  <2>1. pc' = [pc EXCEPT !["main"] = "draw"] /\ UNCHANGED <<stat, timer, spent, late, parsed, quiet>>
    BY <1>2 DEF RestEnds, Go, Jump, SleepReturns, line
  <2>2. pc'["sensor"] = pc["sensor"] /\ pc'["control"] = pc["control"]
    BY <2>1, KernelTypes
  <2>3. ControlLeft' = ControlLeft /\ MainLeft(d)' = MainLeft(d) /\ SensorLeft(r)' = SensorLeft(r)
    BY <2>1, <2>2, LeftDepends
  <2> QED BY <1>0, <1>1, <2>1, <2>2, <2>3, StaysOnTime DEF LeftOK, Ready
<1>3. CASE DrawEnds
  <2>1. /\ Ready("main") /\ pc' = [pc EXCEPT !["main"] = "resting"] /\ late' = late
        /\ spent' = [spent EXCEPT !["main"] = 0] /\ stat' = [stat EXCEPT !["main"] = "suspended"]
        /\ timer' = [timer EXCEPT !["main"] = DisplayRest] /\ UNCHANGED <<parsed, quiet>>
    BY <1>3 DEF DrawEnds, EndTurn, Jump, Sleep, SuspendFor, Calls, Running, line
  <2>2. /\ pc'["sensor"] = pc["sensor"] /\ pc'["control"] = pc["control"]
        /\ spent'["sensor"] = spent["sensor"] /\ spent'["control"] = spent["control"]
        /\ stat'["sensor"] = stat["sensor"] /\ stat'["control"] = stat["control"]
        /\ timer'["sensor"] = timer["sensor"] /\ timer'["control"] = timer["control"]
        /\ timer'["main"] = DisplayRest /\ ~Ready("main")'
    BY <2>1, KernelTypes DEF Ready
  <2>3. ControlLeft' = ControlLeft /\ SensorLeft(r)' = SensorLeft(r)
    BY <2>2, LeftDepends
  <2>0. PICK q \in BOOLEAN : q
    OBVIOUS
  <2>4. MainLeft(q)' = 0
    BY <2>0, <2>2 DEF MainLeft
  <2>5. /\ ControlLeft \in Nat /\ SensorLeft(r) \in 0 .. 2 * Ts /\ MainLeft(d) \in Nat
        /\ late \in Nat /\ LoopBound \in Nat /\ timer["sensor"] \in Int
        /\ ParserLeft(p) \in 0 .. Ta /\ LineQuiet - quiet \in Int
    BY <1>1, Times, Firmware, LoopBoundType DEF LeftOK
  <2>7. ParserLeft(p)' = ParserLeft(p)
    BY <2>1 DEF ParserLeft
  <2>6. OnTimeAs(q, r, p)'
    <3>1. late' + ControlLeft' + MainLeft(q)' + SensorLeft(r)' + ParserLeft(p)' <= LoopBound
      BY <1>0, <2>1, <2>3, <2>4, <2>5, <2>7, Times DEF OnTimeAs
    <3>2. ControlLeft' + SensorLeft(r)' + ParserLeft(p)' < timer'["main"]
      BY <2>2, <2>3, <2>5, <2>7, Times DEF OnTime
    <3>3. r /\ ~Ready("sensor")' /\ pc'["sensor"] = "pause_ends" =>
            ControlLeft' + MainLeft(q)' + ParserLeft(p)' < timer'["sensor"]
      BY <1>0, <2>2, <2>3, <2>4, <2>5, <2>7, Times DEF OnTimeAs, Ready
    <3>4. p => ControlLeft' + MainLeft(q)' + SensorLeft(r)' < LineQuiet - quiet'
      BY <1>0, <2>1, <2>3, <2>4, <2>5, Times DEF OnTimeAs
    <3> QED BY <3>1, <3>2, <3>3, <3>4 DEF OnTimeAs
  <2> QED BY <2>3, <2>6 DEF OnTime
<1> QED BY <1>2, <1>3 DEF DisplayStep

LEMMA ExpireOnTime ==
  ASSUME Kernel, Kernel', OnTime, NEW t \in Threads, Expire(t)
  PROVE  OnTime'
<1>0. PICK d \in BOOLEAN, r \in BOOLEAN, p \in BOOLEAN : OnTimeAs(d, r, p)
  BY DEF OnTime
<1>1. LeftOK /\ LeftOK'
  BY LeftTypes, PTL
<1>2. /\ timer[t] = 0 /\ stat' = [stat EXCEPT ![t] = "ready"] /\ timer' = [timer EXCEPT ![t] = Stopped]
      /\ UNCHANGED <<pc, spent, late, parsed, quiet>> /\ ~Ready(t)
  BY DEF Expire, TimeOut, ThreadTimeout, Kernel, Linked, Stopped, line
<1>3. /\ ControlLeft \in Nat /\ SensorLeft(r) \in Nat /\ MainLeft(d) \in Nat /\ ParserLeft(p) \in Nat
  BY <1>1, Times DEF LeftOK
<1>4. CASE t = "main"
  <2>1. /\ stat'["sensor"] = stat["sensor"] /\ stat'["control"] = stat["control"] /\ Ready("main")'
        /\ timer'["sensor"] = timer["sensor"] /\ timer'["control"] = timer["control"] /\ spent["main"] = 0
    BY <1>2, <1>4, KernelTypes DEF Kernel, Linked, Ready
  <2>2. ControlLeft' = ControlLeft /\ SensorLeft(r)' = SensorLeft(r)
    BY <1>2, <2>1, LeftDepends
  <2>3. ~d
    BY <1>0, <1>2, <1>3, <1>4 DEF OnTimeAs
  <2>4. MainLeft(d)' = MainLeft(d)
    BY <1>2, <1>4, <2>1, <2>3, Times DEF MainLeft
  <2> QED BY <1>0, <1>1, <1>2, <2>1, <2>2, <2>4, StaysOnTime DEF LeftOK, Ready
<1>5. CASE t = "sensor"
  <2>1. /\ stat'["main"] = stat["main"] /\ stat'["control"] = stat["control"] /\ Ready("sensor")'
        /\ timer'["main"] = timer["main"] /\ timer'["control"] = timer["control"] /\ spent["sensor"] = 0
    BY <1>2, <1>5, KernelTypes DEF Kernel, Linked, Ready
  <2>2. ControlLeft' = ControlLeft /\ MainLeft(d)' = MainLeft(d)
    BY <1>2, <2>1, LeftDepends
  <2>3. pc["sensor"] \in {"gap_ends", "pause_ends"}
    BY <1>2, <1>5, KernelTypes DEF Kernel, Linked, SemInv, SemTypeOK
  <2>4. pc["sensor"] = "pause_ends" => ~r
    BY <1>0, <1>2, <1>3, <1>5 DEF OnTimeAs
  <2>5. SensorLeft(r)' = SensorLeft(r)
    BY <1>2, <1>5, <2>1, <2>3, <2>4, Times DEF SensorLeft, Reads
  <2> QED BY <1>0, <1>1, <1>2, <2>1, <2>2, <2>5, StaysOnTime DEF LeftOK, Ready
<1>6. CASE t = "control"
  <2>1. /\ stat'["main"] = stat["main"] /\ stat'["sensor"] = stat["sensor"] /\ Ready("control")'
        /\ timer'["main"] = timer["main"] /\ timer'["sensor"] = timer["sensor"]
    BY <1>2, <1>6, KernelTypes DEF Ready
  <2>2. MainLeft(d)' = MainLeft(d) /\ SensorLeft(r)' = SensorLeft(r)
    BY <1>2, <2>1, LeftDepends
  <2>3. ControlLeft' = ControlLeft
    BY <1>2, <1>6, <2>1, NeedType, Times DEF ControlLeft
  <2> QED BY <1>0, <1>1, <1>2, <2>1, <2>2, <2>3, StaysOnTime DEF LeftOK, Ready
<1> QED BY <1>4, <1>5, <1>6, TasksAssumption

\* A tick brings the thread that is running one nearer to the end of its turn, and if none
\* is, the control thread one nearer to its time-out.
LEMMA TickOnTime ==
  ASSUME Kernel, Kernel', OnTime, Tick
  PROVE  OnTime'
<1>0. PICK d \in BOOLEAN, r \in BOOLEAN, p \in BOOLEAN : OnTimeAs(d, r, p)
  BY DEF OnTime
<1>1. LeftOK /\ LeftOK'
  BY LeftTypes, PTL
<1>2. /\ ControlLeft \in Nat /\ SensorLeft(r) \in Nat /\ MainLeft(d) \in Nat /\ late \in Nat
      /\ timer["main"] \in Int /\ timer["sensor"] \in Int /\ LoopBound \in Nat
  BY <1>1, Times, Firmware, LoopBoundType DEF LeftOK
<1>3. ControlLeft' \in Nat /\ SensorLeft(r)' \in Nat /\ MainLeft(d)' \in Nat /\ late' \in Nat
  BY <1>1, Times DEF LeftOK
<1>4. late' <= late + 1
  BY <1>2, <1>3 DEF Tick, Later
<1>11. ParserLeft(p) \in Nat /\ LineQuiet \in Nat /\ quiet \in Nat
  BY <1>1, Times DEF LeftOK
\* The line is not quiet for long enough while less is left than it takes.
<1>12. ASSUME ControlLeft' + MainLeft(d)' + SensorLeft(r)' <= ControlLeft + MainLeft(d) + SensorLeft(r) - 1
       PROVE  ParserLeft(p)' = ParserLeft(p)
              /\ (p => ControlLeft' + MainLeft(d)' + SensorLeft(r)' < LineQuiet - quiet')
  <2>1. p => ControlLeft + MainLeft(d) + SensorLeft(r) < LineQuiet - quiet
    BY <1>0 DEF OnTimeAs
  <2>2. p => quiet + 1 < LineQuiet
    BY <1>2, <1>3, <1>11, <1>12, <2>1
  <2>3. p => quiet' = quiet + 1 /\ parsed' = parsed
    BY <1>11, <2>2, TickDoes
  <2> QED BY <1>2, <1>3, <1>11, <1>12, <2>1, <2>3 DEF ParserLeft
<1>5. /\ UNCHANGED pc /\ \A t \in Threads : Ready(t)' <=> Ready(t)
      /\ \A t \in Threads : ~Ready(t) => timer'[t] = timer[t] - 1 /\ spent'[t] = spent[t]
      /\ \A t \in Threads : spent'[t] = (IF Running(t) THEN spent[t] + 1 ELSE spent[t])
  BY TickDoes DEF Ready, Running
<1>6. ~Ready("control") => pc["control"] # "take" /\ timer["control"] \in Nat \ {0}
  BY TickDoes, KernelTypes DEF Kernel, Linked, SemInv, SemTypeOK
<1>7. /\ Ready("main") => Running("main") /\ ~Running("sensor") /\ ~Running("control")
      /\ ~Ready("main") /\ Ready("sensor") => Running("sensor") /\ ~Running("control")
      /\ ~Ready("main") /\ ~Ready("sensor") /\ Ready("control") => Running("control")
  BY TickDoes, Runs
<1>8. ControlLeft' <= ControlLeft
  <2>1. CASE Ready("control")
    BY <1>5, <2>1, Firmware, NeedType, Times DEF ControlLeft
  <2>2. CASE ~Ready("control")
    BY <1>5, <1>6, <2>2, Firmware, NeedType, Times DEF ControlLeft
  <2> QED BY <2>1, <2>2
<1>9. CASE Ready("main")
  <2>1. spent'["main"] = spent["main"] + 1 /\ spent'["sensor"] = spent["sensor"]
    BY <1>5, <1>7, <1>9, Firmware
  <2>2. MainLeft(d)' = MainLeft(d) - 1
    BY <1>5, <1>9, <2>1, Firmware, NeedType, Times DEF MainLeft
  <2>3. SensorLeft(r)' = SensorLeft(r)
    BY <1>5, <2>1, Firmware DEF SensorLeft
  <2>7. ControlLeft' + MainLeft(d)' + SensorLeft(r)' <= ControlLeft + MainLeft(d) + SensorLeft(r) - 1
    BY <1>2, <1>3, <1>8, <2>2, <2>3
  <2>8. ParserLeft(p)' = ParserLeft(p) /\ (p => ControlLeft' + MainLeft(d)' + SensorLeft(r)' < LineQuiet - quiet')
    BY <1>12, <2>7
  <2>4. late' + ControlLeft' + MainLeft(d)' + SensorLeft(r)' + ParserLeft(p)' <= LoopBound
    BY <1>0, <1>2, <1>3, <1>4, <1>11, <2>7, <2>8 DEF OnTimeAs
  <2>5. r /\ ~Ready("sensor")' /\ pc'["sensor"] = "pause_ends" =>
          ControlLeft' + MainLeft(d)' + ParserLeft(p)' < timer'["sensor"]
    BY <1>0, <1>2, <1>3, <1>5, <1>8, <1>11, <2>2, <2>8, Firmware DEF OnTimeAs
  <2>6. OnTimeAs(d, r, p)'
    BY <1>5, <1>9, <2>4, <2>5, <2>8, Firmware DEF OnTimeAs
  <2> QED BY <1>2, <1>3, <1>8, <2>6, Times DEF OnTime
<1>10. CASE ~Ready("main")
  <2>1. MainLeft(d)' = MainLeft(d)
    BY <1>5, <1>10, Firmware DEF MainLeft
  <2>2. ControlLeft' + SensorLeft(r)' <= ControlLeft + SensorLeft(r) - 1 /\ SensorLeft(r)' <= SensorLeft(r)
    <3>1. CASE Ready("sensor")
      <4>1. spent'["sensor"] = spent["sensor"] + 1
        BY <1>5, <1>7, <1>10, <3>1, Firmware
      <4>2. SensorLeft(r)' = SensorLeft(r) - 1
        BY <1>5, <3>1, <4>1, Firmware, NeedType, Times DEF SensorLeft
      <4> QED BY <1>2, <1>3, <1>8, <4>2
    <3>2. CASE ~Ready("sensor")
      <4>1. SensorLeft(r)' = SensorLeft(r)
        BY <1>5, <3>2, Firmware DEF SensorLeft
      <4>2. CASE Ready("control")
        <5>1. spent'["control"] = spent["control"] + 1
          BY <1>5, <1>7, <1>10, <3>2, <4>2, Firmware
        <5>2. ControlLeft' = ControlLeft - 1
          BY <1>5, <4>2, <5>1, Firmware, NeedType, Times DEF ControlLeft
        <5> QED BY <1>2, <4>1, <5>2
      <4>3. CASE ~Ready("control")
        <5>1. ControlLeft' = ControlLeft - 1
          BY <1>5, <1>6, <4>3, Firmware, NeedType, Times DEF ControlLeft
        <5> QED BY <1>2, <4>1, <5>1
      <4> QED BY <4>2, <4>3
    <3> QED BY <3>1, <3>2
  <2>7. ControlLeft' + MainLeft(d)' + SensorLeft(r)' <= ControlLeft + MainLeft(d) + SensorLeft(r) - 1
    BY <1>2, <1>3, <2>1, <2>2
  <2>8. ParserLeft(p)' = ParserLeft(p) /\ (p => ControlLeft' + MainLeft(d)' + SensorLeft(r)' < LineQuiet - quiet')
    BY <1>12, <2>7
  <2>3. late' + ControlLeft' + MainLeft(d)' + SensorLeft(r)' + ParserLeft(p)' <= LoopBound
    BY <1>0, <1>2, <1>3, <1>4, <1>11, <2>7, <2>8 DEF OnTimeAs
  <2>4. d /\ ~Ready("main")' => ControlLeft' + SensorLeft(r)' + ParserLeft(p)' < timer'["main"]
    BY <1>0, <1>2, <1>3, <1>5, <1>11, <2>2, <2>8, Firmware DEF OnTimeAs
  <2>5. r /\ ~Ready("sensor")' /\ pc'["sensor"] = "pause_ends" =>
          ControlLeft' + MainLeft(d)' + ParserLeft(p)' < timer'["sensor"]
    <3>1. SUFFICES ASSUME r, ~Ready("sensor"), pc["sensor"] = "pause_ends"
                   PROVE  ControlLeft' + MainLeft(d)' + ParserLeft(p)' < timer'["sensor"]
      BY <1>5, Firmware
    <3>2. SensorLeft(r)' = SensorLeft(r)
      BY <1>5, <3>1, Firmware DEF SensorLeft
    <3>3. ControlLeft' <= ControlLeft - 1
      BY <1>2, <1>3, <2>2, <3>2
    <3>5. ControlLeft + MainLeft(d) + ParserLeft(p) < timer["sensor"]
      BY <1>0, <3>1 DEF OnTimeAs
    <3>4. timer'["sensor"] = timer["sensor"] - 1
      BY <1>5, <3>1, Firmware
    <3> QED BY <1>2, <1>3, <1>11, <2>1, <2>8, <3>3, <3>4, <3>5
  <2>6. OnTimeAs(d, r, p)'
    BY <2>3, <2>4, <2>5, <2>8 DEF OnTimeAs
  <2> QED BY <1>2, <1>3, <1>8, <2>6, Times DEF OnTime
<1> QED BY <1>9, <1>10

\* A tick the parser takes brings the parser one nearer to its end, and everybody nearer to
\* a time-out.
LEMMA ParserTickOnTime ==
  ASSUME Kernel, Kernel', OnTime, ParserTick
  PROVE  OnTime'
<1>0. PICK d \in BOOLEAN, r \in BOOLEAN, p \in BOOLEAN : OnTimeAs(d, r, p)
  BY DEF OnTime
<1>1. LeftOK /\ LeftOK'
  BY LeftTypes, PTL
<1>2. /\ ControlLeft \in Nat /\ SensorLeft(r) \in Nat /\ MainLeft(d) \in Nat /\ late \in Nat
      /\ timer["main"] \in Int /\ timer["sensor"] \in Int /\ LoopBound \in Nat
      /\ ParserLeft(p) \in Nat /\ LineQuiet \in Nat
  BY <1>1, Times, Firmware, LoopBoundType DEF LeftOK
<1>3. ControlLeft' \in Nat /\ late' \in Nat
  BY <1>1, Times DEF LeftOK
<1>4. late' <= late + 1
  BY <1>2, <1>3 DEF ParserTick, Later
<1>5. /\ UNCHANGED <<pc, spent>> /\ \A t \in Threads : Ready(t)' <=> Ready(t)
      /\ \A t \in Threads : ~Ready(t) => timer'[t] = timer[t] - 1
      /\ quiet' = 0
  BY ParserTickDoes DEF Ready
<1>6. MainLeft(d)' = MainLeft(d) /\ SensorLeft(r)' = SensorLeft(r)
  BY <1>5, Firmware DEF MainLeft, SensorLeft
<1>7. ControlLeft' <= ControlLeft
  BY <1>5, Firmware, NeedType, Times DEF ControlLeft
<1>8. PICK q \in BOOLEAN : q = TRUE
  OBVIOUS
<1>9. ParserLeft(q)' <= ParserLeft(p) - 1 /\ ParserLeft(q)' \in Nat
  <2>1. ParserLeft(q)' = Ta - (parsed + 1) /\ ParserLeft(q)' \in Nat
    BY <1>8, ParserTickDoes, ParserLeftType, Times DEF ParserLeft, Ta
  <2>2. ParserLeft(p) = Ta - parsed \/ ParserLeft(p) = Ta
    BY DEF ParserLeft
  <2>3. parsed \in Nat
    BY ParserLeftType, Times
  <2> QED BY <2>1, <2>2, <2>3, Times
<1>10. late' + ControlLeft' + MainLeft(d)' + SensorLeft(r)' + ParserLeft(q)' <= LoopBound
  <2>1. late + ControlLeft + MainLeft(d) + SensorLeft(r) + ParserLeft(p) <= LoopBound
    BY <1>0 DEF OnTimeAs
  <2> QED BY <1>2, <1>3, <1>4, <1>6, <1>7, <1>9, <2>1
<1>11. d /\ ~Ready("main")' => ControlLeft' + SensorLeft(r)' + ParserLeft(q)' < timer'["main"]
  <2>1. SUFFICES ASSUME d, ~Ready("main")
                 PROVE  ControlLeft' + SensorLeft(r)' + ParserLeft(q)' < timer'["main"]
    BY <1>5, Firmware
  <2>2. ControlLeft + SensorLeft(r) + ParserLeft(p) < timer["main"] /\ timer'["main"] = timer["main"] - 1
    BY <1>0, <1>5, <2>1, Firmware DEF OnTimeAs
  <2> QED BY <1>2, <1>3, <1>6, <1>7, <1>9, <2>2
<1>12. r /\ ~Ready("sensor")' /\ pc'["sensor"] = "pause_ends" =>
         ControlLeft' + MainLeft(d)' + ParserLeft(q)' < timer'["sensor"]
  <2>1. SUFFICES ASSUME r, ~Ready("sensor"), pc["sensor"] = "pause_ends"
                 PROVE  ControlLeft' + MainLeft(d)' + ParserLeft(q)' < timer'["sensor"]
    BY <1>5, Firmware
  <2>2. ControlLeft + MainLeft(d) + ParserLeft(p) < timer["sensor"] /\ timer'["sensor"] = timer["sensor"] - 1
    BY <1>0, <1>5, <2>1, Firmware DEF OnTimeAs
  <2> QED BY <1>2, <1>3, <1>6, <1>7, <1>9, <2>2
<1>13. ControlLeft' + MainLeft(d)' + SensorLeft(r)' < LineQuiet - quiet'
  <2>1. ControlLeft <= LoopPeriod + Tc /\ MainLeft(d) \in 0 .. Tm /\ SensorLeft(r) \in 0 .. 2 * Ts
    BY <1>1 DEF LeftOK, OnTime
  <2> QED BY <1>2, <1>3, <1>5, <1>6, <1>7, <2>1, Times
<1>14. OnTimeAs(d, r, q)'
  BY <1>10, <1>11, <1>12, <1>13 DEF OnTimeAs
<1>15. ControlLeft' <= LoopPeriod + Tc
  BY <1>2, <1>3, <1>7, Times DEF OnTime
<1> QED BY <1>14, <1>15 DEF OnTime

LEMMA InitOnTime == Init => OnTime
<1> SUFFICES ASSUME Init PROVE OnTime
  OBVIOUS
<1>1. Kernel
  BY InitKernel
<1>2. LeftOK
  BY <1>1, LeftTypes
<1>3. PICK no \in BOOLEAN : ~no
  OBVIOUS
<1>4. late = 0 /\ ControlLeft = Tc + LoopPeriod
  BY Times, Firmware DEF Init, ControlLeft
<1>5. /\ MainLeft(no) \in 0 .. Tm /\ SensorLeft(no) \in 0 .. 2 * Ts /\ ParserLeft(no) \in 0 .. Ta
      /\ LoopBound = LoopPeriod + Tc + 2 * Ts + Tm + Ta
  BY <1>2 DEF LeftOK
<1>6. OnTimeAs(no, no, no)
  BY <1>3, <1>4, <1>5, Times DEF OnTimeAs
<1> QED BY <1>4, <1>6, Times DEF OnTime

LEMMA StepOnTime ==
  ASSUME Kernel, Kernel', OnTime, [Next]_tasksVars
  PROVE  OnTime'
<1>1. CASE UNCHANGED tasksVars
  <2>1. UNCHANGED <<stat, timer, pc, spent, late, parsed, quiet>>
    BY <1>1 DEF tasksVars, line
  <2> QED BY <2>1 DEF OnTime, OnTimeAs, ControlLeft, MainLeft, SensorLeft, ParserLeft, Ready
<1> QED BY <1>1, SensorOnTime, ControlOnTime, DisplayOnTime, TickOnTime, ParserTickOnTime,
          ExpireOnTime DEF Next

\* The control loop turns in time, whatever the threads do and whenever the AT line
\* speaks: never more than its period, a reading, a drawing and a parse after it last did.
THEOREM TasksLoopOnTime == Spec => []LoopOnTime
<1>1. Init => Kernel /\ OnTime
  BY InitKernel, InitOnTime
<1>2. Kernel /\ OnTime /\ [Next]_tasksVars => (Kernel /\ OnTime)'
  BY StepKernel, StepOnTime
<1>3. Kernel /\ OnTime => LoopOnTime
  <2> SUFFICES ASSUME Kernel, OnTime PROVE LoopOnTime
    OBVIOUS
  <2>1. PICK d \in BOOLEAN, r \in BOOLEAN, p \in BOOLEAN : OnTimeAs(d, r, p)
    BY DEF OnTime
  <2>2. LeftOK
    BY LeftTypes
  <2> QED BY <2>1, <2>2, Times, LoopBoundType DEF OnTimeAs, LeftOK, LoopOnTime
<1> QED BY <1>1, <1>2, <1>3, PTL DEF Spec
=============================================================================
