---------------------------- MODULE LitterTasks ----------------------------
(***************************************************************************)
(* The threads of the firmware around the control loop: ReadSensor_Task,   *)
(* which hands each climate reading over in two mailboxes and a semaphore, *)
(* StartControl_Task, which takes it with Sensor_Logic_UpdateInputs before *)
(* each turn of the control loop, and the display loop of main, which runs *)
(* above both and keeps them from running while it draws.  at_clnt, which  *)
(* parses what the WiFi module sends, runs above all of them; it shares    *)
(* nothing with them but the processor, so that it appears as the ticks it *)
(* takes.  Time passes in ticks, also in the middle of a thread's turn.    *)
(* dynamic_mutex is left out: the sensor thread is the only one to take it.*)
(***************************************************************************)
EXTENDS RtSemaphore, RtMailbox

CONSTANTS LoopPeriod,    \* CONTROL_LOOP_PERIOD_MS: 10 ticks
          Gap,           \* between the two mailboxes: 10 ticks
          Pause,         \* between two readings: 1000 ticks
          DisplayRest,   \* of the display loop: 1100 ticks
          TurnTime,      \* bound, for each thread: the ticks it runs in one turn
          ParseTime,     \* bound: the ticks at_clnt runs until the line is quiet again
          LineQuiet,     \* bound: the ticks for which the line is quiet then
          Rounds         \* bound: readings are counted modulo Rounds

\* Each long sleep, and each quiet time of the line, leaves the threads below the time
\* they need: turns of the others, a period, and two turns of the control loop.
ASSUME TasksAssumption ==
  /\ Threads = {"main", "sensor", "control"}
  /\ Priority["main"] < Priority["sensor"] /\ Priority["sensor"] < Priority["control"]
  /\ {LoopPeriod, Gap, Pause, DisplayRest} \subseteq Waits
  /\ TurnTime \in [Threads -> Nat]
  /\ ParseTime \in Nat /\ LineQuiet \in Nat \ {0}
  /\ DisplayRest > LoopPeriod + 2 * TurnTime["control"] + 2 * TurnTime["sensor"] + ParseTime
  /\ Pause > LoopPeriod + 2 * TurnTime["control"] + TurnTime["main"] + ParseTime
  /\ LineQuiet > LoopPeriod + 2 * TurnTime["control"] + 2 * TurnTime["sensor"] + TurnTime["main"]
  /\ MbSize >= 2
  /\ Rounds \in Nat /\ Rounds > MbSize + 2

VARIABLES pc,        \* where each thread is
          spent,     \* ticks a thread has run in its turn
          tem_mb, hum_mb,
          cur_tem, cur_hum,
          round,     \* the reading the sensor thread is at; a value is known by it
          sample,    \* sensor_data of ReadSensor_Task
          climate,   \* what tem and hum hold
          succeeded, \* a read of the sensor has succeeded
          late,      \* ticks since the control loop last turned, up to one past LoopBound
          parsed,    \* ticks at_clnt has run since the line was last quiet for LineQuiet
          quiet      \* ticks since it last ran, up to LineQuiet

exchange == <<tem_mb, hum_mb, cur_tem, cur_hum>>
reading == <<round, sample, climate, succeeded>>
line == <<parsed, quiet>>
tasksVars == <<stat, error, timer, value, waiting, call, pc, spent, exchange, reading, late, line>>

\* What may pass between two turns of the control loop: its period, its own turn, the
\* two turns the sensor thread takes for a reading, one drawing, and what the line says.
LoopBound ==
  LoopPeriod + TurnTime["control"] + 2 * TurnTime["sensor"] + TurnTime["main"] + ParseTime

None == Rounds   \* of no round: before the first message
Round == 0 .. Rounds - 1

\* rt_mb_init, rt_sem_create with no token, and three threads that start;
\* sensor_data is uninitialised.
Init ==
  /\ ThreadInit /\ value = 0 /\ waiting = <<>> /\ call = [t \in Threads |-> "none"]
  /\ pc = [main |-> "draw", sensor |-> "read", control |-> "take"]
  /\ spent = [t \in Threads |-> 0]
  /\ tem_mb = MbInit(None) /\ hum_mb = MbInit(None)
  /\ cur_tem = None /\ cur_hum = None
  /\ round = 0
  /\ sample \in {"junk", "negative"} /\ climate = "zero" /\ succeeded = FALSE
  /\ late = 0 /\ parsed = 0 /\ quiet = LineQuiet

Jump(t, from, to) == pc[t] = from /\ pc' = [pc EXCEPT ![t] = to]

Go(t, from, to) == Jump(t, from, to) /\ UNCHANGED spent

Goes(t, from, to) == Calls(t) /\ Go(t, from, to)

\* A turn of the thread is over.
EndTurn(t, from, to) == Jump(t, from, to) /\ spent' = [spent EXCEPT ![t] = 0]

-----------------------------------------------------------------------------
(* ReadSensor_Task *)

\* Mutant: sensor_data belongs to the loop and is new each time.
ReadSensor_NewBuffer(result) ==
  /\ Goes("sensor", "read", "send_tem")
  /\ sample' = IF result = "real" THEN result ELSE "junk"
  /\ climate' = IF sample' = "negative" THEN climate ELSE sample'
  /\ succeeded' = (succeeded \/ result = "real")
  /\ UNCHANGED <<semVars, exchange, round, late, line>>

\* rt_device_read; its result is not looked at, and a failed one leaves the buffer.
ReadSensor(result) ==
  /\ Goes("sensor", "read", "send_tem")
  /\ sample' = IF result = "real" THEN result ELSE sample
  /\ climate' = IF sample' = "negative" THEN climate ELSE sample'
  /\ succeeded' = (succeeded \/ result = "real")
  /\ UNCHANGED <<semVars, exchange, round, late, line>>

SendTem ==
  /\ Goes("sensor", "send_tem", "gap")
  /\ tem_mb' = MbSend(tem_mb, round)
  /\ UNCHANGED <<semVars, hum_mb, cur_tem, cur_hum, reading, late, line>>

\* Mutant: the token is released between the two messages.
GapBegins_Released ==
  /\ EndTurn("sensor", "gap", "gap_ends")
  /\ IF waiting = <<>>
     THEN value' = value + 1 /\ SuspendFor("sensor", Gap) /\ UNCHANGED waiting
     ELSE /\ stat' = [stat EXCEPT !["control"] = "ready", !["sensor"] = "suspended"]
          /\ timer' = [timer EXCEPT !["control"] = Stopped, !["sensor"] = Gap]
          /\ waiting' = <<>> /\ UNCHANGED <<error, value>>
  /\ Calls("sensor") /\ call' = [call EXCEPT !["sensor"] = "sleep"]
  /\ UNCHANGED <<exchange, reading, late, line>>

GapBegins == EndTurn("sensor", "gap", "gap_ends") /\ Sleep("sensor", Gap) /\ UNCHANGED <<exchange, reading, late, line>>

GapEnds == Go("sensor", "gap_ends", "send_hum") /\ SleepReturns("sensor") /\ UNCHANGED <<exchange, reading, late, line>>

SendHum ==
  /\ Goes("sensor", "send_hum", "release")
  /\ hum_mb' = MbSend(hum_mb, round)
  /\ UNCHANGED <<semVars, tem_mb, cur_tem, cur_hum, reading, late, line>>

Notify ==
  /\ Go("sensor", "release", "pause")
  /\ SemRelease("sensor")
  /\ UNCHANGED <<exchange, reading, late, line>>

PauseBegins ==
  /\ EndTurn("sensor", "pause", "pause_ends") /\ Sleep("sensor", Pause)
  /\ UNCHANGED <<exchange, reading, late, line>>

PauseEnds ==
  /\ Go("sensor", "pause_ends", "read") /\ SleepReturns("sensor")
  /\ round' = (round + 1) % Rounds
  /\ UNCHANGED <<exchange, sample, climate, succeeded, late, line>>

-----------------------------------------------------------------------------
(* StartControl_Task with Sensor_Logic_UpdateInputs *)

TakeNow ==
  /\ Go("control", "take", "recv_tem") /\ SemTakeNow("control")
  /\ UNCHANGED <<exchange, reading, late, line>>

\* Mutant: the wait has no end.
TakeWaits_Forever ==
  /\ Go("control", "take", "taking") /\ SemTakeWaits("control", RT_WAITING_FOREVER)
  /\ UNCHANGED <<exchange, reading, late, line>>

TakeWaits ==
  /\ Go("control", "take", "taking") /\ SemTakeWaits("control", LoopPeriod)
  /\ UNCHANGED <<exchange, reading, late, line>>

\* Mutant: the result of the take is not looked at.
TakeReturns_AnyResult ==
  /\ Go("control", "taking", "recv_tem")
  /\ SemTakeReturns("control")
  /\ UNCHANGED <<exchange, reading, late, line>>

TakeReturns ==
  /\ Go("control", "taking", IF error["control"] = "EOK" THEN "recv_tem" ELSE "run")
  /\ SemTakeReturns("control")
  /\ UNCHANGED <<exchange, reading, late, line>>

RecvTem ==
  /\ Goes("control", "recv_tem", "recv_hum")
  /\ tem_mb' = MbRecv(tem_mb)
  /\ cur_tem' = IF MbEmpty(tem_mb) THEN cur_tem ELSE MbFirst(tem_mb)
  /\ UNCHANGED <<semVars, hum_mb, cur_hum, reading, late, line>>

\* Mutant: the value is looked at and stays in the mailbox.
RecvHum_Peeks ==
  /\ Goes("control", "recv_hum", "run")
  /\ cur_hum' = IF MbEmpty(hum_mb) THEN cur_hum ELSE MbFirst(hum_mb)
  /\ UNCHANGED <<semVars, hum_mb, tem_mb, cur_tem, reading, late, line>>

RecvHum ==
  /\ Goes("control", "recv_hum", "run")
  /\ hum_mb' = MbRecv(hum_mb)
  /\ cur_hum' = IF MbEmpty(hum_mb) THEN cur_hum ELSE MbFirst(hum_mb)
  /\ UNCHANGED <<semVars, tem_mb, cur_tem, reading, late, line>>

\* Sensor_Logic_Running: the subject of LitterLogic.
RunControl ==
  /\ Calls("control") /\ EndTurn("control", "run", "take")
  /\ late' = 0
  /\ UNCHANGED <<semVars, exchange, reading, line>>

-----------------------------------------------------------------------------
(* The display loop of main: it draws, and sleeps. *)

DrawEnds ==
  /\ EndTurn("main", "draw", "resting") /\ Sleep("main", DisplayRest)
  /\ UNCHANGED <<exchange, reading, late, line>>

RestEnds ==
  /\ Go("main", "resting", "draw") /\ SleepReturns("main")
  /\ UNCHANGED <<exchange, reading, late, line>>

-----------------------------------------------------------------------------
Later == late' = IF late <= LoopBound THEN late + 1 ELSE late

\* client_parser of the AT client: above the three others, it waits for nothing but
\* rx_notice, which the receive interrupt releases with every character.  Nothing in
\* the firmware limits it; ParseTime and LineQuiet say what the WiFi module sends.
ParserTick ==
  /\ TickPasses
  /\ parsed < ParseTime
  /\ parsed' = parsed + 1 /\ quiet' = 0
  /\ Later
  /\ UNCHANGED <<pc, spent, exchange, reading>>

\* A tick that at_clnt waits, spent by the thread that is running, if one is.
Tick ==
  /\ TickPasses
  /\ \A t \in Threads : Running(t) => spent[t] < TurnTime[t]
  /\ spent' = [t \in Threads |-> IF Running(t) THEN spent[t] + 1 ELSE spent[t]]
  /\ Later
  /\ quiet' = IF quiet < LineQuiet THEN quiet + 1 ELSE quiet
  /\ parsed' = IF quiet' = LineQuiet THEN 0 ELSE parsed
  /\ UNCHANGED <<pc, exchange, reading>>

Expire(t) == TimeOut(t) /\ UNCHANGED <<pc, spent, exchange, reading, late, line>>

SensorStep ==
  \/ \E result \in {"real", "failed"} : ReadSensor(result)
  \/ SendTem \/ GapBegins \/ GapEnds \/ SendHum \/ Notify \/ PauseBegins \/ PauseEnds

ControlStep == TakeNow \/ TakeWaits \/ TakeReturns \/ RecvTem \/ RecvHum \/ RunControl

DisplayStep == DrawEnds \/ RestEnds

Next == SensorStep \/ ControlStep \/ DisplayStep \/ ParserTick \/ Tick \/ \E t \in Threads : Expire(t)

Spec == Init /\ [][Next]_tasksVars

\* The processor and the tick interrupt do not stop; TurnTime bounds every turn.
FairSpec == Spec /\ WF_tasksVars(Next)

-----------------------------------------------------------------------------
SensorAt == {"read", "send_tem", "gap", "gap_ends", "send_hum", "release", "pause", "pause_ends"}
ControlAt == {"take", "taking", "recv_tem", "recv_hum", "run"}

TasksTypeOK ==
  /\ SemTypeOK
  /\ pc["sensor"] \in SensorAt /\ pc["control"] \in ControlAt /\ pc["main"] \in {"draw", "resting"}
  /\ \A t \in Threads : spent[t] \in 0 .. TurnTime[t]
  /\ tem_mb \in MbType(Round \cup {None}) /\ hum_mb \in MbType(Round \cup {None})
  /\ cur_tem \in Round \cup {None} /\ cur_hum \in Round \cup {None}
  /\ round \in Round
  /\ sample \in {"junk", "negative", "real"} /\ climate \in {"zero", "junk", "real"}
  /\ succeeded \in BOOLEAN /\ late \in 0 .. LoopBound + 1
  /\ parsed \in 0 .. ParseTime /\ quiet \in 0 .. LineQuiet

Taken == pc["control"] = "recv_tem" \/ (pc["control"] = "taking" /\ Woken("EOK") # {})

Flag(b) == IF b THEN 1 ELSE 0

\* Every token stands for one message in each mailbox, whoever holds it: kept in
\* the semaphore, handed to the waiting control thread, or already returned to it.
\* The sensor thread is ahead by what it has sent and not yet announced.
TokensCountReadings ==
  LET announced == value + Flag(Taken)
  IN  /\ tem_mb.entry = announced + Flag(pc["sensor"] \in {"gap", "gap_ends", "send_hum", "release"})
      /\ hum_mb.entry = announced + Flag(pc["sensor"] = "release")
                                  + Flag(pc["control"] = "recv_hum")

\* Nothing is lost: rt_mb_send, whose result nobody looks at, never meets a full
\* mailbox, however long the display and the AT line keep the control thread from running.
NeverFull ==
  /\ pc["sensor"] = "send_tem" => ~MbFull(tem_mb)
  /\ pc["sensor"] = "send_hum" => ~MbFull(hum_mb)

\* The control loop never sees the temperature of one reading beside the humidity
\* of another, although they come through two mailboxes with a pause in between.
PairsMatch == pc["control"] \in {"run", "take", "taking", "recv_tem"} => cur_tem = cur_hum

\* Once the sensor has answered, tem and hum show an answer of the sensor, also
\* when later reads fail and their result is not looked at.
ClimateReal == succeeded => climate = "real"

\* Readings are taken one after the other, none of them twice and none skipped.
InOrder ==
  [][cur_tem' # cur_tem => cur_tem' = IF cur_tem = None THEN 0 ELSE (cur_tem + 1) % Rounds]_tasksVars

\* Every reading announced reaches the control loop.
ReadingsArrive ==
  \A r \in Round : (pc["sensor"] = "pause" /\ round = r) ~> (pc["control"] = "run" /\ cur_hum = r)

\* The control loop turns in time, with readings and without: it is never kept waiting
\* for longer than its period, one reading, one drawing and one parse of the AT line.
LoopOnTime == late <= LoopBound
=============================================================================
