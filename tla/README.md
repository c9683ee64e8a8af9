# Verification of the smart cat litter box firmware

The firmware (HC32F460, RT-Thread) runs a drum-type litter box: an infrared
sensor sees the cat, a load cell sees a full waste bin, three hall sensors see
where the drum stands, and an H-bridge turns the drum to the dump position, to
the sand-return position and home again. The program itself is small
(`app_logic/`, `applications/main.c`, about 2000 lines); everything else in
the tree is RT-Thread, vendor code and packages.

This directory holds TLA+ models of that program, the TLC runs that check them
and the TLAPS proofs about them. `PROJECT.json` lists runs, source map, hazards
and theorems.

## 1. Inventory

| part | code | state it keeps | operations |
| --- | --- | --- | --- |
| state machine | `app_logic/fsm.c` | `litter_fsm_ctx_t`: state, phase, fault code, three inputs, deadline and stamps | `init`, `sync_inputs`, `dispatch`, `tick` |
| control loop | `logic.c` `Sensor_Logic_*` | `g_prev_*`, `g_*_request`, `box_used` | `Init`, `UpdateInputs`, `Running`, `RequestClean`, `RequestReset` |
| hall sampler | `logic.c` `logic_hall_*` | `g_hall_state` | `init`, `poll`, dispatch of arrivals |
| shell | `logic.c` `litter_*` | none | status, clean, reset, timeout |
| threads | `app_init.c` | a semaphore, a mutex, two mailboxes, the sensor buffer | start-up, sensor thread, control thread |
| kernel | `ipc.c`, `thread.c` | thread states, errors, timers, suspend list, ring buffers | take, release, sleep, time-out, send, receive |
| MQTT client | `app_init.c` `Mqtt_Task`, `mqtt.c` | `pclient`, `loop_cnt`, `g_mqtt_link_online`, two buffers | connect, subscribe, publish, yield, callbacks |
| display | `applications/main.c` | none | sets the pins up, draws the globals every 1.1 s |
| drum | external | where it stands | moves as IN1 and IN2 drive it, is felt by the hall sensors |
| weight, climate | HX711 code (not in the tree), DHT11 package | `cur_weight`, `tem`, `hum` | weight: arbitrary input; climate: a read that may fail |

**Interaction.** Priorities (lower is stronger): at_clnt 9, main 10, sensor 12,
control 14, MQTT 16, finsh 20, the system work queue 23. at_clnt is the parser
of the AT client (`at_client.c:868-873`), which the configured ESP8266 starts
(`rtconfig.h:144,172-181`): it waits for characters from the WiFi module and
shares nothing with the threads of the firmware but the processor. The sensor
thread reads the DHT11, posts the two halves of a reading to two mailboxes 10 ms apart, and releases a semaphore; the
control thread waits for it with a time-out of 10 ms, receives from the
mailboxes when it got the token, and calls `Sensor_Logic_Running` after every
wake-up. `Sensor_Logic_Running` polls the hall sensors and drives the motor
pins through the state machine's callbacks. The MQTT thread and the shell queue
requests by setting a flag. Only `litter_timeout` drives the state machine from
a thread other than the control thread, without a lock. `main` sets the motor
pins up a second time after it has started the threads (`main.c:64`), and then
draws over a slow bus above all of them. The display and the MQTT thread read
the state machine through getters.

**What is hard in it**, and the properties aimed at it (the full list, with
lines, is `hazards` in `PROJECT.json`):

* inputs act by their edges, and FAULT skips edges (`StateMatchesSample`);
* an iteration dispatches up to five events and a timeout on inputs read once
  (`MotorSafe`);
* protect stops, faults and resets recover into the states that lead to a run
  (`UnaskedRunWaits`, `RunAnswersVisit`);
* every way out of a run has to stop the motor (`MotorFollowsPhase`,
  `ImplementsCycle`);
* arrivals are deduplicated across phases and runs (`ArrivalConsumed`), and
  the position acted on is up to a debounce time old and may stem from the run
  before, above all when a reset or a moment of a full bin breaks that one off
  and the next is asked for at once (`PhaseEndsThere`, `GetsHome`);
* all times are differences of a 32-bit tick that wraps every 49.7 days
  (`RunBudget`, `CleaningEnds`, `ArmedWindowCloses`, `ImplementsDebounce`);
* a phase's budget runs while the drum travels, the sampler waits and the
  debounce passes (`NoFalseTimeout`);
* a timeout has to stay latched while everything else recovers by itself
  (`TimeoutLatched`, `TimeoutNeedsReset`);
* `litter_timeout` races with the control loop (`MotorSafeAtRest`,
  `MotorComesToRest`, `CleaningEndsAnyway`, `InjectsOnlyWhileCleaning`);
* a request outlives the interlock it was made under
  (`BlockedRequestStartsNothing`);
* the time-out of the control thread's take races with the release of a reading
  (`NoLostWakeup`, `ImplementsTokens`, `TokensCountReadings`), whose two halves
  travel apart (`PairsMatch`, `InOrder`) through mailboxes that may fill
  (`NeverFull`, `ReadingsArrive`);
* the result of the DHT11 read is ignored (`ClimateReal`);
* the display and the AT parser keep the control loop from stopping the motor
  (`LoopOnTime`);
* the pins are set up again under a run already begun (`PinsFollowPhase`);
* every step of connecting may fail, and three places write the link flag
  (`LinkTruthful`, `NothingLeaks`, `ImplementsSession`, `ComesOnline`,
  `KeepsReporting`).

## 2. Modules

| module | models | kind |
| --- | --- | --- |
| `TickClock` | arithmetic of `rt_tick_t`: sums, unsigned and signed differences modulo `TickMod` (2^32 in the firmware) | operators |
| `LitterFsm` | every function of `fsm.c` as an operator from context to context | operators |
| `FsmMachine` | the state machine under an arbitrary client: `Sync`, `Post`, `Poll`, `Clock` are the entry points in any order | behaviour |
| `CleanCycle` | what a cleaning run promises: legs in order, drive by leg, begin with clear inputs, break off at rest | abstract |
| `LitterLogic` | the control loop: `Iterate` is one turn of `StartControl_Task`, with `Sensor_Logic_Running` stage by stage; `RequestClean`, `RequestReset` | behaviour |
| `LogicProps` | its properties | |
| `LitterHistory` | the loop with three history variables: for how long the box has been empty, whether a visit is still to be cleaned up after, and under what a request was made | behaviour |
| `LitterHall` | `logic_hall_poll` on the wrapping tick, every combination of the three pins | behaviour |
| `HallDebounce` | debouncing in a time that does not wrap | abstract |
| `LitterShell` | the control loop with `litter_timeout` cut at each load and store of `fsm_enter_fault` / `fsm_enter_state` | behaviour |
| `LitterDrum` | the box as a whole: control loop, sampler (`INSTANCE LitterHall`), motor pins, a drum that moves as they drive it, and the second set-up of the pins | composition |
| `RtThread` | the kernel's scheduling: strict priorities, suspend, resume, time-out, tick | operators |
| `RtSemaphore` | `rt_sem_take` and `rt_sem_release` by any threads, with the suspend list in order of priority, and `rt_thread_sleep` | behaviour |
| `TokenQueue` | a counting semaphore without lists, timers and errors | abstract |
| `RtMailbox` | the ring buffer of a mailbox | operators |
| `LitterTasks` | `ReadSensor_Task`, `StartControl_Task` with `Sensor_Logic_UpdateInputs`, the display loop, and the time at_clnt takes, on `RtSemaphore` and two `RtMailbox`es | composition |
| `LitterMqtt` | `Mqtt_Task`, subscribing, publishing and the callbacks, with each call failing at any time | behaviour |
| `LinkSession` | what the MQTT thread promises about its link: one client, a flag that is withdrawn first, a rest after every failure | abstract |
| `FsmLemmas`, `FsmProofs`, `LogicProofs`, `HallProofs`, `DrumProofs`, `MqttProofs`, `SemProofs`, `TasksProofs` | lemmas and theorems | proofs |
| `MC*` | instances for TLC | |

**Correspondence.** The record `ctx` has the fields of `litter_fsm_ctx_t` that
are read again; `state_enter_tick`, `last_event_tick` and `cleaning_active` are
written and never read, the `*_ms` fields never change after `litter_fsm_init`
and are constants, and the callbacks of `ops` appear as the field `motor`, the
direction the H-bridge is driven in (in `LitterDrum` the two pins are a
variable of their own). `EnterState(c, s, now)` is the body of
`fsm_enter_state`, including its early return; a `Dispatch` inside a C function
(the end of a run dispatches `EVT_CLEAN_DONE`) is carried out inside the
operator. The `"BIN_FULL"` branches that only log are left out.

In `Running` each stage takes the context the stage before leaves, in the order
of the code: inputs, bin edge, occupancy edge, clean request, reset request,
hall arrival, tick, previous values. `current_state` is read once before the
occupancy edge and again before the hall stage, as in the code (`edges` and
`served`). `HallReading` is what a poll may come to: in `LitterLogic` the
debounced position takes any value at any turn, which includes everything
`LitterHall` can produce; in `LitterDrum` it is what the sampler made of the
magnets the drum stands at.

In `LitterTasks` and `RtSemaphore` a kernel call is one step up to the place
where it calls `rt_schedule`, and a second one when the thread runs again:
`SemTakeWaits` / `SemTakeReturns`, `Sleep` / `SleepReturns`. A thread steps only
while no ready thread has a higher priority and no time-out is due in the tick
interrupt. In `LitterMqtt` the variable `pc` names the next call of the
library or the allocator, and each call has one action for success and one for
every way it fails; what the code does between two calls belongs to one of
their actions.

**Abstractions.**

* One `now` per iteration: the code calls `rt_tick_get` several times, a few
  microseconds apart. An iteration is one step, because no thread that writes
  the same state has a higher priority than the control thread, and it does not
  block; of the threads above it, sensor only reads, main writes nothing but the
  pins, once (`SetUpPins`), and at_clnt touches nothing of it.
  The loop's period varies over `LoopTicks`.
* `Sensor_Logic_Init` runs in `start_rt_thread` before the threads exist, so
  `g_logic_ready` is always true in them and the lazy initialisation in
  `Running` never happens.
* A thread's timer counts the ticks that are left, in place of the sorted list
  of deadlines in `timer.c`. A take that does not wait and a release at the
  counter's limit change nothing and are no steps.
* at_clnt appears as the ticks it takes from the others (`ParserTick`): it may
  run at any tick, but not for longer than `ParseTime` before the line is quiet
  for `LineQuiet`. Nothing in the firmware says how much the module sends; the
  two bounds are assumptions about the traffic. at_cli (priority 8) exists only
  while somebody runs the `at` command in the shell, and is left out.
* Nobody ever waits on a mailbox here, since both sides pass a time-out of 0: a
  mailbox is a value without suspend lists. `dynamic_mutex` is left out: one
  thread takes it.
* A reading is known by its number modulo `Rounds`; of the DHT11 buffer the
  model keeps whether it holds an answer of the sensor, or what the stack held.
* The MQTT library is external. It reports the loss and the return of the
  connection and delivers messages inside `IOT_MQTT_Yield` only, on the
  calling thread. A call or an allocation fails only while the service is not
  there or the connection is broken; the service comes and goes at any time. A
  message is delivered on a connection that is up or broken, whatever the flag
  says: the handler does not look at it. A topic is the one subscribed to or
  another, a payload is the set of command styles it contains.
* The drum is external. It moves one place per tick, stops at both ends of its
  way, and is felt in a zone at each magnet (`Zone`). `PlaceAssumption` says how
  the zones lie, and `DrumAssumption` what the firmware's constants ask of the
  drum (section 4).

## 3. Runs

Bounds are small clocks: `TickMod` is 2^32 in the firmware and 3 to 28 here, so
that every stamp and deadline wraps many times and all residues are initial
values of `now`. Windows are 1 to 2 ticks and phases 1 to 2 (more in `drum`),
and a run may take fewer ticks than the clock has, as in the firmware (20 s of
49.7 days). The
assumptions in `LitterFsm` and `LitterLogic` say what of this ratio is needed.
The finite clock is all that bounds the models of the control loop; requests
are flags, and `box_used` is counted modulo `UseMod`. No symmetry is used.
Deadlock is checked everywhere.

| run | module | shows |
| --- | --- | --- |
| `fsm` | `MCFsm` | 17 200 states. Any order of calls: motor, phase, state and fault code agree; a timeout is latched; the machine implements `CleanCycle`. |
| `logic` | `MCLogic` | 115 000 states. Between two iterations: motor only in a safe run, state agrees with the last sample, budgets kept, no arrival lost, timeouts cleared by hand, visits counted once. |
| `history` | `MCHistory` | 179 700 states. A run nobody asked for waits both windows without a break, and answers a visit that no run and no reset has come after; every run ends; every window with a deadline other than 0 closes. |
| `hall` | `MCHall` | 10 620 states; debounce time twice the sample period as in the firmware, polls 1 to 3 ticks apart. Refines `HallDebounce`, samples when the period has passed and not before, settles. |
| `shell` | `MCShell` | 105 000 states. Whatever `litter_timeout` is interrupted by, the motor comes to rest and runs end. |
| `tasks` | `MCTasks` | 270 600 states. Three threads and the AT parser on the kernel: no wake-up lost, the semaphore implements `TokenQueue`, a token for each reading, halves in pairs, in order and all of them, the loop on time. |
| `mqtt` | `MCMqtt` | 300 states. Every call failing at any time, losses noticed and not noticed: the flag is truthful, nothing leaks, `LinkSession` is implemented, the link and the reports come back. |
| `drum` | `MCDrum` | 184 200 states. Control loop, sampler and drum together, with cats, full bins, requests and resets at any time: no false timeout, phases end at their magnet, an undisturbed run comes home. |
| `zero_deadline` | `MCLogic` | finding 1 below |
| `blocked_request` | `MCHistory` | finding 2 below |
| `shell_inject` | `MCShell` | finding 3 below |
| `pins` | `MCDrum` | finding 4 below |

The control loop treats TRANSITION and INVALID alike, as "not at the target".
The `logic` run has TRANSITION for both; `history` and `shell` leave it out
too, since each magnet is "not at the target" in the phases of the others.

**Bounds of `tasks`.** Times keep the firmware's order: loop period and gap
alike (10 ms, here 2 ticks), the display rests for a little longer than the
sensor thread does (1.1 s and 1 s, here 7 and 6 ticks), a drawing takes longer
than a reading (2 ticks and 1; about 25 ms for a reading in the firmware), the
turn of the control loop less than a tick. The AT parser may take a tick before
the line is quiet for 7. `TurnTime` says how many ticks a thread may run before
it waits; it is what makes a strict priority fair. `TasksAssumption` asks that
each long sleep, and each quiet time of the line, leaves the threads below more
than the time they need in the meantime, which in the firmware is some 1000 ms
against some 60, and the parsing. Traffic that keeps the line busy for longer
than that leaves the model, and the bounds on time with it: nothing in the
firmware would keep at_clnt from holding up the control loop. `LoopBound`
counts the period, one reading, one drawing, one parse and the loop's own turn,
and is sharp: the run reaches a lateness of just that. Mailboxes
of two slots (32 in the firmware) already never fill. `Rounds` of 5 tells apart all the readings that can be under way. The semaphore never comes to
hold more than one token; `SemValueMax` of 4 leaves room for more, so that this
is a result and not a bound.

**Bounds of `drum`.** Seven places: one at which the sand-return position is
felt, five of the home position in the middle, one of the dump position. The
drum goes over one place in a tick and the loop turns every one or two, so that
an arrival is noticed at most `Noticing` = 4 ticks after it (the debounce time
of two, and a late sample before and after it). Home is just wide enough to
stop in, and the budgets (11, 11, 6 ticks, 26 for the run) are one tick longer
than the longest ways and the noticing, so `DrumAssumption` holds with nothing
to spare. Its width of home is sharp: with home one place narrower TLC finds a
false timeout. The other inequalities are sufficient and on this instance not
all necessary: `Noticing` is an upper bound, and a budget a tick or two shorter
still holds (a run of 24 ticks does, one of 23 does not). Cats, full bins,
requests and resets come and go freely. `PhaseEndsThere` has an exception for
it, `BeginsTooSoon`: a run asked for that begins less than `Noticing` ticks
after the drum stopped, as after a reset in CLEANING (`fsm.c:596`), may take an
old dump position for its own and go on to TO_POS3 at once. Without the
exception TLC finds just that; with it, it is the only way a phase ends in the
wrong place. `MCView` merges states that differ only in what no step reads
before writing it: stamps of runs that are over, the stamp of a stable
candidate, the position reported to a forgotten phase, history that is settled
(for how long the drum has stood counts only while its dump position is an old
one), or in a clean request under a run: the next turn drops it, or keeps it if
the bin is full by then, which is as if it had been made after that turn.

**Bounds of `mqtt`.** Reports every 3 yields instead of 20; nothing else is
unbounded.

**Fairness.** `WF_now(Turn)`: the control thread turns again and again, because
its `rt_sem_take` has a time-out of 10 ms and the threads above it sleep most
of the time (`LoopOnTime` in `tasks` is the bounded form of the same fact).
`Turn` is exactly what an `Iterate` step does to `now`. The shell
run adds `WF_shell(Inject)`: once called, the command gets its next
instruction sometime, because the control thread sleeps between iterations.
The hall and drum runs use the same fairness for polls. Nothing is assumed of
the sensors, of requests or of a cat: liveness of a run comes from its budget.
`tasks` has `WF(Next)`: the processor and the tick interrupt do not stop; that
ticks get their turn follows from `TurnTime`, and that threads do from their
priorities and sleeps. `mqtt` has `WF(Task)`, the thread's next call returns,
and `SF` for the two events of the library: yielded to again and again, it
notices that the connection is lost and, while the service is there, finds it
again. No call is assumed to succeed; calls fail only while the service is away,
and it is assumed to stay only in the premise `<>[]service` of the properties.

### Findings

1. **A deadline of 0 never expires** (`fsm.c:386`). 0 stands for "none armed",
   but a window that begins exactly its length before the wrap of the tick gets
   the deadline 0. The window is then kept until a cat, a fault or a reset
   ends it. `README.md:238` describes the event as raised when the delay
   expires. `ArmedWindowCloses` shows that this is the only exception.
2. **A request made with a full bin starts a run later** (`logic.c:556`).
   In FAULT a clean request is neither served nor dropped. When the weight
   falls, the machine leaves FAULT and the old request starts CLEANING.
   `docs/debug-and-demo.md:219` and `docs/architecture.md:99` say that a
   request does not enter CLEANING then. `MotorSafe` shows that the run
   at least turns the drum with clear inputs only.
3. **`litter_timeout` injects outside CLEANING** (`logic.c:515`). The state is
   read, a line is printed, and then FAULT is written: a run that ends in
   between is followed by FAULT all the same, against
   `docs/debug-and-demo.md:246`. The `shell` run shows what stays true.
4. **The motor of an early run is stopped by `main`** (`main.c:64`).
   `start_rt_thread` returns two seconds after the threads were started; `main`
   then calls `rt_pin_mode` on IN1 and IN2, which the control loop has set up
   already (`logic.c:380`). `hc32_pin_mode` initialises a pin with its level
   low. A run begun before that, by the shell or by a message, stands still
   with both pins low until its phase times out. `docs/hardware-config.md:192`
   and `README.md:228` give the levels of a drum that is driven.
   `NoFalseTimeout` shows that this is the only way to a timeout of a drum
   that moves.

## 4. Proofs

Proved by TLAPS for every value of the constants that satisfies the named
assumptions: `TickModAssumption`, `TimingAssumption`, `LoopAssumption` (clock,
windows, budgets, hall readings), `HallAssumption` (sample period, debounce
time, distance of the polls), `PlaceAssumption`, `PollAssumption`,
`DrumAssumption` (zones, reach and speed of the drum), `PublishAssumption`, and
`ThreadAssumption`,
`SemAssumption`, `MbAssumption`, `TasksAssumption` (priorities, longest wait,
sizes, times of the threads, traffic on the AT line). TLC evaluates them on every run.

* **State machine** (`FsmProofs`). The inductive invariant is `Sound(ctx)`:
  type, motor by phase, a phase exactly in CLEANING, fault code by state. None
  of its parts is inductive alone: that SAFE_STOP has the code PROTECT_TRIGGER
  depends on who enters it, and that the motor is right after a phase change
  on the phase being right before. `FsmLemmas` has one lemma per function of
  `fsm.c`: it takes a sound context to a sound one (`Good`) and takes at most
  one step of the cycle (`CycleStep`). From `NextSound` follow
  `FsmTypeCorrect`, `FsmMotorFollowsPhase`, `FsmFaultCode`,
  `FsmTimeoutLatched` and the refinement `FsmImplementsCycle`.
* **Control loop** (`LogicProofs`). `StateMatchesSample` is not inductive
  within an iteration: after the edges, SAFE_STOP may have lost its reason and
  a full-bin fault may be out of date. The proof follows the stages:
  `EdgesEdged` (inputs and bin edge), `OccupancySettled`, `CleanSettled`,
  `ResetSettled`, `HallSettled` keep `Settled`, and `TickMatched` shows that
  `litter_fsm_tick` turns `Settled` into `Matched`, the invariant between
  iterations. `Settled` has one part that is not in any property: while
  protection is active in FAULT, the bin is full. Without it automatic
  recovery could carry the protection into OCCUPIED. From
  `LogicInvariant` follow `LogicTypeCorrect`, `LogicStateMatchesSample` and
  `LogicMotorSafe`.
* **Runs of the control loop** (`LogicProofs`). `RunBudget` and
  `ArrivalConsumed` need `Remembered`: what the dedupe of arrivals remembers is
  never the phase under way, and outside CLEANING and FAULT it is nothing or
  the phase a run has just come home with. Otherwise the first arrival of
  the next run might be swallowed. The budgets go through the tick: a stage
  before it either leaves a run alone or begins one now, the tick lets it live
  only within its budget, and the next iteration is one loop period later.
  `LoopTimeoutNeedsReset` and `LoopUseCounted` follow a timeout and an edge
  through the same stages.
* **What a run waits for** (`LogicProofs`, over `LitterHistory`).
  `UnaskedRunWaits` speaks of two states and needs `Waiting`: as long as the box
  has not been empty for long enough, the deadline of the window is `r` ticks
  ahead with `quiet + r` enough. `WaitsOn` carries that over a turn and
  over the wrap of the tick, `WaitsNotOver` says that such a deadline does not
  read as expired, for which a window has to be shorter than half the clock.
  `ArrivedWindow` and `TickWindow` show that a window only begins when the cat
  has left in the same iteration, or when the one before is over.
  `RunAnswersVisit` needs `VisitStands`: a machine in OCCUPIED,
  SAFE_STOP or a window is there on account of a visit that is still to be
  answered, and a reset that is served leads out of these (`ResetCallsOff`);
  `RunningVisited` takes that through the stages of a turn.
* **`litter_timeout` in the middle** (`LogicProofs`, over `LitterShell`). Between
  two stores of the command the context is not sound, so the lemmas about sound
  contexts do not apply to the iterations that run then. The stage lemmas of
  `LogicProofs` are therefore stated for any context (`EdgesFits` to
  `TickFits`): the agreement of state and sample does not depend on fault
  code, phase and motor. `ShellInv` adds to it that the motor is driven by a
  run in the direction of its phase, unless the command stands between its store
  of FAULT and the stop it owes; no function of `fsm.c` drives it otherwise,
  whatever the context (`DispatchSteady`, `FsmTickSteady`). `MotorSafeAtRest`
  follows.
* **Hall sampler** (`HallProofs`). The lemma `TickSubLater` carries a
  difference of ticks over the wrap, as long as it stays below the width.
  After a poll the last sample is younger than the period (`SampleRecent`, which
  is inductive with the types); from that `SampledInTime` follows for every
  poll. The refinement needs that a candidate has been held for exactly as long as its stamp is old.
* **The box** (`DrumProofs`), for every drum, sampler and loop that fit each
  other. A step of the box is a step of `LitterLogic` and a poll of `LitterHall`
  (`BoxImplementsLoop`, `BoxImplementsSampler`), so the theorems on both hold of
  it, and their invariants are parts of `BoxInv`. `StateLeads` says where an
  iteration can take the machine. The rest of `BoxInv` relates the loop to the
  drum. `Travel`: the drum is as far on its way as the phase is old, or at its
  end. `Sampling`, by way of `Noticed`: what a drum has shown for `gone` ticks is
  the candidate, held for all of them but the time from sample to sample; so
  after `Noticing` ticks it is the stable position (`NoticedLate`), across the
  wrap of the tick. `OnSchedule`: each phase before has cost the run at most its
  way and `Noticing`. `NotStale` says where a dump position left over can do no harm: the
  machine is in CLEAN_DELAY over a drum that has stood for `Noticing`; in TO_POS2
  the stable position is the dump position only if the drum stands there; in
  TO_POS1 it is not the dump position. That is the subtle one. A cat, a full bin
  or a reset may stop a run with the drum anywhere and the position not up to date, and
  the loop acts on that position in the iteration in which the next run begins.
  `Rested` counts how long the drum has stood (`still`): before `Noticing` ticks
  the sampler has noticed so much of it, and from then on a dump position is a
  true one. A run nobody asked for comes out of the leave-confirm window, which is
  longer than `Noticing` and has passed over a drum at rest (`Opened`). A run that
  is asked for comes with no window: if the drum has stood for less than `Noticing`,
  it may skip TO_POS2 in the turn it begins with, and then TO_POS3 has farther
  to go by no more than its longest way, so `Travel` and `OnSchedule` hold and no
  run times out. `BoxNoFalseTimeout` and `BoxPhaseEndsThere` follow, the second
  with that one exception.
  What is assumed of the drum: the home position is felt for at least `Noticing`
  ticks of travel, each budget is longer than its way and `Noticing`, and so
  is the budget of the run than all three. The firmware has a debounce time of
  20 ms, a sample period of 10 ms and a loop that turns every 10 ms or, behind the
  display, within some 100 ms, so `Noticing` is about a quarter of a second
  against windows and budgets of 2 to 20 s.
* **MQTT** (`MqttProofs`). The invariant says that the place in `Mqtt_Task`
  decides the client, the subscription, the buffers and what the flag may say;
  `ImplementsSession` follows action by action.
* **Semaphore** (`SemProofs`), for any number of threads with any priorities.
  The invariant is the type (the suspend list holds exactly who waits, once
  each, in order of priority), `NoLostWakeup`, no timer of a ready thread
  running, and no error of a waiting one set. The refinement rests on lemmas
  about lists: what `IpcListSuspend` puts before the newcomer is exactly who
  ranks no worse (`SuspendJoins`), and taking a thread off leaves the order of
  the others as it was (`RemoveLeaves`).
* **Threads** (`TasksProofs`). `TasksUseSemaphore` shows that what the three
  threads and the parser do to the kernel's state is a behaviour of `RtSemaphore`, whence its
  theorems hold of the firmware; types and `ClimateReal` are proved on top.
  The rest needs to know where each thread stands. `Linked` says which call of
  the kernel a place in the code is waiting in, and that every wait has a timer.
  `UnderWay` and `Chained` say what the mailboxes hold: the readings that follow
  the one received last, one half each, the sensor thread being in the middle
  of the next; `MailboxIsQueue` shows that the ring buffer with its three
  counters appends and takes like a queue. The semaphore can run ahead of the
  mailboxes only if the control thread is kept from its processor for as long as
  a whole turn of the sensor thread: `TakenInTime` says it is not, a token is
  taken before the sensor thread wakes up, and this rests on `OnTime`. There
  the time the control loop is late, plus what it has left of its turn, plus
  what the threads above and the parser may still run before they sleep or the
  line is quiet is at most `LoopBound`; a thread that has run sleeps for longer
  than all that is left, and a line that has been parsed is quiet for longer. From these
  follow `TasksTokensCountReadings`, `TasksNeverFull`, `TasksPairsMatch`,
  `TasksInOrder` and `TasksLoopOnTime`.

The type invariants of the control loop, the sampler and the MQTT thread are
proved and not run.

**Only model-checked.** Liveness (`CleaningEnds`, `ArmedWindowCloses`,
`Settles`, `MotorComesToRest`, `CleaningEndsAnyway`, `ReadingsArrive`,
`ComesOnline`, `KeepsReporting`, `GetsHome`) is outside what TLAPS proves.
Liveness carries over to the box all the same: `BoxImplementsLoop` includes the
fairness.

## 5. Plan

1. State machine, its abstract cycle and the proofs about them. *Done.*
2. Control loop, its properties and findings; invariant and safety of the
   motor proved. *Done.*
3. Hall sampler refining debouncing; shell race. *Done.*
4. Threads, semaphore and mailboxes down to the kernel's lists; the semaphore
   refines a counting one; a failed DHT11 read. *Done.*
5. MQTT thread with failures, refining the session of its link. *Done.*
6. Control loop, sampler and drum composed. *Done.*
7. Proofs of what a run waits for and begins with, of its budgets and
   arrivals, of the visits counted, of the sampler, the MQTT thread, the
   semaphore and the threads' use of it. *Done.*
8. Proofs of what passes between the threads and of the time it takes, and of
   the motor under the shell race. *Done.*
9. Proofs about the box: it refines control loop and sampler, no run times out
   that need not, phases end where they should. *Done.*
10. Open: the getters read one by one by the MQTT thread and the display, and
    which combinations can be reported; the timer list of `timer.c` under
    `RtThread`; that every wait of `LitterMqtt` ends within a bound.

## 6. Not modelled

What a report or the display says: they read globals, keep no state, and
nothing acts on them; `hazards` says so at their lines. The HX711 code is not in
the repository: the weight is an arbitrary input. `litter_status`, log lines,
name tables and the OLED layout have no influence on the state.

Everything else in the tree, which is most of it, is not this program but what
it is built from: RT-Thread's other components (file systems, network stacks,
device frameworks, the AT client but for the time it takes, shell, memory
management), the drivers and headers of the
HC32F460, CMSIS, board support, packages and the Aliyun SDK. Of about 660 000
lines some 2000 are the firmware's own. Of the rest the models cover what these
use: the scheduling, semaphore, mailbox, tick and time-out code of the kernel,
and the effect of `rt_pin_mode` on a pin. The firmware's own code reaches the
network only through the MQTT calls, whose library is modelled by how it is
used, and calls no file system.
