# TLA+ models of sgm-device

`sgm-device` is the software of a measuring station: sensors are read on a small
Linux board, and the values are published over MQTT through a GSM modem. This
directory holds TLA+ models of its concurrent core, the TLC configurations that
check them on small instances, and proofs, checked by TLAPS, that the safety
properties hold for every value of the constants. Source files are named
relative to the repository.

Contents: 1 the system, 2 what is hard about it, 3 the modules, 4 the runs, 5
fairness, 6 the proofs, 7 what the checks found, 8 what is not modelled,
9 what could come next.

## 1. The system

Three processes talk through a shared memory segment, a UNIX socket and the
serial port of the modem.

| Process | Source | Threads | Started by |
|---|---|---|---|
| SGMpowermgr | `SGMpowermgr/` | main, the controller thread, the interrupt thread of the GPIO library (mraa) | systemd, `Type=notify`, `TimeoutStartSec=5min`, `Restart=no` |
| SGMsink | `SGMsink/` | main, the sink thread, the power monitor of PppConnection | systemd socket activation, `Accept=false` |
| SGMsensor | `SGMsensor/` | one | systemd timer |

| Component | State it keeps | Operations | What makes it correct |
|---|---|---|---|
| `PppConnection` (SGMsink) | `itsCurrentState`, two mutexes, two atomics, callback list | `connect`, `disconnect`, `queryStatus`, `registerUserCallback`, destructor; the power monitor's loop; `stateMachineTick` run by both threads | what callbacks were told agrees with the state; a connection is watched; a lost one is hung up; nothing runs after the destructor; calls return |
| `PppEndpoint` | the pppd process | `open`, `close` | at most what the connection believes |
| `SgmSink` | `itsCurrentState`, `listenIterationsCount` | `tick`, `operator()`, `processMessageQueue` | it exits when idle, and not while it serves; it shuts down in order; it recovers a lost session |
| `SinkSocket` | listening and accepted descriptor | `connect`, `receive`, `disconnect` | descriptors are given back |
| `MqttProtocol`, `MqttClient` | `isNetworkReady`, its mutex; cached `isConnected` | `connect`, `disconnect`, `sendMessage`, `onNetworkStatusChange`, `yield` | publishes only on a ready network; the cached flag follows the session |
| `PowerManager` | `storedPowerState`, `itsDeviceState`, `eventMutex`, a condition variable | `run`, `computeEvent`, `processIncomingEvent`, `onPowerIndChange` | the device state backs `cmuxReady`, whatever was left in it; every power change is followed |
| `ModemPowerController` | `itsPowerState`, `powerStateChanged`, pins | constructor, worker loop, interrupt handler, `turnOn` | `modemReady` agrees with the modem; no edge is lost |
| `BGS2CMux`, `CMuxMock` | the serial port, its line discipline, the device nodes | `turnOn`, `turnOff` | no node without a multiplexer behind it; nothing of an earlier run stays; it closes what it opened, and nothing else |
| `SharedMemory` | `modemReady`, `cmuxReady`, a process-shared mutex | `init`, `initData`, `startAccess`, `endAccess`, setters and getters | accesses exclude each other; no process takes back what another has told; flags not stale after a restart |
| `HistoricalValue` | the last two values | `set`, `hasChanged` | |
| `SensorHub`, `Bme280Sensor`, `SensorServiceApplication` (SGMsensor) | registered sensors, measurements, the driver's `t_fine` | `registerSensor`, `acquireAll`, send all, exit | a value is compensated with the temperature of its own acquisition; a run ends |
| `ClientSocket`, the listening socket of systemd | waiting connections and what is in them | construct, `sendPacket`, destroy | measurements come out in the order they went in |
| AT commands (SGMutils), `ModemPresenceQuery` | a buffer per command specification; bytes at the port | `sendAt`, `getResponse`, `run` | no answer is taken twice or out of order; a silent modem holds nobody |

How they interact. SGMpowermgr writes `modemReady` and `cmuxReady` into shared
memory; the power monitor of SGMsink polls `cmuxReady` every second and turns
its edges into `DEVICE_LOST` and `DEVICE_RESTORED`. The sink thread calls
`connect()` and `disconnect()` of PppConnection, which runs the same state
machine in that thread. Both threads report the outcome through a callback to
`MqttProtocol::onNetworkStatusChange`. SGMsensor connects to the sink's socket
(the first connection starts SGMsink, and so does one that waits after SGMsink has
exited or died), sends its packets and closes. Before it powers the modem,
SGMpowermgr asks it with an AT command whether it is there. PowerManager calls the
multiplexer's driver through `ICMuxDriver`; `main()` passes it `CMuxMock`, and names
`BGS2CMux`, which the interface is made for, in a comment (`main.cpp:40`).

## 2. What is hard

- Two threads run one state machine, and take its two mutexes in opposite orders.
- A thread is started by the first member initialiser of the object it uses.
- `std::mutex` is not recursive, and a tick of the monitor locks a mutex it has.
- A condition variable is waited for without a predicate.
- Interrupts coalesce, and the handler holds a mutex over a callback that waits
  for another one, held for a sleep of fifteen seconds.
- Flags in shared memory outlive the process that wrote them.
- State is cached beside the thing it describes: `isConnected` beside the
  library's session, `isNetworkReady` beside the network, `itsCurrentState`
  beside pppd. pppd, the session, the sensor and the modem end by themselves.
- Two exception handlers leave a loop with a descriptor open.
- A connection waits in a socket that outlives both of its ends: a measurement may
  be served after its sensor, or the sink it was meant for, has gone, and after the
  next run of the sensor has connected.
- The driver of the sensor keeps a temperature between two calls.
- The driver of the multiplexer hides its failures, leaves behind what it had done, and
  relies on its caller for the order of the calls; the process may be killed in any.
- Nothing ties an answer of the modem to its command but the order of the line.

`PROJECT.json` lists each of these at its line, with the properties about it.

## 3. The modules

| Module | Models | Composes |
|---|---|---|
| `HistoricalValue` | `SGMutils/inc/HistoricalValue.h`: a record `[now, before]` | |
| `NetworkProvider` | the promise of `INetworkProvider`: an abstract specification | |
| `PppConnection` | `PppConnection`, `PppEndpoint` | `HistoricalValue`; an instance of `NetworkProvider` per subscriber as a refinement |
| `SgmSink` | `SgmSink`, `SinkSocket`, `MqttProtocol`, `MqttClient` | `NetworkProvider`, by joint actions |
| `PowerManager` | `PowerManager`, `ModemPowerController`, the drivers' answers, the shared flags | `HistoricalValue` |
| `BGS2CMux` | `BGS2CMux`: the real driver step by step | |
| `PowerManagerBGS2` | the process SGMpowermgr with that driver, killed and started again | `PowerManager` and `BGS2CMux`: the abstract driver replaced by the real one |
| `SharedMemory`, `MCSharedMemory` | `SharedMemory`: `init()` and accesses in several processes | |
| `SensorService` | the SGMsensor process: `SensorHub`, `Bme280Sensor`, `SensorServiceApplication`, its timer | |
| `MeasurementFeed` | what the way from sensor to broker promises: an abstract specification | |
| `SensorPipeline` | `ClientSocket`, the listening socket, deaths and restarts of SGMsink | `SensorService` and `SgmSink` by joint actions; an instance of `MeasurementFeed` as a refinement |
| `AtCommand` | `AtCommand`, `At`, `Cops`, `PlainAtInterpreter`, `ModemPresenceQuery` | |
| `SensorPipelineProofs`, `AtCommandProofs`, `PppConnectionProofs`, `SgmSinkProofs`, `PowerManagerProofs`, `BGS2CMuxProofs`, `PowerManagerBGS2Proofs`, `SharedMemoryProofs` | theorems and their proofs | |

Definitions whose comment begins with `Mutant:` are not part of a model: each is
a variant of the definition after it, with a plausible bug. Every property is
known to fail for at least one of them, so that it does say something about the code.

### PppConnection

Variables have the names of the members. `pc[t]` is where each thread is;
a thread inside `stateMachineTick` goes through `tick` (waits for
`itsEventMutex`), `handling`, `startPowerMonitor` or `pausePowerMonitor` (wait
for `itsMonitoringMutex`), `notify`, `closing` and `release`. The actions of the
tick are parameterised by the thread, since both run the same code. Each event
of the switch is an action (`ConnectOpened`, `OpenFailed`, `RestoreOpened`, ...).
`MonitorPolls`, `MonitorWaits` and `MonitorTimesOut` are `wait_for`: the monitor
owns `itsMonitoringMutex` from its end until the next one, its own ticks included.
`connect()` and `disconnect()` are two steps before the tick, because they read
`cmuxReady` and then `itsCurrentState` without a lock.

Environment: `FlipCmuxReady` (SGMpowermgr) and `PppdDies`, at any time.
`open()` succeeds or fails as it likes. Abstracted: the chat script, device
names, timings, log lines, and the time pppd takes to end after `killall` has signalled
it (`ClosePppd` sets `pppd` at once). The atomics start with any value of `StackGarbage`,
because the thread that reads them is started before they are initialised.

### NetworkProvider

Three variables: what a callback was last `told`, the method the owner is in
(`call`) and its last `answer`. The promise: a callback is told CONNECTED only
during a `connect()` and never right after a loss, and DISCONNECTED only during
a `disconnect()`; `connect()` answers CONNECTED if and only if that is what the
callback was last told. `PppConnection` is shown to implement it
(`ImplementsProvider`), with `call` computed from the places of the user thread.
`SgmSink` is checked and proved against it, so that its results hold for any
provider that keeps the promise.

### SgmSink

`TickIn(state)` is the loop test together with the switch. Every path of
`processMessageQueue` is a sequence of actions: `NobodyWaits`, `AcceptFails`,
`AcceptSensor`, `ReceivePacket`, `ReceiveShort`, `ReceiveEnds`, `SendMessage`,
`Publish`, `SendingException`. `isConnected` is MqttClient's cached flag and
`session` what `MQTTClient_isConnected` would say. MqttProtocol's mutex is held
while `pc = "publishing"`; `OnNetworkStatusChange`, a notice of the provider,
waits for it. `SinkSocket::connect` has no return after a successful `accept`
(undefined behaviour): what its caller compares with `EAGAIN` is any member of
`AcceptReturns`. `leaked` counts accepted descriptors that were overwritten
while open.

Abstracted: contents of packets (mapped or not, short or not), topics, sleeps;
a packet of 11 bytes, which `receive` returns as a number equal to `EAGAIN`, is
one of the outcomes of `ReceiveEnds`. The library is used synchronously and
without callbacks, so the session ends only inside a call to it (`LibraryRuns`).

### SensorService

One run of the process after the other: `TimerStarts`, `RegisterSensor`, `Measure`
three times, `Connect`, `SendPacket` three times, `SensorEnds`, which is also its
death at any place. A measurement is the k-th packet of a run; its value is left
out, and `tFine` says which run's temperature the driver would compensate with. The
I2C transfers, whose results nobody looks at, and the scaling of the values are
abstracted. `registerSensor` puts the sensor into the vector even if its capabilities
overlap with those of another one.

### MeasurementFeed and SensorPipeline

`MeasurementFeed` has two variables: the measurements `inFlight` and the one
`published` last. A measurement is acquired as the newest, may be lost, and is
published at most once; whatever is older is lost at the latest then. MQTT messages
are retained, so the broker then shows the newest value it was ever given.

`SensorPipeline` joins `SensorService` to `SgmSink`, replacing what `SgmSink` leaves
open: who connects, what is sent and when a client closes. `connections` are
those that wait, each with the packets nobody has read; `served` is the one on the
accepted descriptor; `packet` is what the sink thread holds. `SensorOpens` needs a
free place in the backlog, as `connect()` on a UNIX socket does. A packet is written
to the connection wherever that is, and is lost if the sink has closed or forgotten
it. `SinkStartsAgain` is exit, `abort` or a kill of SGMsink at any step, and systemd's
start of another one for the connection that waits. Other programs may use the socket
(`OtherClientOpens`, `SinkReadsOther`), as `meteo`'s socket test does, which sends a packet
of AIR and TEMPERATURE: what of theirs is published is in `SgmSink`'s state only, and the
order the feed promises is that of SGMsensor's measurements. In the refinement a measurement is in flight while the sensor process,
a connection or the sink thread has it.

### AtCommand

Text is a sequence of pieces: a result code, the "\r\n" after it, or anything else.
Each piece carries the number of the command it answers, which the code does not
see and the properties speak of. `SendAt` is what precedes the reading, with the
three ways `renderCommand` can turn out; `Read` and `Silence` are the loop, which
ends when nothing has come for 100 ms, whether or not an answer has; `Interpret`
matches the whole buffer, so that an answer counts if the buffer ends with it. The
modem answers in order, when it likes, in two parts, or never (`ModemForgets`), and
says other things in between. `QueryStarts`, `QueryFindsMux` and `ResponseTaken` are
`ModemPresenceQuery::run`, the class's only user: it calls `getResponse` once after each
`sendAt` that went well, and so does the model. Abstracted: the characters, and the text of
network names. `Receive` keeps the pieces within `MaxPieces`, so that what the loop does
with more bytes than the buffer holds, or with a `read()` that fails, is not in the model
(section 7).

### PowerManager

Three threads, three mutexes. The constructor of ModemPowerController is
`ConstructOn`/`ConstructOff`, the outcome of the modem query
(`StabilizeResponding`, `StabilizeHung`, `StabilizeOff`), the hard power cut in
two steps, and `RegisterIsr`. `MainWaits` is the wait without a predicate;
`NotifyMain` wakes main only if it waits. The multiplexer's driver is the
constant `MuxDriver`, the set of what its `turnOn()` may answer: all of `MuxResult`, or
what the repository's two drivers answer, `CMuxMockDriver` (which `main()` uses) and
`BGS2Driver`, both MUX_ON whatever happened. No driver here answers whether there is a
multiplexer, so the properties of this module speak of the flag and the device state;
what is on the port is `PowerManagerBGS2`'s business.
`Leftover` is what shared memory may hold at the start. `WaitsFor(t)` reads off the
places and the owners which threads t waits for; `NoCircularWait` is about that graph.

### BGS2CMux

`turnOn()` is `EnterTurnOn` (which looks for node 1), `RemoveNode` for each node, and
one action per stage of `cMuxOn()`: `OpenSerial`, `Configure`, `SendAt` (four
times), `SetDiscipline`, `SetConf`, `GetMajor` and `MakeNode` for each node;
`OpenFails` and `StepFails` are its returns with MUX_ERROR, which leave
everything as it is. `turnOff()` is `EnterTurnOff`, `RemoveNode` and `CloseSerial`.
`Restart` kills the process, with a reboot or without. `TurnOn` and `TurnOff` add what
the driver relies on and does not test: that the two are called in turn (`called`).
`PowerManagerBGS2` shows that PowerManager calls them so. Abstracted: the contents of the dialogue
(each command succeeds or fails), the attributes of the line. A driver's number
is `"gsmtty"` or `"mem"`, the latter for the EXIT_FAILURE that `get_major`
returns. `unlink` fails only for a node that is not there.

### PowerManagerBGS2

The two components in one process. main calls the driver in `settling` (`CallTurnOn`)
and in `muxOff` (`CallTurnOff`); the driver runs (`DriverRuns`) beside the two other
threads of PowerManager (`ManagerRuns`), with `eventMutex` held by main; and when the
call returns (`DriverReturns`), PowerManager makes the step it makes with the abstract
driver, where what the driver did is what is now attached to the port. No guard ties
the order of the calls; it is the property `ImplementsDriver`. `Restart` kills the
process at any step, except with the shared mutex held (the next run would never get it,
which is `SharedMemory`'s business), and starts it with the flags and the nodes as they
are, or with the machine without any. The kernel closes the port; the pins of the modem
stay as they were, so a run may begin with `enablePin` in either position.

### SharedMemory

The segment is `exists`, `sized`, `mutex` and a `flag` per accessing thread;
`lastSet` remembers what each was set to. Every process runs `init()`:
`Create` or `OpenExisting`, `Truncate`, `Map`, and, in the creator, `InitMutex`
and `InitFlags`. A process may fail there (`InitFails`), be killed anywhere
(`Kill`: a mutex it owns becomes `Dead`) and start again; `Reboot` removes the
segment. `EndAccess` frees the mutex whoever owns it, as an ordinary pthread
mutex does. A process may start at any moment, also during the `init()` of the
creator, and whoever finds the segment uses it without asking whether its creator is
through; `usedEarly` remembers that this has happened (a history variable, which no
guard reads). The times in systemd's units make it unlikely; nothing prevents it.
`PowerManager` takes the initialised segment for granted and models its flags and
its mutex between two of its own threads; the sink's unlocked reads are in
`PppConnection`.

## 4. The runs

| Run | Shows | Instance | Distinct states |
|---|---|---|---|
| `ppp` | eleven properties of PppConnection: the refinement, and where a thread can hang | two subscribers, any stack garbage | 11,754 |
| `ppp_opened` | violated: a tick that has opened the endpoint completes | one subscriber | |
| `powermgr` | five properties of PowerManager: what the flags may mislead about and for how long, that no edge is lost, and that its three mutexes are never waited for around a circle | a boot or a restart with any flags left, any answer of the driver | 122,448 |
| `powermgr_lost_wakeup` | violated: a change is followed | the mock driver | |
| `powermgr_ready` | violated: the service becomes ready | the mock driver | |
| `powermgr_bgs2` | the calls of the driver alternate; what `cmuxReady` and MODEM_OFF say of the port and the nodes, through kills and reboots | one node, any leftovers | 709,290 |
| `bgs2cmux` | nodes, port and return of the driver's calls | four nodes, any leftovers | 1,917 |
| `shared_memory` | exclusion, flags, size and granting of accesses | two processes starting at any moment, two accessing threads | 3,699 |
| `sink` | five properties of SgmSink | 5 attempts, 2 descriptors, backlog of 2 | 1,374 |
| `sink_descriptors` | violated: listening attempts come to an end | 2 attempts, 2 descriptors | |
| `sensor_pipeline` | compensation, the way to the broker through deaths and losses, the end of every run | two runs, 2 attempts, 2 descriptors, backlog of 2 | 211,195 |
| `at_command` | which answer a command gets, and that it returns | two commands, five pieces | 464,245 |

Bounds. `PppConnection` and `PowerManager` have no counters: the runs are
complete, and the only parameters are the number of subscribers (two show that
they are told alike) and the sets of initial values, which are all there are.
`SgmSink` has `MaxListenIterationsCount` (5 stands for the code's limit: enough
for the count to grow, start anew from the middle, and end), `MaxDescriptors`
(2: one leaked, one in use, and then none left) and `MaxBacklog` (2: a second
sensor waits while the first is served); a sensor may come back at any time, so
the backlog bounds how many wait, not how many come. `BGS2CMux` has the code's
four nodes and four commands. `PowerManagerBGS2` has one node: the loops over the nodes are
`bgs2cmux`'s business, and here a node tells whether a call was cut short before or
after it; two nodes pass as well (1,977,816 states), and the theorems are about any
number. `SharedMemory` has the two processes that use the
segment and the two threads of SGMpowermgr that access it. `SensorPipeline` has
`MaxRuns` (2: the next run connects while the last one's packets wait, are being
read, or are in the sink's hand; every order between two runs happens, and the
refinement compares measurements two at a time) and the bounds of `SgmSink` (two
attempts suffice here, the count being `sink`'s business). `AtCommand` has
`MaxCommands` (2: the answer to the first comes during the second, before, between
or after its own) and `MaxPieces` (5: two whole answers and something else in one
buffer). No symmetry is used.
Types are checked in `ppp`, in `powermgr_bgs2` (`SystemTypeOK` includes those of both
components) and in `sensor_pipeline` (`PipelineTypeOK` includes that of `SgmSink`), and
proved everywhere.
Deadlock is checked in no run that may end: `PppConnection` never stops for TLC
because `cmuxReady` can always flip, `PowerManager` because the modem's
indication can, and the sink because the environment goes on after `exited`. Only
`SensorPipeline` and `AtCommand` may stop, when their runs or commands are used up,
and their configurations say so.
Hangs of single threads are therefore the business of the liveness properties, and of
two invariants on the graph of who waits for whom: `NoCircularWait` (PowerManager has
none) and `HangsInMonitorTickOnly` (PppConnection has two, and no third).

## 5. Fairness

- `PppConnection`: strong fairness of the user's steps inside a call and of the
  monitor's steps. Both are threads the kernel schedules; `wait_for` has a
  timeout; `open()` ends since the chat script has one. Strong, because the
  monitor locks and unlocks `itsMonitoringMutex` in a loop, and a thread that
  waits for it finds it free infinitely often. Nothing is assumed of the owner's
  calls, of `cmuxReady` or of pppd.
- `PowerManager`: strong fairness of each of the three threads, for the same
  reason. The modem may do what it likes and a spurious wakeup may never come.
- `PowerManagerBGS2`: none; its properties are about safety, since a process that may be
  killed at any step owes nothing. What has to end is checked in the two components.
- `BGS2CMux`: weak fairness of a call in progress: its sleeps end, and the port is
  opened with O_NDELAY, so that no read waits. PowerManager owes no call.
- `SharedMemory`: strong fairness of a thread inside `startAccess` or an access, as
  for the other mutexes. No process has to start or to be killed.
- `SgmSink`: weak fairness of the sink thread; strong fairness of a successful
  `accept` and of a successful connect to the broker (neither fails for ever if
  it can succeed again and again). The provider owes no answer and no notice, and a
  client need neither send nor close. The accepted socket is a blocking one without
  a timeout, so one that does neither holds the sink in `recv()` for ever;
  `IdleSinkExits` has as a premise that none does.
- `SensorPipeline`: the same of the sink; weak fairness of the sensor's steps, strong
  of its `connect()` (the kernel lets in whoever waits when places become free again
  and again), and weak of the kernel's report that a sensor process has ended
  (`SensorsEndIsSeen`): SGMsensor is a program without a loop. The timer, deaths and
  the other clients, of which there may be any at a socket of mode 0666, owe
  nothing. A sensor's run ends only if the sink gets to listen again and again and
  keeps a descriptor, and no other client sits on the accepted connection in
  silence; `SensorRunEnds` names these three as its premises.
- `AtCommand`: weak fairness of the thread that sends a command. The modem owes no
  answer; `CommandReturns` supposes that it does not talk for ever.

## 6. The proofs

Proved for every set of subscribers, any stack garbage, any limits of the sink,
any leftovers in shared memory, any number of runs of the sensor, of waiting
connections, of commands and pieces. Each component's invariant `IInv` is inductive;
the lemmas `Next...` prove, action by action, that a step preserves one of its parts.

**PppConnectionProofs.** `NotifiedMatchesState` is not inductive: it says nothing
while a tick is in progress. `Owners` ties the mutexes to the places of the
threads, so that at most one thread is inside the state machine and the monitor
owns `itsMonitoringMutex` throughout its ticks. `Feeds` says which thread feeds
which event. From both follows the key fact: the monitor never completes
`startPowerMonitor`, hence only the user makes the state CONNECTED (`Notices`),
and the agreement of callbacks and state is broken only between a new state and
its announcement. `Watch`, `HungUp`, `Destruction` and `Reply` are the
strengthened forms of the other properties. `TerminateFor` says why `terminate`
may be on. `Watched` is about what follows the constructor: once the monitor has
outlived it (`Alive`), every step keeps it alive until the destructor, and with `Watch`
every connection is watched. Theorems: `TypeCorrect`, `NotifiedMatches`, `Watched`, `LostHungUp`,
`Quiescent`, `LostNeverReconnects`, `AnswersAfterNotice`, `MonitorOutlives`.

Hangs: a set of threads each of which waits for one of the set is `Hung`. By `Owners`
that is `Entangled`, one of two pairs of places (`HungIsEntangled`), which gives
`HangsOnlyThere`: no third order of calls, samples and destruction hangs a thread.
Neither thread of an entangled pair has a step (`EntangledStuck`), hence `HangsForEver`.
`Quiet` says that the monitor is outside the state machine and its history holds the
present flag twice; it is kept as long as `cmuxReady` is, which gives
`StableNeverHangs`, a temporal theorem with an assumption on the environment.

`Implements`: PppConnection implements NetworkProvider for
every subscriber. `NotifyByCallback` maps to `Tell`, the start of a call to
`CallProvider`, its return to `AnswerConnect` or `AnswerDisconnect`, and all
else to a stutter. Beyond `IInv` it needs `RInv`: which event brings which
status (`Outcome`), what a call in progress will answer (`Requests`), and that
whoever was told of a loss knows the state to be CONNECTION_LOST (`LossKnown`,
`LossTold`).

**SgmSinkProofs.** `Places` ties the sink's place to its state and to the
provider's `call`; with `Left`, `Ready`, `Counted`, `Connected` and
`Descriptors` it gives `TypeCorrect` (which bounds the open descriptors and the
count), `PublishesWhenReady`, `ConnectedFlagRight`, `ServedSensorCounts` and
`MqttClosedFirst`.

**PowerManagerProofs.** `Owners`, `Powers` (by where in `run()` each power state
is determined), `ModemFlag`, `Device` (the history's two entries differ from the
initial conditions on) and `Flag` (MODEM_CMUX stands behind `cmuxReady`, but for a
leftover nobody has withdrawn yet). Theorems: `TypeCorrect`, `GateIsOpen`,
`ModemReadyHealing`, `CmuxReadyHealing`, `FailureIsFinal`, `ReadyOffFirst` for any
driver and any leftovers; `ModemReadyMatches` and `CmuxReadyBackedAfterBoot` for
fresh flags. `NoCircle`: by `Owners`, main and the interrupt thread wait for
nobody but the controller, the controller for nobody but main, and not both at once
(`Waits`): main needs the shared mutex while it owns `eventMutex`, and the controller
gives the former back before it asks for the latter.

**BGS2CMuxProofs.** `Port` says for each place what the process has on the serial
port, `Discipline` that the discipline hangs on an open port, `Removed` which nodes
a removal has got rid of so far. Theorems: `TypeCorrect`, `ClosesOwnPort`,
`FirstNodeMuxed`, `NoNodeLeft`.

**PowerManagerBGS2Proofs.** `SystemInv` is the `IInv` of each component and a tie between
them. Every step of the system is one of PowerManager, leaves PowerManager alone, or
restarts it (`ManagerStep`), and a restarted process is in a state `Init` allows
(`RestartIsInit`), so PowerManager's `IInv` goes through. The driver's needs the order of
the calls, which is the tie: `Calls` relates the last call to the device state and to the
place of main, so that `CallTurnOn` finds `called # "turnOn"`. That from READY=1 to the
next `turnOff()` it is MODEM_CMUX that stands behind the flag is `Flag` of PowerManager's `IInv`.
`DriverImplemented` discharges the assumption of BGS2CMuxProofs; `ReadyNodeMuxed` and `OffReleased` combine the driver's invariant with the tie.
`SystemTypeCorrect` and `SurvivesRestarts` carry
what holds of one run to a process that is killed and started again.

**SharedMemoryProofs.** `OneCreator`: of one segment there is at most one process
between its creation and its initialisation. `Unused`: while there is one, no other
process is running and (`Running`) no thread is in an access, unless `usedEarly` says
otherwise, so that `initData()` resets nothing that is in use. Theorems:
`AccessExclusive`, `FlagsKept`, `SizedWhenUsed`, `TypeCorrect`, all without
assumptions; what an overtaken creator can do is in the statements of the first two.

**SensorPipelineProofs.** `StepOfSink`: every step of the pipeline is a step of
`SgmSink`, none of it, or a restart, so that `IInv` of `SgmSink` holds across deaths
(`SinkPromisesKept`). `SensorInv` ties the place of the sensor to what it has, and
gives `CompensationIsOwn`. The order of measurements is `HasLeft` (what is
outside a sensor was sent before what it has yet to send), `InOrder` (within a
connection), `ConnectionsInv` (connections wait in the order of their runs, after
the one served), `PacketInv` (the packet in hand is older than all in a connection)
and `PublishedInv`; `View` reduces the steps to eight kinds of movement.
`PipelineImplementsFeed`: `Measure` maps to `Acquire`, `SinkPublishes` to `Publish`,
and whatever closes, kills or forgets to `Lose`. Theorems besides:
`PipelineTypeCorrect`, `NewestIsRetained` (the promise of the feed, as a property
of the pipeline).

**AtCommandProofs.** `InOrder`: the lines a command may yet interpret, the answer the
modem has begun and those it owes are in the order of the commands, and younger than
the answer taken last. A command starts with an empty buffer, which is why what it
reads comes after whatever was taken before. Theorems: `TypeCorrect`,
`InOrderTaken`, `OwnAnswerReturned`.

Some theorems state what no run checks, since it follows from less than the runs
look for and the proof is the better evidence: `LostNeverReconnects`,
`AnswersAfterNotice`, `GateIsOpen`, `ModemReadyMatches`, `CmuxReadyBackedAfterBoot`,
`FailureIsFinal`, `ReadyOffFirst`, `ServedSensorCounts`, `SinkPromisesKept`,
`NewestIsRetained`, `HangsForEver`, `StableNeverHangs` (the part of
`CallsReturnWhileDeviceStable` that needs no fairness), `SurvivesRestarts`, and
the `TypeCorrect` of the modules whose types no run checks by themselves.

Only model-checked: the liveness properties (`TerminatedJoins`,
`CallsReturnWhileDeviceStable`, `SampledLossIsReported`, `EdgeReachesStateMachine`,
`NotifiedChangeIsFollowed`, `CallsReturn`, `AccessGranted`, `IdleSinkExits`,
`MqttConnectResumes`, `SensorRunEnds`, `CommandReturns`), whose proofs
would need fairness and ENABLED, and the violations, which are counterexamples.

## 7. What the checks found

1. A device that comes back hangs SGMsink: the monitor's `DEVICE_RESTORED` tick
   locks `itsMonitoringMutex`, which its thread owns (`ppp_opened`).
2. `connect()` can deadlock with the monitor, which takes the two mutexes in the
   other order (`ppp_opened` as well). `disconnect()` can too, in `pausePowerMonitor`. With
   the first finding these are all the ways its two threads hang over PppConnection's own
   two mutexes and its join (`HangsInMonitorTickOnly`; MqttProtocol's mutex, which a
   callback may wait for, is not in that model), they last for ever (`HangsForEver`), and all of
   them need an edge of `cmuxReady` (`StableNeverHangs`).
3. A power change that is notified while main does not wait is not followed
   (`powermgr_lost_wakeup`).
4. SGMpowermgr started while the modem is on never reports READY=1, although its
   unit is of type notify (`powermgr_ready`).
5. Exceptions in the sink leak the accepted descriptor; with none left the sink
   neither serves nor exits (`sink_descriptors`).

Also seen in the models, and held against no promise of the code: a monitor that
reads garbage in `terminate` ends during construction, and every connection from then on
goes unwatched; a client that connects and neither sends nor closes holds the sink in
`recv()`; `disconnect()` answers
CONNECTION_ERROR after it did disconnect; a restored device opens a second pppd;
`BGS2CMux::turnOn` answers MUX_ON also after it has logged "Could not establish CMUX
connection" (`BGS2CMux.cpp:110-112`), so that with this driver PowerManager sets
`cmuxReady` and reports READY=1 for a multiplexer that is down, and what holds is
`ReadyNodeHasMux`: there is no first node then; with a driver that did report a failure, a
`cmuxReady` left on by an earlier run would stay on after a first `turnOn()` that fails
(`CmuxReadyHeals`); a process killed in `remove_nodes` after node 1 leaves
nodes that the early cleanup does not see; `get_major` takes an unreadable
`/proc/devices` for the major number 1; a process killed within an access blocks its
next run in `startAccess`; the modem's power is cut after the shared mutex has been
released; the `initData()` of a creator that another process has overtaken frees a mutex in
use and takes back flags (`SharedMemory.cpp:94`); a late answer of the
modem is returned to the next command, as an answer of its own, unless that one's
comes as well.

Seen while reading, and a matter of one line each: `sendMessage` logs "Message sent!"
whatever `publishMessage` returned (`MqttProtocol.cpp:55`); a `Cops` command without
text counts as sent, and `prepareWriteCommand` returns nothing in its other modes
(`Cops.cpp:84`, `:130`); a `sendPacket` that answers
-1 is compared with a `sizeof`, hence as a large unsigned number, and never warned of
(`SensorServiceApplication.cpp:53`); the result of the I2C reading is ignored
(`Bme280Sensor.cpp:93`); `registerSensor` answers DEVICE_UNAVAILABLE when it has
registered (`SensorHub.cpp:36`); a packet of 11 bytes is taken for EAGAIN
(`SgmSink.cpp:150`); the -1 of a serial `read()` that fails is added to an unsigned count of
bytes, and each `read()` may bring RX_BUF_SIZE bytes to a buffer that already holds some
(`AtCommand.h:62-69`); the interrupt handler is registered after the initial power state
has been read (`ModemPowerController.cpp:66`).

## 8. What is not modelled

- `turnOffHw`, `resetHw`, `turnOffSoft`, `resetSoft` of ModemPowerController:
  called by nobody. `waitForIncomingRequest` is empty.
- `registerUserCallback` against a concurrent `notifyByCallback`: main registers
  before it uses the object, while the monitor is in its first second.
- The busy loop over `sd_listen_fds`, signals, `abort`, out of memory.
- `isNetworkReady` in shared memory: accessed by nobody; `SharedMemory::release` is empty.
- Contents of packets, topics and network names; the arithmetic of the BME280 driver
  (vendored; only its `t_fine` is kept) and the I2C adapter.
- `acquireOneSensor` and the overloads of `acquire` for one quantity or point: called by
  nobody. `CopsInterpreter` and `CopsResponse`: used by nobody; the former
  has a path without a return.
- The choice of the listening descriptor among those systemd passes: found or not.
- The ppp scripts and peers file: configuration; `open()` succeeds or fails.
- `DeviceId` (reads a string once), `Logger`, `ProcessSharedFlag` (used by nothing),
  `meteo/` (a prototype nothing builds) but for its use of the socket.

## 9. What could come next

1. PowerManager's and PppConnection's abstractions joined by `cmuxReady`: the sink never
   dials on a port without multiplexer for longer than one poll.
2. The refinement of the provider inside `SgmSink` by `PppConnection` itself: that no pppd
   is hung up under a publish in progress, and that MqttProtocol's mutex adds no third way
   to hang; and with it a pipeline that includes the power monitor.
3. `PowerManagerBGS2` on the `SharedMemory` that is created and inherited step by step,
   with kills inside of an access.
