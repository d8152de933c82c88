# Verification of ble_sensor_logger

TLA+ modules, TLC configurations and TLAPS proofs about a BLE sensor logger: a
Zephyr firmware that samples sensors and notifies the samples, and a PC
application (Python, asyncio, bleak, aiohttp) that connects to it and serves a
web page. Paths below are relative to `src/`.

    tlasany Firmware.tla                               # parse
    tlc -workers 2 -config sample_path.cfg MCSamplePath  # check a run
    tlapm LossProofs.tla                               # check the proofs of a module

The modules with proofs are `FirmwareProofs`, `PipelineProofs`, `EndToEndProofs`,
`CodecProofs`, `WebBackendProofs`, `LossProofs`, `RequestsProofs` and
`TimelineProofs`.

`PROJECT.json` lists the runs, the properties of each, the mutants that show
each property can fail, the source lines every definition stands for, the
hazards of the code with the properties that cover them, and the theorems.

## 1. Inventory

### Firmware (`firmware/src`)

| Component | State | Operations | What makes it correct |
| --- | --- | --- | --- |
| control (`modules/control.c`) | its copy of `struct bsl_status` | handles commands, config updates, connections and samples from the event queue | the served state is the sensors' state; nothing samples for an absent central |
| BLE service (`modules/ble_service.c`) | `current_status`, `current_config`, `current_conn`, `notify_enabled`, two batch buffers, three works | GATT reads and writes, CCC changes, connect and disconnect callbacks, batching, flushing, advertising | a batch is always sendable and never stranded; frames decode to what was sampled; an idle radio advertises again |
| sensors (`modules/*_sensor.c`, `sensor_dummy.c`) | `running`, delayable `sample_work`, sequence, parameters | start, stop, reset, sample | one sequence number for a reading, one event for each of its streams |
| event queue (Zephyr App Event Manager) | queue of submitted events | submit, dispatch | every event handled once, in order |
| protocol (`protocol/protocol.c`) | none | pack, unpack, defaults, capability | a frame within the payload; invalid writes rejected |
| start-up (`main.c`) | none | initialisation in order | |
| time (`platform/platform_time.c`) | none | uptime in 32 bits of ms | a wrap or a restart moves no sample to another time |
| ADC sensor, I2C probe | | not built, or a debug option | |

Two threads run. The *system work queue* runs control's handlers, the sample
works, the flush work and the advertising work one at a time; the *Bluetooth
thread* runs the GATT and connection callbacks. They share the event queue, the
two status structures, the config, `current_conn`, `notify_enabled` and, under
`batch_lock`, the batch buffers.

### PC application (`pc_app`)

| Component | State | Operations | What makes it correct |
| --- | --- | --- | --- |
| web backend (`web_api.py`) | `connecting`, `connection_task`, `websockets`, time offset | HTTP handlers, connection task, broadcast, shutdown | one connection attempt at a time, always ended, cancellable without residue; every request answered and a success never partial; a sample shown with the quantities and near the time it was taken |
| app core (`app_core.py`) | `connected`, `monitoring`, sequence statistics | connect, disconnect, monitoring, commands, configuration | flags that agree with the link; gaps counted once |
| BLE client (`ble_client.py`) | `_client`, `_address`, handlers | scan, connect, disconnect, notifications, reads, writes | the client it keeps is the one with the link |
| protocol codec (`protocol.py`) | none | unpack notifications, statuses and capabilities, pack commands and configs | agrees with the firmware's packing, entry by entry |
| terminal UI (`ui_shell.py`), smoke scripts | none but the prompt | one command after another | an error of a command is reported and, but for a lost link or a line `shlex` cannot split, the prompt goes on |
| web frontend (`app.js`) | view state | the page | nothing makes its requests wait for each other: it disables Connect while connecting, but a cancel answered `cancelled: false`, a scan or another device chosen enables it again |

All of it runs on one asyncio loop: the interleaving points are the `await`s,
the callbacks of bleak (disconnection, notification) and task cancellation.

### Hard behaviours

Work queued before a stop, a reset or a disconnection and run after it; two
threads that write the same served status; the sequence number that wraps inside
a batch; notifications the host refuses; advertising that must restart; state
read before an `await` and written after it; cancellation at any `await`; the
disconnected callback overtaking the continuation of a completed operation;
parameters that belong together and are written one by one, over a link that may
go at any of them; tables written twice, in C and in Python; a frame that keeps
one timestamp of many; two streams that overtake each other.
`PROJECT.json` has each at its line, including those no property covers yet.

## 2. Modules

| Module | Models |
| --- | --- |
| `StreamBatch` | one batch buffer of `ble_service.c` as pure operators: start, append, restart, full, clear, the frame it packs to |
| `Firmware` | control, BLE service, sensors and event queue; EXTENDS `StreamBatch` |
| `SampleChannel` | abstract specification: each stream is a first-in first-out channel that may lose samples |
| `MCSamplePath`, `MCControlPlane` | two boards for TLC |
| `FirmwareProofs` | the theorems about `Firmware`: types, batches, the served state, the radio, and what the event queue between the two threads keeps: config, disconnection, connection count |
| `PipelineProofs` | those about the order of the samples, up to the refinement of `SampleChannel` |
| `CodecProofs` | the theorems about `GattExchange` |
| `WebBackend` | connection management of `web_api.py`, `app_core.py` and `ble_client.py` on the asyncio loop |
| `MCWebBackend` | its instance for TLC |
| `WebBackendProofs` | the theorems about `WebBackend` whatever requests cross, and about `connected` as long as none does |
| `LossProofs` | those that hold as long as no request crosses another and no link is lost |
| `EndToEnd` | `Firmware` composed with the ATT bearer and the sequence statistics of `app_core.py` |
| `MCEndToEnd` | its instance for TLC |
| `EndToEndProofs` | the theorems about `EndToEnd`; EXTENDS it and `PipelineProofs` |
| `Codec` | the wire format as pure operators, each table and function twice: `protocol.h` and `protocol.c` (names `Bsl...`), and `protocol.py`, `web_api.py`, `ui_shell.py` |
| `GattExchange`, `MCGattExchange` | every payload one end sends and the other reads, on any board; EXTENDS `Codec`; its instance |
| `Requests`, `MCRequests` | the web handlers, the shell and the scripts, down to the GATT callbacks and control: EXTENDS `Firmware`, and takes the validation of both ends from `Codec`; its instance |
| `RequestsProofs` | the theorems about `Requests`; EXTENDS `FirmwareProofs` |
| `Timeline`, `MCTimeline` | the time of a sample from the uptime of the device to the plot; its instance |
| `TimelineProofs` | the theorems about `Timeline`; EXTENDS it |

**Firmware.** A handler is one step: both threads are cooperative and no handler
blocks between its first and last assignment. `ProcessEvent` is the dispatch of
the head event, with one action for each branch of `app_event_handler`; each
contains the whole branch (`HandleStop` publishes the status, stops every sensor
and flushes the batches). `SampleWork(s)` is a sensor's `sample_work_handler`,
`BatchFlushWork`, `AdvertisingStarts` and `AdvertisingFails` the works of
`ble_service.c`; `Connected`, `ConnectionFailed`, `Disconnected`,
`SensorCccChanged`, `WriteControl`, `WriteConfig` and the two rejections are the
callbacks. Timers have no duration: a scheduled work may run at any moment, which
covers every relation of the sample interval, the 100 ms flush delay and the
connection events. Values of readings are abstracted to their ordinal (`tick`),
so that a frame can be compared with what was sampled; `settled`, `ticks`,
`writes` and `connections` are history variables.

**WebBackend.** `ready` is the loop's queue of callbacks and `at[c]` the `await`
a coroutine is suspended in. A step of the loop resumes the head of `ready` and
runs it to its next `await`, so the code between two awaits is atomic and nothing
else is. The completion of an operation appends to `ready`: other steps may come
between it and the resumption. Cancellation sets `must_cancel`, delivered at the
task's next resumption even if its operation has succeeded meanwhile; the end of
a task resumes those awaiting it. bleak runs the disconnected callback
synchronously while it reads from the system bus, so it may precede a resumption
already queued. A `BleakClient` is named after the request that created it.
Any request may arrive at any time. The page means to send a connect request only
when not connected and alone, a cancel request beside a connect request only, and a
disconnect request beside neither (`updateConnection`), but nothing enforces it:
there may be several pages, a cancel answered `cancelled: false` enables Connect
while a connect handler is still at its body or its broadcast (`app.js:1238`), the
end of a scan does so too (`:868`), and Cancel and Disconnect stay enabled during
their own requests. `Crosses(r)` says that `r` arrives when the page does not mean
it to, and `crossings` counts such arrivals: some properties hold however many
there are, others as long as there is none (two disconnect requests at once are
not a crossing: they do no harm). `Shutdowns` has the end of the
program as one more canceller: no request arrives after it begins, those in
progress run on (aiohttp's on_shutdown), and the closing of the web sockets at
its end is left out. A `disconnect` of bleak that raises is not modelled.

**EndToEnd.** EXTENDS `Firmware` and adds `inbox`, the messages the device has
sent and the PC has not handled, in the order of the ATT bearer: the frames each
device step notifies and the responses to RESET_SEQUENCE, which the Bluetooth
thread sends before control handles the command. A lost link loses any suffix of
them. `Receive` handles one: a notification updates the statistics as
`_handle_sensor_data` does, a response lets `reset_sequence` clear them. `lost`
and `last_tick` count the same thing from the readings themselves, which the PC
never sees. `PatientReset` is what the user must do for the two to agree: reset
only when everything has stopped and arrived, and repeat a reset that was not
answered.

**Codec, GattExchange.** A payload is a sequence of 16-bit words, and a word
records which quantity of which sample it holds, so that a value read from the
wrong place shows; an enumeration travels as its position in the list of names,
so that a name missing at one end shows. `SendFrame` builds any frame the batch
buffers can hold, `ReadCapability` compacts the table in place as
`ble_service_init` does, `ReadStatus` serves every state, every set of sensor errors
and every `last_error`: what a rejected write or a failed notification leaves there
(`LinkErrors`) and the first sensor error (`FirstSensorError`). `WriteConfig`
tries every value at the sides of each limit. What is read is compared with what
was sent, and what the browser and the shell show of it. Buffers of a wrong length
are rejected in `Firmware`.

**Requests.** A request is a sequence of GATT operations, `RunTo` the stretch of
its task between two awaits: validation and packing first, then the check for a
connected client, then the operation is handed to the host, which serves those of
all tasks one at a time. `DeviceServes` runs the GATT callback of `Firmware` and
answers; control handles the event later. `LinkDrops` is the `Disconnected` of
`Firmware` and fails what has no answer, executed or not; a task whose answer came
in time may go on over the next link. A web command ends with `broadcast_state`
(`Broadcast`), which suspends it at a web socket whose buffer is full and, if one
opened or closed meanwhile (`ViewersChange`), may raise `RuntimeError`: HTTP 500
for a command the device has executed. A line of the shell may be `Unparsed`:
`shlex.split` is outside the `try` of `dispatch`. The shell's `scan` and `connect`
are not here (`WebBackend` has their calls). `executed`, `written`, `cut`,
`disturbed` and `blamed` are history variables: what the device did of each request,
whose value each parameter is, who saw the link down, whose broadcast a web socket
disturbed, and which requests failed or overlapped.

**Timeline.** Discrete time, in half sample intervals; what is due at a moment
runs before the next, in any order. A frame keeps the true times of its samples
(which the PC never sees) beside its one timestamp. `Receive` is
`_handle_sensor_data` with `unpack_many`, `_on_sample` and `_plot_time_ms` for
every sample of the frame: `AfterFrame` is the loop, a recursive function of the
samples read so far. `Uptime` wraps and restarts with the device. The
sequence numbers, the event queue and refused notifications, which carry no time,
are left to `Firmware` and `EndToEnd`.

A definition named `X_Slip` before `X` is a plausible slip of the same code, used
to show that a property notices it.

## 3. Runs

| Run | Instance | Shows |
| --- | --- | --- |
| `sample_path` | LSM6DSL (two batched streams) and dummy sensor, 5 readings, sequence space 4, 1 connection, a host that may refuse | `TypeOK`, `BatchConsistent`, `ActiveBatchWillFlush`, `NotifiedDecodable`, `PipelineFifo`, refinement `ImplementsChannel` |
| `sample_delivery` | 2 readings, 2 connections, fairness, a host with room | `QuietWhenDisconnected`, `NoLossWhileSubscribed`, `EverySampleSettles` |
| `control_plane` | every command, two config parameters, every rejection, 3 writes, 2 connections | `ServedStateIsReal`, `ServedConfigIsApplied`, `ServedCountIsClose`, `IdleRadioIsScheduled`; with fairness `RadioRecovers`, `SensorsStop` |
| `backend` | 2 connects, 1 cancel, 1 disconnect, 1 end of the program; 1 lost link, 1 web socket that comes or goes, or 1 request that crosses another (so two tasks run at once); fairness | `TypeOK`, `ConnectedIsTrue`, `OnlyViewersLeaveConnecting`, `OnlyLossesLeaveMonitoring`, `OnlyLossesOrphan`, `NoResidualConnection`, `AttemptsEnd` |
| `missed_samples` | LSM6DSL, 4 readings, sequence space 3, 1 connection, 3 writes, a host that may refuse | `MissedIsLost` |
| `missed_over_links` | 2 readings, 2 connections, 4 writes with resets between measurements | `MissedIsLost` |
| `codec` | the 16 sets of optional sensors, both builds, every batch size, frames around both wraps, values at the sides of each limit | `TypeOK`, `FramesReadAsMeasured`, `SamplesShownAsMeasured`, `CapabilityListsPresentStreams`, `StatusReadsBack`, `ConfigsAgree`, `CommandsArriveAsMeant` |
| `requests` | 2 requests of two web clients, the shell or a script, valid, invalid in the middle, past the packing or a line that does not parse, 2 connections, web sockets that come and go, fairness | `RequestsTypeOK`, `MixtureIsExplained`, `AnsweredIsExecuted`, `ErrorsAreExplained`, `RequestsEnd` |
| `timeline` | batches of 3 and 2 samples and a stream without, failed fetches, 2 measurements, 1 lost link or restart, the wrap | `TypeOK`, `ReadTimeIsClose`, `PlotTimeIsClose`, `OnlyTheWrapLosesAFrame` |
| `two_connects` | 2 connects, one of which crosses the other | `OneConnectTask` is violated |
| `lost_while_subscribing` | 1 lost link | `MonitoringMeansSubscribed` is violated |
| `reset_statistics` | a reset while measuring | `MissedIsLost` is violated |

*Bounds.* A batch holds at most 3 samples in the model, so 5 readings fill a
batch, start the next and wrap a sequence space of 4; the model's largest
orientation batch fills the payload exactly, as the program's does. Two
connections are enough for state of the first to reach the second. Three writes
allow two conflicting config writes with a command between them. Four readings
with a sequence space of 3 let a gap span the wrap and keep it below the space,
as the PC's modulo requires; four writes are START, STOP, RESET and START, so
that what one measurement leaves can spoil the count of the next (without
`PatientReset`'s condition on an unanswered reset this run fails). Two connect
requests and a cancel are the fewest with which an attempt, its cancellation
and a newer attempt overlap, and the end of the program is a second canceller; one
crossing is enough for two connection tasks at once, and one lost link for each
race found. `MaxDisturbances` = 1 has one lost link, web socket or crossing in a
behaviour. Larger instances were checked by hand: two cancels and two disconnects
(10 million states, the safety properties), a lost link, a web socket and a crossing
together (without the end of the program, 1.3 million states, `AttemptsEnd` too).
Two requests are the fewest that overlap; control may be at most `MaxLag` = 2 events
behind when the device serves an operation, enough for a write to be answered and
overtaken before it is applied. In `timeline` the interval, the flush delay and
the interval of the unbatched stream are 2, 5 and 3 (38, 100 and, say, 57 ms), so
that a batch survives one failed fetch and not two, as in the program; `Horizon`
15 covers a full batch with failed fetches, a loss and the next measurement; the
uptime wraps at 40, 7 units after the start or not at all. TLC's integers do not
hold 2^32: in `codec` timestamps wrap at 10^6, in frames of the program's own size
and numbers. The bounds are constants (`MaxTicks`, `MaxWrites`, `MaxConnections`,
`MaxViewers`, `MaxChanges`, `MaxLosses`, `MaxCrossings`, `MaxDisturbances`, `MaxRequests`,
`MaxLag`, `MaxStarts`, `Horizon`), in guards of what the environment does.

*Deadlock.* The firmware never stops: a central may always change its CCC, and
an idle radio has work. The backend's runs, `requests` and `timeline` say
`CHECK_DEADLOCK FALSE`: requests are finite and an idle program waits; time ends
at `Horizon`.

*Fairness.* Firmware: weak fairness of `ProcessEvent` and `BatchFlushWork` (the
work queue runs what is submitted) and strong fairness of `AdvertisingStarts`
(`bt_le_adv_start` may fail, but not for ever: the work retries). Nothing is
assumed of the central, the link or the sensors. Backend: weak fairness of the
loop's steps and of completions; scans and connections of bleak have timeouts,
GATT requests end with the ATT timeout or the link, and web sockets have a
heartbeat of 20 s (`web_api.py:468`). A request whose body never arrives is
outside this assumption. Requests: weak fairness of `DeviceServes` (the ATT
bearer serves what it accepted or is lost), of `ControlWorks` (the work queue), of
a task's resumption and of the end of a broadcast; a link may stay down for ever. `Timeline` and `codec` have
safety properties only.

## 4. Disagreements found

Each is a run that TLC must find violated, with the sentence of
`docs/design/pc_webapp_design.md` it contradicts quoted in `PROJECT.json`.

1. `two_connects`: the 409 check and the creation of the task are separated by
   two awaits (`web_api.py:335-342`), so two tasks can run. It takes two pages, or
   one: a cancel sent meanwhile finds no task, is answered `cancelled: false`, and the
   page enables Connect again (`app.js:1237-1238`). `TwoTasksOnlyIfTwoEnter` proves
   that two tasks run in no other way.
2. `lost_while_subscribing`: `monitoring = True` follows an await
   (`app_core.py:62`) and can overwrite the disconnected callback's `False`; the
   next connection is then not subscribed (`web_api.py:554`).
3. `reset_statistics`: `reset_sequence` clears the statistics when the write is
   answered (`app_core.py:76`), before the device has handled the command and sent
   the samples it holds with the old numbers (`control.c:95`): one late sample
   makes the next look like a gap of up to 65535. `missed_over_links` shows it is
   right after everything has stopped and arrived.

Properties of passing runs say of other weaknesses exactly when they occur:

- `OnlyViewersLeaveConnecting`: `connecting` can stay true with no task only when a
  web socket comes or goes. `connecting = True` and the broadcast after it are
  outside the `try` (`web_api.py:340-341`), and the broadcast raises when the set
  of web sockets changes during its iteration (`:580`).
- `OnlyLossesOrphan`: a link without an owner needs a lost link, the end of the
  program, or requests that cross (two tasks at once make two links, and `_client`
  keeps one). With a loss, `disconnect` clears `_client` after its await (`ble_client.py:111`),
  when it may already be a newer connection's.
- `NoResidualConnection`: after shutdown a link can be up only if its connect
  request had not created its task when shutdown looked (`web_api.py:324`), or if
  a cancel request was closing it, which shutdown's second `cancel()` interrupts.
- `MixtureIsExplained`: filter or calibration parameters of two requests are in
  force together only if one was answered an error or they overlapped; in the
  second case both may have been answered ok (`web_api.py:402`).
- `ErrorsAreExplained`: the shell's loop ends by a lost link (`ui_shell.py:39` does
  not catch `BleakError`) or at a line with an unbalanced quote (`:33` is outside the
  `try`), and by no other error of a command; a web command fails after the device
  executed it only if a web socket opened or closed during its broadcast
  (`web_api.py:580`), and `AnsweredIsExecuted` says it was executed as a whole; only a value out of range makes
  `ConfigPayload.pack` raise, though a negative gain raises `struct.error`
  (`protocol.py:766`).
- `PlotTimeIsClose`: streams that overtake each other make the backend take its
  time offset again, but no sample is off by more than the hold of a batch and the
  delay of the link; only a frame from before the uptime's wrap that arrives after
  one from behind it is shown 2^32 ms ahead.
- `OnlyTheWrapLosesAFrame`: `unpack_many` gives up no batch but one across the wrap
  (`protocol.py:464`).

`OnlyLossesLeaveMonitoring` shows that 2 needs a lost link: cancellation alone, at
any await, does not leave the flag, for any number of requests that do not cross
(`CancellationLeavesNoFlag`).

## 5. Proofs

Every theorem below holds for every value of the constants. A theorem of an
invariant `P` has the form `Spec => []P`, from an inductive invariant that TLC
checked first on the run of `P`.

**Firmware.** The assumptions are `SizeAssumption` and `FirmwareAssumption`, which
TLC evaluates on the firmware's runs.

| Theorem | Property | Argument |
| --- | --- | --- |
| `TypeCorrect` | `TypeOK` | inductive as it stands; lemmas on the types of buffers, frames, statuses and the queue |
| `BatchesAreConsistent`, `BatchesAreScheduled`, `NotificationsDecode` | `BatchConsistent`, `ActiveBatchWillFlush`, `NotifiedDecodable` | inductive together (`BatchInv`) and with `TypeOK`: a frame is decodable because the buffer it came from was consistent |
| `RadioIsScheduled` | `IdleRadioIsScheduled` | inductive with `TypeOK` |
| `ServedStateCorrect` | `ServedStateIsReal` | strengthened to `StateInv`: control's copy agrees with the served one, which is why a publication by control cannot serve an old state |
| `ReadingsStayInOrder` | `PipelineFifo` | `PipelineInv`: for each stream, the batch buffer holds the readings after the settled ones and the queue those after them, up to the newest. The queue is described by position, so that the samples of several streams and the events between them may interleave in any way |
| `FirmwareImplementsChannel` | `ImplementsChannel` | each step is one of five kinds (`StepKinds`: quiet, sends, drops, takes a sample from the queue, takes a reading), and each kind is an action of `SampleChannel` or a stutter under the mapping; what is sent is what `PipelineInv` and `BatchConsistent` say the buffer holds |
| `SubscribedLosesNothing` | `NoLossWhileSubscribed` | an action property, from the same invariants: what leaves a buffer without being sent is dropped by a step that needs a central gone, unsubscribed or refusing |
| `ConfigIsApplied` | `ServedConfigIsApplied` | `ConfigInv`: the interval is the same in control's status, the served status and the drivers at all times; the config runs ahead only while a config write is in the queue |
| `DisconnectedIsQuiet` | `QuietWhenDisconnected` | `QuietInv`: with no central, every START in the queue has a disconnection behind it, and so has a measurement under way. The property speaks only of a drained queue; without the order in the queue it is not inductive |
| `CountIsClose` | `ServedCountIsClose` | `CountInv`: control's count and the connection events in the queue add up to the connections made; the served count lies between |

The numbering lemmas (`AppendConsistent`, `EnqueueConsistent`) hold for any
sequence space larger than a batch, so for the program's 65536; nothing bounds the
readings, the writes or the connections.

**End to end.** From the assumptions of `Firmware` and `EndToEndAssumption`, and from
`PatientReset`, without which `reset_statistics` is the counterexample:

| Theorem | Property | Argument |
| --- | --- | --- |
| `MissedAreLostButTurns` | `missed_samples` and `lost` differ by a multiple of the sequence space | `NumberInv`: every number, in the queue, in a buffer, on its way or in the PC's table, lags the sensor's next number by as much as its reading lags the newest, modulo the sequence space; so the difference of two numbers is the difference of two readings (`GapOfNumbers`). `InboxInv`: frames arrive in the order of their readings, by `PipelineInv` and because a link loses a suffix. `ResetInv`: from the write of a reset to its handling by the device, and to its answer, nothing is measured, held or on its way, so that nobody compares a number from before with one from after |
| `MissedAreLost` | `MissedIsLost` | the same, with `FewReadings`: no sensor takes more readings than the sequence space has numbers, and one. A gap is then shorter than a turn |

`FewReadings` bounds the readings of a behaviour, 65537 for the program, where what
matters is the longest gap; it is needed, since `_update_sequence_stats` counts a gap
of 65536 samples as none, and the first theorem says what holds without it. Nothing
else is bounded: connections, writes, resets, refused notifications. Both rest on
`EndToEndIsFirmware`: every theorem about `Firmware` holds here.

**Wire format.** From `ExchangeAssumption`, of `GattExchange`:

| Theorem | Property | Argument |
| --- | --- | --- |
| `ConfigsAlwaysAgree` | `ConfigsAgree` | both ends are shown to accept the same writes, `Allowed`, for each op, every stream id and every integer (`PacksAllowed`, `AcceptsAllowed`): TLC tries the values beside each limit, the proof all of them |
| `CommandsAlwaysArrive` | `CommandsArriveAsMeant` | the tables of commands are equal and name each command once, so the position sent is the command meant |
| `StatusesReadBack` | `StatusReadsBack` | the tables of states and errors are equal and every name a board serves is in them, those a rejected write or a failed notification leaves in `last_error` included, so the position read is the name sent (`NamesReadBack`); `StatusRoundTrip` holds of any interval and count |
| `SamplesAreMeasurements` | `FramesReadAsMeasured` | the words of each stream's sample are the fields of its format, in order (`ReadAsWritten`); word j of sample k is word `(k - 1) * n + j` of the payload and is cut out again there (`PlaceOfWord`, `SampleOfPayload`); the intervals of both ends agree wherever there is a batch (`SameIntervals`); a batch is checked against the last timestamp, which is the largest (`FrameIsRead`) |
| `NumbersFit` | `TypeOK` | from the same lemmas: what is added is reduced modulo 2^16, and a timestamp that passes 2^32 is never read |
| `ShownAsMeasured` | `SamplesShownAsMeasured` | the tables by which a sample is read, served and printed name the same fields in the same order (`TablesAgree`), each once (`FormatsAreDistinct`, from the lists of triples they concatenate), so a line is as long as the set of fields is large (`ListsCount`) |
| `CapabilityIsTrue` | `CapabilityListsPresentStreams` | the loop's invariant `Compacting`: the entries kept so far are at the front of the array, in order and each once, and those not reached yet are where they were; each line of the loop keeps it (`KeepCompacts`), for every set of ready sensors. That the set is one of optional sensors comes from `NumbersFit` |

The theorems about frames hold for the program's own moduli, 2^16 and 2^32; the run
`codec` has to shrink the second. All but the last are inductive as they stand, and the
last with `TypeOK`: an exchange is made in one step, and only the step of its own kind
can break them.

**Web backend.** From `BackendAssumption`, of `WebBackend`:

| Theorem | Property | Argument |
| --- | --- | --- |
| `LoopIsWellFormed` | `TypeOK` | `LoopInv`: the place of each coroutine, its entry in `ready` and its entry among those awaiting a task determine each other. A coroutine is in the queue at most once because it enters it only from a place where nothing else can resume it |
| `OnlyViewersKeepConnecting` | `OnlyViewersLeaveConnecting` | `FlagInv`: the flag is up only while the handler that raised it is before its `finally`; any number of pages and crossings |
| `TwoTasksOnlyIfTwoEnter` | `OneConnectTask`, if never two connect handlers at once are past the 409 check and have created no task (`OneEntering`; `two_connects` is the case where two are) | `CheckInv`: a task in progress is `connection_task`, which the check reads, and while a handler is between the check and `create_task` no task is in progress. Any requests, crossed or not |
| `ConnectedFollowsLink` | `ConnectedIsTrue` | `AppInv`, on `AloneInv` (one connect, one cancel and one shutdown at a time, no disconnect beside a connect, and `connection_task` is the task in progress): the current client has its link and `connected` is true, unless its task is at the await of the connection or of its undoing |
| `CancellationLeavesNoFlag` | `OnlyLossesLeaveMonitoring` | `MonInv`: the task that makes a link or subscribes has the current client, and that client notifies once `start_notify` has returned |
| `CancellationOrphansNothing` | `OnlyLossesOrphan` | `LinkInv`: a link that is up is the current client's or was passed over by shutdown; a link made is seen by its task; a second cancellation comes only from shutdown |
| `CancelledLeavesNothing` | `NoResidualConnection` | `EndInv`: whoever cancelled a task goes on only when the task is over, and ends with its client gone |

The last four properties say what they say as long as no request has crossed another
(`crossings = 0`): with two tasks at once, which a crossing can bring about, the
undo path of one works on the other's client, and the agreement is lost. The last
three also speak of behaviours without a lost link
(`losses = 0`), and their invariants are kept together, because a task undoes its
own client's link only if no handler closes it meanwhile (`FifoInv`: a handler that
closes a link is alone with the current client, or runs before the connect request
queued behind it). That the handlers run in the order they were queued is used,
and is what keeps a stale disconnect request from closing a newer
connection.

**Requests.** From `RequestsAssumption`, of `Requests`, and those of `Firmware`.
It says of the constants what the code says of every request: the handlers and the
script set all parameters of a group (`web_api.py:402`, `ble_e2e_smoke.py`), the
shell sets intervals only, the status page asks nothing after its poll, and the
central writes nothing `Configs` does not list. Nothing else is assumed of what a
request is made of, and the tasks, requests, links and losses are not bounded.

| Theorem | Property | Argument |
| --- | --- | --- |
| `RequestsAwaitOne` | `RequestsTypeOK` | `AwaitInv`: a task is in the host's queue exactly if its request is pending and unanswered, and there once |
| `RequestsStayInFirmware` | (`RequestsSpec => Spec`) | each step is a callback of `Firmware`, control's handler or a stutter (`NextRefines`); the theorems about `Firmware` then hold of `Requests` too, and `TypeCorrect` is used below |
| `SuccessIsWhole` | `AnsweredIsExecuted` | `ServedInv`: all operations before the one awaited have been executed, and an answer "done" means that one has; a broadcast begins only behind the last |
| `ErrorsHaveCauses` | `ErrorsAreExplained` | `CauseInv`: whatever is awaited has passed the PC's checks, which are the device's (`PacksIsAccepted`, for every integer), so only a malformed write is refused; an answer "lost" saw the link down; a broadcast raises only if disturbed; the intervals of the shell validate exactly when they pack (`ShellCatches`) |
| `MixturesHaveCauses` | `MixtureIsExplained` | `AppliedInv`: the last write of a parameter in the event queue, or else the driver, has the value last accepted. `GroupInv`: where the values of a group are of two requests, the newer one is still to write the other parameter, or one of the two is blamed. When the newer ends ok, `ServedInv` says it has written all it sets, which is the whole group; the older cannot write after it unless they overlapped |

**Timeline.** From `TimelineAssumption`: any streams, batch sizes and delays, an
interval shorter than the flush delay, and a time of observation shorter than one
turn of the uptime, 49 days (`Horizon < TimeModulus`): without it a timestamp may be
the larger although a whole turn lies between the two.

| Theorem | Property | Argument |
| --- | --- | --- |
| `TimesAreKept` | `TypeOK` | `TimelineInv`, the conjunction of the four invariants below, implies it |
| `SamplesAreReadClose` | `ReadTimeIsClose` | `DeviceInv`: the readings in a buffer are at least an interval and at most a flush delay apart (`Spaced`), because a buffer that holds something has a flush due within a flush delay of its last reading, and the next reading is due an interval after it (`Waits`). So the i-th sample was taken between i - 1 intervals and i - 1 flush delays after the first, and the PC counts intervals (`FrameTimes`) |
| `SamplesArePlottedClose` | `PlotTimeIsClose` | `AirInv`: frames are received in the order they were sent and within `MaxDelay`. `PageInv`: the offset is that of a frame read in the wrap `anchor`, too large by at most the hold of a batch and the delay, and the last timestamp, placed in that wrap, is of no moment before time 0; so a frame of a later wrap is older and takes a new offset (`LaterWrapIsOlder`), and the offset kept is right for the others (`SampleIsClose`). Within a frame only the first sample can take one (`FrameIsShown`) |
| `WholeFramesAreShown` | `OnlyTheWrapLosesAFrame` | an action property: the only step that takes a frame from the air and shows nothing gives it up because a timestamp passes `TimeModulus`, and then the last sample was taken behind the wrap (`UnreadableIsWrapped`) |

What the loops over the buffers and over a frame compute is shown for every length
by induction: `AllNumbers`, about sets of naturals, from the library's
`WFMin` (which has no operator parameter). It is the reason the loops are
written as recursive functions.

**Only model-checked.** The liveness properties (`EverySampleSettles`,
`RadioRecovers`, `SensorsStop`, `AttemptsEnd`, `RequestsEnd`): the prover does not
treat fairness. Every invariant and action property of a passing run has a theorem.

## 6. Plan

Built, in this order: the sample path, the control plane and radio, the proofs
about them, the backend's connection management and shutdown, the statistics end
to end, the wire format of both ends, the requests over a link that comes and
goes, the timestamps, and the proofs about the firmware's queue, the backend's connection
management, the requests, the wire format, the timestamps and the statistics. Left,
most important first:

1. `EndToEnd`: a reboot of the device, and more than one page resetting.
2. The conversions of the readings, each sensor's in its own module, and the
   window of the gyro calibration.
3. `Frontend`: duplicate suppression and CSV recording.

## 7. Not modelled

The orientation filters and the gyro calibration (floating point over the
readings), charts and the 3-D view (drawing), the shell's parsing and help text,
the scripts' reports, the packing functions of `protocol.py` that only tests call,
the ADC sensor (not built), the I2C probe (debug), log functions, the exhaustion of
the firmware's event heap (an assertion in the library). `PROJECT.json` says for each component what is left
out.
