----------------------------- MODULE Firmware -----------------------------
(***************************************************************************)
(* The sensor firmware: control.c, ble_service.c, the sensors' delayable   *)
(* works and the App Event Manager queue between them.                     *)
(*                                                                         *)
(* Two threads run.  The system work queue runs one item at a time: the    *)
(* dispatch of the head event to control's app_event_handler               *)
(* (ProcessEvent), a sensor's sample work, the batch flush work, the       *)
(* advertising work.  The Bluetooth thread runs the GATT and connection    *)
(* callbacks.  Both threads are cooperative and the handlers do not block  *)
(* between their first and last assignment, so a handler is one step, and  *)
(* the holder of batch_lock never meets a waiter; steps of the two threads *)
(* interleave freely.  Timers carry no duration: a pending delayable work  *)
(* may run at any moment.                                                  *)
(*                                                                         *)
(* A definition X_Slip before X is X with a plausible slip, kept to show   *)
(* which property notices it.                                              *)
(***************************************************************************)
EXTENDS StreamBatch, FiniteSets

CONSTANTS
  Ready,          \* optional sensors whose init found the device
  Commands,       \* control commands the central writes
  Configs,        \* valid configs [op, value] the central writes
  DefaultConfig,  \* bsl_config_default
  DefaultParams,  \* initial value of every parameter, by config op
  BadWrites,      \* errors the central's malformed writes provoke
  HostMayRefuse,  \* may bt_gatt_notify fail for lack of buffers?
  MaxTicks,       \* bound: readings of a sensor, by sensor
  MaxWrites,      \* bound: control and config writes
  MaxConnections  \* bound: established connections

OptionalSensors == {"lsm6dsl", "hts221", "lps22hb", "lsm303agr_magn"}
Sensors == {"dummy"} \cup (Ready \cap OptionalSensors)

\* The streams one reading of a sensor feeds, in the order of its events.
StreamsOf(s) == IF s = "lsm6dsl" THEN << "imu6", "orientation" >> ELSE << s >>
SensorOf(st) == IF st \in {"imu6", "orientation"} THEN "lsm6dsl" ELSE st

AllCommands == {"START_MEASUREMENT", "STOP_MEASUREMENT", "REQUEST_STATUS",
                "RESET_SEQUENCE", "FORCE_GYRO_CALIB"}
ConfigOps == DOMAIN DefaultParams
WriteErrors == {"INVALID_LENGTH", "INVALID_VERSION", "INVALID_COMMAND", "INVALID_CONFIG"}

ASSUME FirmwareAssumption ==
  /\ Ready \subseteq OptionalSensors
  /\ Streams = UNION { { StreamsOf(s)[i] : i \in DOMAIN StreamsOf(s) } : s \in Sensors }
  /\ BatchedStreams \subseteq {"imu6", "orientation"}
  /\ Commands \subseteq AllCommands
  /\ DefaultParams = [op \in ConfigOps |-> DefaultParams[op]]
  /\ "SET_STREAM_INTERVAL" \in ConfigOps
  /\ \A c \in Configs \cup {DefaultConfig} : c.op \in ConfigOps
  /\ DefaultConfig = [op |-> "SET_STREAM_INTERVAL",
                      value |-> DefaultParams["SET_STREAM_INTERVAL"]]
  /\ BadWrites \subseteq WriteErrors
  /\ HostMayRefuse \in BOOLEAN
  /\ MaxTicks \in [Sensors -> Nat] /\ MaxWrites \in Nat /\ MaxConnections \in Nat

VARIABLES
  \* control.c and the sensors
  status,         \* control's copy of struct bsl_status
  running,        \* per sensor: the running flag
  sample_work,    \* per sensor: sample_work is scheduled
  sequence,       \* per sensor: next sequence number
  params,         \* per config op: the value the sensor driver holds
  gyro_force,     \* gyro_force_calib_requested
  \* ble_service.c
  current_status, \* the copy read_status serves
  current_config, \* the copy read_config serves
  current_conn,   \* current_conn # NULL
  notify_enabled,
  batch,          \* per batched stream: its stream_batch_state
  flush_work,     \* batch_flush_work is scheduled
  adv_work,       \* advertising_work is scheduled
  \* App Event Manager, Bluetooth host
  events,         \* submitted events control has not handled, oldest first
  radio,          \* "idle", "advertising" or "connected"
  notified,       \* frames the last step passed to the host
  \* history
  ticks,          \* per sensor: readings taken
  settled,        \* per stream: samples sent or lost so far
  writes,         \* writes so far
  connections     \* connections established so far

controlVars == << status, running, sample_work, sequence, params, gyro_force >>
statusVars  == << current_status, current_config >>
connVars    == << current_conn, notify_enabled, radio, adv_work >>
batchVars   == << batch, flush_work, notified, settled >>
countVars   == << ticks, writes, connections >>
vars == << controlVars, statusVars, connVars, batchVars, countVars, events >>

-----------------------------------------------------------------------------
(* Status *)

OptionalOrder == << "lsm6dsl", "hts221", "lps22hb", "lsm303agr_magn" >>

SensorErrors == {"LSM6DSL_ERROR", "HTS221_ERROR", "LPS22HB_ERROR", "LSM303AGR_ERROR"}

\* A sensor's status_error, fixed by its init: which of its codes it holds does not matter here.
SensorError(s) ==
  CASE s = "lsm6dsl" -> "LSM6DSL_ERROR"
    [] s = "hts221" -> "HTS221_ERROR"
    [] s = "lps22hb" -> "LPS22HB_ERROR"
    [] OTHER -> "LSM303AGR_ERROR"

FirstOptionalSensorError ==
  LET absent == { i \in 1 .. 4 : OptionalOrder[i] \notin Ready }
  IN  IF absent = {} THEN "NONE"
      ELSE SensorError(OptionalOrder[CHOOSE i \in absent : \A j \in absent : i <= j])

Errors == {"NONE", "NOT_CONNECTED", "NOT_SUBSCRIBED"} \cup WriteErrors \cup SensorErrors

\* ble_service_init after control_init: both copies start equal.
InitialStatus ==
  [state |-> "IDLE", sample_interval_ms |-> DefaultConfig.value,
   last_error |-> FirstOptionalSensorError, connection_count |-> 0]

PublishStatus_KeptToControl(new) == status' = new /\ UNCHANGED current_status

\* publish_status: control's copy replaces the served one whole.
PublishStatus(new) == status' = new /\ current_status' = new

-----------------------------------------------------------------------------
(* Events *)

CommandEvent(c)  == [type |-> "pc_command", command |-> c]
ConfigEvent(c)   == [type |-> "config_update", config |-> c]
ConnectedEvent   == [type |-> "ble_connected"]
DisconnectedEvent == [type |-> "ble_disconnected"]
SampleEvent(sample) == [type |-> "sensor_sample", sample |-> sample]

Pending(type) == \E i \in DOMAIN events : events[i].type = type
PendingCommand(c) == \E i \in DOMAIN events : events[i] = CommandEvent(c)

\* APP_EVENT_SUBMIT
Submit(es) == events' = events \o es

-----------------------------------------------------------------------------
(* Initial state: main() has returned *)

Init ==
  /\ status = InitialStatus
  /\ current_status = InitialStatus
  /\ current_config = DefaultConfig
  /\ params = DefaultParams
  /\ running = [s \in Sensors |-> FALSE]
  /\ sample_work = [s \in Sensors |-> FALSE]
  /\ sequence = [s \in Sensors |-> 0]
  /\ gyro_force = FALSE
  /\ current_conn = FALSE
  /\ notify_enabled = FALSE
  /\ batch = [st \in BatchedStreams |-> EmptyBatch]
  /\ flush_work = FALSE
  /\ adv_work = TRUE
  /\ events = << >>
  /\ radio = "idle"
  /\ notified = {}
  /\ ticks = [s \in Sensors |-> 0]
  /\ settled = [st \in Streams |-> 0]
  /\ writes = 0
  /\ connections = 0

-----------------------------------------------------------------------------
(* Sending *)

Receptive == current_conn /\ notify_enabled

FrameIn(frames, st) == CHOOSE f \in frames : f.stream = st

\* notify_packed_sample for a set of frames of distinct streams: the host
\* takes those it has room for, and every sample in them has left the device.
NotifyPackedSample(frames) ==
  /\ \E refused \in (IF HostMayRefuse /\ Receptive THEN SUBSET frames ELSE {{}}) :
       notified' = IF Receptive THEN { f \in frames \ refused : Packs(f) } ELSE {}
  /\ settled' = [st \in Streams |->
       settled[st] + (IF \E f \in frames : f.stream = st
                      THEN Len(FrameIn(frames, st).payload) ELSE 0)]

\* last_error of the served status after notify_packed_sample.
LastErrorAfter(frames) ==
  CASE frames = {} \/ Receptive -> current_status.last_error
    [] ~current_conn -> "NOT_CONNECTED"
    [] OTHER -> "NOT_SUBSCRIBED"

NoNotification == notified' = {} /\ UNCHANGED settled

ActiveStreams == { st \in BatchedStreams : batch[st].active }

FlushAllBatches_NotEmptied ==
  /\ NotifyPackedSample({ FrameOf(st, batch[st]) : st \in ActiveStreams })
  /\ UNCHANGED batch

\* flush_all_batches_locked, but for the status.
FlushAllBatches ==
  /\ NotifyPackedSample({ FrameOf(st, batch[st]) : st \in ActiveStreams })
  /\ batch' = [st \in BatchedStreams |->
                 IF batch[st].active THEN ClearBatch(batch[st]) ELSE batch[st]]

\* batch_flush_work_handler
BatchFlushWork ==
  /\ flush_work
  /\ flush_work' = FALSE
  /\ FlushAllBatches
  /\ current_status' = [current_status EXCEPT !.last_error =
       LastErrorAfter({ FrameOf(st, batch[st]) : st \in ActiveStreams })]
  /\ UNCHANGED << controlVars, current_config, connVars, events, countVars >>

Enqueued_OverwritesOnRestart(b, sample) ==
  IF ~b.active \/ MustRestart(b, sample)
  THEN [batch |-> StartBatch(sample), frames |-> {}]
  ELSE [batch |-> AppendSample(b, sample), frames |-> {}]

\* What ble_service_enqueue_sample does to the buffer b of the sample's
\* stream: the new buffer and the frames to send.
Enqueued(b, sample) ==
  LET st       == sample.stream
      extended == AppendSample(b, sample)
  IN  CASE ~b.active ->
             [batch |-> StartBatch(sample), frames |-> {}]
        [] b.active /\ MustRestart(b, sample) ->
             [batch |-> StartBatch(sample), frames |-> { FrameOf(st, b) }]
        [] b.active /\ ~MustRestart(b, sample) /\ IsFull(extended, st) ->
             [batch |-> ClearBatch(extended), frames |-> { FrameOf(st, extended) }]
        [] OTHER ->
             [batch |-> extended, frames |-> {}]

EnqueueSample_SchedulesOnSendOnly(sample) ==
  LET st  == sample.stream
      res == IF st \in BatchedStreams THEN Enqueued(batch[st], sample)
             ELSE [frames |-> { SingleFrame(sample) }]
  IN  /\ NotifyPackedSample(res.frames)
      /\ current_status' = [current_status EXCEPT !.last_error = LastErrorAfter(res.frames)]
      /\ IF st \in BatchedStreams
         THEN batch' = [batch EXCEPT ![st] = res.batch]
              /\ flush_work' = (flush_work \/ res.frames # {})
         ELSE UNCHANGED << batch, flush_work >>

\* ble_service_enqueue_sample
EnqueueSample(sample) ==
  LET st  == sample.stream
      res == IF st \in BatchedStreams THEN Enqueued(batch[st], sample)
             ELSE [frames |-> { SingleFrame(sample) }]
  IN  /\ NotifyPackedSample(res.frames)
      /\ current_status' = [current_status EXCEPT !.last_error = LastErrorAfter(res.frames)]
      /\ IF st \in BatchedStreams
         THEN batch' = [batch EXCEPT ![st] = res.batch] /\ flush_work' = TRUE
         ELSE UNCHANGED << batch, flush_work >>

\* ble_service_flush_samples; its error is overwritten by the publication that follows.
FlushSamples == FlushAllBatches /\ flush_work' = FALSE

-----------------------------------------------------------------------------
(* Sensors *)

\* <sensor>_start of every sensor; lsm6dsl_sensor_start also resets the filters.
StartSensors ==
  /\ running' = [s \in Sensors |-> TRUE]
  /\ sample_work' = [s \in Sensors |-> TRUE]
  /\ gyro_force' = (gyro_force /\ ("lsm6dsl" \notin Sensors \/ running["lsm6dsl"]))

StopSensors_WorkOnly ==
  sample_work' = [s \in Sensors |-> FALSE] /\ UNCHANGED << running, gyro_force >>

\* <sensor>_stop of every sensor.
StopSensors ==
  /\ running' = [s \in Sensors |-> FALSE]
  /\ sample_work' = [s \in Sensors |-> FALSE]
  /\ UNCHANGED gyro_force

\* The events of one reading: the streams of a sensor share its sequence number.
SampleEvents(s) ==
  [i \in DOMAIN StreamsOf(s) |->
     SampleEvent([stream |-> StreamsOf(s)[i], sequence |-> sequence[s],
                  tick |-> ticks[s] + 1])]

\* sample_work_handler.  A failed fetch only reschedules the work and is a stuttering step.
SampleWork(s) ==
  /\ sample_work[s]
  /\ sample_work' = [sample_work EXCEPT ![s] = running[s]]
  /\ IF running[s]
     THEN /\ ticks[s] < MaxTicks[s]
          /\ ticks' = [ticks EXCEPT ![s] = @ + 1]
          /\ sequence' = [sequence EXCEPT ![s] = Add16(@, 1)]
          /\ gyro_force' = (gyro_force /\ s # "lsm6dsl")
          /\ Submit(SampleEvents(s))
     ELSE UNCHANGED << ticks, sequence, gyro_force, events >>
  /\ NoNotification
  /\ UNCHANGED << status, running, params, statusVars, connVars, batch, flush_work,
                  writes, connections >>

-----------------------------------------------------------------------------
(* control: app_event_handler on the head event *)

HeadIs(e) == events # << >> /\ Head(events) = e /\ events' = Tail(events)

HandleStart ==
  /\ HeadIs(CommandEvent("START_MEASUREMENT"))
  /\ PublishStatus([status EXCEPT !.state = "MEASURING",
                                  !.last_error = FirstOptionalSensorError])
  /\ StartSensors
  /\ NoNotification
  /\ UNCHANGED << sequence, params, current_config, connVars, batch, flush_work, countVars >>

HandleStop ==
  /\ HeadIs(CommandEvent("STOP_MEASUREMENT"))
  /\ PublishStatus([status EXCEPT !.state = "IDLE",
                                  !.last_error = FirstOptionalSensorError])
  /\ StopSensors
  /\ FlushSamples
  /\ UNCHANGED << sequence, params, current_config, connVars, countVars >>

HandleRequestStatus ==
  /\ HeadIs(CommandEvent("REQUEST_STATUS"))
  /\ PublishStatus(status)
  /\ NoNotification
  /\ UNCHANGED << running, sample_work, sequence, params, gyro_force, current_config,
                  connVars, batch, flush_work, countVars >>

HandleResetSequence ==
  /\ HeadIs(CommandEvent("RESET_SEQUENCE"))
  /\ sequence' = [s \in Sensors |-> 0]
  /\ gyro_force' = FALSE
  /\ PublishStatus(status)
  /\ NoNotification
  /\ UNCHANGED << running, sample_work, params, current_config, connVars, batch,
                  flush_work, countVars >>

HandleForceGyroCalib ==
  /\ HeadIs(CommandEvent("FORCE_GYRO_CALIB"))
  /\ gyro_force' = TRUE
  /\ PublishStatus(status)
  /\ NoNotification
  /\ UNCHANGED << running, sample_work, sequence, params, current_config, connVars,
                  batch, flush_work, countVars >>

HandleConfig_IntervalNotPublished(c) ==
  /\ HeadIs(ConfigEvent(c))
  /\ params' = [params EXCEPT ![c.op] = c.value]
  /\ current_config' = c
  /\ PublishStatus([status EXCEPT !.last_error = FirstOptionalSensorError])
  /\ NoNotification
  /\ UNCHANGED << running, sample_work, sequence, gyro_force, connVars, batch,
                  flush_work, countVars >>

\* Rescheduling a running dummy sensor's work leaves it scheduled.
HandleConfig(c) ==
  /\ HeadIs(ConfigEvent(c))
  /\ params' = [params EXCEPT ![c.op] = c.value]
  /\ current_config' = c
  /\ PublishStatus([status EXCEPT
       !.sample_interval_ms = IF c.op = "SET_STREAM_INTERVAL" THEN c.value ELSE @,
       !.last_error = FirstOptionalSensorError])
  /\ NoNotification
  /\ UNCHANGED << running, sample_work, sequence, gyro_force, connVars, batch,
                  flush_work, countVars >>

HandleConnected_PublishesOnly ==
  /\ HeadIs(ConnectedEvent)
  /\ PublishStatus(status)
  /\ NoNotification
  /\ UNCHANGED << running, sample_work, sequence, params, gyro_force, current_config,
                  connVars, batch, flush_work, countVars >>

HandleConnected ==
  /\ HeadIs(ConnectedEvent)
  /\ PublishStatus([status EXCEPT !.connection_count = @ + 1])
  /\ NoNotification
  /\ UNCHANGED << running, sample_work, sequence, params, gyro_force, current_config,
                  connVars, batch, flush_work, countVars >>

HandleDisconnected_SensorsRun ==
  /\ HeadIs(DisconnectedEvent)
  /\ PublishStatus([status EXCEPT !.state = "IDLE"])
  /\ FlushSamples
  /\ UNCHANGED << running, sample_work, gyro_force, sequence, params, current_config,
                  connVars, countVars >>

HandleDisconnected ==
  /\ HeadIs(DisconnectedEvent)
  /\ PublishStatus([status EXCEPT !.state = "IDLE"])
  /\ StopSensors
  /\ FlushSamples
  /\ UNCHANGED << sequence, params, current_config, connVars, countVars >>

HandleSample ==
  /\ Pending("sensor_sample")
  /\ HeadIs(Head(events))
  /\ Head(events).type = "sensor_sample"
  /\ EnqueueSample(Head(events).sample)
  /\ UNCHANGED << controlVars, current_config, connVars, countVars >>

ProcessEvent ==
  \/ HandleStart
  \/ HandleStop
  \/ HandleRequestStatus
  \/ HandleResetSequence
  \/ HandleForceGyroCalib
  \/ \E c \in Configs : HandleConfig(c)
  \/ HandleConnected
  \/ HandleDisconnected
  \/ HandleSample

-----------------------------------------------------------------------------
(* Advertising *)

\* advertising_work_handler when bt_le_adv_start succeeds or reports -EALREADY.
AdvertisingStarts ==
  /\ adv_work
  /\ radio # "connected"
  /\ radio' = "advertising"
  /\ adv_work' = FALSE
  /\ NoNotification
  /\ UNCHANGED << controlVars, statusVars, current_conn, notify_enabled, batch,
                  flush_work, events, countVars >>

AdvertisingFails_NotRetried ==
  /\ adv_work
  /\ radio # "advertising"
  /\ adv_work' = FALSE
  /\ NoNotification
  /\ UNCHANGED << controlVars, statusVars, current_conn, notify_enabled, radio, batch,
                  flush_work, events, countVars >>

\* advertising_work_handler when it fails: the work is scheduled again.
AdvertisingFails ==
  /\ adv_work
  /\ radio # "advertising"
  /\ adv_work' = TRUE
  /\ NoNotification
  /\ UNCHANGED << controlVars, statusVars, current_conn, notify_enabled, radio, batch,
                  flush_work, events, countVars >>

-----------------------------------------------------------------------------
(* Bluetooth callbacks *)

\* connected(conn, 0)
Connected ==
  /\ radio = "advertising"
  /\ connections < MaxConnections
  /\ connections' = connections + 1
  /\ radio' = "connected"
  /\ current_conn' = TRUE
  /\ current_status' = [current_status EXCEPT !.connection_count = @ + 1]
  /\ Submit(<< ConnectedEvent >>)
  /\ NoNotification
  /\ UNCHANGED << controlVars, current_config, notify_enabled, adv_work, batch,
                  flush_work, ticks, writes >>

ConnectionFailed_Forgotten ==
  /\ radio = "advertising"
  /\ radio' = "idle"
  /\ NoNotification
  /\ UNCHANGED << controlVars, statusVars, current_conn, notify_enabled, adv_work,
                  batch, flush_work, events, countVars >>

\* connected(conn, err): the host stopped advertising for the attempt.
ConnectionFailed ==
  /\ radio = "advertising"
  /\ radio' = "idle"
  /\ adv_work' = TRUE
  /\ NoNotification
  /\ UNCHANGED << controlVars, statusVars, current_conn, notify_enabled, batch,
                  flush_work, events, countVars >>

\* disconnected: the batches are dropped unsent and their flush is cancelled.
DropBatches_FlushCancelledOnly ==
  flush_work' = FALSE /\ UNCHANGED << batch, settled >> /\ notified' = {}
DropBatches ==
  /\ flush_work' = FALSE
  /\ batch' = [st \in BatchedStreams |-> ClearBatch(batch[st])]
  /\ settled' = [st \in Streams |-> settled[st] +
                   (IF st \in BatchedStreams THEN Len(batch[st].payload) ELSE 0)]
  /\ notified' = {}

Disconnected ==
  /\ radio = "connected"
  /\ radio' = "idle"
  /\ current_conn' = FALSE
  /\ notify_enabled' = FALSE
  /\ DropBatches
  /\ Submit(<< DisconnectedEvent >>)
  /\ adv_work' = TRUE
  /\ UNCHANGED << controlVars, statusVars, countVars >>

\* sensor_ccc_changed
SensorCccChanged(value) ==
  /\ radio = "connected"
  /\ notify_enabled' = value
  /\ NoNotification
  /\ UNCHANGED << controlVars, statusVars, current_conn, radio, adv_work, batch,
                  flush_work, events, countVars >>

Write ==
  /\ radio = "connected"
  /\ writes < MaxWrites
  /\ writes' = writes + 1

\* write_control, accepted
WriteControl(c) ==
  /\ Write
  /\ Submit(<< CommandEvent(c) >>)
  /\ NoNotification
  /\ UNCHANGED << controlVars, statusVars, connVars, batch, flush_work, ticks, connections >>

\* write_control, rejected by bsl_control_unpack
WriteControlRejected(error) ==
  /\ Write
  /\ current_status' = [current_status EXCEPT !.last_error = error]
  /\ NoNotification
  /\ UNCHANGED << controlVars, current_config, connVars, batch, flush_work, events, ticks, connections >>

\* write_config, accepted
WriteConfig(c) ==
  /\ Write
  /\ current_config' = c
  /\ Submit(<< ConfigEvent(c) >>)
  /\ NoNotification
  /\ UNCHANGED << controlVars, current_status, connVars, batch, flush_work, ticks, connections >>

\* write_config, rejected by bsl_config_unpack
WriteConfigRejected ==
  /\ "INVALID_CONFIG" \in BadWrites
  /\ Write
  /\ current_status' = [current_status EXCEPT !.last_error = "INVALID_CONFIG"]
  /\ NoNotification
  /\ UNCHANGED << controlVars, current_config, connVars, batch, flush_work, events, ticks, connections >>

BluetoothCallback ==
  \/ Connected
  \/ ConnectionFailed
  \/ Disconnected
  \/ \E value \in BOOLEAN : SensorCccChanged(value)
  \/ \E c \in Commands : WriteControl(c)
  \/ \E e \in BadWrites \ {"INVALID_CONFIG"} : WriteControlRejected(e)
  \/ \E c \in Configs : WriteConfig(c)
  \/ WriteConfigRejected

-----------------------------------------------------------------------------

Next ==
  \/ ProcessEvent
  \/ \E s \in Sensors : SampleWork(s)
  \/ BatchFlushWork
  \/ AdvertisingStarts
  \/ AdvertisingFails
  \/ BluetoothCallback

Spec == Init /\ [][Next]_vars

(***************************************************************************)
(* The work queue runs what is submitted or scheduled.  bt_le_adv_start    *)
(* may fail, but not for ever: the work retries it every second.  Nothing  *)
(* is assumed of the central, the link or the sensors.                     *)
(***************************************************************************)
Fairness ==
  /\ WF_vars(ProcessEvent)
  /\ WF_vars(BatchFlushWork)
  /\ SF_vars(AdvertisingStarts)

FairSpec == Spec /\ Fairness

-----------------------------------------------------------------------------
(* Properties *)

Sample == [stream : Streams, sequence : Sequences16, tick : Nat]

Batch == [active : BOOLEAN, first_sequence : Sequences16, payload_len : Nat,
          sample_count : Nat, payload : Seq(Sample)]

Frame == [stream : Streams, sequence : Sequences16, payload_len : Nat,
          sample_count : Nat, payload : Seq(Sample)]

Event ==
  { CommandEvent(c) : c \in Commands } \cup { ConfigEvent(c) : c \in Configs }
    \cup { ConnectedEvent, DisconnectedEvent }
    \cup [type : {"sensor_sample"}, sample : Sample]

ParamValues == { DefaultParams[op] : op \in ConfigOps } \cup { c.value : c \in Configs }

Status == [state : {"IDLE", "MEASURING"}, sample_interval_ms : ParamValues,
           last_error : Errors, connection_count : Nat]

\* Type invariant: every variable of control.c, ble_service.c and the sensors
\* keeps to the values its C type and the enums of protocol.h give it.
TypeOK ==
  /\ status \in Status
  /\ running \in [Sensors -> BOOLEAN]
  /\ sample_work \in [Sensors -> BOOLEAN]
  /\ sequence \in [Sensors -> Sequences16]
  /\ params \in [ConfigOps -> ParamValues]
  /\ gyro_force \in BOOLEAN
  /\ current_status \in Status
  /\ current_config \in Configs \cup {DefaultConfig}
  /\ current_conn \in BOOLEAN
  /\ notify_enabled \in BOOLEAN
  /\ radio \in {"idle", "advertising", "connected"}
  /\ adv_work \in BOOLEAN
  /\ batch \in [BatchedStreams -> Batch]
  /\ flush_work \in BOOLEAN
  /\ notified \subseteq Frame
  /\ settled \in [Streams -> Nat]
  /\ events \in Seq(Event)
  /\ ticks \in [Sensors -> Nat]
  /\ writes \in Nat
  /\ connections \in Nat

\* Sample i of a frame carries the number the receiver gives it, header.sequence + i.
NumberedFrom(first, stream, payload) ==
  \A i \in DOMAIN payload :
    /\ payload[i].stream = stream
    /\ payload[i].sequence = Add16(first, i - 1)

Consistent(st, b) ==
  /\ b.active <=> b.sample_count > 0
  /\ b.sample_count = Len(b.payload)
  /\ b.sample_count <= MaxBatch[st]
  /\ b.payload_len = SampleSize[st] * b.sample_count
  /\ NumberedFrom(b.first_sequence, st, b.payload)

\* A batch buffer of ble_service.c always describes a sendable frame: its count
\* and byte length agree, fit the stream's limits, and its samples are numbered
\* consecutively (mod 2^16) from first_sequence, across resets, restarts,
\* flushes and disconnections.
BatchConsistent == \A st \in BatchedStreams : Consistent(st, batch[st])

\* No stranded batch: samples waiting in a buffer always have the flush work
\* scheduled behind them, whatever order enqueueing, flushing and disconnecting took.
ActiveBatchWillFlush ==
  \A st \in BatchedStreams : batch[st].active => flush_work

\* What unpack_many of the receiver reconstructs from a notification is what
\* the sensor stamped on the samples in it, batched or not.
Decodable(f) ==
  f.sample_count = Len(f.payload) /\ NumberedFrom(f.sequence, f.stream, f.payload)

NotifiedDecodable == \A f \in notified : Decodable(f)

IsSampleOf(i, st) == events[i].type = "sensor_sample" /\ events[i].sample.stream = st

BatchLen(st) == IF st \in BatchedStreams THEN Len(batch[st].payload) ELSE 0

\* Every reading a sensor took is in exactly one place, in order: the buffer
\* holds the readings after the settled ones, the event queue the rest up to
\* the newest, none missing, repeated or out of order.
PipelineFifo ==
  \A st \in Streams :
    LET queued == { i \in DOMAIN events : IsSampleOf(i, st) }
        next   == settled[st] + BatchLen(st)
    IN  /\ \A i \in 1 .. BatchLen(st) : batch[st].payload[i].tick = settled[st] + i
        /\ { events[i].sample.tick : i \in queued } = next + 1 .. ticks[SensorOf(st)]
        /\ \A i, j \in queued : i < j => events[i].sample.tick < events[j].sample.tick
        /\ Cardinality(queued) = ticks[SensorOf(st)] - next

\* Once control has handled the disconnection, nothing samples and nothing
\* can start sampling until a central connects again.
QuietWhenDisconnected ==
  ~current_conn /\ ~Pending("ble_disconnected") =>
    /\ status.state = "IDLE"
    /\ \A s \in Sensors : ~running[s] /\ ~sample_work[s]
    /\ ~PendingCommand("START_MEASUREMENT")

\* The state served to the central is the state the sensors are in.
ServedStateIsReal ==
  \A s \in Sensors :
    /\ (current_status.state = "MEASURING") = running[s]
    /\ sample_work[s] = running[s]

\* With no config write in the queue, the config and the interval the central
\* reads are those the sensors use, although the Bluetooth thread and control
\* both write current_config.
ServedConfigIsApplied ==
  ~Pending("config_update") =>
    /\ params[current_config.op] = current_config.value
    /\ current_status.sample_interval_ms = params["SET_STREAM_INTERVAL"]

\* connection_count is kept twice: control's copy counts every connection but
\* those it has yet to handle, and the served copy, which a publication by
\* control may set back, lies between it and the truth.
ServedCountIsClose ==
  LET unhandled == Cardinality({ i \in DOMAIN events : events[i] = ConnectedEvent })
  IN  /\ status.connection_count + unhandled = connections
      /\ current_status.connection_count \in status.connection_count .. connections

\* The device can always be found again: a radio that neither advertises nor is
\* connected has the advertising work scheduled, and current_conn follows the link.
IdleRadioIsScheduled ==
  /\ (radio = "idle") = adv_work
  /\ current_conn = (radio = "connected")

FrameLen(frames, st) ==
  IF \E f \in frames : f.stream = st THEN Len(FrameIn(frames, st).payload) ELSE 0

\* While a central is subscribed and the host has buffers, a sample leaves the
\* device only inside a notification.
NoLossWhileSubscribed ==
  [][~HostMayRefuse /\ Receptive /\ Receptive' =>
       \A st \in Streams : settled'[st] - settled[st] = FrameLen(notified', st)]_vars

\* Every stream is a lossy first-in first-out channel (module SampleChannel).
Channel == INSTANCE SampleChannel WITH
  produced <- [st \in Streams |-> ticks[SensorOf(st)]],
  sent     <- { [stream |-> f.stream, from |-> f.payload[1].tick,
                 to |-> f.payload[Len(f.payload)].tick] : f \in notified }
ImplementsChannel == Channel!ChanSpec

\* Every sample is sent or given up: none waits in the queue or a buffer for ever.
EverySampleSettles ==
  \A st \in Streams : \A n \in 1 .. MaxTicks[SensorOf(st)] :
    (ticks[SensorOf(st)] >= n) ~> (settled[st] >= n)

\* A device that lost or failed a connection advertises again.
RadioRecovers == (radio = "idle") ~> (radio = "advertising")

\* A central that leaves does not leave the sensors running.
SensorsStop == ~current_conn ~> (current_conn \/ \A s \in Sensors : ~running[s])

=============================================================================
