---------------------------- MODULE GattExchange ----------------------------
(***************************************************************************)
(* One exchange at a time over the five characteristics: what the board    *)
(* sends, and what the PC reads.  The board is any one that boots: each of *)
(* the optional sensors may have answered or not, and the firmware may be  *)
(* built for latency (frames of one sample).  How exchanges interleave is  *)
(* the subject of Firmware and Requests; here every payload the two ends   *)
(* exchange is written by one table and read by the other.                 *)
(***************************************************************************)
EXTENDS Codec, FiniteSets

CONSTANTS
  FirstSequences,  \* sequence numbers a frame may start at
  FirstTimes,      \* timestamps a frame may start at
  ConfigStreams,   \* stream ids a config write may name
  ConfigValues     \* values a config write may carry: both sides of every limit

ASSUME ExchangeAssumption ==
  /\ FirstSequences \subseteq 0 .. SeqModulus - 1
  /\ FirstTimes \subseteq 0 .. TimeModulus - 1
  /\ ConfigStreams \subseteq 0 .. 255
  /\ ConfigValues \subseteq Int

VARIABLES
  ready,     \* optional sensors whose init found the device
  latency,   \* CONFIG_BSL_LATENCY_PRIORITY
  exchange   \* what was sent and what came of it

vars == << ready, latency, exchange >>

OptionalSensors == {"lsm6dsl", "hts221", "lps22hb", "lsm303agr_magn"}

PresentStreams ==
  {"dummy"} \cup (ready \cap WireStreams)
  \cup (IF "lsm6dsl" \in ready THEN {"imu6", "orientation"} ELSE {})

\* The status_error an optional sensor's init may leave.
SensorErrorNames(s) ==
  IF s \in ready THEN {"NONE"}
  ELSE CASE s = "lsm6dsl" -> {"LSM6DSL_NO_DEVICETREE", "LSM6DSL_NOT_READY",
                              "LSM6DSL_CONFIG_FAILED"}
         [] s = "hts221" -> {"HTS221_NO_DEVICETREE", "HTS221_NOT_READY"}
         [] s = "lps22hb" -> {"LPS22HB_NO_DEVICETREE", "LPS22HB_NOT_READY"}
         [] OTHER -> {"LSM303AGR_MAGN_NO_DEVICETREE", "LSM303AGR_MAGN_NOT_READY"}

\* What write_config, write_control and notify_packed_sample leave in last_error.
LinkErrors ==
  {"INVALID_VERSION", "INVALID_LENGTH", "INVALID_COMMAND", "INVALID_CONFIG",
   "NOT_CONNECTED", "NOT_SUBSCRIBED"}

\* What ble_service_init and control leave there.
FirstSensorError(errors) ==
  IF errors["lsm6dsl"] # "NONE" THEN errors["lsm6dsl"]
  ELSE IF errors["hts221"] # "NONE" THEN errors["hts221"]
  ELSE IF errors["lps22hb"] # "NONE" THEN errors["lps22hb"]
  ELSE errors["lsm303agr_magn"]

None == [kind |-> "none"]

Init ==
  /\ ready \in SUBSET OptionalSensors
  /\ latency \in BOOLEAN
  /\ exchange = None

Exchanging == exchange = None /\ UNCHANGED << ready, latency >>

FrameExchange(st, frame) ==
  [kind |-> "frame", stream |-> st, frame |-> frame,
   packed |-> BslPacks(frame, latency), got |-> UnpackMany(frame)]

\* notify_packed_sample on a full or flushed batch, then _handle_sensor_data
SendFrame ==
  /\ Exchanging
  /\ \E st \in PresentStreams, sequence \in FirstSequences, time \in FirstTimes :
       \E count \in 1 .. BslMaxSampleCount(st, latency) :
         exchange' = FrameExchange(st, BslFrame(st, count, sequence, time))

CapabilityExchange(raw) ==
  [kind |-> "capability", raw |-> raw, readable |-> ReadableCapability(raw),
   shown |-> CapabilityToDict(raw)]

\* read_capability, then _capability_to_dict
ReadCapability ==
  /\ Exchanging
  /\ exchange' = CapabilityExchange(BslCapability(ready, latency))

StatusExchange(sent) ==
  [kind |-> "status", sent |-> sent, readable |-> ReadableStatus(BslStatus(sent)),
   got |-> UnpackStatus(BslStatus(sent))]

\* read_status, for any state and errors the board may serve
ReadStatus ==
  /\ Exchanging
  /\ \E state \in {"IDLE", "MEASURING"}, x \in {1, 38, 65535} :
     \E errors \in [OptionalSensors -> UNION { SensorErrorNames(s) : s \in OptionalSensors }] :
     \E error \in LinkErrors \cup {FirstSensorError(errors)} :
       /\ \A s \in OptionalSensors : errors[s] \in SensorErrorNames(s)
       /\ exchange' = StatusExchange([state |-> state, sample_interval_ms |-> x,
                                      last_error |-> error, connection_count |-> x,
                                      sensor_errors |-> errors])

ConfigExchange(c) ==
  [kind |-> "config", name |-> ConfigOp[c.op], config |-> c, packed |-> PacksConfig(c),
   accepted |-> BslConfigIsValid(c), readable |-> ValidConfig(c)]

\* set_stream_interval and its siblings: what pack lets through reaches write_config;
\* read_config then serves it to ConfigPayload.unpack.
WriteConfig ==
  /\ Exchanging
  /\ \E op \in 1 .. Len(ConfigOp), id \in ConfigStreams, value \in ConfigValues :
       exchange' = ConfigExchange(ConfigRecord(op, id, value))

ControlExchange(name, sent) ==
  [kind |-> "control", name |-> name, sent |-> sent,
   error |-> BslControlError(sent.length, sent.version, sent.command)]

\* _write_command
WriteControl ==
  /\ Exchanging
  /\ \E i \in DOMAIN Command : exchange' = ControlExchange(Command[i], ControlOf(Command[i]))

Finish ==
  /\ exchange # None
  /\ exchange' = None
  /\ UNCHANGED << ready, latency >>

Next ==
  SendFrame \/ ReadCapability \/ ReadStatus \/ WriteConfig \/ WriteControl \/ Finish

Spec == Init /\ [][Next]_vars

-----------------------------------------------------------------------------
(* Properties *)

\* Type invariant: whatever the arithmetic on them, the numbers of a frame and of the
\* samples read from it fit the widths of their fields.
TypeOK ==
  /\ ready \subseteq OptionalSensors
  /\ latency \in BOOLEAN
  /\ exchange.kind \in {"none", "frame", "capability", "status", "config", "control"}
  /\ exchange.kind = "frame" =>
       /\ exchange.frame.sequence \in 0 .. SeqModulus - 1
       /\ \A k \in DOMAIN exchange.got.samples :
            /\ exchange.got.samples[k].sequence \in 0 .. SeqModulus - 1
            /\ exchange.got.samples[k].timestamp_ms \in 0 .. TimeModulus - 1

\* What the sensor measured at each quantity of a stream, k-th sample of its frame.
Measured(st, k) ==
  [field \in { BslSampleWords[st][i] : i \in DOMAIN BslSampleWords[st] } |-> Word(field, k)]

LastTime(e) ==
  e.frame.timestamp_ms + (e.frame.sample_count - 1) * BslIntervalMs[e.stream]

\* Every frame the device can build is let through by its own checks and read by the PC
\* as the samples it was built from: same number, sequence numbers continued modulo 2^16,
\* timestamps spaced by the sampling interval, each quantity where it was measured.  The
\* only frames the PC gives up are batches whose last timestamp passes 2^32 ms.  In either
\* build a frame is no larger than the capability announces.
\* (flush_batch_state, bsl_sensor_data_pack, BSL_SENSOR_DATA_SIZE, SensorDataPayload.unpack_many)
FramesReadAsMeasured ==
  exchange.kind = "frame" =>
    LET e == exchange
        k0 == e.frame.sample_count
    IN  /\ e.packed
        /\ FrameSize(e.frame) <= BslCapability(ready, latency).preferred_mtu
        /\ (e.got.outcome # "ok") <=> (LastTime(e) >= TimeModulus)
        /\ e.got.outcome = "ok" =>
             /\ Len(e.got.samples) = k0
             /\ \A k \in 1 .. k0 :
                  LET sample == e.got.samples[k]
                  IN  /\ sample.stream_id = BslStreamId[e.stream]
                      /\ sample.sequence = (e.frame.sequence + k - 1) % SeqModulus
                      /\ sample.timestamp_ms =
                           e.frame.timestamp_ms + (k - 1) * BslIntervalMs[e.stream]
                      /\ sample.values = Measured(e.stream, k)

\* What is shown of a sample is what was measured and nothing else: the browser gets a
\* value for each quantity of the stream and null for the others, and the shell prints
\* each quantity once.  (_sample_to_dict, _print_sample; unpack fills the quantities a
\* format lacks with zeroes, so a field too many would show as a reading of 0.)
SamplesShownAsMeasured ==
  exchange.kind = "frame" =>
    \A k \in DOMAIN exchange.got.samples :
      LET sample == exchange.got.samples[k]
          measured == Measured(exchange.stream, k)
          dict == SampleToDict(sample)
          line == PrintSample(sample)
      IN  /\ \A field \in SampleValueFields :
               dict[field] = IF field \in DOMAIN measured THEN measured[field] ELSE NoValue
          /\ { line[i] : i \in DOMAIN line } = { measured[field] : field \in DOMAIN measured }
          /\ Len(line) = Cardinality(DOMAIN measured)

\* The capability a client reads lists the streams the board sends and no other, each once
\* and with its own description, whatever sensors are missing: the entries are moved within
\* one array.  Each is shown with the very quantities its frames carry, and the PC's own
\* default is the capability of the fully populated board.
\* (ble_service_init, CapabilityPayload.unpack, default, _capability_to_dict)
CapabilityListsPresentStreams ==
  exchange.kind = "capability" =>
    LET streams == exchange.raw.streams
    IN  /\ exchange.readable
        /\ ready = OptionalSensors /\ ~latency => exchange.raw = DefaultCapability
        /\ { streams[i].stream_id : i \in DOMAIN streams } =
             { BslStreamId[st] : st \in PresentStreams }
        /\ \A i, j \in DOMAIN streams :
             streams[i].stream_id = streams[j].stream_id => i = j
        /\ \A i \in DOMAIN streams, st \in PresentStreams :
             streams[i].stream_id = BslStreamId[st] =>
               LET fields == exchange.shown[i].fields
               IN  /\ streams[i].payload_format = BslPayloadFormat[st]
                   /\ streams[i].default_interval_ms = BslIntervalMs[st]
                   /\ streams[i].channel_count = Len(fields)
                   /\ { fields[n] : n \in DOMAIN fields } = DOMAIN Measured(st, 1)

\* A status reads back as the device holds it: every state and error it can serve has the
\* same name on the PC.  (read_status, StatusPayload.unpack)
StatusReadsBack ==
  exchange.kind = "status" => exchange.readable /\ exchange.got = exchange.sent

\* The two ends accept the same configs: what pack lets through the device never refuses,
\* what the device would accept pack never refuses, and a config the device serves is one
\* the PC reads.  (ConfigPayload.validate, bsl_config_is_valid)
ConfigsAgree ==
  exchange.kind = "config" =>
    /\ exchange.packed <=> exchange.accepted
    /\ exchange.accepted =>
         exchange.readable /\ BslConfigOps[exchange.config.op] = exchange.name

\* A command arrives as the command that was meant, and the capability announces it.
\* (ControlPayload.pack, bsl_control_unpack)
CommandsArriveAsMeant ==
  exchange.kind = "control" =>
    /\ exchange.error = "NONE"
    /\ BslCommands[exchange.sent.command] = exchange.name
    /\ exchange.sent.command \in BslCapability(ready, latency).supported_commands

=============================================================================
