------------------------------- MODULE Codec -------------------------------
(***************************************************************************)
(* The wire format, as each end states it: protocol.h and protocol.c on    *)
(* the device (names Bsl...), protocol.py, the tables of web_api.py and    *)
(* the sample lines of ui_shell.py on the PC.  The two ends share no code, *)
(* so every table appears twice and the properties of GattExchange compare *)
(* what one end sends with what the other end makes of it.                 *)
(*                                                                         *)
(* Numbers on the wire are the numbers of the sources.  A payload is a     *)
(* sequence of 16-bit words (every field is int16_t but pressure_pa, which *)
(* is two words); a word records which quantity of which sample it holds,  *)
(* so that a value read from the wrong place shows.  Enumerations travel   *)
(* as their position in the list of names.                                 *)
(*                                                                         *)
(* A definition X_Slip before X is X with a plausible slip, kept to show   *)
(* which property notices it.                                              *)
(***************************************************************************)
EXTENDS Integers, Sequences

CONSTANTS
  SeqModulus,   \* 65536: sequence is uint16_t
  TimeModulus   \* 2^32: timestamp_ms is uint32_t (TLC's integers are smaller)

ASSUME CodecAssumption ==
  /\ SeqModulus \in Nat \ {0}
  /\ TimeModulus \in Nat \ {0}

WireStreams == {"dummy", "imu6", "orientation", "lsm303agr_magn", "lps22hb", "hts221"}

-----------------------------------------------------------------------------
(* Enumerations: the wire value of a name is Base plus its position. *)

BslCommands == << "START_MEASUREMENT", "STOP_MEASUREMENT", "REQUEST_STATUS",
                  "RESET_SEQUENCE", "FORCE_GYRO_CALIB" >>
Command_NoForceCalib ==
  << "START_MEASUREMENT", "STOP_MEASUREMENT", "REQUEST_STATUS", "RESET_SEQUENCE" >>
Command == << "START_MEASUREMENT", "STOP_MEASUREMENT", "REQUEST_STATUS",
              "RESET_SEQUENCE", "FORCE_GYRO_CALIB" >>

BslConfigOps == << "SET_STREAM_INTERVAL", "SET_COMPLEMENTARY_ALPHA", "SET_MAHONY_KP",
                   "SET_MAHONY_KI", "SET_IIR_CUTOFF_MILLIHZ", "SET_GYRO_CALIB_THRESHOLD",
                   "SET_GYRO_CALIB_ALPHA", "SET_GYRO_CALIB_WINDOW" >>
ConfigOp == << "SET_STREAM_INTERVAL", "SET_COMPLEMENTARY_ALPHA", "SET_MAHONY_KP",
               "SET_MAHONY_KI", "SET_IIR_CUTOFF_MILLIHZ", "SET_GYRO_CALIB_THRESHOLD",
               "SET_GYRO_CALIB_ALPHA", "SET_GYRO_CALIB_WINDOW" >>

\* These start at 0 on the wire.
BslDeviceErrors ==
  << "NONE", "INVALID_VERSION", "INVALID_LENGTH", "INVALID_COMMAND", "INVALID_CONFIG",
     "NOT_CONNECTED", "NOT_SUBSCRIBED", "LSM6DSL_NO_DEVICETREE", "LSM6DSL_NOT_READY",
     "LSM6DSL_CONFIG_FAILED", "HTS221_NO_DEVICETREE", "HTS221_NOT_READY",
     "LPS22HB_NO_DEVICETREE", "LPS22HB_NOT_READY", "LSM303AGR_MAGN_NO_DEVICETREE",
     "LSM303AGR_MAGN_NOT_READY" >>
DeviceError ==
  << "NONE", "INVALID_VERSION", "INVALID_LENGTH", "INVALID_COMMAND", "INVALID_CONFIG",
     "NOT_CONNECTED", "NOT_SUBSCRIBED", "LSM6DSL_NO_DEVICETREE", "LSM6DSL_NOT_READY",
     "LSM6DSL_CONFIG_FAILED", "HTS221_NO_DEVICETREE", "HTS221_NOT_READY",
     "LPS22HB_NO_DEVICETREE", "LPS22HB_NOT_READY", "LSM303AGR_MAGN_NO_DEVICETREE",
     "LSM303AGR_MAGN_NOT_READY" >>
BslDeviceStates == << "IDLE", "MEASURING", "ERROR" >>
DeviceState == << "IDLE", "MEASURING", "ERROR" >>

\* Payload formats: PayloadFormat of protocol.py; format 6 has no reader and no writer.
V1Orientation == 6

PositionOf(name, names) == CHOOSE i \in DOMAIN names : names[i] = name

-----------------------------------------------------------------------------
(* Device: streams, samples and frames *)

BslStreamId ==
  [dummy |-> 1, imu6 |-> 10, orientation |-> 13, lsm303agr_magn |-> 12, lps22hb |-> 20,
   hts221 |-> 30]
BslPayloadFormat ==
  [dummy |-> 1, imu6 |-> 2, hts221 |-> 3, lps22hb |-> 4, lsm303agr_magn |-> 5,
   orientation |-> 7]
BslIntervalMs ==
  [dummy |-> 100, imu6 |-> 38, orientation |-> 38, lsm303agr_magn |-> 100,
   lps22hb |-> 1000, hts221 |-> 1000]

\* A quantity: accel_x_mg is <<"accel", "x">>, zenith_iir_cdeg <<"zenith", "iir">>.
Axes == << "x", "y", "z" >>
Angles == << "pitch", "roll", "zenith" >>
PerAxis(what) == [i \in 1 .. 3 |-> << what, Axes[i] >>]
PerAngle(filter) == [i \in 1 .. 3 |-> << Angles[i], filter >>]

\* The words of struct bsl_*_sample, in memory order.
BslSampleWords ==
  [dummy |-> PerAxis("accel"),
   imu6  |-> PerAxis("accel") \o PerAxis("gyro"),
   orientation |-> PerAngle("naive") \o PerAngle("iir") \o PerAngle("complementary")
                   \o PerAngle("mahony") \o << << "yaw", "mahony" >>, << "accel", "norm" >> >>,
   lsm303agr_magn |-> PerAxis("mag"),
   hts221  |-> << << "humidity", "" >>, << "temperature", "" >> >>,
   lps22hb |-> << << "pressure", "" >>, << "pressure", "" >> >>]

BslSampleSize(st) == 2 * Len(BslSampleWords[st])

\* max_sample_count_for_stream; latency is CONFIG_BSL_LATENCY_PRIORITY
BslMaxSampleCount(st, latency) ==
  CASE st = "imu6" /\ ~latency -> 8
    [] st = "orientation" /\ ~latency -> 4
    [] OTHER -> 1

HeaderSize == 13

BslMaxPayload_Imu6(latency) == 12 * (IF latency THEN 1 ELSE 8)
BslMaxPayload(latency) == 28 * (IF latency THEN 1 ELSE 4)

\* Sample k of the frame that starts at (sequence, time): what the sensor measured.
Word(field, k) == [field |-> field, sample |-> k]

\* flush_batch_state (a batch of one stands for the unbatched streams' own header).
BslFrame(st, count, sequence, time) ==
  LET words == BslSampleWords[st]
      n == Len(words)
  IN  [version |-> 4, message_type |-> 1, stream_id |-> BslStreamId[st],
       sequence |-> sequence, timestamp_ms |-> time,
       payload_format |-> BslPayloadFormat[st], payload_len |-> 2 * n * count,
       sample_count |-> count,
       payload |-> [i \in 1 .. n * count |->
                      Word(words[((i - 1) % n) + 1], ((i - 1) \div n) + 1)]]

\* bsl_sensor_data_size and bsl_sensor_data_pack let the frame go.
BslPacks(frame, latency) ==
  /\ frame.payload_len \in 1 .. BslMaxPayload(latency)
  /\ frame.version = 4 /\ frame.message_type = 1
  /\ \E st \in WireStreams :
       /\ frame.stream_id = BslStreamId[st] /\ frame.payload_format = BslPayloadFormat[st]
       /\ frame.sample_count \in 1 .. BslMaxSampleCount(st, latency)
       /\ frame.payload_len = BslSampleSize(st) * frame.sample_count

FrameSize(frame) == HeaderSize + frame.payload_len

-----------------------------------------------------------------------------
(* PC: reading a frame *)

SupportedVersions == {3, 4}
StreamId ==
  [dummy |-> 1, imu6 |-> 10, orientation |-> 13, lsm303agr_magn |-> 12, lps22hb |-> 20,
   hts221 |-> 30]

\* What unpack assigns the values of a sample to, by payload format.
UnpackedFields ==
  [f \in {1, 2, 3, 4, 5, 7} |->
     CASE f = 1 -> PerAxis("accel")
       [] f = 2 -> PerAxis("accel") \o PerAxis("gyro")
       [] f = 3 -> << << "humidity", "" >>, << "temperature", "" >> >>
       [] f = 4 -> << << "pressure", "" >> >>
       [] f = 5 -> PerAxis("mag")
       [] f = 7 -> PerAngle("naive") \o PerAngle("iir") \o PerAngle("complementary")
                   \o PerAngle("mahony")
                   \o << << "yaw", "mahony" >>, << "accel", "norm" >> >>]
PayloadFormats == DOMAIN UnpackedFields \cup {V1Orientation}

\* struct.calcsize of the sample formats
WordsPerValue(f) == IF f = 4 THEN 2 ELSE 1
SampleSizeForPayloadFormat(f) == 2 * WordsPerValue(f) * Len(UnpackedFields[f])

IntervalMsForStream_OrientationForgotten(id) ==
  CASE id = StreamId.imu6 -> 38
    [] id = StreamId.lsm303agr_magn -> 100
    [] id \in {StreamId.lps22hb, StreamId.hts221} -> 1000
    [] OTHER -> 0

\* _interval_ms_for_stream
IntervalMsForStream(id) ==
  CASE id \in {StreamId.imu6, StreamId.orientation} -> 38
    [] id = StreamId.lsm303agr_magn -> 100
    [] id \in {StreamId.lps22hb, StreamId.hts221} -> 1000
    [] OTHER -> 0

\* The (stream, format) pairs _validate_header accepts, at the format's own size.
StreamOfFormat ==
  [f \in {1, 2, 3, 4, 5, 7} |->
     CASE f = 1 -> StreamId.dummy  [] f = 2 -> StreamId.imu6
       [] f = 3 -> StreamId.hts221 [] f = 4 -> StreamId.lps22hb
       [] f = 5 -> StreamId.lsm303agr_magn [] f = 7 -> StreamId.orientation]

ValidHeader(frame) ==
  /\ frame.version \in SupportedVersions
  /\ frame.message_type = 1
  /\ frame.sample_count = 1
  /\ frame.payload_format \in DOMAIN StreamOfFormat
  /\ frame.stream_id = StreamOfFormat[frame.payload_format]
  /\ frame.payload_len = SampleSizeForPayloadFormat(frame.payload_format)

\* unpack reads a frame of one sample.
Unpackable(frame) == ValidHeader(frame) /\ 2 * Len(frame.payload) = frame.payload_len

\* The value at each of a sample's fields, from its words.
Unpack(frame) ==
  LET f == frame.payload_format
      fields == UnpackedFields[f]
  IN  [stream_id |-> frame.stream_id, sequence |-> frame.sequence,
       timestamp_ms |-> frame.timestamp_ms, payload_format |-> f,
       values |-> [field \in { fields[i] : i \in DOMAIN fields } |->
                     frame.payload[WordsPerValue(f) * (PositionOf(field, fields) - 1) + 1]]]

\* The checks unpack_many makes before it looks at the samples.
ReadableFrame(frame) ==
  /\ frame.version \in SupportedVersions
  /\ frame.payload_format \in PayloadFormats
  /\ frame.message_type = 1
  /\ frame.sample_count >= 1
  /\ 2 * Len(frame.payload) = frame.payload_len

SampleFrame_Unmasked(frame, k) ==
  LET words == Len(frame.payload) \div frame.sample_count
  IN  [frame EXCEPT
         !.sequence = @ + (k - 1),
         !.timestamp_ms = @ + (k - 1) * IntervalMsForStream(frame.stream_id),
         !.payload_len = 2 * words, !.sample_count = 1,
         !.payload = SubSeq(@, (k - 1) * words + 1, k * words)]

\* The one-sample frame unpack_many builds for its sample k (index k - 1).
SampleFrame(frame, k) ==
  LET words == Len(frame.payload) \div frame.sample_count
  IN  [frame EXCEPT
         !.sequence = (@ + (k - 1)) % SeqModulus,
         !.timestamp_ms = @ + (k - 1) * IntervalMsForStream(frame.stream_id),
         !.payload_len = 2 * words,
         !.sample_count = 1,
         !.payload = SubSeq(@, (k - 1) * words + 1, k * words)]

Divisible(frame) ==
  /\ frame.payload_len % frame.sample_count = 0
  /\ frame.payload_format # V1Orientation
  /\ frame.payload_len \div frame.sample_count = SampleSizeForPayloadFormat(frame.payload_format)

\* unpack_many: all samples of the frame or none.  struct.pack refuses a
\* timestamp past 32 bits with struct.error, which is no ProtocolError.
UnpackMany(frame) ==
  LET ks == 1 .. frame.sample_count
      one(k) == IF frame.sample_count = 1 THEN frame ELSE SampleFrame(frame, k)
  IN  IF \/ ~ReadableFrame(frame)
         \/ frame.sample_count > 1 /\ ~Divisible(frame)
         \/ ~Unpackable(one(1))
      THEN [outcome |-> "ProtocolError", samples |-> << >>]
      ELSE IF \E k \in ks : one(k).timestamp_ms >= TimeModulus
      THEN [outcome |-> "struct.error", samples |-> << >>]
      ELSE [outcome |-> "ok", samples |-> [k \in ks |-> Unpack(one(k))]]

-----------------------------------------------------------------------------
(* PC: showing a sample *)

XYZ == {"x", "y", "z"}
Filters == {"naive", "iir", "complementary", "mahony"}

\* FIELDS_BY_PAYLOAD_FORMAT
FieldsByPayloadFormat ==
  [f \in {1, 2, 3, 4, 5, 7} |->
     CASE f = 1 -> {"accel"} \X XYZ
       [] f = 2 -> {"accel", "gyro"} \X XYZ
       [] f = 3 -> {"humidity", "temperature"} \X {""}
       [] f = 4 -> {<< "pressure", "" >>}
       [] f = 5 -> {"mag"} \X XYZ
       [] f = 7 -> {"pitch", "roll", "zenith"} \X Filters
                   \cup {<< "yaw", "mahony" >>, << "accel", "norm" >>}]

\* SAMPLE_VALUE_FIELDS
SampleValueFields ==
  {"accel", "gyro", "mag"} \X XYZ
  \cup {"humidity", "temperature", "pressure"} \X {""}
  \cup {"pitch", "roll", "zenith"} \X Filters
  \cup {<< "yaw", "mahony" >>, << "accel", "norm" >>}

\* FIELD_METADATA_BY_PAYLOAD_FORMAT, down to the fields it describes, in plotting order
FieldMetadataByPayloadFormat ==
  [f \in {1, 2, 3, 4, 5, 7} |->
     CASE f = 1 -> PerAxis("accel")
       [] f = 2 -> PerAxis("accel") \o PerAxis("gyro")
       [] f = 3 -> << << "humidity", "" >>, << "temperature", "" >> >>
       [] f = 4 -> << << "pressure", "" >> >>
       [] f = 5 -> PerAxis("mag")
       [] f = 7 -> PerAngle("naive") \o PerAngle("iir") \o PerAngle("complementary")
                   \o PerAngle("mahony")
                   \o << << "yaw", "mahony" >>, << "accel", "norm" >> >>]

\* _sample_to_dict: SensorDataPayload holds 0 where the format has no value, the
\* dictionary None.
NoValue == [field |-> << "None", "" >>, sample |-> 0]
Zero == [field |-> << "0", "" >>, sample |-> 0]

ValueOf(sample, field) == IF field \in DOMAIN sample.values THEN sample.values[field] ELSE Zero

SampleToDict_ZeroForMissing(sample) ==
  [field \in SampleValueFields |-> ValueOf(sample, field)]

SampleToDict(sample) ==
  [field \in SampleValueFields |->
     IF field \in FieldsByPayloadFormat[sample.payload_format] THEN ValueOf(sample, field)
     ELSE NoValue]

\* _print_sample: the fields of the line printed for a sample, first match first.
PrintedFields(f) ==
  CASE f = 7 -> PerAngle("naive") \o PerAngle("iir") \o PerAngle("complementary")
                \o PerAngle("mahony") \o << << "yaw", "mahony" >>, << "accel", "norm" >> >>
    [] f = 5 -> PerAxis("mag")
    [] f = 4 -> << << "pressure", "" >> >>
    [] f = 3 -> << << "humidity", "" >>, << "temperature", "" >> >>
    [] f = 2 -> PerAxis("accel") \o PerAxis("gyro")
    [] OTHER -> PerAxis("accel")

PrintSample(sample) ==
  [i \in DOMAIN PrintedFields(sample.payload_format) |->
     ValueOf(sample, PrintedFields(sample.payload_format)[i])]

-----------------------------------------------------------------------------
(* Control and config writes *)

\* A config on the wire; value is the field called sample_interval_ms.
ConfigRecord(op, stream_id, value) ==
  [version |-> 4, op |-> op, stream_id |-> stream_id, flags |-> 0, value |-> value,
   reserved |-> 0]

\* bsl_config_is_valid: stream and range by op (a wire op is a position in BslConfigOps).
Limits(stream_id, min, max) == [stream_id |-> stream_id, min |-> min, max |-> max]
BslConfigRange ==
  << Limits(1, 20, 10000),
     Limits(13, 0, 1000), Limits(13, 0, 10000), Limits(13, 0, 10000), Limits(13, 1, 13000),
     Limits(10, 10, 1000), Limits(10, 0, 1000), Limits(10, 5, 260) >>

BslConfigIsValid(c) ==
  /\ c.version = 4 /\ c.reserved = 0 /\ c.flags = 0
  /\ c.op \in DOMAIN BslConfigRange
  /\ c.stream_id = BslConfigRange[c.op].stream_id
  /\ c.value >= BslConfigRange[c.op].min
  /\ c.value <= BslConfigRange[c.op].max

ValidGyroCalibConfig_ZeroWindow(c) ==
  /\ c.stream_id = StreamId.imu6
  /\ \/ c.op = 6 /\ c.value >= 10 /\ c.value <= 1000
     \/ c.op = 7 /\ c.value <= 1000
     \/ c.op = 8 /\ c.value <= 260

\* _validate_gyro_calib_config
ValidGyroCalibConfig(c) ==
  /\ c.stream_id = StreamId.imu6
  /\ \/ c.op = 6 /\ c.value >= 10 /\ c.value <= 1000
     \/ c.op = 7 /\ c.value <= 1000
     \/ c.op = 8 /\ c.value >= 5 /\ c.value <= 260

ValidFilterConfig_AlphaExclusive(c) ==
  /\ c.stream_id = StreamId.orientation
  /\ \/ c.op = 2 /\ c.value < 1000
     \/ c.op \in {3, 4} /\ c.value <= 10000
     \/ c.op = 5 /\ c.value >= 1 /\ c.value <= 13000

\* The filter branch of ConfigPayload.validate: a negative gain passes where only the
\* upper end is checked.
ValidFilterConfig(c) ==
  /\ c.stream_id = StreamId.orientation
  /\ \/ c.op = 2 /\ c.value <= 1000
     \/ c.op \in {3, 4} /\ c.value <= 10000
     \/ c.op = 5 /\ c.value >= 1 /\ c.value <= 13000

\* ConfigPayload.validate: each op has one branch
ValidConfig(c) ==
  /\ c.version = 4 /\ c.flags = 0 /\ c.reserved = 0
  /\ c.op \in 1 .. Len(ConfigOp)
  /\ \/ c.op = 1 /\ c.stream_id = StreamId.dummy /\ c.value >= 20 /\ c.value <= 10000
     \/ ValidGyroCalibConfig(c)
     \/ ValidFilterConfig(c)

\* ConfigPayload.pack: validate, then struct.pack, whose B and H refuse what does not fit.
PacksConfig(c) ==
  /\ ValidConfig(c)
  /\ c.stream_id \in 0 .. 255 /\ c.value \in 0 .. 65535

BslControlError_NoForceCalib(length, version, command) ==
  CASE length # 4 -> "INVALID_LENGTH"
    [] length = 4 /\ version # 4 -> "INVALID_VERSION"
    [] OTHER -> IF command \in 1 .. 4 THEN "NONE" ELSE "INVALID_COMMAND"

\* bsl_control_unpack, ControlPayload.from_command and pack
BslControlError(length, version, command) ==
  CASE length # 4 -> "INVALID_LENGTH"
    [] length = 4 /\ version # 4 -> "INVALID_VERSION"
    [] OTHER -> IF command \in 1 .. Len(BslCommands) THEN "NONE" ELSE "INVALID_COMMAND"

ControlOf(name) == [version |-> 4, command |-> PositionOf(name, Command), length |-> 4]

-----------------------------------------------------------------------------
(* Status and capability reads *)

\* read_status sends struct bsl_status; the enumerations travel as numbers from 0.
BslStatus(s) ==
  [version |-> 4, state |-> PositionOf(s.state, BslDeviceStates) - 1,
   sample_interval_ms |-> s.sample_interval_ms,
   last_error |-> PositionOf(s.last_error, BslDeviceErrors) - 1,
   connection_count |-> s.connection_count,
   sensor_errors |-> [x \in DOMAIN s.sensor_errors |->
                        PositionOf(s.sensor_errors[x], BslDeviceErrors) - 1]]

ReadableStatus_BeforeMagn(raw) ==
  /\ raw.version \in SupportedVersions
  /\ raw.state + 1 \in DOMAIN DeviceState
  /\ raw.last_error + 1 \in 1 .. 14
  /\ \A x \in DOMAIN raw.sensor_errors : raw.sensor_errors[x] + 1 \in 1 .. 14

\* StatusPayload.unpack
ReadableStatus(raw) ==
  /\ raw.version \in SupportedVersions
  /\ raw.state + 1 \in DOMAIN DeviceState
  /\ raw.last_error + 1 \in DOMAIN DeviceError
  /\ \A x \in DOMAIN raw.sensor_errors : raw.sensor_errors[x] + 1 \in DOMAIN DeviceError

UnpackStatus(raw) ==
  [state |-> DeviceState[raw.state + 1],
   sample_interval_ms |-> raw.sample_interval_ms,
   last_error |-> DeviceError[raw.last_error + 1],
   connection_count |-> raw.connection_count,
   sensor_errors |-> [x \in DOMAIN raw.sensor_errors |->
                        DeviceError[raw.sensor_errors[x] + 1]]]

CapabilityStream(id, type, channels, data, unit, format, flags, default, min, max, scale) ==
  [stream_id |-> id, stream_type |-> type, channel_count |-> channels, data_type |-> data,
   unit |-> unit, payload_format |-> format, stream_flags |-> flags,
   default_interval_ms |-> default, min_interval_ms |-> min, max_interval_ms |-> max,
   scale_exponent |-> scale]

\* bsl_capability_default, the streams array (types, units and flags are wire values)
BslCapabilityStreams ==
  << CapabilityStream(1, 1, 3, 1, 3, 1, 1, 100, 20, 10000, 0),
     CapabilityStream(10, 2, 6, 1, 0, 2, 3, 38, 38, 38, 0),
     CapabilityStream(13, 6, 14, 1, 0, 7, 3, 38, 38, 38, -2),
     CapabilityStream(30, 3, 2, 1, 0, 3, 3, 1000, 1000, 1000, -2),
     CapabilityStream(20, 4, 1, 2, 1, 4, 1, 1000, 1000, 1000, 0),
     CapabilityStream(12, 5, 3, 1, 2, 5, 1, 100, 100, 100, 0) >>

Keep_CountsOnly(kept, present, from) ==
  IF present THEN [kept EXCEPT !.count = @ + 1] ELSE kept

\* One line of ble_service_init: keep entry `from` as the next one, if its sensor answered.
Keep(kept, present, from) ==
  IF present
  THEN [count |-> kept.count + 1,
        streams |-> [kept.streams EXCEPT ![kept.count + 1] = kept.streams[from]]]
  ELSE kept

\* ble_service_init compacts the array in place; the LSM6DSL's two entries stay where they are.
Compacted(ready) ==
  LET imu == [count |-> IF "lsm6dsl" \in ready THEN 3 ELSE 1, streams |-> BslCapabilityStreams]
      hts == Keep(imu, "hts221" \in ready, 4)
      lps == Keep(hts, "lps22hb" \in ready, 5)
  IN  Keep(lps, "lsm303agr_magn" \in ready, 6)

\* bsl_capability_pack: the header and the first stream_count entries
BslCapability(ready, latency) ==
  [version |-> 4, schema_version |-> 1,
   supported_commands |-> 1 .. Len(BslCommands),
   preferred_mtu |-> HeaderSize + BslMaxPayload(latency),
   streams |-> SubSeq(Compacted(ready).streams, 1, Compacted(ready).count)]

\* CapabilityPayload.unpack and CapabilityStream.unpack
ReadableCapability(raw) ==
  /\ raw.version \in SupportedVersions /\ raw.schema_version = 1
  /\ \A i \in DOMAIN raw.streams :
       /\ raw.streams[i].stream_type \in 1 .. 6
       /\ raw.streams[i].data_type \in {1, 2}
       /\ raw.streams[i].unit \in 0 .. 3
       /\ raw.streams[i].payload_format \in PayloadFormats

\* CapabilityPayload.default
DefaultCapability ==
  [version |-> 4, schema_version |-> 1, supported_commands |-> 1 .. Len(Command),
   preferred_mtu |-> HeaderSize + SampleSizeForPayloadFormat(7) * 4,
   streams |->
     << CapabilityStream(StreamId.dummy, 1, 3, 1, 3, 1, 1, 100, 20, 10000, 0),
        CapabilityStream(StreamId.imu6, 2, 6, 1, 0, 2, 1 + 2, 38, 38, 38, 0),
        CapabilityStream(StreamId.orientation, 6, 14, 1, 0, 7, 1 + 2, 38, 38, 38, -2),
        CapabilityStream(StreamId.hts221, 3, 2, 1, 0, 3, 1 + 2, 1000, 1000, 1000, -2),
        CapabilityStream(StreamId.lps22hb, 4, 1, 2, 1, 4, 1, 1000, 1000, 1000, 0),
        CapabilityStream(StreamId.lsm303agr_magn, 5, 3, 1, 2, 5, 1, 100, 100, 100, 0) >>]

\* _capability_to_dict: a stream with the fields the browser plots (KeyError without metadata)
CapabilityToDict(raw) ==
  [i \in DOMAIN raw.streams |->
     [stream |-> raw.streams[i],
      fields |-> FieldMetadataByPayloadFormat[raw.streams[i].payload_format]]]

=============================================================================
