---------------------------- MODULE CodecProofs ----------------------------
(***************************************************************************)
(* Theorems about GattExchange: the two ends of the wire agree on every    *)
(* config and command, for every stream id and every value a write may     *)
(* carry (the run codec tries the sides of each limit); a status reads     *)
(* back name by name; a frame of any stream, size, sequence number and     *)
(* timestamp reads as the samples it was built from, with the moduli of    *)
(* the program, 2^16 and 2^32, which TLC's integers do not reach, and is   *)
(* shown as measured; and the capability, compacted in place, lists what   *)
(* the board has.                                                          *)
(***************************************************************************)
EXTENDS GattExchange, TLAPS, SequenceTheorems, FiniteSetTheorems

\* What the device accepts, op by op: the table of bsl_config_is_valid read out.
LEMMA RangeOfOp ==
  /\ DOMAIN BslConfigRange = 1 .. 8
  /\ BslConfigRange[1] = [stream_id |-> 1, min |-> 20, max |-> 10000]
  /\ BslConfigRange[2] = [stream_id |-> 13, min |-> 0, max |-> 1000]
  /\ BslConfigRange[3] = [stream_id |-> 13, min |-> 0, max |-> 10000]
  /\ BslConfigRange[4] = [stream_id |-> 13, min |-> 0, max |-> 10000]
  /\ BslConfigRange[5] = [stream_id |-> 13, min |-> 1, max |-> 13000]
  /\ BslConfigRange[6] = [stream_id |-> 10, min |-> 10, max |-> 1000]
  /\ BslConfigRange[7] = [stream_id |-> 10, min |-> 0, max |-> 1000]
  /\ BslConfigRange[8] = [stream_id |-> 10, min |-> 5, max |-> 260]
PROOF
  BY DEF BslConfigRange, Limits

\* What a write may carry, as both ends should see it.
Allowed(op, id, value) ==
  \/ op = 1 /\ id = 1 /\ value >= 20 /\ value <= 10000
  \/ op = 2 /\ id = 13 /\ value >= 0 /\ value <= 1000
  \/ op \in {3, 4} /\ id = 13 /\ value >= 0 /\ value <= 10000
  \/ op = 5 /\ id = 13 /\ value >= 1 /\ value <= 13000
  \/ op = 6 /\ id = 10 /\ value >= 10 /\ value <= 1000
  \/ op = 7 /\ id = 10 /\ value >= 0 /\ value <= 1000
  \/ op = 8 /\ id = 10 /\ value >= 5 /\ value <= 260

\* ConfigPayload.pack lets through exactly those: a negative gain passes validate, and
\* struct.pack is what refuses it.
LEMMA PacksAllowed ==
  ASSUME NEW op \in 1 .. 8, NEW id \in 0 .. 255, NEW value \in Int
  PROVE  PacksConfig(ConfigRecord(op, id, value)) <=> Allowed(op, id, value)
PROOF
  <1>1. Len(ConfigOp) = 8
    BY DEF ConfigOp
  <1>2. StreamId.dummy = 1 /\ StreamId.imu6 = 10 /\ StreamId.orientation = 13
    BY DEF StreamId
  <1> QED
    BY <1>1, <1>2 DEF PacksConfig, ValidConfig, ValidGyroCalibConfig, ValidFilterConfig,
                      ConfigRecord, Allowed

\* bsl_config_is_valid accepts exactly those, op by op.
LEMMA AcceptsAllowed ==
  ASSUME NEW op \in 1 .. 8, NEW id \in 0 .. 255, NEW value \in Int
  PROVE  BslConfigIsValid(ConfigRecord(op, id, value)) <=> Allowed(op, id, value)
PROOF
  <1>1. BslConfigIsValid(ConfigRecord(op, id, value)) <=>
          /\ id = BslConfigRange[op].stream_id
          /\ value >= BslConfigRange[op].min
          /\ value <= BslConfigRange[op].max
    BY RangeOfOp DEF BslConfigIsValid, ConfigRecord
  <1>2. CASE op = 1
    BY <1>1, <1>2, RangeOfOp DEF Allowed
  <1>3. CASE op = 2
    BY <1>1, <1>3, RangeOfOp DEF Allowed
  <1>4. CASE op = 3
    BY <1>1, <1>4, RangeOfOp DEF Allowed
  <1>5. CASE op = 4
    BY <1>1, <1>5, RangeOfOp DEF Allowed
  <1>6. CASE op = 5
    BY <1>1, <1>6, RangeOfOp DEF Allowed
  <1>7. CASE op = 6
    BY <1>1, <1>7, RangeOfOp DEF Allowed
  <1>8. CASE op = 7
    BY <1>1, <1>8, RangeOfOp DEF Allowed
  <1>9. CASE op = 8
    BY <1>1, <1>9, RangeOfOp DEF Allowed
  <1> QED
    BY <1>2, <1>3, <1>4, <1>5, <1>6, <1>7, <1>8, <1>9

\* The two ends number the config ops alike.
LEMMA SameConfigOps == ConfigOp = BslConfigOps
PROOF
  BY DEF ConfigOp, BslConfigOps

\* pack validates before it packs.
LEMMA PacksIsValidated == ASSUME NEW c PROVE PacksConfig(c) => ValidConfig(c)
PROOF
  BY DEF PacksConfig

\* Every exchange of a config satisfies the agreement, whatever the write.
LEMMA ConfigExchangeAgrees ==
  ASSUME NEW op \in 1 .. 8, NEW id \in 0 .. 255, NEW value \in Int,
         exchange' = ConfigExchange(ConfigRecord(op, id, value))
  PROVE  ConfigsAgree'
PROOF
  <1>1. PacksConfig(ConfigRecord(op, id, value)) <=>
          BslConfigIsValid(ConfigRecord(op, id, value))
    BY PacksAllowed, AcceptsAllowed, Zenon
  <1> DEFINE c == ConfigRecord(op, id, value)
  <1>2. PacksConfig(c) => ValidConfig(c)
    BY PacksIsValidated, Zenon
  <1>3. c.op = op
    BY DEF ConfigRecord
  <1> HIDE DEF c
  <1>4. /\ exchange'.packed = PacksConfig(c) /\ exchange'.accepted = BslConfigIsValid(c)
        /\ exchange'.readable = ValidConfig(c) /\ exchange'.config = c
        /\ exchange'.name = ConfigOp[op]
    BY <1>3 DEF ConfigExchange, c
  <1>5. PacksConfig(c) <=> BslConfigIsValid(c)
    BY <1>1 DEF c
  <1>6. exchange'.packed <=> exchange'.accepted
    BY <1>4, <1>5, Zenon
  <1>7. exchange'.accepted => exchange'.readable
    BY <1>2, <1>4, <1>5, Zenon
  <1>8. BslConfigOps[exchange'.config.op] = exchange'.name
    BY <1>3, <1>4, SameConfigOps
  <1> QED
    BY <1>6, <1>7, <1>8, Zenon DEF ConfigsAgree

\* The PC and the device accept the same configs, and what the device serves the PC reads,
\* for every stream id and every value a write may carry.
\* (ConfigPayload.validate and pack, bsl_config_is_valid)
THEOREM ConfigsAlwaysAgree == Spec => []ConfigsAgree
PROOF
  <1>1. Init => ConfigsAgree
    BY DEF Init, None, ConfigsAgree
  <1>2. ConfigsAgree /\ [Next]_vars => ConfigsAgree'
    <2> SUFFICES ASSUME ConfigsAgree, [Next]_vars
                 PROVE  ConfigsAgree'
      OBVIOUS
    <2>1. CASE WriteConfig
      <3>1. PICK op \in 1 .. Len(ConfigOp), id \in ConfigStreams, value \in ConfigValues :
              exchange' = ConfigExchange(ConfigRecord(op, id, value))
        BY <2>1 DEF WriteConfig
      <3>2. op \in 1 .. 8 /\ id \in 0 .. 255 /\ value \in Int
        BY ExchangeAssumption DEF ConfigOp
      <3> QED
        BY <3>1, <3>2, ConfigExchangeAgrees
    <2>2. CASE SendFrame
      BY <2>2 DEF SendFrame, FrameExchange, ConfigsAgree
    <2>3. CASE ReadCapability
      BY <2>3 DEF ReadCapability, CapabilityExchange, ConfigsAgree
    <2>4. CASE ReadStatus
      BY <2>4 DEF ReadStatus, StatusExchange, ConfigsAgree
    <2>5. CASE WriteControl
      BY <2>5 DEF WriteControl, ControlExchange, ConfigsAgree
    <2>6. CASE Finish
      BY <2>6 DEF Finish, None, ConfigsAgree
    <2>7. CASE UNCHANGED vars
      BY <2>7 DEF vars, ConfigsAgree
    <2> QED
      BY <2>1, <2>2, <2>3, <2>4, <2>5, <2>6, <2>7 DEF Next
  <1> QED
    BY <1>1, <1>2, PTL DEF Spec

\* The two ends number the five commands alike, and alike in every position.
LEMMA SameCommands ==
  /\ Command = BslCommands
  /\ Len(BslCommands) = 5 /\ DOMAIN BslCommands = 1 .. 5
  /\ \A i, j \in 1 .. 5 : BslCommands[i] = BslCommands[j] => i = j
PROOF
  BY DEF Command, BslCommands

\* The number a command is sent as is the position of its name.
LEMMA ControlCarriesPosition ==
  ASSUME NEW i \in DOMAIN Command
  PROVE  /\ ControlOf(Command[i]).version = 4 /\ ControlOf(Command[i]).length = 4
         /\ ControlOf(Command[i]).command = i
PROOF
  <1>1. i \in 1 .. 5 /\ DOMAIN Command = 1 .. 5
    BY SameCommands
  <1>2. \A j \in 1 .. 5 : Command[j] = Command[i] <=> j = i
    BY <1>1, SameCommands
  <1>3. PositionOf(Command[i], Command) = i
    BY <1>1, <1>2 DEF PositionOf
  <1> QED
    BY <1>3 DEF ControlOf

\* Every command that the PC packs is unpacked as the same command, in a payload the
\* device lets through, and is one the capability announces.
\* (ControlPayload.pack, bsl_control_unpack, bsl_capability_default)
THEOREM CommandsAlwaysArrive == Spec => []CommandsArriveAsMeant
PROOF
  <1>1. Init => CommandsArriveAsMeant
    BY DEF Init, None, CommandsArriveAsMeant
  <1>2. CommandsArriveAsMeant /\ [Next]_vars => CommandsArriveAsMeant'
    <2> SUFFICES ASSUME CommandsArriveAsMeant, [Next]_vars
                 PROVE  CommandsArriveAsMeant'
      OBVIOUS
    <2>1. CASE WriteControl
      <3>1. PICK i \in DOMAIN Command :
              exchange' = ControlExchange(Command[i], ControlOf(Command[i]))
        BY <2>1 DEF WriteControl
      <3>2. i \in 1 .. 5
        BY SameCommands
      <3> DEFINE sent == ControlOf(Command[i])
      <3>3. sent.version = 4 /\ sent.length = 4 /\ sent.command = i
        BY ControlCarriesPosition
      <3> HIDE DEF sent
      <3>4. BslControlError(sent.length, sent.version, sent.command) = "NONE"
        BY <3>2, <3>3, SameCommands DEF BslControlError
      <3>5. /\ exchange'.error = BslControlError(sent.length, sent.version, sent.command)
            /\ exchange'.sent = sent /\ exchange'.name = Command[i]
        BY <3>1 DEF ControlExchange, sent
      <3>6. i \in BslCapability(ready, latency)'.supported_commands
        BY <3>2, SameCommands DEF BslCapability
      <3> QED
        BY <3>3, <3>4, <3>5, <3>6, SameCommands DEF CommandsArriveAsMeant
    <2>2. CASE SendFrame
      BY <2>2 DEF SendFrame, FrameExchange, CommandsArriveAsMeant
    <2>3. CASE ReadCapability
      BY <2>3 DEF ReadCapability, CapabilityExchange, CommandsArriveAsMeant
    <2>4. CASE ReadStatus
      BY <2>4 DEF ReadStatus, StatusExchange, CommandsArriveAsMeant
    <2>5. CASE WriteConfig
      BY <2>5 DEF WriteConfig, ConfigExchange, CommandsArriveAsMeant
    <2>6. CASE Finish
      BY <2>6 DEF Finish, None, CommandsArriveAsMeant
    <2>7. CASE UNCHANGED vars
      BY <2>7 DEF vars, CommandsArriveAsMeant
    <2> QED
      BY <2>1, <2>2, <2>3, <2>4, <2>5, <2>6, <2>7 DEF Next
  <1> QED
    BY <1>1, <1>2, PTL DEF Spec

-----------------------------------------------------------------------------
(* Statuses *)

\* Every name a status may carry has a position in the table, from which the other
\* end reads it again.
LEMMA NamesReadBack ==
  /\ \A x \in {"IDLE", "MEASURING"} :
       /\ PositionOf(x, BslDeviceStates) \in DOMAIN DeviceState
       /\ DeviceState[PositionOf(x, BslDeviceStates)] = x
  /\ \A x \in { BslDeviceErrors[i] : i \in DOMAIN BslDeviceErrors } :
       /\ PositionOf(x, BslDeviceErrors) \in DOMAIN DeviceError
       /\ DeviceError[PositionOf(x, BslDeviceErrors)] = x
PROOF
  <1>1. DeviceState = BslDeviceStates /\ DeviceError = BslDeviceErrors
    BY DEF DeviceState, BslDeviceStates, DeviceError, BslDeviceErrors
  <1>2. ASSUME NEW names, NEW x, \E i \in DOMAIN names : names[i] = x
        PROVE  PositionOf(x, names) \in DOMAIN names /\ names[PositionOf(x, names)] = x
    BY <1>2 DEF PositionOf
  <1>3. \A x \in {"IDLE", "MEASURING"} : \E i \in DOMAIN BslDeviceStates : BslDeviceStates[i] = x
    <2>1. /\ 1 \in DOMAIN BslDeviceStates /\ BslDeviceStates[1] = "IDLE"
          /\ 2 \in DOMAIN BslDeviceStates /\ BslDeviceStates[2] = "MEASURING"
      BY DEF BslDeviceStates
    <2> QED
      BY <2>1
  <1>4. \A x \in { BslDeviceErrors[i] : i \in DOMAIN BslDeviceErrors } :
          \E i \in DOMAIN BslDeviceErrors : BslDeviceErrors[i] = x
    OBVIOUS
  <1> QED
    BY <1>1, <1>2, <1>3, <1>4, Zenon

\* The errors of a board are in the table.
LEMMA ErrorsAreNamed ==
  /\ LinkErrors \subseteq { BslDeviceErrors[i] : i \in DOMAIN BslDeviceErrors }
  /\ \A s \in OptionalSensors : SensorErrorNames(s) \subseteq
                                  { BslDeviceErrors[i] : i \in DOMAIN BslDeviceErrors }
PROOF
  <1> DEFINE named == { BslDeviceErrors[i] : i \in DOMAIN BslDeviceErrors }
  <1>1. /\ DOMAIN BslDeviceErrors = 1 .. 16
        /\ BslDeviceErrors[1] = "NONE"
        /\ BslDeviceErrors[2] = "INVALID_VERSION" /\ BslDeviceErrors[3] = "INVALID_LENGTH"
        /\ BslDeviceErrors[4] = "INVALID_COMMAND" /\ BslDeviceErrors[5] = "INVALID_CONFIG"
        /\ BslDeviceErrors[6] = "NOT_CONNECTED" /\ BslDeviceErrors[7] = "NOT_SUBSCRIBED"
        /\ BslDeviceErrors[8] = "LSM6DSL_NO_DEVICETREE"
        /\ BslDeviceErrors[9] = "LSM6DSL_NOT_READY"
        /\ BslDeviceErrors[10] = "LSM6DSL_CONFIG_FAILED"
        /\ BslDeviceErrors[11] = "HTS221_NO_DEVICETREE"
        /\ BslDeviceErrors[12] = "HTS221_NOT_READY"
        /\ BslDeviceErrors[13] = "LPS22HB_NO_DEVICETREE"
        /\ BslDeviceErrors[14] = "LPS22HB_NOT_READY"
        /\ BslDeviceErrors[15] = "LSM303AGR_MAGN_NO_DEVICETREE"
        /\ BslDeviceErrors[16] = "LSM303AGR_MAGN_NOT_READY"
    BY DEF BslDeviceErrors
  <1>2. /\ "NONE" \in named
        /\ {"INVALID_VERSION", "INVALID_LENGTH", "INVALID_COMMAND"} \subseteq named
        /\ {"INVALID_CONFIG", "NOT_CONNECTED", "NOT_SUBSCRIBED"} \subseteq named
        /\ {"LSM6DSL_NO_DEVICETREE", "LSM6DSL_NOT_READY", "LSM6DSL_CONFIG_FAILED"} \subseteq named
        /\ {"HTS221_NO_DEVICETREE", "HTS221_NOT_READY"} \subseteq named
        /\ {"LPS22HB_NO_DEVICETREE", "LPS22HB_NOT_READY"} \subseteq named
        /\ {"LSM303AGR_MAGN_NO_DEVICETREE", "LSM303AGR_MAGN_NOT_READY"} \subseteq named
    BY <1>1
  <1> HIDE DEF named
  <1>3. ASSUME NEW s \in OptionalSensors PROVE SensorErrorNames(s) \subseteq named
    BY <1>2 DEF SensorErrorNames, OptionalSensors
  <1>4. LinkErrors \subseteq named
    BY <1>2 DEF LinkErrors
  <1> QED
    BY <1>3, <1>4 DEF named

\* A status of any numbers, with names of the tables, reads back as it was.
LEMMA StatusRoundTrip ==
  ASSUME NEW s, s.state \in {"IDLE", "MEASURING"},
         s.last_error \in { BslDeviceErrors[i] : i \in DOMAIN BslDeviceErrors },
         s.sensor_errors \in
           [OptionalSensors -> { BslDeviceErrors[i] : i \in DOMAIN BslDeviceErrors }],
         s = [state |-> s.state, sample_interval_ms |-> s.sample_interval_ms,
              last_error |-> s.last_error, connection_count |-> s.connection_count,
              sensor_errors |-> s.sensor_errors]
  PROVE  ReadableStatus(BslStatus(s)) /\ UnpackStatus(BslStatus(s)) = s
PROOF
  <1> DEFINE state == PositionOf(s.state, BslDeviceStates)
             error == PositionOf(s.last_error, BslDeviceErrors)
             named == { BslDeviceErrors[i] : i \in DOMAIN BslDeviceErrors }
             errors == [x \in OptionalSensors |-> PositionOf(s.sensor_errors[x], BslDeviceErrors)]
             raw == BslStatus(s)
  <1>1. /\ DOMAIN DeviceState \subseteq Int /\ DOMAIN DeviceError \subseteq Int
    BY DEF DeviceState, DeviceError
  <1>2. /\ state \in DOMAIN DeviceState /\ DeviceState[state] = s.state
        /\ error \in DOMAIN DeviceError /\ DeviceError[error] = s.last_error
    BY NamesReadBack, Zenon
  <1>3. ASSUME NEW x \in OptionalSensors
        PROVE  errors[x] \in DOMAIN DeviceError /\ DeviceError[errors[x]] = s.sensor_errors[x]
    <2>1. s.sensor_errors[x] \in named
      OBVIOUS
    <2>2. errors[x] = PositionOf(s.sensor_errors[x], BslDeviceErrors)
      OBVIOUS
    <2> QED
      BY <2>1, <2>2, NamesReadBack, Zenon
  <1>4. /\ raw.version = 4 /\ raw.state = state - 1 /\ raw.last_error = error - 1
        /\ raw.sample_interval_ms = s.sample_interval_ms
        /\ raw.connection_count = s.connection_count
        /\ DOMAIN raw.sensor_errors = OptionalSensors
        /\ \A x \in OptionalSensors : raw.sensor_errors[x] = errors[x] - 1
    BY DEF BslStatus
  <1> HIDE DEF state, error, errors, raw, named
  <1>5. /\ raw.state + 1 = state /\ raw.last_error + 1 = error
        /\ \A x \in OptionalSensors : raw.sensor_errors[x] + 1 = errors[x]
    BY <1>1, <1>2, <1>3, <1>4
  <1>6. ReadableStatus(raw)
    BY <1>2, <1>3, <1>4, <1>5 DEF ReadableStatus, SupportedVersions
  <1>7. [x \in DOMAIN raw.sensor_errors |-> DeviceError[raw.sensor_errors[x] + 1]] =
          s.sensor_errors
    BY <1>3, <1>4, <1>5
  <1>8. UnpackStatus(raw) = s
    BY <1>2, <1>4, <1>5, <1>7 DEF UnpackStatus
  <1> QED
    BY <1>6, <1>8 DEF raw

\* The errors sensors may report, and the statuses a board may serve.
Reports == UNION { SensorErrorNames(t) : t \in OptionalSensors }

StatusOf(state, x, error, errors) ==
  [state |-> state, sample_interval_ms |-> x, last_error |-> error,
   connection_count |-> x, sensor_errors |-> errors]

Served(s) ==
  \E state \in {"IDLE", "MEASURING"}, x \in {1, 38, 65535} :
  \E errors \in [OptionalSensors -> Reports] :
  \E error \in LinkErrors \cup Reports : s = StatusOf(state, x, error, errors)

\* read_status sends one of those.
LEMMA ReadStatusServes ==
  ASSUME ReadStatus
  PROVE  \E s : Served(s) /\ exchange' = StatusExchange(s)
PROOF
  <1>1. ASSUME NEW errors \in [OptionalSensors -> Reports]
        PROVE  FirstSensorError(errors) \in Reports
    BY <1>1 DEF FirstSensorError, OptionalSensors
  <1>2. PICK state \in {"IDLE", "MEASURING"}, x \in {1, 38, 65535} :
          \E errors \in [OptionalSensors -> Reports] :
          \E error \in LinkErrors \cup {FirstSensorError(errors)} :
            exchange' = StatusExchange(StatusOf(state, x, error, errors))
    BY DEF ReadStatus, Reports, StatusOf
  <1>3. PICK errors \in [OptionalSensors -> Reports] :
          \E error \in LinkErrors \cup {FirstSensorError(errors)} :
            exchange' = StatusExchange(StatusOf(state, x, error, errors))
    BY <1>2
  <1>4. PICK error \in LinkErrors \cup {FirstSensorError(errors)} :
          exchange' = StatusExchange(StatusOf(state, x, error, errors))
    BY <1>3
  <1>5. error \in LinkErrors \cup Reports
    BY <1>1, <1>4
  <1> QED
    BY <1>4, <1>5 DEF Served

\* Each of them reads back as it was.
LEMMA ServedReadsBack ==
  ASSUME NEW s, Served(s)
  PROVE  ReadableStatus(BslStatus(s)) /\ UnpackStatus(BslStatus(s)) = s
PROOF
  <1> DEFINE named == { BslDeviceErrors[i] : i \in DOMAIN BslDeviceErrors }
  <1>1. Reports \subseteq named /\ LinkErrors \subseteq named
    BY ErrorsAreNamed DEF Reports
  <1> HIDE DEF named
  <1>2. PICK state \in {"IDLE", "MEASURING"}, x \in {1, 38, 65535},
             errors \in [OptionalSensors -> Reports], error \in LinkErrors \cup Reports :
               s = StatusOf(state, x, error, errors)
    BY DEF Served
  <1>3. /\ s.state \in {"IDLE", "MEASURING"} /\ s.last_error \in named
        /\ s.sensor_errors \in [OptionalSensors -> named]
        /\ s = [state |-> s.state, sample_interval_ms |-> s.sample_interval_ms,
                last_error |-> s.last_error, connection_count |-> s.connection_count,
                sensor_errors |-> s.sensor_errors]
    BY <1>1, <1>2 DEF StatusOf
  <1> QED
    BY <1>3, StatusRoundTrip DEF named

\* Then the exchange of one is as the property says.
LEMMA StatusExchangeReadsBack ==
  ASSUME NEW s, ReadableStatus(BslStatus(s)), UnpackStatus(BslStatus(s)) = s,
         exchange' = StatusExchange(s)
  PROVE  StatusReadsBack'
PROOF
  BY DEF StatusExchange, StatusReadsBack

\* The status a client reads is the status the device serves, name by name, on every board.
\* (read_status, StatusPayload.unpack)
THEOREM StatusesReadBack == Spec => []StatusReadsBack
PROOF
  <1>1. Init => StatusReadsBack
    BY DEF Init, None, StatusReadsBack
  <1>2. StatusReadsBack /\ [Next]_vars => StatusReadsBack'
    <2> SUFFICES ASSUME StatusReadsBack, [Next]_vars
                 PROVE  StatusReadsBack'
      OBVIOUS
    <2>1. CASE ReadStatus
      <3>1. PICK s : Served(s) /\ exchange' = StatusExchange(s)
        BY <2>1, ReadStatusServes
      <3>2. ReadableStatus(BslStatus(s)) /\ UnpackStatus(BslStatus(s)) = s
        BY <3>1, ServedReadsBack
      <3> QED
        BY <3>1, <3>2, StatusExchangeReadsBack
    <2>2. CASE SendFrame
      BY <2>2 DEF SendFrame, FrameExchange, StatusReadsBack
    <2>3. CASE ReadCapability
      BY <2>3 DEF ReadCapability, CapabilityExchange, StatusReadsBack
    <2>4. CASE WriteControl
      BY <2>4 DEF WriteControl, ControlExchange, StatusReadsBack
    <2>5. CASE WriteConfig
      BY <2>5 DEF WriteConfig, ConfigExchange, StatusReadsBack
    <2>6. CASE Finish
      BY <2>6 DEF Finish, None, StatusReadsBack
    <2>7. CASE UNCHANGED vars
      BY <2>7 DEF vars, StatusReadsBack
    <2> QED
      BY <2>1, <2>2, <2>3, <2>4, <2>5, <2>6, <2>7 DEF Next
  <1> QED
    BY <1>1, <1>2, PTL DEF Spec

-----------------------------------------------------------------------------
(* Frames.  The words of a sample and the fields it is read as are the same list, value  *)
(* by value, whatever the list is; what is left is where the words of sample k stand in  *)
(* the payload, which is arithmetic.                                                     *)

Parts ==
  {"accel", "gyro", "mag", "x", "y", "z", "pitch", "roll", "zenith", "yaw", "norm",
   "naive", "iir", "complementary", "mahony", "humidity", "temperature", "pressure", ""}
Names == { << p, q >> : p \in Parts, q \in Parts }

\* A function on 1 .. 3 is a sequence of three.
LEMMA ThreeAreASequence ==
  ASSUME NEW S, NEW s \in [1 .. 3 -> S]
  PROVE  s \in Seq(S) /\ Len(s) = 3
PROOF
  <1>1. s \in Seq(S)
    <2>1. [1 .. 3 -> S] \in { [1 .. n -> S] : n \in Nat }
      OBVIOUS
    <2> QED
      BY <2>1, SeqDef
  <1>2. Len(s) \in Nat /\ DOMAIN s = 1 .. Len(s)
    BY <1>1, LenProperties
  <1>3. DOMAIN s = 1 .. 3
    OBVIOUS
  <1> QED
    BY <1>1, <1>2, <1>3

\* Three quantities per axis, three angles per filter.
LEMMA TriplesAreSequences ==
  /\ \A what \in Parts : PerAxis(what) \in Seq(Names) /\ Len(PerAxis(what)) = 3
  /\ \A filter \in Parts : PerAngle(filter) \in Seq(Names) /\ Len(PerAngle(filter)) = 3
PROOF
  <1>1. \A i \in 1 .. 3 : Axes[i] \in Parts /\ Angles[i] \in Parts
    <2>1. /\ Axes[1] = "x" /\ Axes[2] = "y" /\ Axes[3] = "z"
          /\ Angles[1] = "pitch" /\ Angles[2] = "roll" /\ Angles[3] = "zenith"
      BY DEF Axes, Angles
    <2>2. /\ "x" \in Parts /\ "y" \in Parts /\ "z" \in Parts
          /\ "pitch" \in Parts /\ "roll" \in Parts /\ "zenith" \in Parts
      BY DEF Parts
    <2>3. \A i \in 1 .. 3 : i = 1 \/ i = 2 \/ i = 3
      OBVIOUS
    <2> QED
      BY <2>1, <2>2, <2>3
  <1>2. \A p, q \in Parts : << p, q >> \in Names
    BY DEF Names
  <1>3. ASSUME NEW what \in Parts
        PROVE  PerAxis(what) \in [1 .. 3 -> Names]
    BY <1>1, <1>2 DEF PerAxis
  <1>4. ASSUME NEW filter \in Parts
        PROVE  PerAngle(filter) \in [1 .. 3 -> Names]
    BY <1>1, <1>2 DEF PerAngle
  <1> QED
    BY <1>3, <1>4, ThreeAreASequence

ImuWords == PerAxis("accel") \o PerAxis("gyro")
ThermoWords == << << "humidity", "" >>, << "temperature", "" >> >>
BaroWords == << << "pressure", "" >> >>
OrientationWords ==
  PerAngle("naive") \o PerAngle("iir") \o PerAngle("complementary")
    \o PerAngle("mahony") \o << << "yaw", "mahony" >>, << "accel", "norm" >> >>

Cat(s, t) == s \o t
WordList(s, n) == s \in Seq(Names) /\ Len(s) = n

\* The longest samples: six words of the IMU, fourteen of the orientation.
LEMMA LongSamples ==
  /\ ImuWords \in Seq(Names) /\ Len(ImuWords) = 6
  /\ OrientationWords \in Seq(Names) /\ Len(OrientationWords) = 14
PROOF
  <1>1. ASSUME NEW s, NEW t, NEW m \in Nat, NEW n \in Nat, WordList(s, m), WordList(t, n)
        PROVE  WordList(Cat(s, t), m + n)
    <2>1. s \o t \in Seq(Names) /\ Len(s \o t) = Len(s) + Len(t)
      BY <1>1, ConcatProperties DEF WordList
    <2> QED
      BY <1>1, <2>1 DEF WordList, Cat
  <1>2. /\ "accel" \in Parts /\ "gyro" \in Parts /\ "naive" \in Parts /\ "iir" \in Parts
        /\ "complementary" \in Parts /\ "mahony" \in Parts /\ "yaw" \in Parts
        /\ "norm" \in Parts
    BY DEF Parts
  <1> DEFINE a == PerAngle("naive")  b == PerAngle("iir")  c == PerAngle("complementary")
             d == PerAngle("mahony")
             e == << << "yaw", "mahony" >>, << "accel", "norm" >> >>
             x == PerAxis("accel")  y == PerAxis("gyro")
  <1>3. /\ WordList(a, 3) /\ WordList(b, 3) /\ WordList(c, 3) /\ WordList(d, 3)
        /\ WordList(x, 3) /\ WordList(y, 3)
    BY <1>2, TriplesAreSequences DEF WordList
  <1>4. WordList(e, 2)
    <2>1. << "yaw", "mahony" >> \in Names /\ << "accel", "norm" >> \in Names
      BY <1>2 DEF Names
    <2>2. ASSUME NEW v \in Names, NEW w \in Names
          PROVE  WordList(<< v, w >>, 2)
      BY DEF WordList
    <2> QED
      BY <2>1, <2>2, Zenon
  <1>5. /\ ImuWords = Cat(x, y)
        /\ OrientationWords = Cat(Cat(Cat(Cat(a, b), c), d), e)
    BY Zenon DEF ImuWords, OrientationWords, Cat
  <1> HIDE DEF a, b, c, d, e, x, y
  <1>6. WordList(Cat(a, b), 3 + 3)
    BY <1>1, <1>3
  <1>7. WordList(Cat(Cat(a, b), c), 6 + 3)
    BY <1>1, <1>3, <1>6
  <1>8. WordList(Cat(Cat(Cat(a, b), c), d), 9 + 3)
    BY <1>1, <1>3, <1>7
  <1>9. WordList(Cat(Cat(Cat(Cat(a, b), c), d), e), 12 + 2)
    BY <1>1, <1>4, <1>8
  <1>10. WordList(Cat(x, y), 3 + 3)
    BY <1>1, <1>3
  <1> QED
    BY <1>5, <1>9, <1>10 DEF WordList

\* The words of a sample of each stream, and the fields the PC reads it as.
LEMMA SampleTables ==
  /\ BslSampleWords["dummy"] = PerAxis("accel") /\ UnpackedFields[1] = PerAxis("accel")
  /\ BslSampleWords["imu6"] = ImuWords /\ UnpackedFields[2] = ImuWords
  /\ BslSampleWords["hts221"] = ThermoWords /\ UnpackedFields[3] = ThermoWords
  /\ BslSampleWords["lps22hb"] = << << "pressure", "" >>, << "pressure", "" >> >>
  /\ UnpackedFields[4] = BaroWords
  /\ BslSampleWords["lsm303agr_magn"] = PerAxis("mag") /\ UnpackedFields[5] = PerAxis("mag")
  /\ BslSampleWords["orientation"] = OrientationWords
  /\ UnpackedFields[7] = OrientationWords
PROOF
  <1>1. ASSUME NEW t, NEW a, NEW b, NEW c, NEW d, NEW e, NEW g,
               t = [f \in {1, 2, 3, 4, 5, 7} |->
                      CASE f = 1 -> a [] f = 2 -> b [] f = 3 -> c [] f = 4 -> d [] f = 5 -> e
                        [] f = 7 -> g]
        PROVE  t[1] = a /\ t[2] = b /\ t[3] = c /\ t[4] = d /\ t[5] = e /\ t[7] = g
    BY <1>1
  <1>2. UnpackedFields =
          [f \in {1, 2, 3, 4, 5, 7} |->
             CASE f = 1 -> PerAxis("accel") [] f = 2 -> ImuWords [] f = 3 -> ThermoWords
               [] f = 4 -> BaroWords [] f = 5 -> PerAxis("mag") [] f = 7 -> OrientationWords]
    BY Zenon DEF UnpackedFields, ImuWords, ThermoWords, BaroWords, OrientationWords
  <1>3. /\ BslSampleWords["dummy"] = PerAxis("accel")
        /\ BslSampleWords["imu6"] = ImuWords
        /\ BslSampleWords["hts221"] = ThermoWords
        /\ BslSampleWords["lps22hb"] = << << "pressure", "" >>, << "pressure", "" >> >>
        /\ BslSampleWords["lsm303agr_magn"] = PerAxis("mag")
        /\ BslSampleWords["orientation"] = OrientationWords
    BY Zenon DEF BslSampleWords, ImuWords, ThermoWords, OrientationWords
  <1>4. /\ UnpackedFields[1] = PerAxis("accel") /\ UnpackedFields[2] = ImuWords
        /\ UnpackedFields[3] = ThermoWords /\ UnpackedFields[4] = BaroWords
        /\ UnpackedFields[5] = PerAxis("mag") /\ UnpackedFields[7] = OrientationWords
    BY <1>1, <1>2
  <1> QED
    BY <1>3, <1>4, Zenon

\* How the words of a stream's sample are read: each field of the format takes `wide` words.
Layout(st, words, n, f, fields, wide) ==
  /\ words = BslSampleWords[st] /\ n = Len(words) /\ n \in {2, 3, 6, 14} /\ DOMAIN words = 1 .. n
  /\ f = BslPayloadFormat[st] /\ f \in {1, 2, 3, 4, 5, 7}
  /\ fields = UnpackedFields[f] /\ wide = WordsPerValue(f)
  /\ SampleSizeForPayloadFormat(f) = 2 * n
  /\ \A i \in DOMAIN fields :
       /\ wide * (i - 1) + 1 \in 1 .. n
       /\ words[wide * (i - 1) + 1] = fields[i]
  /\ { fields[i] : i \in DOMAIN fields } = { words[i] : i \in DOMAIN words }

\* The fields of each stream's format are its words, in order; only the pressure takes two.
LEMMA ReadAsWritten ==
  ASSUME NEW st \in WireStreams
  PROVE  Layout(st, BslSampleWords[st], Len(BslSampleWords[st]), BslPayloadFormat[st],
                UnpackedFields[BslPayloadFormat[st]], WordsPerValue(BslPayloadFormat[st]))
PROOF
  <1> DEFINE words == BslSampleWords[st]
             f == BslPayloadFormat[st]
             fields == UnpackedFields[f]
             wide == WordsPerValue(f)
             n == Len(words)
             Goal == Layout(st, words, n, f, fields, wide)
  <1>1. ASSUME words = fields, words \in Seq(Names), n \in {2, 3, 6, 14}, wide = 1,
               f \in {1, 2, 3, 4, 5, 7}
        PROVE  Goal
    <2>1. DOMAIN words = 1 .. n
      BY <1>1
    <2>2. SampleSizeForPayloadFormat(f) = 2 * n
      BY <1>1 DEF SampleSizeForPayloadFormat
    <2> HIDE DEF words, f, fields, wide, n
    <2>3. \A i \in DOMAIN fields : wide * (i - 1) + 1 \in 1 .. n
                                   /\ words[wide * (i - 1) + 1] = fields[i]
      <3>1. \A i \in 1 .. n : wide * (i - 1) + 1 = i
        BY <1>1
      <3> QED
        BY <1>1, <2>1, <3>1
    <2> QED
      BY <1>1, <2>1, <2>2, <2>3 DEF Layout, words, f, fields, wide, n
  <1>2. /\ "accel" \in Parts /\ "mag" \in Parts
    BY DEF Parts
  <1>3. CASE st = "dummy"
    <2>1. f = 1
      BY <1>3 DEF BslPayloadFormat
    <2>2. wide = 1
      BY <2>1 DEF WordsPerValue
    <2>3. words = PerAxis("accel") /\ fields = PerAxis("accel")
      BY <1>3, <2>1, SampleTables, Zenon
    <2> QED
      BY <1>1, <1>2, TriplesAreSequences, <2>1, <2>2, <2>3
  <1>4. CASE st = "imu6"
    <2>1. f = 2
      BY <1>4 DEF BslPayloadFormat
    <2>2. wide = 1
      BY <2>1 DEF WordsPerValue
    <2>3. words = ImuWords /\ fields = ImuWords
      BY <1>4, <2>1, SampleTables, Zenon
    <2> QED
      BY <1>1, LongSamples, <2>1, <2>2, <2>3
  <1>5. CASE st = "orientation"
    <2>1. f = 7
      BY <1>5 DEF BslPayloadFormat
    <2>2. wide = 1
      BY <2>1 DEF WordsPerValue
    <2>3. words = OrientationWords /\ fields = OrientationWords
      BY <1>5, <2>1, SampleTables, Zenon
    <2> QED
      BY <1>1, LongSamples, <2>1, <2>2, <2>3
  <1>6. CASE st = "lsm303agr_magn"
    <2>1. f = 5
      BY <1>6 DEF BslPayloadFormat
    <2>2. wide = 1
      BY <2>1 DEF WordsPerValue
    <2>3. words = PerAxis("mag") /\ fields = PerAxis("mag")
      BY <1>6, <2>1, SampleTables, Zenon
    <2> QED
      BY <1>1, <1>2, TriplesAreSequences, <2>1, <2>2, <2>3
  <1>9. ThermoWords \in Seq(Names) /\ Len(ThermoWords) = 2
    <2>1. << "humidity", "" >> \in Names /\ << "temperature", "" >> \in Names
      <3>1. "humidity" \in Parts /\ "temperature" \in Parts /\ "" \in Parts
        BY DEF Parts
      <3>2. \A p, q \in Parts : << p, q >> \in Names
        BY DEF Names
      <3> QED
        BY <3>1, <3>2, Zenon
    <2>2. ASSUME NEW v \in Names, NEW w \in Names
          PROVE  << v, w >> \in Seq(Names) /\ Len(<< v, w >>) = 2
      OBVIOUS
    <2> QED
      BY <2>1, <2>2, Zenon DEF ThermoWords
  <1>7. CASE st = "hts221"
    <2>1. f = 3
      BY <1>7 DEF BslPayloadFormat
    <2>2. wide = 1
      BY <2>1 DEF WordsPerValue
    <2>3. words = ThermoWords /\ fields = ThermoWords
      BY <1>7, <2>1, SampleTables, Zenon
    <2> QED
      BY <1>1, <1>9, <2>1, <2>2, <2>3
  <1>8. CASE st = "lps22hb"
    <2>1. f = 4
      BY <1>8 DEF BslPayloadFormat
    <2>2. wide = 2
      BY <2>1 DEF WordsPerValue
    <2>3. words = << << "pressure", "" >>, << "pressure", "" >> >> /\ fields = BaroWords
      BY <1>8, <2>1, SampleTables, Zenon
    <2> DEFINE p == << "pressure", "" >>
    <2> HIDE DEF p, words, fields, f, wide
    <2>4. words = << p, p >> /\ fields = << p >>
      BY <2>3, Zenon DEF p, BaroWords
    <2>5. /\ n = 2 /\ DOMAIN words = 1 .. 2 /\ words[1] = p /\ words[2] = p
          /\ Len(fields) = 1 /\ DOMAIN fields = 1 .. 1 /\ fields[1] = p
      BY <2>4
    <2>6. SampleSizeForPayloadFormat(f) = 4
      BY <2>1, <2>2, <2>5 DEF SampleSizeForPayloadFormat, wide, fields
    <2>7. { fields[i] : i \in DOMAIN fields } = { words[i] : i \in DOMAIN words }
      BY <2>5
    <2> QED
      BY <2>1, <2>2, <2>5, <2>6, <2>7 DEF Layout, words, f, fields, wide
  <1> QED
    BY <1>3, <1>4, <1>5, <1>6, <1>7, <1>8 DEF WireStreams

\* Where word j of sample k stands among the words of n * count, and back.
LEMMA PlaceOfWord ==
  ASSUME NEW n \in {2, 3, 6, 14}, NEW count \in 1 .. 8, NEW k \in 1 .. count, NEW j \in 1 .. n
  PROVE  /\ (k - 1) * n + j \in 1 .. n * count
         /\ (((k - 1) * n + j - 1) % n) + 1 = j
         /\ (((k - 1) * n + j - 1) \div n) + 1 = k
         /\ k * n - ((k - 1) * n + 1) + 1 = n
         /\ (k - 1) * n + 1 \in 1 .. n * count /\ k * n \in 1 .. n * count
PROOF
  <1>1. CASE n = 2
    BY <1>1
  <1>2. CASE n = 3
    BY <1>2
  <1>3. CASE n = 6
    BY <1>3
  <1>4. CASE n = 14
    BY <1>4
  <1> QED
    BY <1>1, <1>2, <1>3, <1>4

\* The payload shares out evenly over the samples.
LEMMA EvenShares ==
  ASSUME NEW n \in {2, 3, 6, 14}, NEW count \in 1 .. 8
  PROVE  /\ n * count \in Nat
         /\ (n * count) \div count = n
         /\ (2 * n * count) % count = 0 /\ (2 * n * count) \div count = 2 * n
         /\ 2 * (n * count) = 2 * n * count
PROOF
  <1>1. ASSUME NEW a \in {2, 3, 4, 6, 12, 14, 28}
        PROVE  (a * count) \div count = a /\ (a * count) % count = 0
    <2>1. \A c \in 1 .. 8 :
            c = 1 \/ c = 2 \/ c = 3 \/ c = 4 \/ c = 5 \/ c = 6 \/ c = 7 \/ c = 8
      OBVIOUS
    <2> QED
      BY <2>1
  <1>2. n \in {2, 3, 4, 6, 12, 14, 28} /\ 2 * n \in {2, 3, 4, 6, 12, 14, 28}
    OBVIOUS
  <1>3. n * count \in Nat /\ 2 * (n * count) = 2 * n * count
    OBVIOUS
  <1> QED
    BY <1>1, <1>2, <1>3

\* A function on 1 .. m has length m.
LEMMA LengthOfFunction ==
  ASSUME NEW S, NEW m \in Nat, NEW s \in [1 .. m -> S]
  PROVE  s \in Seq(S) /\ Len(s) = m
PROOF
  <1>1. s \in Seq(S)
    <2>1. [1 .. m -> S] \in { [1 .. n -> S] : n \in Nat }
      OBVIOUS
    <2> QED
      BY <2>1, SeqDef
  <1>2. Len(s) \in Nat /\ DOMAIN s = 1 .. Len(s)
    BY <1>1, LenProperties
  <1>3. DOMAIN s = 1 .. m
    OBVIOUS
  <1> QED
    BY <1>2, <1>3, <1>1

\* The payload a frame is built with.
Payload(words, n, count) ==
  [i \in 1 .. n * count |-> Word(words[((i - 1) % n) + 1], ((i - 1) \div n) + 1)]

\* It has a word for each word of each sample.
LEMMA PayloadLength ==
  ASSUME NEW words, NEW n \in {2, 3, 6, 14}, NEW count \in 1 .. 8
  PROVE  Len(Payload(words, n, count)) = n * count
PROOF
  <1> DEFINE payload == Payload(words, n, count)
             S == { payload[i] : i \in 1 .. n * count }
  <1>1. n * count \in Nat
    BY EvenShares
  <1>2. payload \in [1 .. n * count -> S]
    BY DEF Payload
  <1> QED
    BY <1>1, <1>2, LengthOfFunction

\* Sample k of it is the sample's words, in order.
LEMMA SampleOfPayload ==
  ASSUME NEW words, NEW n \in {2, 3, 6, 14}, NEW count \in 1 .. 8, NEW k \in 1 .. count
  PROVE  LET payload == Payload(words, n, count)
             sample == SubSeq(payload, (k - 1) * n + 1, k * n)
         IN  /\ Len(payload) = n * count
             /\ Len(sample) = n
             /\ \A j \in 1 .. n : sample[j] = Word(words[j], k)
PROOF
  <1> DEFINE payload == Payload(words, n, count)
             S == { payload[i] : i \in 1 .. n * count }
             a == (k - 1) * n + 1
             b == k * n
             sample == SubSeq(payload, a, b)
  <1>1. n * count \in Nat /\ a \in Int /\ b \in Int /\ a <= b
    BY EvenShares, PlaceOfWord
  <1>3. Len(payload) = n * count
    BY PayloadLength
  <1>4. \A i \in a .. b : payload[i] \in S
    <2>1. a >= 1 /\ b <= n * count
      BY PlaceOfWord
    <2> QED
      BY <1>1, <2>1
  <1>5. Len(sample) = b - a + 1 /\ \A i \in 1 .. b - a + 1 : sample[i] = payload[a + i - 1]
    BY <1>1, <1>4, SubSeqProperties
  <1>6. b - a + 1 = n
    BY PlaceOfWord
  <1>7. ASSUME NEW j \in 1 .. n
        PROVE  payload[a + j - 1] = Word(words[j], k)
    <2>1. /\ a + j - 1 = (k - 1) * n + j /\ a + j - 1 \in 1 .. n * count
          /\ ((a + j - 1 - 1) % n) + 1 = j /\ ((a + j - 1 - 1) \div n) + 1 = k
      <3>1. /\ (k - 1) * n + j \in 1 .. n * count
            /\ (((k - 1) * n + j - 1) % n) + 1 = j
            /\ (((k - 1) * n + j - 1) \div n) + 1 = k
        BY PlaceOfWord
      <3>2. a + j - 1 = (k - 1) * n + j
        BY <1>1
      <3> QED
        BY <3>1, <3>2
    <2> DEFINE i == a + j - 1
    <2>2. i \in 1 .. n * count /\ ((i - 1) % n) + 1 = j /\ ((i - 1) \div n) + 1 = k
      BY <2>1
    <2> HIDE DEF a, i
    <2>3. payload[i] = Word(words[((i - 1) % n) + 1], ((i - 1) \div n) + 1)
      BY <2>2 DEF Payload
    <2> QED
      BY <2>2, <2>3, Zenon DEF i
  <1> QED
    BY <1>3, <1>5, <1>6, <1>7

\* The fields of a frame.
LEMMA FrameFields ==
  ASSUME NEW st \in WireStreams, NEW count \in 1 .. 8, NEW sequence, NEW time
  PROVE  LET frame == BslFrame(st, count, sequence, time)
             words == BslSampleWords[st]
             n == Len(words)
         IN  /\ frame.version = 4 /\ frame.message_type = 1
             /\ frame.stream_id = BslStreamId[st] /\ frame.payload_format = BslPayloadFormat[st]
             /\ frame.sequence = sequence /\ frame.timestamp_ms = time
             /\ frame.payload_len = 2 * n * count /\ frame.sample_count = count
             /\ frame.payload = Payload(words, n, count)
             /\ frame = [version |-> 4, message_type |-> 1, stream_id |-> frame.stream_id,
                         sequence |-> sequence, timestamp_ms |-> time,
                         payload_format |-> frame.payload_format,
                         payload_len |-> frame.payload_len, sample_count |-> count,
                         payload |-> frame.payload]
PROOF
  BY DEF BslFrame, Payload

\* A one-sample frame that carries sample k of a frame of stream st.
OneSample(one, st, k, sequence, time) ==
  LET words == BslSampleWords[st]
      n == Len(words)
  IN  /\ one.version = 4 /\ one.message_type = 1 /\ one.sample_count = 1
      /\ one.stream_id = BslStreamId[st] /\ one.payload_format = BslPayloadFormat[st]
      /\ one.sequence = sequence /\ one.timestamp_ms = time
      /\ one.payload_len = 2 * n /\ Len(one.payload) = n
      /\ \A j \in 1 .. n : one.payload[j] = Word(words[j], k)

\* The intervals the PC spaces the samples of a batch by are the sensors' own; the dummy
\* stream has none, and no batch.
LEMMA SameIntervals ==
  /\ \A st \in WireStreams : BslIntervalMs[st] \in Nat
  /\ \A st \in WireStreams \ {"dummy"} : IntervalMsForStream(BslStreamId[st]) = BslIntervalMs[st]
  /\ \A st \in WireStreams : IntervalMsForStream(BslStreamId[st]) \in Nat
PROOF
  <1>1. /\ BslStreamId["dummy"] = 1 /\ BslStreamId["imu6"] = 10
        /\ BslStreamId["orientation"] = 13 /\ BslStreamId["lsm303agr_magn"] = 12
        /\ BslStreamId["lps22hb"] = 20 /\ BslStreamId["hts221"] = 30
    BY DEF BslStreamId
  <1>2. /\ BslIntervalMs["dummy"] = 100 /\ BslIntervalMs["imu6"] = 38
        /\ BslIntervalMs["orientation"] = 38 /\ BslIntervalMs["lsm303agr_magn"] = 100
        /\ BslIntervalMs["lps22hb"] = 1000 /\ BslIntervalMs["hts221"] = 1000
    BY DEF BslIntervalMs
  <1>3. /\ IntervalMsForStream(1) = 0 /\ IntervalMsForStream(10) = 38
        /\ IntervalMsForStream(13) = 38 /\ IntervalMsForStream(12) = 100
        /\ IntervalMsForStream(20) = 1000 /\ IntervalMsForStream(30) = 1000
    BY DEF IntervalMsForStream, StreamId
  <1> QED
    BY <1>1, <1>2, <1>3 DEF WireStreams

\* What unpack_many cuts out of a frame as its sample k.
LEMMA SampleFrames ==
  ASSUME NEW st \in WireStreams, NEW count \in 1 .. 8, st = "dummy" => count = 1,
         NEW sequence \in 0 .. SeqModulus - 1, NEW time \in Nat, NEW k \in 1 .. count
  PROVE  LET frame == BslFrame(st, count, sequence, time)
         IN  OneSample(IF frame.sample_count = 1 THEN frame ELSE SampleFrame(frame, k),
                       st, k, (sequence + k - 1) % SeqModulus,
                       time + (k - 1) * BslIntervalMs[st])
PROOF
  <1> DEFINE frame == BslFrame(st, count, sequence, time)
             words == BslSampleWords[st]
             n == Len(words)
  <1>1. n \in {2, 3, 6, 14}
    BY ReadAsWritten DEF Layout
  <1>2. /\ frame.version = 4 /\ frame.message_type = 1
        /\ frame.stream_id = BslStreamId[st] /\ frame.payload_format = BslPayloadFormat[st]
        /\ frame.sequence = sequence /\ frame.timestamp_ms = time
        /\ frame.payload_len = 2 * n * count /\ frame.sample_count = count
        /\ frame.payload = Payload(words, n, count)
        /\ frame = [version |-> 4, message_type |-> 1, stream_id |-> frame.stream_id,
                    sequence |-> sequence, timestamp_ms |-> time,
                    payload_format |-> frame.payload_format,
                    payload_len |-> frame.payload_len, sample_count |-> count,
                    payload |-> frame.payload]
    BY FrameFields
  <1> HIDE DEF frame, n, words
  <1>3. /\ Len(frame.payload) = n * count
        /\ Len(SubSeq(frame.payload, (k - 1) * n + 1, k * n)) = n
        /\ \A j \in 1 .. n :
             SubSeq(frame.payload, (k - 1) * n + 1, k * n)[j] = Word(words[j], k)
    <2>1. LET payload == Payload(words, n, count)
              sample == SubSeq(payload, (k - 1) * n + 1, k * n)
          IN  /\ Len(payload) = n * count
              /\ Len(sample) = n
              /\ \A j \in 1 .. n : sample[j] = Word(words[j], k)
      BY <1>1, SampleOfPayload
    <2> QED
      BY <1>2, <2>1
  <1>4. BslIntervalMs[st] \in Nat
    BY SameIntervals
  <1>5. CASE count = 1
    <2>1. k = 1 /\ frame.payload_len = 2 * n /\ Len(frame.payload) = n
      BY <1>1, <1>2, <1>3, <1>5
    <2>2. ASSUME NEW j \in 1 .. n
          PROVE  frame.payload[j] = Word(words[j], k)
      <3>1. j \in 1 .. n * count /\ ((j - 1) % n) + 1 = j /\ ((j - 1) \div n) + 1 = k
        <4>1. /\ (1 - 1) * n + j \in 1 .. n * count
              /\ (((1 - 1) * n + j - 1) % n) + 1 = j
              /\ (((1 - 1) * n + j - 1) \div n) + 1 = 1
          BY <1>1, <1>5, PlaceOfWord
        <4>2. (1 - 1) * n + j = j
          BY <1>1
        <4> QED
          BY <2>1, <4>1, <4>2
      <3>2. frame.payload[j] = Word(words[((j - 1) % n) + 1], ((j - 1) \div n) + 1)
        BY <1>2, <3>1 DEF Payload
      <3> QED
        BY <3>1, <3>2
    <2>3. (sequence + k - 1) % SeqModulus = sequence /\ time + (k - 1) * BslIntervalMs[st] = time
      BY <2>1, <1>4, CodecAssumption
    <2> QED
      BY <1>2, <1>5, <2>1, <2>2, <2>3 DEF OneSample, n, words, frame
  <1>6. CASE count # 1
    <2> DEFINE one == SampleFrame(frame, k)
    <2>1. Len(frame.payload) \div frame.sample_count = n
      <3>1. (n * count) \div count = n
        BY <1>1, EvenShares
      <3> QED
        BY <1>2, <1>3, <3>1
    <2>2. IntervalMsForStream(frame.stream_id) = BslIntervalMs[st]
      BY <1>2, <1>6, SameIntervals
    <2>3. /\ one.version = 4 /\ one.message_type = 1 /\ one.sample_count = 1
          /\ one.stream_id = BslStreamId[st] /\ one.payload_format = BslPayloadFormat[st]
          /\ one.sequence = (sequence + (k - 1)) % SeqModulus
          /\ one.timestamp_ms = time + (k - 1) * BslIntervalMs[st]
          /\ one.payload_len = 2 * n
          /\ one.payload = SubSeq(frame.payload, (k - 1) * n + 1, k * n)
      BY <1>2, <2>1, <2>2 DEF SampleFrame
    <2>4. (sequence + (k - 1)) % SeqModulus = (sequence + k - 1) % SeqModulus
      OBVIOUS
    <2> QED
      BY <1>2, <1>3, <1>6, <2>3, <2>4 DEF OneSample, n, words, frame
  <1> QED
    BY <1>5, <1>6

\* Such a frame is unpacked, and each field is read where it was written.
LEMMA SampleIsRead ==
  ASSUME NEW st \in WireStreams, NEW one, NEW k, NEW sequence, NEW time,
         OneSample(one, st, k, sequence, time)
  PROVE  /\ Unpackable(one)
         /\ Unpack(one).stream_id = BslStreamId[st]
         /\ Unpack(one).sequence = sequence /\ Unpack(one).timestamp_ms = time
         /\ Unpack(one).payload_format = BslPayloadFormat[st]
         /\ Unpack(one).values = Measured(st, k)
PROOF
  <1> DEFINE words == BslSampleWords[st]
             n == Len(words)
             f == BslPayloadFormat[st]
             fields == UnpackedFields[f]
             wide == WordsPerValue(f)
  <1>1. Layout(st, words, n, f, fields, wide)
    BY ReadAsWritten
  <1>2. /\ one.version = 4 /\ one.message_type = 1 /\ one.sample_count = 1
        /\ one.stream_id = BslStreamId[st] /\ one.payload_format = f
        /\ one.sequence = sequence /\ one.timestamp_ms = time
        /\ one.payload_len = 2 * n /\ Len(one.payload) = n
        /\ \A j \in 1 .. n : one.payload[j] = Word(words[j], k)
    BY DEF OneSample
  <1>3. f \in DOMAIN StreamOfFormat /\ StreamOfFormat[f] = BslStreamId[st]
    BY DEF StreamOfFormat, StreamId, BslPayloadFormat, BslStreamId, WireStreams
  <1>4. SampleSizeForPayloadFormat(f) = 2 * n
    BY <1>1, Zenon DEF Layout
  <1> HIDE DEF words, n, f
  <1>5. Unpackable(one)
    BY <1>2, <1>3, <1>4 DEF Unpackable, ValidHeader, SupportedVersions
  <1>6. /\ Unpack(one).stream_id = BslStreamId[st]
        /\ Unpack(one).sequence = sequence /\ Unpack(one).timestamp_ms = time
        /\ Unpack(one).payload_format = f
    BY <1>2 DEF Unpack
  <1>7. Unpack(one).values =
          [field \in { fields[i] : i \in DOMAIN fields } |->
             one.payload[wide * (PositionOf(field, fields) - 1) + 1]]
    BY <1>2 DEF Unpack
  <1> HIDE DEF fields, wide
  <1>8. ASSUME NEW field \in { fields[i] : i \in DOMAIN fields }
        PROVE  one.payload[wide * (PositionOf(field, fields) - 1) + 1] = Word(field, k)
    <2> DEFINE p == PositionOf(field, fields)
               j == wide * (p - 1) + 1
    <2>1. p \in DOMAIN fields /\ fields[p] = field
      <3>1. \E i \in DOMAIN fields : fields[i] = field
        OBVIOUS
      <3> QED
        BY <3>1 DEF PositionOf
    <2>2. j \in 1 .. n /\ words[j] = field
      BY <1>1, <2>1, Zenon DEF Layout
    <2> HIDE DEF j
    <2> QED
      BY <1>2, <2>2 DEF j
  <1>9. { fields[i] : i \in DOMAIN fields } = { words[i] : i \in DOMAIN words }
    BY <1>1, Zenon DEF Layout
  <1>10. Unpack(one).values = Measured(st, k)
    <2>1. Measured(st, k) =
            [field \in { words[i] : i \in DOMAIN words } |-> Word(field, k)]
      BY Zenon DEF Measured, words
    <2> QED
      BY <1>7, <1>8, <1>9, <2>1
  <1> QED
    BY <1>5, <1>6, <1>10 DEF f

\* What unpack_many makes of a frame of the device: its samples, unless the last one's
\* timestamp is past the 32 bits.
LEMMA FrameIsRead ==
  ASSUME NEW st \in WireStreams, NEW count \in 1 .. 8, st = "dummy" => count = 1,
         NEW sequence \in 0 .. SeqModulus - 1, NEW time \in Nat
  PROVE  LET frame == BslFrame(st, count, sequence, time)
             got == UnpackMany(frame)
         IN  /\ (got.outcome # "ok") <=> (time + (count - 1) * BslIntervalMs[st] >= TimeModulus)
             /\ got.outcome # "ok" => got.samples = << >>
             /\ got.outcome = "ok" =>
                  /\ DOMAIN got.samples = 1 .. count /\ Len(got.samples) = count
                  /\ \A k \in 1 .. count :
                       /\ got.samples[k].stream_id = BslStreamId[st]
                       /\ got.samples[k].sequence = (sequence + k - 1) % SeqModulus
                       /\ got.samples[k].timestamp_ms = time + (k - 1) * BslIntervalMs[st]
                       /\ got.samples[k].payload_format = BslPayloadFormat[st]
                       /\ got.samples[k].values = Measured(st, k)
PROOF
  <1> DEFINE frame == BslFrame(st, count, sequence, time)
             words == BslSampleWords[st]
             n == Len(words)
             f == BslPayloadFormat[st]
             one(k) == IF frame.sample_count = 1 THEN frame ELSE SampleFrame(frame, k)
             due(k) == time + (k - 1) * BslIntervalMs[st]
             got == UnpackMany(frame)
  <1>1. n \in {2, 3, 6, 14} /\ SampleSizeForPayloadFormat(f) = 2 * n /\ f \in {1, 2, 3, 4, 5, 7}
    BY ReadAsWritten DEF Layout
  <1>2. /\ frame.version = 4 /\ frame.message_type = 1 /\ frame.payload_format = f
        /\ frame.timestamp_ms = time
        /\ frame.payload_len = 2 * n * count /\ frame.sample_count = count
        /\ frame.payload = Payload(words, n, count)
    BY FrameFields
  <1> HIDE DEF frame, n, words, f
  <1>3. Len(frame.payload) = n * count
    <2>1. n \in {2, 3, 6, 14}
      BY <1>1
    <2>2. Len(Payload(words, n, count)) = n * count
      BY <2>1, PayloadLength
    <2> QED
      BY <1>2, <2>2
  <1>4. \A k \in 1 .. count :
          OneSample(one(k), st, k, (sequence + k - 1) % SeqModulus, due(k))
    BY SampleFrames DEF frame
  <1>5. ASSUME NEW k \in 1 .. count
        PROVE  /\ Unpackable(one(k))
               /\ one(k).timestamp_ms = due(k)
               /\ Unpack(one(k)).stream_id = BslStreamId[st]
               /\ Unpack(one(k)).sequence = (sequence + k - 1) % SeqModulus
               /\ Unpack(one(k)).timestamp_ms = due(k)
               /\ Unpack(one(k)).payload_format = BslPayloadFormat[st]
               /\ Unpack(one(k)).values = Measured(st, k)
    <2> HIDE DEF one, due
    <2>1. OneSample(one(k), st, k, (sequence + k - 1) % SeqModulus, due(k))
      BY <1>4
    <2>2. one(k).timestamp_ms = due(k)
      BY <2>1 DEF OneSample
    <2> QED
      BY <2>1, <2>2, SampleIsRead
  <1>6. ReadableFrame(frame)
    <2>1. f \in PayloadFormats
      BY <1>1 DEF PayloadFormats, UnpackedFields
    <2>2. 2 * Len(frame.payload) = frame.payload_len
      BY <1>1, <1>2, <1>3, EvenShares
    <2> QED
      BY <1>2, <2>1, <2>2 DEF ReadableFrame, SupportedVersions
  <1>7. Divisible(frame)
    <2>1. (2 * n * count) % count = 0 /\ (2 * n * count) \div count = 2 * n
      BY <1>1, EvenShares
    <2> QED
      BY <1>1, <1>2, <2>1 DEF Divisible, V1Orientation
  <1>8. got = IF \E k \in 1 .. count : one(k).timestamp_ms >= TimeModulus
              THEN [outcome |-> "struct.error", samples |-> << >>]
              ELSE [outcome |-> "ok", samples |-> [k \in 1 .. count |-> Unpack(one(k))]]
    BY <1>2, <1>5, <1>6, <1>7 DEF UnpackMany
  <1>9. (\E k \in 1 .. count : one(k).timestamp_ms >= TimeModulus) <=> due(count) >= TimeModulus
    <2>1. BslIntervalMs[st] \in Nat
      BY SameIntervals
    <2>2. \A k \in 1 .. count : due(k) \in Nat /\ due(k) <= due(count)
      <3> DEFINE m == BslIntervalMs[st]
      <3>1. \A k \in 1 .. count : due(k) = time + (k - 1) * m
        OBVIOUS
      <3>2. m \in Nat
        BY <2>1
      <3> HIDE DEF m, due
      <3>3. \A k \in 1 .. count : (k - 1) * m \in Nat /\ (k - 1) * m <= (count - 1) * m
        BY <3>2
      <3>4. count \in 1 .. count
        OBVIOUS
      <3> QED
        BY <3>1, <3>3, <3>4
    <2> HIDE DEF one, due
    <2> QED
      BY <1>5, <2>2, CodecAssumption
  <1> HIDE DEF got, one, due
  <1>10. CASE due(count) >= TimeModulus
    <2>1. got = [outcome |-> "struct.error", samples |-> << >>]
      BY <1>8, <1>9, <1>10
    <2>2. got.outcome # "ok" /\ got.samples = << >>
      BY <2>1
    <2> QED
      BY <1>10, <2>2, Zenon DEF got, due, frame
  <1>11. CASE ~(due(count) >= TimeModulus)
    <2>1. got.outcome = "ok" /\ got.samples = [k \in 1 .. count |-> Unpack(one(k))]
      BY <1>8, <1>9, <1>11
    <2>2. DOMAIN got.samples = 1 .. count /\ Len(got.samples) = count
      BY <2>1
    <2>3. \A k \in 1 .. count : got.samples[k] = Unpack(one(k))
      BY <2>1
    <2> QED
      BY <1>5, <1>11, <2>1, <2>2, <2>3, Zenon DEF got, due, frame
  <1> QED
    BY <1>10, <1>11

\* A batch the firmware fills is at most eight samples, one for the streams without batches.
LEMMA BatchSizes ==
  ASSUME NEW st \in WireStreams, NEW count \in 1 .. BslMaxSampleCount(st, latency)
  PROVE  /\ count \in 1 .. 8 /\ (st = "dummy" => count = 1)
         /\ st \notin {"imu6", "orientation"} \/ latency => count = 1
         /\ st = "orientation" => count <= 4
PROOF
  <1>1. CASE st = "imu6"
    BY <1>1 DEF BslMaxSampleCount
  <1>2. CASE st = "orientation"
    BY <1>2 DEF BslMaxSampleCount
  <1>3. CASE st \notin {"imu6", "orientation"}
    BY <1>3 DEF BslMaxSampleCount
  <1> QED
    BY <1>1, <1>2, <1>3

\* Every batch fits the frame buffer and the size the capability announces.
LEMMA FramesFit ==
  ASSUME NEW st \in WireStreams, NEW count \in 1 .. BslMaxSampleCount(st, latency),
         NEW sequence, NEW time
  PROVE  LET frame == BslFrame(st, count, sequence, time)
         IN  /\ BslPacks(frame, latency)
             /\ FrameSize(frame) <= BslCapability(ready, latency).preferred_mtu
PROOF
  <1> DEFINE frame == BslFrame(st, count, sequence, time)
             n == Len(BslSampleWords[st])
  <1>1. n \in {2, 3, 6, 14}
    BY ReadAsWritten DEF Layout
  <1>2. ASSUME st = "imu6" PROVE n = 6
    <2>1. BslSampleWords[st] = ImuWords
      BY <1>2, SampleTables, Zenon
    <2> QED
      BY <2>1, LongSamples
  <1>3. /\ count \in 1 .. 8 /\ (st \notin {"imu6", "orientation"} \/ latency => count = 1)
        /\ st = "orientation" => count <= 4
    BY BatchSizes
  <1>4. /\ frame.version = 4 /\ frame.message_type = 1
        /\ frame.stream_id = BslStreamId[st] /\ frame.payload_format = BslPayloadFormat[st]
        /\ frame.payload_len = 2 * n * count /\ frame.sample_count = count
    BY <1>3, FrameFields
  <1>5. BslSampleSize(st) = 2 * n
    BY DEF BslSampleSize
  <1>6. BslMaxPayload(latency) = IF latency THEN 28 ELSE 112
    BY DEF BslMaxPayload
  <1>7. BslCapability(ready, latency).preferred_mtu = 13 + BslMaxPayload(latency)
    BY DEF BslCapability, HeaderSize
  <1> HIDE DEF frame, n
  <1>8. 2 * n * count \in 1 .. BslMaxPayload(latency)
    <2>1. CASE count = 1
      BY <1>1, <1>6, <2>1
    <2>2. CASE st = "imu6" /\ ~latency
      BY <1>2, <1>3, <1>6, <2>2
    <2>3. CASE st = "orientation" /\ ~latency
      BY <1>1, <1>3, <1>6, <2>3
    <2> QED
      BY <1>3, <2>1, <2>2, <2>3
  <1>9. BslPacks(frame, latency)
    BY <1>4, <1>5, <1>8 DEF BslPacks
  <1>10. FrameSize(frame) <= BslCapability(ready, latency).preferred_mtu
    BY <1>1, <1>3, <1>4, <1>6, <1>7, <1>8 DEF FrameSize, HeaderSize
  <1> QED
    BY <1>9, <1>10 DEF frame

\* What sending a frame leaves behind.
LEMMA SentFrameIsRead ==
  ASSUME SendFrame
  PROVE  FramesReadAsMeasured'
         /\ exchange'.kind = "frame" /\ exchange'.frame.sequence \in 0 .. SeqModulus - 1
         /\ exchange'.stream \in WireStreams
         /\ \A k \in DOMAIN exchange'.got.samples :
              /\ exchange'.got.samples[k].payload_format = BslPayloadFormat[exchange'.stream]
              /\ exchange'.got.samples[k].values = Measured(exchange'.stream, k)
              /\ exchange'.got.samples[k].sequence \in 0 .. SeqModulus - 1
              /\ exchange'.got.samples[k].timestamp_ms \in 0 .. TimeModulus - 1
PROOF
  <1>1. PICK st \in PresentStreams, sequence \in FirstSequences, time \in FirstTimes :
          \E count \in 1 .. BslMaxSampleCount(st, latency) :
            exchange' = FrameExchange(st, BslFrame(st, count, sequence, time))
    BY DEF SendFrame
  <1>2. PICK count \in 1 .. BslMaxSampleCount(st, latency) :
          exchange' = FrameExchange(st, BslFrame(st, count, sequence, time))
    BY <1>1
  <1> DEFINE frame == BslFrame(st, count, sequence, time)
             got == UnpackMany(frame)
             last == time + (count - 1) * BslIntervalMs[st]
  <1>3. st \in WireStreams
    BY DEF PresentStreams, WireStreams
  <1>4. /\ sequence \in 0 .. SeqModulus - 1 /\ time \in 0 .. TimeModulus - 1 /\ time \in Nat
    BY ExchangeAssumption, CodecAssumption
  <1>5. count \in 1 .. 8 /\ (st = "dummy" => count = 1)
    BY <1>3, BatchSizes
  <1>6. /\ (got.outcome # "ok") <=> (last >= TimeModulus)
        /\ got.outcome # "ok" => got.samples = << >>
        /\ got.outcome = "ok" =>
             /\ DOMAIN got.samples = 1 .. count /\ Len(got.samples) = count
             /\ \A k \in 1 .. count :
                  /\ got.samples[k].stream_id = BslStreamId[st]
                  /\ got.samples[k].sequence = (sequence + k - 1) % SeqModulus
                  /\ got.samples[k].timestamp_ms = time + (k - 1) * BslIntervalMs[st]
                  /\ got.samples[k].payload_format = BslPayloadFormat[st]
                  /\ got.samples[k].values = Measured(st, k)
    BY <1>3, <1>4, <1>5, FrameIsRead
  <1>7. BslPacks(frame, latency)
        /\ FrameSize(frame) <= BslCapability(ready, latency).preferred_mtu
    BY <1>3, FramesFit
  <1>8. frame.sequence = sequence /\ frame.timestamp_ms = time /\ frame.sample_count = count
    BY <1>3, <1>5, FrameFields
  <1>9. ready' = ready /\ latency' = latency
    BY DEF SendFrame, Exchanging
  <1> HIDE DEF frame, got
  <1>10. /\ exchange'.kind = "frame" /\ exchange'.stream = st /\ exchange'.frame = frame
         /\ exchange'.packed = BslPacks(frame, latency) /\ exchange'.got = got
    BY <1>2 DEF FrameExchange, frame, got
  <1>11. FramesReadAsMeasured'
    BY <1>6, <1>7, <1>8, <1>9, <1>10 DEF FramesReadAsMeasured, LastTime, Measured
  <1>12. ASSUME NEW k \in DOMAIN got.samples
         PROVE  /\ got.samples[k].payload_format = BslPayloadFormat[st]
                /\ got.samples[k].values = Measured(st, k)
                /\ got.samples[k].sequence \in 0 .. SeqModulus - 1
                /\ got.samples[k].timestamp_ms \in 0 .. TimeModulus - 1
    <2>1. got.outcome = "ok"
      <3>1. ASSUME got.samples = << >>
            PROVE  FALSE
        BY <3>1, <1>12
      <3> QED
        BY <1>6, <3>1, Zenon
    <2>2. k \in 1 .. count /\ ~(last >= TimeModulus)
      BY <1>6, <2>1, Zenon
    <2>3. /\ got.samples[k].payload_format = BslPayloadFormat[st]
          /\ got.samples[k].values = Measured(st, k)
          /\ got.samples[k].sequence = (sequence + k - 1) % SeqModulus
          /\ got.samples[k].timestamp_ms = time + (k - 1) * BslIntervalMs[st]
      BY <1>6, <2>1, <2>2
    <2> DEFINE m == BslIntervalMs[st]
    <2>4. m \in Nat
      BY <1>3, SameIntervals
    <2>5. got.samples[k].timestamp_ms = time + (k - 1) * m /\ last = time + (count - 1) * m
      BY <2>3
    <2> HIDE DEF m, last
    <2>6. (k - 1) * m \in Nat /\ (k - 1) * m <= (count - 1) * m
      BY <1>5, <2>2, <2>4
    <2>7. got.samples[k].timestamp_ms \in 0 .. TimeModulus - 1
      <3> DEFINE before == (k - 1) * m
                 all == (count - 1) * m
      <3>1. before \in Nat /\ before <= all
        BY <2>6
      <3>2. got.samples[k].timestamp_ms = time + before /\ ~(time + all >= TimeModulus)
        BY <2>2, <2>5
      <3>3. all \in Int
        BY <1>5, <2>4
      <3> HIDE DEF before, all
      <3> QED
        BY <1>4, <3>1, <3>2, <3>3, CodecAssumption
    <2>8. (sequence + k - 1) % SeqModulus \in 0 .. SeqModulus - 1
      BY <1>4, <1>5, <2>2, CodecAssumption
    <2> QED
      BY <2>3, <2>7, <2>8
  <1> QED
    BY <1>3, <1>4, <1>8, <1>10, <1>11, <1>12

\* The samples a client reads are the ones the frame was built from, for every board, build,
\* batch size, sequence number and timestamp: numbered and timed in order, each quantity
\* where it was measured, the frame within the announced size; a batch is given up exactly
\* when its last timestamp passes the 32 bits.
\* (flush_batch_state, bsl_sensor_data_pack, SensorDataPayload.unpack_many)
THEOREM SamplesAreMeasurements == Spec => []FramesReadAsMeasured
PROOF
  <1>1. Init => FramesReadAsMeasured
    BY DEF Init, None, FramesReadAsMeasured
  <1>2. FramesReadAsMeasured /\ [Next]_vars => FramesReadAsMeasured'
    <2> SUFFICES ASSUME FramesReadAsMeasured, [Next]_vars
                 PROVE  FramesReadAsMeasured'
      OBVIOUS
    <2>1. CASE SendFrame
      BY <2>1, SentFrameIsRead
    <2>2. CASE ReadStatus
      <3>1. PICK s : exchange' = StatusExchange(s)
        BY <2>2, ReadStatusServes
      <3> QED
        BY <3>1 DEF StatusExchange, FramesReadAsMeasured
    <2>3. CASE ReadCapability
      BY <2>3 DEF ReadCapability, CapabilityExchange, FramesReadAsMeasured
    <2>4. CASE WriteControl
      BY <2>4 DEF WriteControl, ControlExchange, FramesReadAsMeasured
    <2>5. CASE WriteConfig
      BY <2>5 DEF WriteConfig, ConfigExchange, FramesReadAsMeasured
    <2>6. CASE Finish
      BY <2>6 DEF Finish, None, FramesReadAsMeasured
    <2>7. CASE UNCHANGED vars
      BY <2>7 DEF vars, FramesReadAsMeasured, Measured, LastTime
    <2> QED
      BY <2>1, <2>2, <2>3, <2>4, <2>5, <2>6, <2>7 DEF Next
  <1> QED
    BY <1>1, <1>2, PTL DEF Spec

\* Every number of a frame, and of the samples read from it, fits its field.
\* (the widths of struct bsl_sensor_data, unpack_many's masking)
THEOREM NumbersFit == Spec => []TypeOK
PROOF
  <1>1. Init => TypeOK
    BY DEF Init, None, TypeOK
  <1>2. TypeOK /\ [Next]_vars => TypeOK'
    <2> SUFFICES ASSUME TypeOK, [Next]_vars
                 PROVE  TypeOK'
      OBVIOUS
    <2> DEFINE boards == ready' \subseteq OptionalSensors /\ latency' \in BOOLEAN
    <2>0. boards
      BY DEF TypeOK, Next, vars, SendFrame, ReadStatus, ReadCapability, WriteControl,
             WriteConfig, Finish, Exchanging
    <2>1. CASE SendFrame
      BY <2>0, <2>1, SentFrameIsRead DEF TypeOK
    <2>2. CASE ReadStatus
      <3>1. PICK s : exchange' = StatusExchange(s)
        BY <2>2, ReadStatusServes
      <3> QED
        BY <2>0, <3>1 DEF StatusExchange, TypeOK
    <2>3. CASE ReadCapability
      BY <2>0, <2>3 DEF ReadCapability, CapabilityExchange, TypeOK
    <2>4. CASE WriteControl
      BY <2>0, <2>4 DEF WriteControl, ControlExchange, TypeOK
    <2>5. CASE WriteConfig
      BY <2>0, <2>5 DEF WriteConfig, ConfigExchange, TypeOK
    <2>6. CASE Finish
      BY <2>0, <2>6 DEF Finish, None, TypeOK
    <2>7. CASE UNCHANGED vars
      BY <2>7 DEF vars, TypeOK
    <2> QED
      BY <2>1, <2>2, <2>3, <2>4, <2>5, <2>6, <2>7 DEF Next
  <1> QED
    BY <1>1, <1>2, PTL DEF Spec

-----------------------------------------------------------------------------
(* What is shown of a sample *)

\* A list of n different names, R.
DistinctList(s, n, R) ==
  /\ s \in Seq(Names) /\ Len(s) = n /\ n \in Nat
  /\ { s[i] : i \in 1 .. n } = R
  /\ \A i, j \in 1 .. n : s[i] = s[j] => i = j

\* Two lists without a common name make one.
LEMMA ListsConcatenate ==
  ASSUME NEW s, NEW t, NEW m, NEW n, NEW R, NEW Q,
         DistinctList(s, m, R), DistinctList(t, n, Q), R \cap Q = {}
  PROVE  DistinctList(Cat(s, t), m + n, R \cup Q)
PROOF
  <1> DEFINE u == s \o t
  <1>1. /\ s \in Seq(Names) /\ Len(s) = m /\ m \in Nat
        /\ t \in Seq(Names) /\ Len(t) = n /\ n \in Nat
    BY DEF DistinctList
  <1>2. /\ u \in Seq(Names) /\ Len(u) = m + n
        /\ \A i \in 1 .. m + n : u[i] = IF i <= m THEN s[i] ELSE t[i - m]
    BY <1>1, ConcatProperties
  <1>3. /\ \A i \in 1 .. m : s[i] \in R
        /\ \A x \in R : \E i \in 1 .. m : x = s[i]
        /\ \A i \in 1 .. n : t[i] \in Q
        /\ \A x \in Q : \E i \in 1 .. n : x = t[i]
        /\ \A i, j \in 1 .. m : s[i] = s[j] => i = j
        /\ \A i, j \in 1 .. n : t[i] = t[j] => i = j
    BY DEF DistinctList
  <1> HIDE DEF u
  <1>4. /\ \A i \in 1 .. m : u[i] = s[i]
        /\ \A i \in 1 .. n : m + i \in 1 .. m + n /\ u[m + i] = t[i]
        /\ \A i \in 1 .. m + n : i \in 1 .. m \/ (i - m \in 1 .. n /\ u[i] = t[i - m])
        /\ \A i \in 1 .. m : i \in 1 .. m + n
    BY <1>1, <1>2
  <1>5. { u[i] : i \in 1 .. m + n } = R \cup Q
    BY <1>3, <1>4
  <1>6. ASSUME NEW i \in 1 .. m + n, NEW j \in 1 .. m + n, u[i] = u[j]
        PROVE  i = j
    <2>1. CASE i \in 1 .. m /\ j \in 1 .. m
      BY <1>3, <1>4, <1>6, <2>1
    <2>2. CASE i \in 1 .. m /\ j \notin 1 .. m
      BY <1>3, <1>4, <1>6, <2>2
    <2>3. CASE i \notin 1 .. m /\ j \in 1 .. m
      BY <1>3, <1>4, <1>6, <2>3
    <2>4. CASE i \notin 1 .. m /\ j \notin 1 .. m
      <3>1. t[i - m] = t[j - m] /\ i - m \in 1 .. n /\ j - m \in 1 .. n
        BY <1>4, <1>6, <2>4
      <3> QED
        BY <1>1, <1>3, <3>1
    <2> QED
      BY <2>1, <2>2, <2>3, <2>4
  <1> QED
    BY <1>1, <1>2, <1>5, <1>6 DEF DistinctList, Cat, u

\* The names of a triple.
LEMMA TriplesAreDistinct ==
  /\ \A what \in Parts : DistinctList(PerAxis(what), 3, {what} \X XYZ)
  /\ \A filter \in Parts :
       DistinctList(PerAngle(filter), 3, {"pitch", "roll", "zenith"} \X {filter})
PROOF
  <1>1. /\ Axes[1] = "x" /\ Axes[2] = "y" /\ Axes[3] = "z"
        /\ Angles[1] = "pitch" /\ Angles[2] = "roll" /\ Angles[3] = "zenith"
    BY DEF Axes, Angles
  <1>2. ASSUME NEW s, NEW a, NEW b, NEW c, s \in Seq(Names), Len(s) = 3,
               s[1] = a, s[2] = b, s[3] = c, a # b, b # c, a # c
        PROVE  DistinctList(s, 3, {a, b, c})
    <2>1. \A i \in 1 .. 3 : i = 1 \/ i = 2 \/ i = 3
      OBVIOUS
    <2>2. { s[i] : i \in 1 .. 3 } = {a, b, c}
      BY <1>2, <2>1
    <2>3. \A i, j \in 1 .. 3 : s[i] = s[j] => i = j
      BY <1>2, <2>1
    <2> QED
      BY <1>2, <2>2, <2>3 DEF DistinctList
  <1>3. ASSUME NEW what \in Parts
        PROVE  DistinctList(PerAxis(what), 3, {what} \X XYZ)
    <2> DEFINE a == << what, "x" >>  b == << what, "y" >>  c == << what, "z" >>
    <2>1. PerAxis(what)[1] = a /\ PerAxis(what)[2] = b /\ PerAxis(what)[3] = c
      BY <1>1 DEF PerAxis
    <2>2. a # b /\ b # c /\ a # c
      OBVIOUS
    <2>3. {what} \X XYZ = {a, b, c}
      BY DEF XYZ
    <2> HIDE DEF a, b, c
    <2>4. DistinctList(PerAxis(what), 3, {a, b, c})
      BY <1>2, <2>1, <2>2, TriplesAreSequences
    <2> QED
      BY <2>3, <2>4
  <1>4. ASSUME NEW filter \in Parts
        PROVE  DistinctList(PerAngle(filter), 3, {"pitch", "roll", "zenith"} \X {filter})
    <2> DEFINE a == << "pitch", filter >>  b == << "roll", filter >>
               c == << "zenith", filter >>
    <2>1. PerAngle(filter)[1] = a /\ PerAngle(filter)[2] = b /\ PerAngle(filter)[3] = c
      BY <1>1 DEF PerAngle
    <2>2. a # b /\ b # c /\ a # c
      OBVIOUS
    <2>3. {"pitch", "roll", "zenith"} \X {filter} = {a, b, c}
      OBVIOUS
    <2> HIDE DEF a, b, c
    <2>4. DistinctList(PerAngle(filter), 3, {a, b, c})
      BY <1>2, <2>1, <2>2, TriplesAreSequences
    <2> QED
      BY <2>3, <2>4
  <1> QED
    BY <1>3, <1>4

\* The fields of every format, each once.
LEMMA FormatsAreDistinct ==
  /\ DistinctList(PerAxis("accel"), 3, {"accel"} \X XYZ)
  /\ DistinctList(PerAxis("mag"), 3, {"mag"} \X XYZ)
  /\ DistinctList(ImuWords, 6, {"accel", "gyro"} \X XYZ)
  /\ DistinctList(ThermoWords, 2, {"humidity", "temperature"} \X {""})
  /\ DistinctList(BaroWords, 1, {<< "pressure", "" >>})
  /\ DistinctList(OrientationWords, 14,
                  {"pitch", "roll", "zenith"} \X Filters
                  \cup {<< "yaw", "mahony" >>, << "accel", "norm" >>})
PROOF
  <1>1. /\ "accel" \in Parts /\ "gyro" \in Parts /\ "mag" \in Parts /\ "naive" \in Parts
        /\ "iir" \in Parts /\ "complementary" \in Parts /\ "mahony" \in Parts
        /\ "yaw" \in Parts /\ "norm" \in Parts /\ "humidity" \in Parts
        /\ "temperature" \in Parts /\ "pressure" \in Parts /\ "" \in Parts
    BY DEF Parts
  <1>2. \A p, q \in Parts : << p, q >> \in Names
    BY DEF Names
  <1>3. /\ DistinctList(PerAxis("accel"), 3, {"accel"} \X XYZ)
        /\ DistinctList(PerAxis("gyro"), 3, {"gyro"} \X XYZ)
        /\ DistinctList(PerAxis("mag"), 3, {"mag"} \X XYZ)
    BY <1>1, TriplesAreDistinct, Zenon
  <1>4. DistinctList(ImuWords, 6, {"accel", "gyro"} \X XYZ)
    <2> DEFINE R == {"accel"} \X XYZ
               Q == {"gyro"} \X XYZ
    <2>1. R \cap Q = {} /\ R \cup Q = {"accel", "gyro"} \X XYZ
      OBVIOUS
    <2>2. ImuWords = Cat(PerAxis("accel"), PerAxis("gyro"))
      BY Zenon DEF ImuWords, Cat
    <2> HIDE DEF R, Q
    <2>3. DistinctList(PerAxis("accel"), 3, R) /\ DistinctList(PerAxis("gyro"), 3, Q)
      BY <1>3 DEF R, Q
    <2>4. DistinctList(Cat(PerAxis("accel"), PerAxis("gyro")), 3 + 3, R \cup Q)
      BY <2>1, <2>3, ListsConcatenate
    <2>5. 3 + 3 = 6
      OBVIOUS
    <2> QED
      BY <2>1, <2>2, <2>4, <2>5
  <1>5. ASSUME NEW a \in Names, NEW b \in Names, a # b
        PROVE  DistinctList(<< a, b >>, 2, {a, b}) /\ DistinctList(<< a >>, 1, {a})
    <2> DEFINE s == << a, b >>
               t == << a >>
    <2>1. /\ s \in Seq(Names) /\ Len(s) = 2 /\ s[1] = a /\ s[2] = b
          /\ t \in Seq(Names) /\ Len(t) = 1 /\ t[1] = a
      OBVIOUS
    <2> HIDE DEF s, t
    <2>2. DistinctList(s, 2, {a, b})
      <3>1. \A i \in 1 .. 2 : i = 1 \/ i = 2
        OBVIOUS
      <3>2. { s[i] : i \in 1 .. 2 } = {a, b}
        BY <2>1, <3>1
      <3> QED
        BY <1>5, <2>1, <3>1, <3>2 DEF DistinctList
    <2>3. DistinctList(t, 1, {a})
      <3>1. \A i \in 1 .. 1 : i = 1
        OBVIOUS
      <3>2. { t[i] : i \in 1 .. 1 } = {a}
        BY <2>1, <3>1
      <3> QED
        BY <2>1, <3>1, <3>2 DEF DistinctList
    <2> QED
      BY <2>2, <2>3 DEF s, t
  <1>6. DistinctList(ThermoWords, 2, {"humidity", "temperature"} \X {""})
    <2> DEFINE a == << "humidity", "" >>  b == << "temperature", "" >>
    <2>1. a \in Names /\ b \in Names
      BY <1>1, <1>2, Zenon
    <2>2. a # b
      OBVIOUS
    <2>4. {"humidity", "temperature"} \X {""} = {a, b}
      <3>1. \A u : {"humidity", "temperature"} \X {u} =
                    {<< "humidity", u >>, << "temperature", u >>}
        OBVIOUS
      <3> QED
        BY <3>1, Zenon
    <2>3. ThermoWords = << a, b >>
      BY Zenon DEF ThermoWords
    <2> HIDE DEF a, b
    <2>5. DistinctList(ThermoWords, 2, {a, b})
      BY <1>5, <2>1, <2>2, <2>3
    <2> QED
      BY <2>4, <2>5, Zenon
  <1>7. DistinctList(BaroWords, 1, {<< "pressure", "" >>})
    <2> DEFINE a == << "pressure", "" >>  b == << "humidity", "" >>
    <2>1. a \in Names /\ b \in Names
      BY <1>1, <1>2, Zenon
    <2>2. a # b
      OBVIOUS
    <2>3. BaroWords = << a >>
      BY Zenon DEF BaroWords
    <2> HIDE DEF a, b
    <2>4. DistinctList(BaroWords, 1, {a})
      BY <1>5, <2>1, <2>2, <2>3
    <2> QED
      BY <2>4, Zenon DEF a
  <1>8. DistinctList(OrientationWords, 14,
                     {"pitch", "roll", "zenith"} \X Filters
                     \cup {<< "yaw", "mahony" >>, << "accel", "norm" >>})
    <2> DEFINE angles == {"pitch", "roll", "zenith"}
               a == PerAngle("naive")  b == PerAngle("iir")  c == PerAngle("complementary")
               d == PerAngle("mahony")
               x == << "yaw", "mahony" >>  y == << "accel", "norm" >>
               e == << x, y >>
               A == angles \X {"naive"}  B == angles \X {"iir"}
               C == angles \X {"complementary"}  D == angles \X {"mahony"}
    <2>1. /\ DistinctList(a, 3, A) /\ DistinctList(b, 3, B) /\ DistinctList(c, 3, C)
          /\ DistinctList(d, 3, D)
      BY <1>1, TriplesAreDistinct, Zenon
    <2>2. x # y /\ x \in Names /\ y \in Names
      <3>1. x \in Names /\ y \in Names
        BY <1>1, <1>2, Zenon
      <3>2. x # y
        OBVIOUS
      <3> QED
        BY <3>1, <3>2
    <2>3. /\ A \cap B = {} /\ (A \cup B) \cap C = {} /\ (A \cup B \cup C) \cap D = {}
          /\ (A \cup B \cup C \cup D) \cap {x, y} = {}
      OBVIOUS
    <2>4. A \cup B \cup C \cup D = angles \X Filters
      BY DEF Filters
    <2>5. OrientationWords = Cat(Cat(Cat(Cat(a, b), c), d), e)
      BY Zenon DEF OrientationWords, Cat
    <2> HIDE DEF a, b, c, d, A, B, C, D, x, y
    <2>6. DistinctList(e, 2, {x, y})
      BY <1>5, <2>2
    <2> HIDE DEF e
    <2>7. DistinctList(Cat(a, b), 3 + 3, A \cup B)
      BY <2>1, <2>3, ListsConcatenate
    <2>8. DistinctList(Cat(Cat(a, b), c), (3 + 3) + 3, A \cup B \cup C)
      BY <2>1, <2>3, <2>7, ListsConcatenate
    <2>9. DistinctList(Cat(Cat(Cat(a, b), c), d), ((3 + 3) + 3) + 3, A \cup B \cup C \cup D)
      BY <2>1, <2>3, <2>8, ListsConcatenate
    <2>10. DistinctList(Cat(Cat(Cat(Cat(a, b), c), d), e), (((3 + 3) + 3) + 3) + 2,
                        (A \cup B \cup C \cup D) \cup {x, y})
      BY <2>3, <2>6, <2>9, ListsConcatenate
    <2>11. (((3 + 3) + 3) + 3) + 2 = 14
      OBVIOUS
    <2>12. DistinctList(OrientationWords, 14, (A \cup B \cup C \cup D) \cup {x, y})
      BY <2>5, <2>10, <2>11
    <2> QED
      BY <2>4, <2>12, Zenon DEF x, y
  <1> QED
    BY <1>3, <1>4, <1>6, <1>7, <1>8, Zenon

\* The three tables of the PC, of what is read, served and printed, name the same fields.
LEMMA TablesAgree ==
  ASSUME NEW f \in {1, 2, 3, 4, 5, 7}
  PROVE  /\ PrintedFields(f) = UnpackedFields[f]
         /\ DistinctList(UnpackedFields[f], Len(UnpackedFields[f]), FieldsByPayloadFormat[f])
         /\ FieldsByPayloadFormat[f] \subseteq SampleValueFields
PROOF
  <1> DEFINE accel == {"accel"} \X XYZ
             imu == {"accel", "gyro"} \X XYZ
             thermo == {"humidity", "temperature"} \X {""}
             baro == {<< "pressure", "" >>}
             mag == {"mag"} \X XYZ
             orientation == {"pitch", "roll", "zenith"} \X Filters
                            \cup {<< "yaw", "mahony" >>, << "accel", "norm" >>}
  <1>1. PrintedFields(f) = CASE f = 7 -> OrientationWords [] f = 5 -> PerAxis("mag")
                             [] f = 4 -> BaroWords [] f = 3 -> ThermoWords
                             [] f = 2 -> ImuWords [] OTHER -> PerAxis("accel")
    BY Zenon DEF PrintedFields, OrientationWords, BaroWords, ThermoWords, ImuWords
  <1>2. FieldsByPayloadFormat =
          [g \in {1, 2, 3, 4, 5, 7} |->
             CASE g = 1 -> accel [] g = 2 -> imu [] g = 3 -> thermo [] g = 4 -> baro
               [] g = 5 -> mag [] g = 7 -> orientation]
    BY Zenon DEF FieldsByPayloadFormat
  <1>3. /\ accel \subseteq SampleValueFields /\ imu \subseteq SampleValueFields
        /\ thermo \subseteq SampleValueFields /\ baro \subseteq SampleValueFields
        /\ mag \subseteq SampleValueFields /\ orientation \subseteq SampleValueFields
    <2> DEFINE all == {"accel", "gyro", "mag"} \X XYZ
               env == {"humidity", "temperature", "pressure"} \X {""}
    <2>1. accel \subseteq all /\ imu \subseteq all /\ mag \subseteq all
      OBVIOUS
    <2>2. thermo \subseteq env /\ baro \subseteq env
      <3>1. \A u : /\ {"humidity", "temperature"} \X {u} \subseteq
                         {"humidity", "temperature", "pressure"} \X {u}
                   /\ {<< "pressure", u >>} \subseteq
                         {"humidity", "temperature", "pressure"} \X {u}
        OBVIOUS
      <3> QED
        BY <3>1, Zenon
    <2>3. SampleValueFields = all \cup env \cup orientation
      BY DEF SampleValueFields
    <2> HIDE DEF all, env, accel, imu, thermo, baro, mag, orientation
    <2> QED
      BY <2>1, <2>2, <2>3
  <1>4. /\ DistinctList(PerAxis("accel"), 3, accel) /\ DistinctList(ImuWords, 6, imu)
        /\ DistinctList(ThermoWords, 2, thermo) /\ DistinctList(BaroWords, 1, baro)
        /\ DistinctList(PerAxis("mag"), 3, mag)
        /\ DistinctList(OrientationWords, 14, orientation)
    BY FormatsAreDistinct, Zenon
  <1>5. /\ UnpackedFields[1] = PerAxis("accel") /\ UnpackedFields[2] = ImuWords
        /\ UnpackedFields[3] = ThermoWords /\ UnpackedFields[4] = BaroWords
        /\ UnpackedFields[5] = PerAxis("mag") /\ UnpackedFields[7] = OrientationWords
    BY SampleTables, Zenon
  <1>6. ASSUME NEW s, NEW n, NEW R, DistinctList(s, n, R)
        PROVE  DistinctList(s, Len(s), R)
    BY <1>6 DEF DistinctList
  <1> HIDE DEF accel, imu, thermo, baro, mag, orientation
  <1>7. CASE f = 1
    BY <1>1, <1>2, <1>3, <1>4, <1>5, <1>6, <1>7
  <1>8. CASE f = 2
    BY <1>1, <1>2, <1>3, <1>4, <1>5, <1>6, <1>8
  <1>9. CASE f = 3
    BY <1>1, <1>2, <1>3, <1>4, <1>5, <1>6, <1>9
  <1>10. CASE f = 4
    BY <1>1, <1>2, <1>3, <1>4, <1>5, <1>6, <1>10
  <1>11. CASE f = 5
    BY <1>1, <1>2, <1>3, <1>4, <1>5, <1>6, <1>11
  <1>12. CASE f = 7
    BY <1>1, <1>2, <1>3, <1>4, <1>5, <1>6, <1>12
  <1> QED
    BY <1>7, <1>8, <1>9, <1>10, <1>11, <1>12

\* The size of a list of different names.
LEMMA ListsCount ==
  ASSUME NEW s, NEW n, NEW R, DistinctList(s, n, R)
  PROVE  IsFiniteSet(R) /\ Cardinality(R) = n
PROOF
  <1>1. /\ s \in Seq(Names) /\ Len(s) = n /\ n \in Nat /\ { s[i] : i \in 1 .. n } = R
        /\ \A i, j \in 1 .. n : s[i] = s[j] => i = j
    BY DEF DistinctList
  <1>2. s \in [1 .. n -> R]
    <2>1. DOMAIN s = 1 .. n /\ s \in [1 .. n -> Names]
      BY <1>1, LenProperties
    <2> QED
      BY <1>1, <2>1
  <1>3. s \in Bijection(1 .. n, R)
    <2>1. \A x \in R : \E i \in 1 .. n : s[i] = x
      BY <1>1
    <2>2. s \in Injection(1 .. n, R)
      BY <1>1, <1>2 DEF Injection, IsInjective
    <2>3. s \in Surjection(1 .. n, R)
      BY <1>2, <2>1 DEF Surjection
    <2> QED
      BY <2>2, <2>3 DEF Bijection
  <1>4. ExistsBijection(1 .. n, R)
    BY <1>3 DEF ExistsBijection
  <1>5. IsFiniteSet(1 .. n) /\ Cardinality(1 .. n) = n
    BY <1>1, FS_Interval
  <1> QED
    BY <1>4, <1>5, FS_Bijection

\* Sample k of stream st is shown as it was measured: SamplesShownAsMeasured, one sample.
ShownSample(sample, st, k) ==
  LET measured == Measured(st, k)
      dict == SampleToDict(sample)
      line == PrintSample(sample)
  IN  /\ \A field \in SampleValueFields :
           dict[field] = IF field \in DOMAIN measured THEN measured[field] ELSE NoValue
      /\ { line[i] : i \in DOMAIN line } = { measured[field] : field \in DOMAIN measured }
      /\ Len(line) = Cardinality(DOMAIN measured)

Shown(e) ==
  e.kind = "frame" =>
    \A k \in DOMAIN e.got.samples : ShownSample(e.got.samples[k], e.stream, k)

\* The property, now and after a step, in those words.
LEMMA ShownSplits ==
  /\ SamplesShownAsMeasured <=> Shown(exchange)
  /\ SamplesShownAsMeasured' <=> Shown(exchange')
PROOF
  <1>1. SamplesShownAsMeasured <=> Shown(exchange)
    BY Zenon DEF SamplesShownAsMeasured, Shown, ShownSample
  <1>2. SamplesShownAsMeasured' <=> Shown(exchange')
    BY Zenon DEF SamplesShownAsMeasured, Shown, ShownSample
  <1> QED
    BY <1>1, <1>2

\* A sample read is shown with every quantity that was measured and nothing else.
LEMMA SampleIsShown ==
  ASSUME NEW st \in WireStreams, NEW sample, NEW k,
         sample.payload_format = BslPayloadFormat[st], sample.values = Measured(st, k)
  PROVE  ShownSample(sample, st, k)
PROOF
  <1> DEFINE words == BslSampleWords[st]
             n == Len(words)
             f == BslPayloadFormat[st]
             fields == UnpackedFields[f]
             m == Len(fields)
             R == FieldsByPayloadFormat[f]
             measured == Measured(st, k)
             line == PrintSample(sample)
  <1>1. f \in {1, 2, 3, 4, 5, 7}
    BY ReadAsWritten DEF Layout
  <1>2. { fields[i] : i \in DOMAIN fields } = { words[i] : i \in DOMAIN words }
    BY ReadAsWritten, Zenon DEF Layout
  <1>3. /\ PrintedFields(f) = fields /\ DistinctList(fields, m, R)
        /\ R \subseteq SampleValueFields
    BY <1>1, TablesAgree
  <1> HIDE DEF f, fields, m, R, words, n
  <1>4. /\ fields \in Seq(Names) /\ Len(fields) = m /\ m \in Nat
        /\ { fields[i] : i \in 1 .. m } = R
    BY <1>3 DEF DistinctList
  <1>5. DOMAIN fields = 1 .. m
    BY <1>4, LenProperties
  <1>6. DOMAIN measured = R /\ \A field \in R : measured[field] = Word(field, k)
    BY <1>2, <1>4, <1>5 DEF Measured, words
  <1>7. sample.payload_format = f /\ sample.values = measured
    BY DEF f
  <1> HIDE DEF measured
  <1>8. \A field \in R : ValueOf(sample, field) = measured[field]
    BY <1>6, <1>7 DEF ValueOf
  <1>9. \A field \in SampleValueFields :
          SampleToDict(sample)[field] =
            IF field \in DOMAIN measured THEN measured[field] ELSE NoValue
    BY <1>6, <1>7, <1>8 DEF SampleToDict, R
  <1>10. line = [i \in 1 .. m |-> ValueOf(sample, fields[i])]
    BY <1>3, <1>5, <1>7 DEF PrintSample
  <1> HIDE DEF line
  <1>11. \A i \in 1 .. m : fields[i] \in R /\ line[i] = measured[fields[i]]
    BY <1>4, <1>8, <1>10
  <1>12. { line[i] : i \in DOMAIN line } = { measured[field] : field \in DOMAIN measured }
    BY <1>4, <1>6, <1>10, <1>11
  <1>13. Len(line) = m
    <2> DEFINE S == { line[i] : i \in 1 .. m }
    <2>1. line \in [1 .. m -> S]
      BY <1>10
    <2> QED
      BY <1>4, <2>1, LengthOfFunction
  <1>14. Cardinality(DOMAIN measured) = m
    BY <1>3, <1>6, ListsCount
  <1> QED
    BY <1>9, <1>12, <1>13, <1>14 DEF ShownSample, measured, line

\* What the browser and the shell show of a sample is what was measured, quantity by
\* quantity, whatever the stream: a quantity the format lacks is null and never the zero
\* unpack fills in.  (_sample_to_dict, _print_sample)
THEOREM ShownAsMeasured == Spec => []SamplesShownAsMeasured
PROOF
  <1>1. Init => SamplesShownAsMeasured
    BY DEF Init, None, SamplesShownAsMeasured
  <1>2. SamplesShownAsMeasured /\ [Next]_vars => SamplesShownAsMeasured'
    <2> SUFFICES ASSUME Shown(exchange), [Next]_vars
                 PROVE  Shown(exchange')
      BY ShownSplits
    <2>1. CASE SendFrame
      <3> DEFINE st == exchange'.stream
                 samples == exchange'.got.samples
      <3>1. /\ st \in WireStreams
            /\ \A k \in DOMAIN samples :
                 /\ samples[k].payload_format = BslPayloadFormat[st]
                 /\ samples[k].values = Measured(st, k)
        BY <2>1, SentFrameIsRead
      <3> HIDE DEF st, samples
      <3>2. \A k \in DOMAIN samples : ShownSample(samples[k], st, k)
        BY <3>1, SampleIsShown
      <3> QED
        BY <3>2, Zenon DEF Shown, st, samples
    <2>2. CASE ReadStatus
      <3>1. PICK s : exchange' = StatusExchange(s)
        BY <2>2, ReadStatusServes
      <3> QED
        BY <3>1 DEF StatusExchange, Shown
    <2>3. CASE ReadCapability
      BY <2>3 DEF ReadCapability, CapabilityExchange, Shown
    <2>4. CASE WriteControl
      BY <2>4 DEF WriteControl, ControlExchange, Shown
    <2>5. CASE WriteConfig
      BY <2>5 DEF WriteConfig, ConfigExchange, Shown
    <2>6. CASE Finish
      BY <2>6 DEF Finish, None, Shown
    <2>7. CASE UNCHANGED vars
      BY <2>7 DEF vars
    <2> QED
      BY <2>1, <2>2, <2>3, <2>4, <2>5, <2>6, <2>7 DEF Next
  <1> QED
    BY <1>1, <1>2, PTL DEF Spec

-----------------------------------------------------------------------------
(* The capability *)

\* The streams of the entries, in the order of the array.
StreamAt == << "dummy", "imu6", "orientation", "hts221", "lps22hb", "lsm303agr_magn" >>

\* An entry describes its stream.
Describes(e, st) ==
  /\ e.stream_id = BslStreamId[st] /\ e.payload_format = BslPayloadFormat[st]
  /\ e.default_interval_ms = BslIntervalMs[st]
  /\ e.channel_count = Len(FieldMetadataByPayloadFormat[e.payload_format])
  /\ e.stream_type \in 1 .. 6 /\ e.data_type \in {1, 2} /\ e.unit \in 0 .. 3
  /\ e.payload_format \in PayloadFormats

\* The fields the browser plots of a format are the ones read of it.
LEMMA PlottedAsRead == FieldMetadataByPayloadFormat = UnpackedFields
PROOF
  BY Zenon DEF FieldMetadataByPayloadFormat, UnpackedFields

\* How many there are.
LEMMA ChannelCounts ==
  /\ Len(UnpackedFields[1]) = 3 /\ Len(UnpackedFields[2]) = 6 /\ Len(UnpackedFields[3]) = 2
  /\ Len(UnpackedFields[4]) = 1 /\ Len(UnpackedFields[5]) = 3 /\ Len(UnpackedFields[7]) = 14
PROOF
  <1>1. /\ UnpackedFields[1] = PerAxis("accel") /\ UnpackedFields[2] = ImuWords
        /\ UnpackedFields[3] = ThermoWords /\ UnpackedFields[4] = BaroWords
        /\ UnpackedFields[5] = PerAxis("mag") /\ UnpackedFields[7] = OrientationWords
    BY SampleTables, Zenon
  <1>2. /\ Len(PerAxis("accel")) = 3 /\ Len(ImuWords) = 6 /\ Len(ThermoWords) = 2
        /\ Len(BaroWords) = 1 /\ Len(PerAxis("mag")) = 3 /\ Len(OrientationWords) = 14
    BY FormatsAreDistinct, Zenon DEF DistinctList
  <1> QED
    BY <1>1, <1>2

\* Every entry describes its stream, and no two the same one.
LEMMA EntriesDescribe ==
  /\ DOMAIN BslCapabilityStreams = 1 .. 6 /\ Len(BslCapabilityStreams) = 6
  /\ \A p \in 1 .. 6 : Describes(BslCapabilityStreams[p], StreamAt[p])
  /\ \A p, q \in 1 .. 6 :
       BslCapabilityStreams[p].stream_id = BslCapabilityStreams[q].stream_id => p = q
  /\ \A p \in 1 .. 6 : StreamAt[p] \in WireStreams
PROOF
  <1> DEFINE e(p) == BslCapabilityStreams[p]
  <1>1. /\ DOMAIN BslCapabilityStreams = 1 .. 6 /\ Len(BslCapabilityStreams) = 6
        /\ e(1) = CapabilityStream(1, 1, 3, 1, 3, 1, 1, 100, 20, 10000, 0)
        /\ e(2) = CapabilityStream(10, 2, 6, 1, 0, 2, 3, 38, 38, 38, 0)
        /\ e(3) = CapabilityStream(13, 6, 14, 1, 0, 7, 3, 38, 38, 38, -2)
        /\ e(4) = CapabilityStream(30, 3, 2, 1, 0, 3, 3, 1000, 1000, 1000, -2)
        /\ e(5) = CapabilityStream(20, 4, 1, 2, 1, 4, 1, 1000, 1000, 1000, 0)
        /\ e(6) = CapabilityStream(12, 5, 3, 1, 2, 5, 1, 100, 100, 100, 0)
    BY DEF BslCapabilityStreams
  <1> HIDE DEF e
  <1>2. /\ e(1).stream_id = 1 /\ e(2).stream_id = 10 /\ e(3).stream_id = 13
        /\ e(4).stream_id = 30 /\ e(5).stream_id = 20 /\ e(6).stream_id = 12
    BY <1>1 DEF CapabilityStream
  <1>3. /\ e(1).payload_format = 1 /\ e(2).payload_format = 2 /\ e(3).payload_format = 7
        /\ e(4).payload_format = 3 /\ e(5).payload_format = 4 /\ e(6).payload_format = 5
    BY <1>1 DEF CapabilityStream
  <1>4. /\ e(1).default_interval_ms = 100 /\ e(2).default_interval_ms = 38
        /\ e(3).default_interval_ms = 38 /\ e(4).default_interval_ms = 1000
        /\ e(5).default_interval_ms = 1000 /\ e(6).default_interval_ms = 100
    BY <1>1 DEF CapabilityStream
  <1>5. /\ e(1).channel_count = 3 /\ e(2).channel_count = 6 /\ e(3).channel_count = 14
        /\ e(4).channel_count = 2 /\ e(5).channel_count = 1 /\ e(6).channel_count = 3
    BY <1>1 DEF CapabilityStream
  <1>6. \A p \in 1 .. 6 :
          e(p).stream_type \in 1 .. 6 /\ e(p).data_type \in {1, 2} /\ e(p).unit \in 0 .. 3
    BY <1>1 DEF CapabilityStream
  <1>7. /\ StreamAt[1] = "dummy" /\ StreamAt[2] = "imu6" /\ StreamAt[3] = "orientation"
        /\ StreamAt[4] = "hts221" /\ StreamAt[5] = "lps22hb"
        /\ StreamAt[6] = "lsm303agr_magn"
    BY DEF StreamAt
  <1>8. {1, 2, 3, 4, 5, 7} \subseteq PayloadFormats
    BY DEF PayloadFormats, UnpackedFields
  <1>9. \A p \in 1 .. 6 : p = 1 \/ p = 2 \/ p = 3 \/ p = 4 \/ p = 5 \/ p = 6
    OBVIOUS
  <1>10. \A p \in 1 .. 6 : e(p).stream_id = BslStreamId[StreamAt[p]]
    BY <1>2, <1>7, <1>9 DEF BslStreamId
  <1>11. \A p \in 1 .. 6 : e(p).payload_format = BslPayloadFormat[StreamAt[p]]
    BY <1>3, <1>7, <1>9 DEF BslPayloadFormat
  <1>12. \A p \in 1 .. 6 : e(p).default_interval_ms = BslIntervalMs[StreamAt[p]]
    BY <1>4, <1>7, <1>9 DEF BslIntervalMs
  <1>13. \A p \in 1 .. 6 : e(p).channel_count = Len(UnpackedFields[e(p).payload_format])
    BY <1>3, <1>5, <1>9, ChannelCounts
  <1>14. \A p \in 1 .. 6 : Describes(e(p), StreamAt[p])
    BY <1>3, <1>6, <1>8, <1>9, <1>10, <1>11, <1>12, <1>13, PlottedAsRead DEF Describes
  <1>15. \A p, q \in 1 .. 6 : e(p).stream_id = e(q).stream_id => p = q
    BY <1>2, <1>9
  <1>16. \A p \in 1 .. 6 : StreamAt[p] \in WireStreams
    BY <1>7, <1>9 DEF WireStreams
  <1> QED
    BY <1>1, <1>14, <1>15, <1>16 DEF e

\* The array is a function.
LEMMA EntriesAreAnArray ==
  BslCapabilityStreams = [i \in 1 .. 6 |-> BslCapabilityStreams[i]]
PROOF
  <1> DEFINE a == CapabilityStream(1, 1, 3, 1, 3, 1, 1, 100, 20, 10000, 0)
             b == CapabilityStream(10, 2, 6, 1, 0, 2, 3, 38, 38, 38, 0)
             c == CapabilityStream(13, 6, 14, 1, 0, 7, 3, 38, 38, 38, -2)
             d == CapabilityStream(30, 3, 2, 1, 0, 3, 3, 1000, 1000, 1000, -2)
             e == CapabilityStream(20, 4, 1, 2, 1, 4, 1, 1000, 1000, 1000, 0)
             f == CapabilityStream(12, 5, 3, 1, 2, 5, 1, 100, 100, 100, 0)
  <1>1. BslCapabilityStreams = << a, b, c, d, e, f >>
    BY Zenon DEF BslCapabilityStreams
  <1> HIDE DEF a, b, c, d, e, f
  <1>2. << a, b, c, d, e, f >> = [i \in 1 .. 6 |-> << a, b, c, d, e, f >>[i]]
    OBVIOUS
  <1> QED
    BY <1>1, <1>2, Zenon

\* Midway through the compaction: the entries of P, and no other, are at the front, each
\* once; those from `from` on are still where they were; if none was dropped none moved.
Compacting(kept, P, from) ==
  /\ kept.count \in 0 .. from - 1
  /\ DOMAIN kept.streams = 1 .. 6
  /\ P \subseteq 1 .. from - 1
  /\ \A i \in 1 .. kept.count : \E p \in P : kept.streams[i] = BslCapabilityStreams[p]
  /\ \A p \in P : \E i \in 1 .. kept.count : kept.streams[i] = BslCapabilityStreams[p]
  /\ \A i, j \in 1 .. kept.count : kept.streams[i] = kept.streams[j] => i = j
  /\ \A j \in from .. 6 : kept.streams[j] = BslCapabilityStreams[j]
  /\ kept.count = from - 1 => kept.streams = BslCapabilityStreams

\* One line of ble_service_init keeps it so.
LEMMA KeepCompacts ==
  ASSUME NEW kept, NEW P, NEW from \in 1 .. 6, NEW present \in BOOLEAN,
         Compacting(kept, P, from)
  PROVE  Compacting(Keep(kept, present, from), IF present THEN P \cup {from} ELSE P, from + 1)
PROOF
  <1> DEFINE B == BslCapabilityStreams
             c == kept.count + 1
             s == [kept.streams EXCEPT ![c] = kept.streams[from]]
  <1>1. /\ kept.count \in 0 .. from - 1 /\ DOMAIN kept.streams = 1 .. 6
        /\ P \subseteq 1 .. from - 1
        /\ \A i \in 1 .. kept.count : \E p \in P : kept.streams[i] = B[p]
        /\ \A p \in P : \E i \in 1 .. kept.count : kept.streams[i] = B[p]
        /\ \A i, j \in 1 .. kept.count : kept.streams[i] = kept.streams[j] => i = j
        /\ \A j \in from .. 6 : kept.streams[j] = B[j]
        /\ kept.count = from - 1 => kept.streams = B
    BY DEF Compacting
  <1>2. \A p, q \in 1 .. 6 : B[p] = B[q] => p = q
    BY EntriesDescribe
  <1>3. DOMAIN B = 1 .. 6
    BY EntriesDescribe
  <1> HIDE DEF B
  <1>4. CASE ~present
    <2>1. Keep(kept, present, from) = kept
      BY <1>4 DEF Keep
    <2> QED
      BY <1>1, <1>4, <2>1 DEF Compacting, B
  <1>5. CASE present
    <2>1. /\ Keep(kept, present, from).count = c
          /\ Keep(kept, present, from).streams = s
      BY <1>5 DEF Keep
    <2>2. /\ c \in 1 .. from /\ c \in 1 .. 6 /\ from \in from .. 6
          /\ kept.streams[from] = B[from]
          /\ DOMAIN s = 1 .. 6 /\ s[c] = B[from]
          /\ \A i \in 1 .. 6 : i # c => s[i] = kept.streams[i]
      BY <1>1
    <2> HIDE DEF s
    <2>3. \A i \in 1 .. c : i = c \/ (i \in 1 .. kept.count /\ i \in 1 .. 6 /\ i # c)
      BY <1>1, <2>2
    <2>4. \A i \in 1 .. kept.count : i \in 1 .. c /\ i \in 1 .. 6 /\ i # c
      BY <1>1, <2>2
    <2>5. \A i \in 1 .. c : \E p \in P \cup {from} : s[i] = B[p]
      BY <1>1, <2>2, <2>3
    <2>6. \A p \in P \cup {from} : \E i \in 1 .. c : s[i] = B[p]
      BY <1>1, <2>2, <2>4
    <2>7. \A i \in 1 .. kept.count : s[i] # s[c]
      <3>1. \A p \in P : p \in 1 .. 6 /\ p # from
        BY <1>1
      <3> QED
        BY <1>1, <1>2, <2>2, <2>4, <3>1
    <2>8. \A i, j \in 1 .. c : s[i] = s[j] => i = j
      BY <1>1, <2>2, <2>3, <2>7
    <2>9. \A j \in from + 1 .. 6 : s[j] = B[j]
      BY <1>1, <2>2
    <2>10. c = from => s = B
      <3> SUFFICES ASSUME c = from
                   PROVE  s = B
        OBVIOUS
      <3>1. kept.streams = B
        BY <1>1
      <3>2. s = [B EXCEPT ![from] = B[from]]
        BY <2>2, <3>1 DEF s
      <3>3. B = [i \in 1 .. 6 |-> B[i]]
        BY EntriesAreAnArray DEF B
      <3> QED
        BY <1>3, <3>2, <3>3
    <2>11. P \cup {from} \subseteq 1 .. (from + 1) - 1 /\ c \in 0 .. (from + 1) - 1
      BY <1>1, <2>2
    <2>12. Compacting(Keep(kept, present, from), P \cup {from}, from + 1)
      <3>1. (from + 1) - 1 = from
        OBVIOUS
      <3> HIDE DEF c
      <3> QED
        BY <2>1, <2>2, <2>5, <2>6, <2>8, <2>9, <2>10, <2>11, <3>1 DEF Compacting, B
    <2> QED
      BY <1>5, <2>12
  <1> QED
    BY <1>4, <1>5

\* The entries kept, by position.
KeptEntries ==
  {1} \cup (IF "lsm6dsl" \in ready THEN {2, 3} ELSE {})
  \cup (IF "hts221" \in ready THEN {4} ELSE {})
  \cup (IF "lps22hb" \in ready THEN {5} ELSE {})
  \cup (IF "lsm303agr_magn" \in ready THEN {6} ELSE {})

\* They are those of the streams the board sends.
LEMMA KeptArePresent ==
  ASSUME ready \subseteq OptionalSensors
  PROVE  /\ KeptEntries \subseteq 1 .. 6
         /\ \A st : st \in PresentStreams <=> \E p \in KeptEntries : st = StreamAt[p]
PROOF
  <1>1. /\ StreamAt[1] = "dummy" /\ StreamAt[2] = "imu6" /\ StreamAt[3] = "orientation"
        /\ StreamAt[4] = "hts221" /\ StreamAt[5] = "lps22hb"
        /\ StreamAt[6] = "lsm303agr_magn"
    BY DEF StreamAt
  <1>2. KeptEntries \subseteq 1 .. 6
    BY DEF KeptEntries
  <1>3. \A p : p \in KeptEntries <=>
               \/ p = 1
               \/ "lsm6dsl" \in ready /\ p \in {2, 3}
               \/ "hts221" \in ready /\ p = 4
               \/ "lps22hb" \in ready /\ p = 5
               \/ "lsm303agr_magn" \in ready /\ p = 6
    BY DEF KeptEntries
  <1>4. \A st : st \in PresentStreams <=>
                \/ st = "dummy"
                \/ "lsm6dsl" \in ready /\ st \in {"imu6", "orientation"}
                \/ "hts221" \in ready /\ st = "hts221"
                \/ "lps22hb" \in ready /\ st = "lps22hb"
                \/ "lsm303agr_magn" \in ready /\ st = "lsm303agr_magn"
    BY DEF PresentStreams, WireStreams, OptionalSensors
  <1> QED
    BY <1>1, <1>2, <1>3, <1>4

\* The array after the compaction.
LEMMA CompactedKeeps ==
  /\ Compacting(Compacted(ready), KeptEntries, 7)
  /\ ready = OptionalSensors => Compacted(ready).count = 6
PROOF
  <1> DEFINE imu == [count |-> IF "lsm6dsl" \in ready THEN 3 ELSE 1,
                     streams |-> BslCapabilityStreams]
             hts == Keep(imu, "hts221" \in ready, 4)
             lps == Keep(hts, "lps22hb" \in ready, 5)
             magn == Keep(lps, "lsm303agr_magn" \in ready, 6)
             P == {1} \cup (IF "lsm6dsl" \in ready THEN {2, 3} ELSE {})
             Q == IF "hts221" \in ready THEN P \cup {4} ELSE P
             R == IF "lps22hb" \in ready THEN Q \cup {5} ELSE Q
             S == IF "lsm303agr_magn" \in ready THEN R \cup {6} ELSE R
  <1>1. Compacted(ready) = magn
    BY Zenon DEF Compacted
  <1>2. S = KeptEntries
    BY DEF KeptEntries
  <1>3. Compacting(imu, P, 4)
    <2>1. /\ DOMAIN BslCapabilityStreams = 1 .. 6
          /\ \A p, q \in 1 .. 6 :
               BslCapabilityStreams[p] = BslCapabilityStreams[q] => p = q
      BY EntriesDescribe
    <2>2. CASE "lsm6dsl" \in ready
      <3>1. imu.count = 3 /\ imu.streams = BslCapabilityStreams /\ P = 1 .. 3
        BY <2>2
      <3> HIDE DEF imu, P
      <3> QED
        BY <2>1, <3>1 DEF Compacting
    <2>3. CASE "lsm6dsl" \notin ready
      <3>1. imu.count = 1 /\ imu.streams = BslCapabilityStreams /\ P = 1 .. 1
        BY <2>3
      <3> HIDE DEF imu, P
      <3> QED
        BY <2>1, <3>1 DEF Compacting
    <2> QED
      BY <2>2, <2>3
  <1> HIDE DEF imu, P
  <1>0. /\ ("hts221" \in ready) \in BOOLEAN /\ ("lps22hb" \in ready) \in BOOLEAN
        /\ ("lsm303agr_magn" \in ready) \in BOOLEAN
        /\ 4 \in 1 .. 6 /\ 5 \in 1 .. 6 /\ 6 \in 1 .. 6
        /\ 4 + 1 = 5 /\ 5 + 1 = 6 /\ 6 + 1 = 7
    OBVIOUS
  <1>4. Compacting(hts, Q, 4 + 1)
    BY <1>0, <1>3, KeepCompacts, Zenon
  <1> HIDE DEF hts, Q
  <1>5. Compacting(lps, R, 5 + 1)
    BY <1>0, <1>4, KeepCompacts, Zenon
  <1> HIDE DEF lps, R
  <1>6. Compacting(magn, S, 6 + 1)
    BY <1>0, <1>5, KeepCompacts, Zenon
  <1>7. ASSUME ready = OptionalSensors
        PROVE  magn.count = 6
    <2>1. /\ "lsm6dsl" \in ready /\ "hts221" \in ready /\ "lps22hb" \in ready
          /\ "lsm303agr_magn" \in ready
      BY <1>7 DEF OptionalSensors
    <2>2. imu.count = 3
      BY <2>1 DEF imu
    <2>3. hts.count = 4
      BY <2>1, <2>2 DEF hts, Keep
    <2>4. lps.count = 5
      BY <2>1, <2>3 DEF lps, Keep
    <2> QED
      BY <2>1, <2>4 DEF Keep
  <1> HIDE DEF magn, S
  <1> QED
    BY <1>0, <1>1, <1>2, <1>6, <1>7

\* The capability read, stream by stream: a list of the entries of the present streams.
LEMMA CapabilityEntries ==
  ASSUME NEW streams, streams = BslCapability(ready, latency).streams,
         ready \subseteq OptionalSensors
  PROVE  /\ \A i \in DOMAIN streams : \E st \in PresentStreams :
              st \in WireStreams /\ Describes(streams[i], st)
         /\ \A st \in PresentStreams : \E i \in DOMAIN streams : Describes(streams[i], st)
         /\ \A i, j \in DOMAIN streams : streams[i].stream_id = streams[j].stream_id => i = j
         /\ ready = OptionalSensors => streams = BslCapabilityStreams
PROOF
  <1> DEFINE B == BslCapabilityStreams
             kept == Compacted(ready)
             c == kept.count
             P == KeptEntries
             S == { kept.streams[i] : i \in 1 .. 6 }
  <1>1. /\ c \in 0 .. 6 /\ DOMAIN kept.streams = 1 .. 6
        /\ \A i \in 1 .. c : \E p \in P : kept.streams[i] = B[p]
        /\ \A p \in P : \E i \in 1 .. c : kept.streams[i] = B[p]
        /\ \A i, j \in 1 .. c : kept.streams[i] = kept.streams[j] => i = j
        /\ c = 6 => kept.streams = B
    BY CompactedKeeps DEF Compacting
  <1>2. streams = SubSeq(kept.streams, 1, c)
    BY DEF BslCapability
  <1> HIDE DEF kept, c, B, P
  <1>3. \A i \in 1 .. c : kept.streams[i] \in S
    BY <1>1
  <1>4. /\ streams \in Seq(S) /\ Len(streams) = c
        /\ \A i \in 1 .. c : streams[i] = kept.streams[i]
    <2>1. c \in Int /\ 1 \in Int /\ c - 1 + 1 = c
      BY <1>1
    <2> HIDE DEF S
    <2>2. /\ SubSeq(kept.streams, 1, c) \in Seq(S)
          /\ Len(SubSeq(kept.streams, 1, c)) = IF 1 <= c THEN c - 1 + 1 ELSE 0
          /\ \A i \in 1 .. c - 1 + 1 :
               SubSeq(kept.streams, 1, c)[i] = kept.streams[1 + i - 1]
      BY <1>3, <2>1, SubSeqProperties
    <2>3. \A i \in 1 .. c : 1 + i - 1 = i
      OBVIOUS
    <2> QED
      BY <1>1, <1>2, <2>1, <2>2, <2>3
  <1>5. DOMAIN streams = 1 .. c
    BY <1>4, LenProperties
  <1>6. /\ P \subseteq 1 .. 6
        /\ \A st : st \in PresentStreams <=> \E p \in P : st = StreamAt[p]
    BY KeptArePresent DEF P
  <1>7. /\ \A p \in 1 .. 6 : Describes(B[p], StreamAt[p]) /\ StreamAt[p] \in WireStreams
        /\ \A p, q \in 1 .. 6 : B[p].stream_id = B[q].stream_id => p = q
    BY EntriesDescribe DEF B
  <1>8. \A i \in DOMAIN streams : \E st \in PresentStreams :
          st \in WireStreams /\ Describes(streams[i], st)
    BY <1>1, <1>4, <1>5, <1>6, <1>7
  <1>9. ASSUME NEW st \in PresentStreams
        PROVE  \E i \in DOMAIN streams : Describes(streams[i], st)
    <2>1. PICK p \in P : st = StreamAt[p]
      BY <1>6
    <2>2. PICK i \in 1 .. c : kept.streams[i] = B[p]
      BY <1>1
    <2> QED
      BY <1>4, <1>5, <1>6, <1>7, <2>1, <2>2
  <1>10. ASSUME NEW i \in DOMAIN streams, NEW j \in DOMAIN streams,
                streams[i].stream_id = streams[j].stream_id
         PROVE  i = j
    <2>1. PICK p \in P : streams[i] = B[p]
      BY <1>1, <1>4, <1>5
    <2>2. PICK q \in P : streams[j] = B[q]
      BY <1>1, <1>4, <1>5
    <2>3. p = q
      BY <1>6, <1>7, <1>10, <2>1, <2>2
    <2> QED
      BY <1>1, <1>4, <1>5, <2>1, <2>2, <2>3
  <1>11. ASSUME ready = OptionalSensors
         PROVE  streams = B
    <2>1. c = 6 /\ kept.streams = B
      BY <1>1, <1>11, CompactedKeeps DEF kept, c
    <2>2. B = [i \in 1 .. 6 |-> B[i]]
      BY EntriesAreAnArray DEF B
    <2>3. streams \in [1 .. 6 -> S]
      BY <1>4, <2>1, LenProperties
    <2> QED
      BY <1>4, <2>1, <2>2, <2>3
  <1> QED
    BY <1>8, <1>9, <1>10, <1>11 DEF B

\* The PC's default is what a fully populated board serves.
LEMMA DefaultIsFull ==
  ASSUME ready = OptionalSensors, ~latency
  PROVE  BslCapability(ready, latency) = DefaultCapability
PROOF
  <1> DEFINE X == BslCapability(ready, latency).streams
             Y == << CapabilityStream(StreamId.dummy, 1, 3, 1, 3, 1, 1, 100, 20, 10000, 0),
                     CapabilityStream(StreamId.imu6, 2, 6, 1, 0, 2, 1 + 2, 38, 38, 38, 0),
                     CapabilityStream(StreamId.orientation, 6, 14, 1, 0, 7, 1 + 2,
                                      38, 38, 38, -2),
                     CapabilityStream(StreamId.hts221, 3, 2, 1, 0, 3, 1 + 2,
                                      1000, 1000, 1000, -2),
                     CapabilityStream(StreamId.lps22hb, 4, 1, 2, 1, 4, 1,
                                      1000, 1000, 1000, 0),
                     CapabilityStream(StreamId.lsm303agr_magn, 5, 3, 1, 2, 5, 1,
                                      100, 100, 100, 0) >>
  <1>1. X = BslCapabilityStreams
    BY CapabilityEntries
  <1>2. Y = BslCapabilityStreams
    <2>1. /\ StreamId.dummy = 1 /\ StreamId.imu6 = 10 /\ StreamId.orientation = 13
          /\ StreamId.hts221 = 30 /\ StreamId.lps22hb = 20 /\ StreamId.lsm303agr_magn = 12
          /\ 1 + 2 = 3
      BY DEF StreamId
    <2> QED
      BY <2>1 DEF BslCapabilityStreams
  <1>3. SampleSizeForPayloadFormat(7) = 28
    BY ChannelCounts DEF SampleSizeForPayloadFormat, WordsPerValue
  <1>4. /\ HeaderSize + BslMaxPayload(latency) = 125
        /\ HeaderSize + SampleSizeForPayloadFormat(7) * 4 = 125
    BY <1>3 DEF HeaderSize, BslMaxPayload
  <1>5. Len(BslCommands) = Len(Command)
    BY DEF BslCommands, Command
  <1>6. BslCapability(ready, latency) =
          [version |-> 4, schema_version |-> 1, supported_commands |-> 1 .. Len(BslCommands),
           preferred_mtu |-> HeaderSize + BslMaxPayload(latency), streams |-> X]
    BY Zenon DEF BslCapability
  <1>7. DefaultCapability =
          [version |-> 4, schema_version |-> 1, supported_commands |-> 1 .. Len(Command),
           preferred_mtu |-> HeaderSize + SampleSizeForPayloadFormat(7) * 4, streams |-> Y]
    BY Zenon DEF DefaultCapability
  <1>8. X = Y
    BY <1>1, <1>2
  <1> HIDE DEF X, Y
  <1> QED
    BY <1>4, <1>5, <1>6, <1>7, <1>8

\* An entry and the fields shown of it are those of stream st.
EntryOf(entry, fields, st) ==
  /\ entry.payload_format = BslPayloadFormat[st]
  /\ entry.default_interval_ms = BslIntervalMs[st]
  /\ entry.channel_count = Len(fields)
  /\ { fields[n] : n \in DOMAIN fields } = DOMAIN Measured(st, 1)

\* What a reader of the capability is told by a board with these sensors, this build and
\* these streams: CapabilityListsPresentStreams, of any exchange.
CapabilityIsWhole(e, sensors, short, present) ==
  e.kind = "capability" =>
    LET streams == e.raw.streams
    IN  /\ e.readable
        /\ sensors = OptionalSensors /\ ~short => e.raw = DefaultCapability
        /\ { streams[i].stream_id : i \in DOMAIN streams } =
             { BslStreamId[st] : st \in present }
        /\ \A i, j \in DOMAIN streams :
             streams[i].stream_id = streams[j].stream_id => i = j
        /\ \A i \in DOMAIN streams, st \in present :
             streams[i].stream_id = BslStreamId[st] =>
               EntryOf(streams[i], e.shown[i].fields, st)

\* The property, now and after a step, in those words.
LEMMA CapabilitySplits ==
  /\ CapabilityListsPresentStreams <=>
       CapabilityIsWhole(exchange, ready, latency, PresentStreams)
  /\ CapabilityListsPresentStreams' <=>
       CapabilityIsWhole(exchange', ready', latency', PresentStreams')
PROOF
  <1>1. CapabilityListsPresentStreams <=>
          CapabilityIsWhole(exchange, ready, latency, PresentStreams)
    BY Zenon DEF CapabilityListsPresentStreams, CapabilityIsWhole, EntryOf
  <1>2. CapabilityListsPresentStreams' <=>
          CapabilityIsWhole(exchange', ready', latency', PresentStreams')
    BY Zenon DEF CapabilityListsPresentStreams, CapabilityIsWhole, EntryOf
  <1> QED
    BY <1>1, <1>2

\* The fields shown of a stream are the quantities its samples carry.
LEMMA FieldsAreMeasured ==
  ASSUME NEW st \in WireStreams
  PROVE  LET fields == UnpackedFields[BslPayloadFormat[st]]
         IN  { fields[n] : n \in DOMAIN fields } = DOMAIN Measured(st, 1)
PROOF
  <1> DEFINE words == BslSampleWords[st]
             fields == UnpackedFields[BslPayloadFormat[st]]
  <1>1. { fields[i] : i \in DOMAIN fields } = { words[i] : i \in DOMAIN words }
    BY ReadAsWritten, Zenon DEF Layout
  <1>2. DOMAIN Measured(st, 1) = { words[i] : i \in DOMAIN words }
    BY DEF Measured
  <1> QED
    BY <1>1, <1>2

\* No two streams have the same id.
LEMMA IdsDiffer ==
  \A st, tt \in WireStreams : BslStreamId[st] = BslStreamId[tt] => st = tt
PROOF
  BY DEF BslStreamId, WireStreams

\* A capability that is read is so.
LEMMA CapabilityReads ==
  ASSUME NEW e, e = CapabilityExchange(BslCapability(ready, latency)),
         ready \subseteq OptionalSensors
  PROVE  CapabilityIsWhole(e, ready, latency, PresentStreams)
PROOF
  <1> DEFINE raw == BslCapability(ready, latency)
             streams == raw.streams
             shown == CapabilityToDict(raw)
  <1>1. /\ raw.version = 4 /\ raw.schema_version = 1
    BY DEF BslCapability
  <1>2. /\ \A i \in DOMAIN streams : \E st \in PresentStreams :
             st \in WireStreams /\ Describes(streams[i], st)
        /\ \A st \in PresentStreams : \E i \in DOMAIN streams : Describes(streams[i], st)
        /\ \A i, j \in DOMAIN streams : streams[i].stream_id = streams[j].stream_id => i = j
    BY CapabilityEntries
  <1>3. ASSUME NEW i \in DOMAIN streams
        PROVE  /\ streams[i].stream_type \in 1 .. 6 /\ streams[i].data_type \in {1, 2}
               /\ streams[i].unit \in 0 .. 3 /\ streams[i].payload_format \in PayloadFormats
    BY <1>2 DEF Describes
  <1>4. ReadableCapability(raw)
    BY <1>1, <1>3 DEF ReadableCapability, SupportedVersions
  <1>5. ready = OptionalSensors /\ ~latency => raw = DefaultCapability
    BY DefaultIsFull
  <1>6. { streams[i].stream_id : i \in DOMAIN streams } =
          { BslStreamId[st] : st \in PresentStreams }
    <2>1. \A i \in DOMAIN streams : \E st \in PresentStreams :
            streams[i].stream_id = BslStreamId[st]
      BY <1>2 DEF Describes
    <2>2. \A st \in PresentStreams : \E i \in DOMAIN streams :
            streams[i].stream_id = BslStreamId[st]
      BY <1>2 DEF Describes
    <2> HIDE DEF streams
    <2> QED
      BY <2>1, <2>2
  <1>7. ASSUME NEW i \in DOMAIN streams, NEW st \in PresentStreams,
               streams[i].stream_id = BslStreamId[st]
        PROVE  EntryOf(streams[i], shown[i].fields, st)
    <2>1. st \in WireStreams
      BY DEF PresentStreams, WireStreams
    <2>2. Describes(streams[i], st)
      <3>1. PICK tt \in PresentStreams : tt \in WireStreams /\ Describes(streams[i], tt)
        BY <1>2
      <3>2. BslStreamId[tt] = BslStreamId[st]
        BY <1>7, <3>1 DEF Describes
      <3> QED
        BY <2>1, <3>1, <3>2, IdsDiffer
    <2>3. shown[i].fields = UnpackedFields[streams[i].payload_format]
      BY PlottedAsRead DEF CapabilityToDict
    <2>4. /\ streams[i].payload_format = BslPayloadFormat[st]
          /\ streams[i].default_interval_ms = BslIntervalMs[st]
          /\ streams[i].channel_count = Len(UnpackedFields[streams[i].payload_format])
      BY <2>2, PlottedAsRead DEF Describes
    <2> HIDE DEF streams, shown
    <2>5. LET fields == UnpackedFields[BslPayloadFormat[st]]
          IN  { fields[n] : n \in DOMAIN fields } = DOMAIN Measured(st, 1)
      BY <2>1, FieldsAreMeasured
    <2> QED
      BY <2>3, <2>4, <2>5, Zenon DEF EntryOf
  <1> HIDE DEF raw, shown
  <1>8. /\ e.raw = raw /\ e.shown = shown /\ e.readable = ReadableCapability(raw)
    BY DEF CapabilityExchange, raw, shown
  <1>9. e.raw.streams = streams /\ e.readable
    BY <1>4, <1>8
  <1> HIDE DEF streams
  <1>10. ready = OptionalSensors /\ ~latency => e.raw = DefaultCapability
    BY <1>5, <1>8
  <1>11. { e.raw.streams[i].stream_id : i \in DOMAIN e.raw.streams } =
           { BslStreamId[st] : st \in PresentStreams }
    BY <1>6, <1>9, Zenon
  <1>12. \A i, j \in DOMAIN e.raw.streams :
           e.raw.streams[i].stream_id = e.raw.streams[j].stream_id => i = j
    BY <1>2, <1>9, Zenon
  <1>13. ASSUME NEW i \in DOMAIN e.raw.streams, NEW st \in PresentStreams,
                e.raw.streams[i].stream_id = BslStreamId[st]
         PROVE  EntryOf(e.raw.streams[i], e.shown[i].fields, st)
    <2>1. i \in DOMAIN streams /\ streams[i].stream_id = BslStreamId[st]
      BY <1>9, <1>13, Zenon
    <2>2. EntryOf(streams[i], shown[i].fields, st)
      BY <1>7, <2>1
    <2> QED
      BY <1>8, <1>9, <2>2, Zenon
  <1> QED
    BY <1>9, <1>10, <1>11, <1>12, <1>13, Zenon DEF CapabilityIsWhole

\* On any board, whatever sensors are missing, the capability lists the streams the board
\* sends and no other, each once, with its own description and the quantities its frames
\* carry.  (ble_service_init, CapabilityPayload.unpack, _capability_to_dict)
THEOREM CapabilityIsTrue == Spec => []CapabilityListsPresentStreams
PROOF
  <1> DEFINE P == CapabilityIsWhole(exchange, ready, latency, PresentStreams)
             Q == CapabilityIsWhole(exchange', ready', latency', PresentStreams')
  <1>1. Init => P
    BY DEF Init, None, CapabilityIsWhole
  <1>2. TypeOK /\ P /\ [Next]_vars => Q
    <2> SUFFICES ASSUME TypeOK, P, [Next]_vars
                 PROVE  Q
      OBVIOUS
    <2>1. CASE ReadCapability
      <3>1. /\ ready' = ready /\ latency' = latency
            /\ exchange' = CapabilityExchange(BslCapability(ready, latency))
        BY <2>1 DEF ReadCapability, Exchanging
      <3>2. PresentStreams' = PresentStreams
        BY <3>1 DEF PresentStreams
      <3>3. ready \subseteq OptionalSensors
        BY DEF TypeOK
      <3> QED
        BY <3>1, <3>2, <3>3, CapabilityReads
    <2>2. CASE ReadStatus
      <3>1. PICK s : exchange' = StatusExchange(s)
        BY <2>2, ReadStatusServes
      <3> QED
        BY <3>1 DEF StatusExchange, CapabilityIsWhole
    <2>3. CASE SendFrame
      BY <2>3 DEF SendFrame, FrameExchange, CapabilityIsWhole
    <2>4. CASE WriteControl
      BY <2>4 DEF WriteControl, ControlExchange, CapabilityIsWhole
    <2>5. CASE WriteConfig
      BY <2>5 DEF WriteConfig, ConfigExchange, CapabilityIsWhole
    <2>6. CASE Finish
      BY <2>6 DEF Finish, None, CapabilityIsWhole
    <2>7. CASE UNCHANGED vars
      <3>1. ready' = ready /\ latency' = latency /\ exchange' = exchange
        BY <2>7 DEF vars
      <3>2. PresentStreams' = PresentStreams
        BY <3>1 DEF PresentStreams
      <3> QED
        BY <3>1, <3>2, Zenon
    <2> QED
      BY <2>1, <2>2, <2>3, <2>4, <2>5, <2>6, <2>7 DEF Next
  <1>3. Init => CapabilityListsPresentStreams
    BY <1>1, CapabilitySplits
  <1>4. TypeOK /\ CapabilityListsPresentStreams /\ [Next]_vars =>
          CapabilityListsPresentStreams'
    BY <1>2, CapabilitySplits
  <1> QED
    BY <1>3, <1>4, NumbersFit, PTL DEF Spec
=============================================================================
