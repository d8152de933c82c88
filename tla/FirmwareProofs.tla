--------------------------- MODULE FirmwareProofs ---------------------------
(***************************************************************************)
(* Theorems about Firmware, for every value of its constants: first what   *)
(* holds within one thread, then what control.c and the Bluetooth          *)
(* callbacks agree on.                                                     *)
(***************************************************************************)
EXTENDS Firmware, TLAPS, FiniteSetTheorems

\* uint16_t addition stays in range.
LEMMA Add16Type ==
  ASSUME NEW a \in Nat, NEW n \in Nat
  PROVE  Add16(a, n) \in Sequences16
  BY SizeAssumption DEF Add16, Sequences16

\* Adding nothing changes nothing.
LEMMA Add16Zero ==
  ASSUME NEW a \in Sequences16
  PROVE  Add16(a, 0) = a
  BY SizeAssumption DEF Add16, Sequences16

\* Every reading of a sensor goes to streams of the board.
LEMMA StreamsOfType ==
  ASSUME NEW s \in Sensors
  PROVE  /\ StreamsOf(s) \in Seq(Streams)
         /\ \A i \in DOMAIN StreamsOf(s) : StreamsOf(s)[i] \in Streams
  <1>1. \A i \in DOMAIN StreamsOf(s) : StreamsOf(s)[i] \in Streams
    BY FirmwareAssumption
  <1>2. StreamsOf(s) = << "imu6", "orientation" >> \/ StreamsOf(s) = << s >>
    BY DEF StreamsOf
  <1>3. QED  BY <1>1, <1>2

\* The error control reports for the optional sensors is one of protocol.h.
LEMMA FirstOptionalSensorErrorType == FirstOptionalSensorError \in Errors
  BY DEF FirstOptionalSensorError, SensorError, Errors, SensorErrors

LEMMA EventTypes ==
  /\ ConnectedEvent \in Event /\ DisconnectedEvent \in Event
  /\ \A c \in Commands : CommandEvent(c) \in Event
  /\ \A c \in Configs : ConfigEvent(c) \in Event
  BY DEF Event

LEMMA ParamTypes ==
  /\ InitialStatus \in Status
  /\ \A c \in Configs \cup {DefaultConfig} : c.op \in ConfigOps /\ c.value \in ParamValues
  BY FirmwareAssumption, FirstOptionalSensorErrorType
     DEF InitialStatus, Status, ParamValues, ConfigOps

-----------------------------------------------------------------------------
(* What the buffer operations and the sending of frames return *)

LEMMA BatchTypes ==
  ASSUME NEW b \in Batch, NEW sample \in Sample, NEW st \in Streams
  PROVE  /\ EmptyBatch \in Batch
         /\ StartBatch(sample) \in Batch
         /\ AppendSample(b, sample) \in Batch
         /\ ClearBatch(b) \in Batch
         /\ FrameOf(st, b) \in Frame
         /\ SingleFrame(sample) \in Frame
  <1> USE DEF Batch
  <1>1. SampleSize[sample.stream] \in Nat /\ SampleSize[st] \in Nat
    BY SizeAssumption DEF Sample
  <1>2. 0 \in Sequences16
    BY SizeAssumption DEF Sequences16
  <1>3. EmptyBatch \in Batch
    BY <1>2 DEF EmptyBatch
  <1>4. StartBatch(sample) \in Batch
    BY <1>1 DEF StartBatch, Sample
  <1>5. AppendSample(b, sample) \in Batch
    <2>1. Append(b.payload, sample) \in Seq(Sample)
      OBVIOUS
    <2>2. QED  BY <1>1, <2>1 DEF AppendSample
  <1>6. ClearBatch(b) \in Batch
    BY DEF ClearBatch
  <1>7. FrameOf(st, b) \in Frame
    BY DEF FrameOf, Frame
  <1>8. SingleFrame(sample) \in Frame
    BY <1>1 DEF SingleFrame, Frame, Sample
  <1>9. QED  BY <1>3, <1>4, <1>5, <1>6, <1>7, <1>8

\* Sending a set of well-typed frames keeps the types of what it assigns.
LEMMA NotifyType ==
  ASSUME NEW frames \in SUBSET Frame, TypeOK, NotifyPackedSample(frames)
  PROVE  notified' \subseteq Frame /\ settled' \in [Streams -> Nat]
  <1>1. notified' \subseteq Frame
    BY DEF NotifyPackedSample
  <1>2. ASSUME NEW st \in Streams
        PROVE  (IF \E f \in frames : f.stream = st
                THEN Len(FrameIn(frames, st).payload) ELSE 0) \in Nat
    <2>1. CASE \E f \in frames : f.stream = st
      <3>1. FrameIn(frames, st) \in frames
        BY <2>1 DEF FrameIn
      <3>2. FrameIn(frames, st).payload \in Seq(Sample)
        BY <3>1 DEF Frame
      <3>3. QED  BY <2>1, <3>2
    <2>2. CASE ~(\E f \in frames : f.stream = st)
      BY <2>2
    <2>3. QED  BY <2>1, <2>2
  <1>3. settled' \in [Streams -> Nat]
    BY <1>2 DEF NotifyPackedSample, TypeOK
  <1>4. QED  BY <1>1, <1>3

\* Whatever was sent, the served last_error is one of protocol.h's.
LEMMA LastErrorType ==
  ASSUME NEW frames, TypeOK
  PROVE  [current_status EXCEPT !.last_error = LastErrorAfter(frames)] \in Status
  BY DEF TypeOK, Status, LastErrorAfter, Errors

LEMMA FlushAllType ==
  ASSUME TypeOK, FlushAllBatches
  PROVE  /\ notified' \subseteq Frame
         /\ settled' \in [Streams -> Nat]
         /\ batch' \in [BatchedStreams -> Batch]
  <1> DEFINE frames == { FrameOf(st, batch[st]) : st \in ActiveStreams }
  <1>1. frames \subseteq Frame
    BY SizeAssumption DEF ActiveStreams, TypeOK, FrameOf, Frame, Batch
  <1>2. NotifyPackedSample(frames)
    BY DEF FlushAllBatches
  <1>3. batch' \in [BatchedStreams -> Batch]
    <2>1. \A st \in BatchedStreams : batch[st] \in Batch /\ ClearBatch(batch[st]) \in Batch
      BY DEF TypeOK, ClearBatch, Batch
    <2>2. QED  BY <2>1 DEF FlushAllBatches
  <1>4. QED  BY <1>1, <1>2, <1>3, NotifyType

LEMMA EnqueueType ==
  ASSUME TypeOK, NEW sample \in Sample, EnqueueSample(sample)
  PROVE  /\ notified' \subseteq Frame
         /\ settled' \in [Streams -> Nat]
         /\ batch' \in [BatchedStreams -> Batch]
         /\ flush_work' \in BOOLEAN
         /\ current_status' \in Status
  <1> DEFINE st  == sample.stream
             res == IF st \in BatchedStreams THEN Enqueued(batch[st], sample)
                    ELSE [frames |-> { SingleFrame(sample) }]
  <1>1. st \in Streams
    BY DEF Sample
  <1>2. res.frames \subseteq Frame /\ (st \in BatchedStreams => res.batch \in Batch)
    <2>1. CASE st \in BatchedStreams
      <3>1. batch[st] \in Batch
        BY <2>1 DEF TypeOK
      <3>2. /\ StartBatch(sample) \in Batch
            /\ AppendSample(batch[st], sample) \in Batch
            /\ FrameOf(st, batch[st]) \in Frame
        BY <1>1, <3>1, BatchTypes
      <3>3. /\ ClearBatch(AppendSample(batch[st], sample)) \in Batch
            /\ FrameOf(st, AppendSample(batch[st], sample)) \in Frame
        BY <1>1, <3>2, BatchTypes
      <3>4. QED  BY <2>1, <3>1, <3>2, <3>3 DEF Enqueued
    <2>2. CASE st \notin BatchedStreams
      <3>1. SingleFrame(sample) \in Frame
        BY SizeAssumption, <1>1 DEF SingleFrame, Frame, Sample
      <3>2. QED  BY <2>2, <3>1
    <2>3. QED  BY <2>1, <2>2
  <1>3. NotifyPackedSample(res.frames)
    BY DEF EnqueueSample
  <1>4. notified' \subseteq Frame /\ settled' \in [Streams -> Nat]
    <2> HIDE DEF res
    <2>1. QED  BY <1>2, <1>3, NotifyType
  <1>5. current_status' \in Status
    BY LastErrorType DEF EnqueueSample
  <1>6. batch' \in [BatchedStreams -> Batch] /\ flush_work' \in BOOLEAN
    <2>1. CASE st \in BatchedStreams
      <3>1. batch' = [batch EXCEPT ![st] = res.batch] /\ flush_work' = TRUE
        BY <2>1 DEF EnqueueSample
      <3> HIDE DEF res
      <3>2. QED  BY <1>2, <2>1, <3>1 DEF TypeOK
    <2>2. CASE st \notin BatchedStreams
      BY <2>2 DEF EnqueueSample, TypeOK
    <2>3. QED  BY <2>1, <2>2
  <1>7. QED  BY <1>4, <1>5, <1>6

\* Handling the head event leaves a well-typed queue.
LEMMA HeadIsType ==
  ASSUME TypeOK, NEW e, HeadIs(e)
  PROVE  /\ e \in Event
         /\ events' \in Seq(Event)
  BY DEF HeadIs, TypeOK

LEMMA SubmitType ==
  ASSUME TypeOK, NEW es \in Seq(Event), Submit(es)
  PROVE  events' \in Seq(Event)
  BY DEF Submit, TypeOK

LEMMA SubmitOneType ==
  ASSUME TypeOK, NEW e \in Event, Submit(<< e >>)
  PROVE  events' \in Seq(Event)
  <1>1. << e >> \in Seq(Event)
    OBVIOUS
  <1>2. QED  BY <1>1, SubmitType

\* Updating one field of a served or kept status keeps its type.
LEMMA StatusUpdateType ==
  ASSUME NEW st \in Status
  PROVE  /\ \A e \in Errors : [st EXCEPT !.last_error = e] \in Status
         /\ [st EXCEPT !.connection_count = @ + 1] \in Status
  <1>1. \A e \in Errors : [st EXCEPT !.last_error = e] \in Status
    BY DEF Status
  <1>2. [st EXCEPT !.connection_count = @ + 1] \in Status
    <2>1. st.connection_count + 1 \in Nat
      BY DEF Status
    <2>2. QED  BY <2>1 DEF Status
  <1>3. QED  BY <1>1, <1>2

LEMMA IntervalUpdateType ==
  ASSUME NEW st \in Status, NEW v \in ParamValues, NEW e \in Errors
  PROVE  [st EXCEPT !.sample_interval_ms = v, !.last_error = e] \in Status
  BY DEF Status

-----------------------------------------------------------------------------
(* Type correctness *)

LEMMA InitType == Init => TypeOK
  <1> SUFFICES ASSUME Init PROVE TypeOK
    OBVIOUS
  <1>1. batch \in [BatchedStreams -> Batch]
    BY SizeAssumption DEF Init, Batch, EmptyBatch, Sequences16
  <1>2. params \in [ConfigOps -> ParamValues]
    <2>1. \A op \in ConfigOps : DefaultParams[op] \in ParamValues
      BY DEF ParamValues
    <2>2. QED  BY <2>1, FirmwareAssumption DEF Init, ConfigOps
  <1>3. status \in Status /\ current_status \in Status
    BY ParamTypes DEF Init
  <1>4. /\ running \in [Sensors -> BOOLEAN]
        /\ sample_work \in [Sensors -> BOOLEAN]
        /\ sequence \in [Sensors -> Sequences16]
        /\ ticks \in [Sensors -> Nat]
        /\ settled \in [Streams -> Nat]
    BY SizeAssumption DEF Init, Sequences16
  <1>5. events \in Seq(Event) /\ notified \subseteq Frame
        /\ writes \in Nat /\ connections \in Nat
    BY DEF Init
  <1>6. /\ gyro_force \in BOOLEAN /\ current_conn \in BOOLEAN
        /\ notify_enabled \in BOOLEAN /\ flush_work \in BOOLEAN /\ adv_work \in BOOLEAN
        /\ radio \in {"idle", "advertising", "connected"}
        /\ current_config \in Configs \cup {DefaultConfig}
    BY DEF Init
  <1>7. QED  BY <1>1, <1>2, <1>3, <1>4, <1>5, <1>6 DEF TypeOK

\* Every step keeps the types.
LEMMA NextType == TypeOK /\ [Next]_vars => TypeOK'
  <1> SUFFICES ASSUME TypeOK, [Next]_vars PROVE TypeOK'
    OBVIOUS
  <1> USE DEF controlVars, statusVars, connVars, batchVars, countVars
  <1>1. CASE HandleStart
    <2>1. events' \in Seq(Event)
      BY <1>1, HeadIsType DEF HandleStart
    <2>2. status' \in Status /\ current_status' \in Status
      BY <1>1, FirstOptionalSensorErrorType DEF HandleStart, PublishStatus, TypeOK, Status
    <2>3. QED  BY <1>1, <2>1, <2>2 DEF HandleStart, StartSensors, NoNotification, TypeOK
  <1>2. CASE HandleStop
    <2>1. events' \in Seq(Event)
      BY <1>2, HeadIsType DEF HandleStop
    <2>2. status' \in Status /\ current_status' \in Status
      BY <1>2, FirstOptionalSensorErrorType DEF HandleStop, PublishStatus, TypeOK, Status
    <2>3. QED
      BY <1>2, <2>1, <2>2, FlushAllType DEF HandleStop, StopSensors, FlushSamples, TypeOK
  <1>3. CASE HandleRequestStatus
    <2>1. events' \in Seq(Event)
      BY <1>3, HeadIsType DEF HandleRequestStatus
    <2>2. QED
      BY <1>3, <2>1 DEF HandleRequestStatus, PublishStatus, NoNotification, TypeOK
  <1>4. CASE HandleResetSequence
    <2>1. events' \in Seq(Event)
      BY <1>4, HeadIsType DEF HandleResetSequence
    <2>2. sequence' \in [Sensors -> Sequences16]
      BY <1>4, SizeAssumption DEF HandleResetSequence, Sequences16
    <2>3. QED
      BY <1>4, <2>1, <2>2 DEF HandleResetSequence, PublishStatus, NoNotification, TypeOK
  <1>5. CASE HandleForceGyroCalib
    <2>1. events' \in Seq(Event)
      BY <1>5, HeadIsType DEF HandleForceGyroCalib
    <2>2. QED
      BY <1>5, <2>1 DEF HandleForceGyroCalib, PublishStatus, NoNotification, TypeOK
  <1>6. ASSUME NEW c \in Configs, HandleConfig(c) PROVE TypeOK'
    <2>1. events' \in Seq(Event)
      BY <1>6, HeadIsType DEF HandleConfig
    <2>2. c.op \in ConfigOps /\ c.value \in ParamValues
      BY ParamTypes
    <2>3. params' \in [ConfigOps -> ParamValues]
      BY <1>6, <2>2 DEF HandleConfig, TypeOK
    <2>6. (IF c.op = "SET_STREAM_INTERVAL" THEN c.value
           ELSE status.sample_interval_ms) \in ParamValues
      BY <2>2 DEF TypeOK, Status
    <2>4. status' \in Status /\ current_status' \in Status
      <3> DEFINE interval == IF c.op = "SET_STREAM_INTERVAL" THEN c.value
                             ELSE status.sample_interval_ms
      <3>1. /\ status' = [status EXCEPT !.sample_interval_ms = interval,
                                        !.last_error = FirstOptionalSensorError]
            /\ current_status' = status'
        BY <1>6 DEF HandleConfig, PublishStatus
      <3>2. interval \in ParamValues /\ status \in Status
        BY <2>6 DEF TypeOK
      <3> HIDE DEF interval
      <3>3. [status EXCEPT !.sample_interval_ms = interval,
                           !.last_error = FirstOptionalSensorError] \in Status
        BY <3>2, FirstOptionalSensorErrorType, IntervalUpdateType
      <3>4. QED  BY <3>1, <3>3
    <2>5. QED  BY <1>6, <2>1, <2>3, <2>4 DEF HandleConfig, NoNotification, TypeOK
  <1>7. CASE HandleConnected
    <2>1. events' \in Seq(Event)
      BY <1>7, HeadIsType DEF HandleConnected
    <2>2. status' \in Status /\ current_status' \in Status
      BY <1>7, StatusUpdateType DEF HandleConnected, PublishStatus, TypeOK
    <2>3. QED  BY <1>7, <2>1, <2>2 DEF HandleConnected, NoNotification, TypeOK
  <1>8. CASE HandleDisconnected
    <2>1. events' \in Seq(Event)
      BY <1>8, HeadIsType DEF HandleDisconnected
    <2>2. status' \in Status /\ current_status' \in Status
      BY <1>8 DEF HandleDisconnected, PublishStatus, TypeOK, Status
    <2>3. QED
      BY <1>8, <2>1, <2>2, FlushAllType DEF HandleDisconnected, StopSensors, FlushSamples, TypeOK
  <1>9. CASE HandleSample
    <2>1. events' \in Seq(Event) /\ Head(events) \in Event
      BY <1>9, HeadIsType DEF HandleSample
    <2>2. Head(events).sample \in Sample
      BY <1>9, <2>1 DEF HandleSample, Event, CommandEvent, ConfigEvent, ConnectedEvent, DisconnectedEvent
    <2>3. EnqueueSample(Head(events).sample)
      BY <1>9 DEF HandleSample
    <2>4. QED  BY <1>9, <2>1, <2>2, <2>3, EnqueueType DEF HandleSample, TypeOK
  <1>10. ASSUME NEW s \in Sensors, SampleWork(s) PROVE TypeOK'
    <2>1. SampleEvents(s) \in Seq(Event)
      <3>1. \A i \in DOMAIN StreamsOf(s) : SampleEvents(s)[i] \in Event
        BY StreamsOfType DEF SampleEvents, SampleEvent, Event, Sample, TypeOK
      <3>2. \E n \in Nat : DOMAIN StreamsOf(s) = 1 .. n
        BY StreamsOfType
      <3>3. QED  BY <3>1, <3>2 DEF SampleEvents
    <2>2. events' \in Seq(Event)
      BY <1>10, <2>1, SubmitType DEF SampleWork, TypeOK
    <2>3. sequence' \in [Sensors -> Sequences16]
      <3>1. Add16(sequence[s], 1) \in Sequences16
        <4>1. sequence[s] \in Nat
          BY SizeAssumption DEF TypeOK, Sequences16
        <4>2. QED  BY <4>1, Add16Type
      <3>2. QED  BY <1>10, <3>1 DEF SampleWork, TypeOK
    <2>4. gyro_force' \in BOOLEAN
      BY <1>10 DEF SampleWork, TypeOK
    <2>7. ticks' \in [Sensors -> Nat]
      BY <1>10 DEF SampleWork, TypeOK
    <2>5. sample_work' \in [Sensors -> BOOLEAN]
      BY <1>10 DEF SampleWork, TypeOK
    <2>6. QED
      BY <1>10, <2>2, <2>3, <2>4, <2>5, <2>7 DEF SampleWork, NoNotification, TypeOK
  <1>11. CASE BatchFlushWork
    <2>1. current_status' \in Status
      BY <1>11, LastErrorType DEF BatchFlushWork
    <2>2. QED  BY <1>11, <2>1, FlushAllType DEF BatchFlushWork, TypeOK
  <1>12. CASE AdvertisingStarts
    BY <1>12 DEF AdvertisingStarts, NoNotification, TypeOK
  <1>13. CASE AdvertisingFails
    BY <1>13 DEF AdvertisingFails, NoNotification, TypeOK
  <1>14. CASE Connected
    <2>1. events' \in Seq(Event)
      BY <1>14, SubmitOneType, EventTypes DEF Connected
    <2>2. current_status' \in Status
      BY <1>14, StatusUpdateType DEF Connected, TypeOK
    <2>3. QED  BY <1>14, <2>1, <2>2 DEF Connected, NoNotification, TypeOK
  <1>15. CASE ConnectionFailed
    BY <1>15 DEF ConnectionFailed, NoNotification, TypeOK
  <1>16. CASE Disconnected
    <2>1. events' \in Seq(Event)
      BY <1>16, SubmitOneType, EventTypes DEF Disconnected
    <2>2. batch' \in [BatchedStreams -> Batch]
      BY <1>16 DEF Disconnected, DropBatches, TypeOK, ClearBatch, Batch
    <2>3. settled' \in [Streams -> Nat]
      BY <1>16 DEF Disconnected, DropBatches, TypeOK, Batch
    <2>4. QED  BY <1>16, <2>1, <2>2, <2>3 DEF Disconnected, DropBatches, TypeOK
  <1>17. ASSUME NEW value \in BOOLEAN, SensorCccChanged(value) PROVE TypeOK'
    BY <1>17 DEF SensorCccChanged, NoNotification, TypeOK
  <1>18. ASSUME NEW c \in Commands, WriteControl(c) PROVE TypeOK'
    <2>1. events' \in Seq(Event)
      BY <1>18, SubmitOneType, EventTypes DEF WriteControl
    <2>2. QED  BY <1>18, <2>1 DEF WriteControl, Write, NoNotification, TypeOK
  <1>19. ASSUME NEW e \in BadWrites, WriteControlRejected(e) PROVE TypeOK'
    <2>1. current_status' \in Status
      BY <1>19, FirmwareAssumption DEF WriteControlRejected, TypeOK, Status, Errors
    <2>2. QED  BY <1>19, <2>1 DEF WriteControlRejected, Write, NoNotification, TypeOK
  <1>20. ASSUME NEW c \in Configs, WriteConfig(c) PROVE TypeOK'
    <2>1. events' \in Seq(Event)
      BY <1>20, SubmitOneType, EventTypes DEF WriteConfig
    <2>2. QED  BY <1>20, <2>1 DEF WriteConfig, Write, NoNotification, TypeOK
  <1>21. CASE WriteConfigRejected
    <2>1. current_status' \in Status
      BY <1>21 DEF WriteConfigRejected, TypeOK, Status, Errors, WriteErrors
    <2>2. QED  BY <1>21, <2>1 DEF WriteConfigRejected, Write, NoNotification, TypeOK
  <1>22. CASE UNCHANGED vars
    BY <1>22 DEF vars, TypeOK
  <1>23. QED
    BY <1>1, <1>2, <1>3, <1>4, <1>5, <1>6, <1>7, <1>8, <1>9, <1>10, <1>11, <1>12,
       <1>13, <1>14, <1>15, <1>16, <1>17, <1>18, <1>19, <1>20, <1>21, <1>22
       DEF Next, ProcessEvent, BluetoothCallback

\* Every variable of the firmware keeps its type in every reachable state,
\* for every board, batch size and sequence space.
THEOREM TypeCorrect == Spec => []TypeOK
  <1>1. QED  BY InitType, NextType, PTL DEF Spec

-----------------------------------------------------------------------------
(* The batch buffers *)

\* A buffer restarted with a sample describes that sample.
LEMMA StartConsistent ==
  ASSUME NEW sample \in Sample
  PROVE  Consistent(sample.stream, StartBatch(sample))
  <1>1. sample.stream \in Streams /\ sample.sequence \in Sequences16
    BY DEF Sample
  <1>2. Add16(sample.sequence, 0) = sample.sequence
    BY <1>1, Add16Zero
  <1>3. /\ SampleSize[sample.stream] \in Nat
        /\ MaxBatch[sample.stream] \in Nat /\ MaxBatch[sample.stream] # 0
    BY <1>1, SizeAssumption
  <1>4. NumberedFrom(sample.sequence, sample.stream, << sample >>)
    BY <1>2 DEF NumberedFrom
  <1>5. QED  BY <1>3, <1>4 DEF Consistent, StartBatch

\* Extending a buffer that need not restart keeps it consistent: the guards of
\* ble_service_enqueue_sample are strong enough.
LEMMA AppendConsistent ==
  ASSUME NEW b \in Batch, NEW sample \in Sample,
         Consistent(sample.stream, b), b.active, ~MustRestart(b, sample)
  PROVE  Consistent(sample.stream, AppendSample(b, sample))
  <1> DEFINE st == sample.stream
             n  == b.sample_count
             a  == AppendSample(b, sample)
  <1>1. /\ n \in Nat /\ b.payload \in Seq(Sample) /\ n = Len(b.payload)
        /\ b.payload_len = SampleSize[st] * n
        /\ NumberedFrom(b.first_sequence, st, b.payload)
    BY DEF Batch, Consistent
  <1>2. SampleSize[st] \in Nat /\ MaxBatch[st] \in Nat
    BY SizeAssumption DEF Sample
  <1>3. n < MaxBatch[st] /\ sample.sequence = Add16(b.first_sequence, n)
    BY <1>1, <1>2 DEF MustRestart
  <1>4. /\ a.sample_count = n + 1 /\ a.active = b.active
        /\ a.payload = Append(b.payload, sample)
        /\ a.payload_len = SampleSize[st] * n + SampleSize[st]
        /\ a.first_sequence = b.first_sequence
    BY <1>1 DEF AppendSample
  <1>5. SampleSize[st] * (n + 1) = SampleSize[st] * n + SampleSize[st]
    BY <1>1, <1>2
  <1>6. NumberedFrom(b.first_sequence, st, Append(b.payload, sample))
    <2> SUFFICES ASSUME NEW i \in 1 .. (n + 1)
                 PROVE  /\ Append(b.payload, sample)[i].stream = st
                        /\ Append(b.payload, sample)[i].sequence = Add16(b.first_sequence, i - 1)
      BY <1>1 DEF NumberedFrom
    <2>1. CASE i = n + 1
      <3>1. Append(b.payload, sample)[i] = sample /\ i - 1 = n
        BY <1>1, <2>1
      <3>2. QED  BY <1>3, <3>1
    <2>2. CASE i \in 1 .. n
      <3>1. Append(b.payload, sample)[i] = b.payload[i] /\ i \in DOMAIN b.payload
        BY <1>1, <2>2
      <3>2. QED  BY <1>1, <3>1 DEF NumberedFrom
    <2>3. QED  BY <1>1, <2>1, <2>2
  <1>7. Len(a.payload) = n + 1
    BY <1>1, <1>4
  <1>8. QED
    <2>1. a.active <=> a.sample_count > 0
      BY <1>1, <1>4
    <2>2. a.sample_count <= MaxBatch[st]
      BY <1>1, <1>2, <1>3, <1>4
    <2>3. a.sample_count = Len(a.payload) /\ a.payload_len = SampleSize[st] * a.sample_count
      BY <1>4, <1>5, <1>7
    <2>4. NumberedFrom(a.first_sequence, st, a.payload)
      BY <1>4, <1>6
    <2>5. QED  BY <2>1, <2>2, <2>3, <2>4 DEF Consistent

\* An emptied buffer is consistent.
LEMMA ClearConsistent ==
  ASSUME NEW st \in Streams, NEW b
  PROVE  Consistent(st, ClearBatch(b))
  BY SizeAssumption DEF Consistent, ClearBatch, NumberedFrom

\* The notification built from a consistent buffer can be decoded.
LEMMA FrameDecodable ==
  ASSUME NEW st, NEW b, Consistent(st, b)
  PROVE  Decodable(FrameOf(st, b))
  BY DEF Consistent, Decodable, FrameOf

\* What holds of the buffers, the flush work and the frames just sent.
BatchInv == BatchConsistent /\ ActiveBatchWillFlush /\ NotifiedDecodable

LEMMA FlushAllConsistent ==
  ASSUME TypeOK, BatchConsistent, FlushAllBatches
  PROVE  /\ BatchConsistent' /\ NotifiedDecodable'
         /\ \A st \in BatchedStreams : ~batch'[st].active
  <1>1. ASSUME NEW st \in BatchedStreams
        PROVE  Consistent(st, batch'[st]) /\ ~batch'[st].active
    <2>1. CASE batch[st].active
      <3>1. batch'[st] = ClearBatch(batch[st])
        BY <2>1 DEF FlushAllBatches
      <3>2. st \in Streams
        BY SizeAssumption
      <3>3. QED  BY <3>1, <3>2, ClearConsistent DEF ClearBatch
    <2>2. CASE ~batch[st].active
      <3>1. batch'[st] = batch[st]
        BY <2>2 DEF FlushAllBatches
      <3>2. QED  BY <2>2, <3>1 DEF BatchConsistent
    <2>3. QED  BY <2>1, <2>2
  <1>2. NotifiedDecodable'
    <2>1. notified' \subseteq { FrameOf(st, batch[st]) : st \in ActiveStreams }
      BY DEF FlushAllBatches, NotifyPackedSample
    <2>2. \A st \in ActiveStreams : Decodable(FrameOf(st, batch[st]))
      BY FrameDecodable DEF ActiveStreams, BatchConsistent
    <2>3. QED  BY <2>1, <2>2 DEF NotifiedDecodable
  <1>3. QED  BY <1>1, <1>2 DEF BatchConsistent

LEMMA EnqueueConsistent ==
  ASSUME TypeOK, BatchInv, NEW sample \in Sample, EnqueueSample(sample)
  PROVE  BatchInv'
  <1> DEFINE st  == sample.stream
             res == IF st \in BatchedStreams THEN Enqueued(batch[st], sample)
                    ELSE [frames |-> { SingleFrame(sample) }]
  <1>1. st \in Streams
    BY DEF Sample
  <1>2. notified' \subseteq res.frames
    BY DEF EnqueueSample, NotifyPackedSample
  <1>3. CASE st \in BatchedStreams
    <2> DEFINE b == batch[st]
               x == AppendSample(b, sample)
    <2>1. b \in Batch /\ Consistent(st, b)
      BY <1>3 DEF TypeOK, BatchInv, BatchConsistent
    <2>2. res = Enqueued(b, sample)
      BY <1>3
    <2>3. Consistent(st, res.batch) /\ \A f \in res.frames : Decodable(f)
      <3>1. Consistent(st, StartBatch(sample))
        BY StartConsistent
      <3>2. CASE ~b.active
        BY <2>2, <3>1, <3>2 DEF Enqueued
      <3>3. CASE b.active /\ MustRestart(b, sample)
        <4>1. Decodable(FrameOf(st, b))
          BY <2>1, FrameDecodable
        <4>2. res = [batch |-> StartBatch(sample), frames |-> { FrameOf(st, b) }]
          BY <2>2, <3>3 DEF Enqueued
        <4>3. QED  BY <3>1, <4>1, <4>2
      <3>4. CASE b.active /\ ~MustRestart(b, sample)
        <4>1. Consistent(st, x)
          BY <2>1, <3>4, AppendConsistent
        <4>2. Consistent(st, ClearBatch(x)) /\ Decodable(FrameOf(st, x))
          BY <1>1, <4>1, ClearConsistent, FrameDecodable
        <4>3. \/ res = [batch |-> ClearBatch(x), frames |-> { FrameOf(st, x) }]
              \/ res = [batch |-> x, frames |-> {}]
          BY <2>2, <3>4 DEF Enqueued
        <4>4. QED  BY <4>1, <4>2, <4>3
      <3>5. QED  BY <3>2, <3>3, <3>4
    <2>4. batch' = [batch EXCEPT ![st] = res.batch] /\ flush_work' = TRUE
      BY <1>3 DEF EnqueueSample
    <2> HIDE DEF res
    <2>5. BatchConsistent'
      BY <1>3, <2>3, <2>4 DEF TypeOK, BatchInv, BatchConsistent
    <2>6. QED
      BY <1>2, <2>3, <2>4, <2>5 DEF BatchInv, ActiveBatchWillFlush, NotifiedDecodable
  <1>4. CASE st \notin BatchedStreams
    <2>1. Decodable(SingleFrame(sample))
      <3>1. Add16(sample.sequence, 0) = sample.sequence
        BY Add16Zero DEF Sample
      <3>2. QED  BY <3>1 DEF Decodable, SingleFrame, NumberedFrom
    <2>2. notified' \subseteq { SingleFrame(sample) }
      BY <1>2, <1>4
    <2>3. batch' = batch /\ flush_work' = flush_work
      BY <1>4 DEF EnqueueSample
    <2>4. QED
      BY <2>1, <2>2, <2>3
         DEF BatchInv, BatchConsistent, ActiveBatchWillFlush, NotifiedDecodable
  <1>5. QED  BY <1>3, <1>4

LEMMA InitBatchInv == Init => BatchInv
  BY SizeAssumption
     DEF Init, BatchInv, BatchConsistent, ActiveBatchWillFlush, NotifiedDecodable,
         Consistent, EmptyBatch, NumberedFrom

\* A step that leaves the buffers and the flush work alone and sends nothing.
LEMMA IdleBatchInv ==
  ASSUME BatchInv, UNCHANGED << batch, flush_work >>, notified' = {}
  PROVE  BatchInv'
  BY DEF BatchInv, BatchConsistent, ActiveBatchWillFlush, NotifiedDecodable

LEMMA NextBatchInv == TypeOK /\ BatchInv /\ [Next]_vars => BatchInv'
  <1> SUFFICES ASSUME TypeOK, BatchInv, [Next]_vars PROVE BatchInv'
    OBVIOUS
  <1>1. CASE \/ HandleStart \/ HandleRequestStatus \/ HandleResetSequence
             \/ HandleForceGyroCalib \/ HandleConnected
             \/ \E c \in Configs : HandleConfig(c)
    BY <1>1, IdleBatchInv
       DEF HandleStart, HandleRequestStatus, HandleResetSequence, HandleForceGyroCalib,
           HandleConnected, HandleConfig, NoNotification
  <1>2. CASE HandleStop \/ HandleDisconnected
    <2>1. FlushAllBatches
      BY <1>2 DEF HandleStop, HandleDisconnected, FlushSamples
    <2>2. QED  BY <2>1, FlushAllConsistent DEF BatchInv, ActiveBatchWillFlush
  <1>3. CASE HandleSample
    <2>1. Head(events) \in Event /\ Head(events).type = "sensor_sample"
      BY <1>3, HeadIsType DEF HandleSample
    <2>2. Head(events).sample \in Sample
      BY <2>1 DEF Event, CommandEvent, ConfigEvent, ConnectedEvent, DisconnectedEvent
    <2>3. QED  BY <1>3, <2>2, EnqueueConsistent DEF HandleSample
  <1>4. CASE \E s \in Sensors : SampleWork(s)
    BY <1>4, IdleBatchInv DEF SampleWork, NoNotification
  <1>5. CASE BatchFlushWork
    <2>1. FlushAllBatches
      BY <1>5 DEF BatchFlushWork
    <2>2. QED  BY <2>1, FlushAllConsistent DEF BatchInv, ActiveBatchWillFlush
  <1>6. CASE AdvertisingStarts \/ AdvertisingFails \/ Connected \/ ConnectionFailed
    BY <1>6, IdleBatchInv
       DEF AdvertisingStarts, AdvertisingFails, Connected, ConnectionFailed, NoNotification
  <1>7. CASE Disconnected
    <2>1. ASSUME NEW st \in BatchedStreams
          PROVE  Consistent(st, batch'[st]) /\ ~batch'[st].active
      <3>1. batch'[st] = ClearBatch(batch[st]) /\ st \in Streams
        BY <1>7, SizeAssumption DEF Disconnected, DropBatches
      <3>2. QED  BY <3>1, ClearConsistent DEF ClearBatch
    <2>2. notified' = {}
      BY <1>7 DEF Disconnected, DropBatches
    <2>3. QED
      BY <2>1, <2>2 DEF BatchInv, BatchConsistent, ActiveBatchWillFlush, NotifiedDecodable
  <1>8. CASE \/ \E value \in BOOLEAN : SensorCccChanged(value)
             \/ \E c \in Commands : WriteControl(c)
             \/ \E e \in BadWrites \ {"INVALID_CONFIG"} : WriteControlRejected(e)
             \/ \E c \in Configs : WriteConfig(c)
             \/ WriteConfigRejected
    BY <1>8, IdleBatchInv
       DEF SensorCccChanged, WriteControl, WriteControlRejected, WriteConfig,
           WriteConfigRejected, NoNotification
  <1>9. CASE UNCHANGED vars
    BY <1>9 DEF vars, batchVars, BatchInv, BatchConsistent, ActiveBatchWillFlush,
                NotifiedDecodable
  <1>10. QED
    BY <1>1, <1>2, <1>3, <1>4, <1>5, <1>6, <1>7, <1>8, <1>9
       DEF Next, ProcessEvent, BluetoothCallback

LEMMA AlwaysBatchInv == Spec => []BatchInv
  <1>1. TypeOK /\ BatchInv /\ [Next]_vars => BatchInv'
    BY NextBatchInv
  <1>2. QED  BY <1>1, InitBatchInv, TypeCorrect, PTL DEF Spec

\* For every board, batch limit, payload size and sequence space, the buffers
\* of ble_service.c always describe a frame that can be sent.
THEOREM BatchesAreConsistent == Spec => []BatchConsistent
  <1>1. BatchInv => BatchConsistent
    BY DEF BatchInv
  <1>2. QED  BY <1>1, AlwaysBatchInv, PTL

\* No order of enqueueing, flushing, resetting and disconnecting strands a batch.
THEOREM BatchesAreScheduled == Spec => []ActiveBatchWillFlush
  <1>1. BatchInv => ActiveBatchWillFlush
    BY DEF BatchInv
  <1>2. QED  BY <1>1, AlwaysBatchInv, PTL

\* Every notification decodes to the samples the sensors numbered.
THEOREM NotificationsDecode == Spec => []NotifiedDecodable
  <1>1. BatchInv => NotifiedDecodable
    BY DEF BatchInv
  <1>2. QED  BY <1>1, AlwaysBatchInv, PTL

-----------------------------------------------------------------------------
(* The radio *)

\* A device that is neither advertising nor connected always has the
\* advertising work scheduled, and ble_service.c knows whether it is connected.
THEOREM RadioIsScheduled == Spec => []IdleRadioIsScheduled
  <1>1. Init => IdleRadioIsScheduled
    BY DEF Init, IdleRadioIsScheduled
  <1>2. TypeOK /\ IdleRadioIsScheduled /\ [Next]_vars => IdleRadioIsScheduled'
    <2> SUFFICES ASSUME TypeOK, IdleRadioIsScheduled, [Next]_vars
                 PROVE  IdleRadioIsScheduled'
      OBVIOUS
    <2>1. CASE UNCHANGED connVars
      BY <2>1 DEF connVars, IdleRadioIsScheduled
    <2>2. CASE AdvertisingStarts \/ AdvertisingFails \/ Connected \/ ConnectionFailed
               \/ Disconnected \/ \E value \in BOOLEAN : SensorCccChanged(value)
      BY <2>2 DEF AdvertisingStarts, AdvertisingFails, Connected, ConnectionFailed,
                  Disconnected, SensorCccChanged, IdleRadioIsScheduled, TypeOK
    <2>3. CASE \/ \E c \in Commands : WriteControl(c)
               \/ \E e \in BadWrites \ {"INVALID_CONFIG"} : WriteControlRejected(e)
               \/ \E c \in Configs : WriteConfig(c)
               \/ WriteConfigRejected
      BY <2>1, <2>3 DEF WriteControl, WriteControlRejected, WriteConfig, WriteConfigRejected
    <2>4. CASE ProcessEvent \/ BatchFlushWork \/ \E s \in Sensors : SampleWork(s)
      BY <2>1, <2>4
         DEF ProcessEvent, HandleStart, HandleStop, HandleRequestStatus, HandleResetSequence,
             HandleForceGyroCalib, HandleConfig, HandleConnected, HandleDisconnected,
             HandleSample, BatchFlushWork, SampleWork
    <2>5. CASE UNCHANGED vars
      BY <2>1, <2>5 DEF vars
    <2>6. QED  BY <2>1, <2>2, <2>3, <2>4, <2>5 DEF Next, BluetoothCallback
  <1>3. QED  BY <1>1, <1>2, TypeCorrect, PTL DEF Spec

-----------------------------------------------------------------------------
(* The served state *)

\* The two copies of the status agree on the state, and all the sensors are in it.
StateInv ==
  /\ current_status.state = status.state
  /\ \A s \in Sensors : running[s] = (status.state = "MEASURING") /\ sample_work[s] = running[s]

LEMMA NextStateInv == TypeOK /\ StateInv /\ [Next]_vars => StateInv'
  <1> SUFFICES ASSUME TypeOK, StateInv, [Next]_vars PROVE StateInv'
    OBVIOUS
  <1> USE DEF StateInv, PublishStatus
  <1>1. status \in Status /\ current_status \in Status
    BY DEF TypeOK
  <1>2. CASE HandleStart
    BY <1>1, <1>2 DEF HandleStart, StartSensors, Status
  <1>3. CASE HandleStop
    BY <1>1, <1>3 DEF HandleStop, StopSensors, Status
  <1>4. CASE HandleDisconnected
    BY <1>1, <1>4 DEF HandleDisconnected, StopSensors, Status
  <1>5. CASE \/ HandleRequestStatus \/ HandleResetSequence \/ HandleForceGyroCalib
    BY <1>5 DEF HandleRequestStatus, HandleResetSequence, HandleForceGyroCalib
  <1>6. ASSUME NEW c \in Configs, HandleConfig(c) PROVE StateInv'
    BY <1>1, <1>6 DEF HandleConfig, Status
  <1>7. CASE HandleConnected
    BY <1>1, <1>7 DEF HandleConnected, Status
  <1>8. CASE HandleSample
    BY <1>1, <1>8 DEF HandleSample, EnqueueSample, controlVars, Status
  <1>9. ASSUME NEW s \in Sensors, SampleWork(s) PROVE StateInv'
    BY <1>9 DEF SampleWork, statusVars, TypeOK
  <1>10. CASE BatchFlushWork
    BY <1>1, <1>10 DEF BatchFlushWork, controlVars, Status
  <1>11. CASE \/ AdvertisingStarts \/ AdvertisingFails \/ ConnectionFailed \/ Disconnected
              \/ \E value \in BOOLEAN : SensorCccChanged(value)
              \/ \E c \in Commands : WriteControl(c)
              \/ \E c \in Configs : WriteConfig(c)
    BY <1>11 DEF AdvertisingStarts, AdvertisingFails, ConnectionFailed, Disconnected,
                 SensorCccChanged, WriteControl, WriteConfig, controlVars, statusVars
  <1>12. CASE Connected
    BY <1>1, <1>12 DEF Connected, controlVars, Status
  <1>13. CASE \/ \E e \in BadWrites \ {"INVALID_CONFIG"} : WriteControlRejected(e)
              \/ WriteConfigRejected
    BY <1>1, <1>13 DEF WriteControlRejected, WriteConfigRejected, controlVars, Status
  <1>14. CASE UNCHANGED vars
    BY <1>14 DEF vars, controlVars, statusVars
  <1>15. QED
    BY <1>2, <1>3, <1>4, <1>5, <1>6, <1>7, <1>8, <1>9, <1>10, <1>11, <1>12, <1>13, <1>14
       DEF Next, ProcessEvent, BluetoothCallback

LEMMA AlwaysStateInv == Spec => []StateInv
  <1>1. Init => StateInv
    <2> SUFFICES ASSUME Init PROVE StateInv
      OBVIOUS
    <2>1. status.state = "IDLE" /\ current_status.state = "IDLE"
      BY DEF Init, InitialStatus
    <2>2. \A s \in Sensors : running[s] = FALSE /\ sample_work[s] = FALSE
      BY DEF Init
    <2>3. (status.state = "MEASURING") = FALSE
      BY <2>1
    <2>4. QED  BY <2>1, <2>2, <2>3 DEF StateInv
  <1>2. TypeOK /\ StateInv /\ [Next]_vars => StateInv'
    BY NextStateInv
  <1>3. QED  BY <1>1, <1>2, TypeCorrect, PTL DEF Spec

\* The state a central reads is the state the sensors are in, although the
\* Bluetooth thread and the work queue both write the served status.
THEOREM ServedStateCorrect == Spec => []ServedStateIsReal
  <1>1. StateInv => ServedStateIsReal
    BY DEF StateInv, ServedStateIsReal
  <1>2. QED  BY <1>1, AlwaysStateInv, PTL

-----------------------------------------------------------------------------
(* What control.c and the Bluetooth callbacks agree on, though they write  *)
(* the same copies from two threads and learn of each other by the event   *)
(* queue: the configuration in use, the number of connections, and that a  *)
(* device no central is connected to falls quiet.                          *)


(* The queue *)

LEMMA EventTypesDiffer ==
  /\ \A c : CommandEvent(c).type = "pc_command"
  /\ \A c : ConfigEvent(c).type = "config_update"
  /\ ConnectedEvent.type = "ble_connected"
  /\ DisconnectedEvent.type = "ble_disconnected"
  /\ \A sample : SampleEvent(sample).type = "sensor_sample"
  BY DEF CommandEvent, ConfigEvent, ConnectedEvent, DisconnectedEvent, SampleEvent

\* Handling the head event moves every other one place forward.
LEMMA HandledQueue ==
  ASSUME TypeOK, NEW e, HeadIs(e)
  PROVE  /\ Len(events) \in Nat \ {0}
         /\ DOMAIN events = 1 .. Len(events) /\ DOMAIN events' = 1 .. Len(events) - 1
         /\ events[1] = e
         /\ \A i \in DOMAIN events' : events'[i] = events[i + 1]
  BY DEF TypeOK, HeadIs

\* Submitting events leaves those in the queue where they are.
LEMMA SubmittedQueue ==
  ASSUME TypeOK, NEW es \in Seq(Event), Submit(es)
  PROVE  /\ Len(events) \in Nat /\ Len(es) \in Nat
         /\ DOMAIN events = 1 .. Len(events) /\ DOMAIN es = 1 .. Len(es)
         /\ DOMAIN events' = 1 .. Len(events) + Len(es)
         /\ \A i \in DOMAIN events : i \in DOMAIN events' /\ events'[i] = events[i]
         /\ \A k \in DOMAIN es :
              Len(events) + k \in DOMAIN events' /\ events'[Len(events) + k] = es[k]
         /\ \A i \in DOMAIN events' : i \in DOMAIN events
              \/ (i - Len(events) \in DOMAIN es /\ events'[i] = es[i - Len(events)])
  BY DEF TypeOK, Submit

\* A step with a given reading submits samples only.
LEMMA SampleEventsType ==
  ASSUME TypeOK, NEW s \in Sensors
  PROVE  /\ SampleEvents(s) \in Seq(Event)
         /\ \A k \in DOMAIN SampleEvents(s) : SampleEvents(s)[k].type = "sensor_sample"
  <1>1. \A i \in DOMAIN StreamsOf(s) : SampleEvents(s)[i] \in Event
    BY StreamsOfType DEF SampleEvents, SampleEvent, Event, Sample, TypeOK
  <1>2. PICK n \in Nat : DOMAIN StreamsOf(s) = 1 .. n
    BY StreamsOfType
  <1>3. SampleEvents(s) \in Seq(Event)
    <2>1. SampleEvents(s) = [i \in 1 .. n |-> SampleEvents(s)[i]]
      BY <1>2 DEF SampleEvents
    <2>2. QED  BY <1>1, <1>2, <2>1
  <1>4. \A k \in DOMAIN SampleEvents(s) : SampleEvents(s)[k].type = "sensor_sample"
    BY DEF SampleEvents, SampleEvent
  <1>5. QED  BY <1>3, <1>4

\* An event of a type not handled stays pending.
LEMMA StaysPending ==
  ASSUME TypeOK, NEW type, Pending(type),
         \/ events' = events
         \/ \E e : HeadIs(e) /\ e.type # type
         \/ \E es \in Seq(Event) : Submit(es)
  PROVE  Pending(type)'
  <1>1. PICK i \in DOMAIN events : events[i].type = type
    BY DEF Pending
  <1>2. CASE events' = events
    BY <1>1, <1>2 DEF Pending
  <1>3. ASSUME NEW e, HeadIs(e), e.type # type PROVE Pending(type)'
    <2>1. i # 1
      BY <1>1, <1>3, HandledQueue
    <2>2. i - 1 \in DOMAIN events' /\ events'[i - 1] = events[i]
      BY <1>3, <2>1, HandledQueue
    <2>3. QED  BY <1>1, <2>2 DEF Pending
  <1>4. ASSUME NEW es \in Seq(Event), Submit(es) PROVE Pending(type)'
    <2>1. i \in DOMAIN events' /\ events'[i] = events[i]
      BY <1>4, SubmittedQueue
    <2>2. QED  BY <1>1, <2>1 DEF Pending
  <1>5. QED  BY <1>2, <1>3, <1>4

\* A submitted event is pending.
LEMMA SubmittedIsPending ==
  ASSUME TypeOK, NEW e \in Event, Submit(<< e >>)
  PROVE  Pending(e.type)'
  <1>1. << e >> \in Seq(Event) /\ Len(<< e >>) = 1 /\ << e >>[1] = e /\ 1 \in DOMAIN << e >>
    OBVIOUS
  <1>2. Len(events) + 1 \in DOMAIN events' /\ events'[Len(events) + 1] = e
    BY <1>1, SubmittedQueue
  <1>3. QED  BY <1>2 DEF Pending

-----------------------------------------------------------------------------
(* The configuration *)

\* The interval is the same in both copies of the status and in the drivers
\* at all times; current_config may run ahead of control only while a config
\* write is in the queue.
ConfigInv ==
  /\ status.sample_interval_ms = params["SET_STREAM_INTERVAL"]
  /\ current_status.sample_interval_ms = params["SET_STREAM_INTERVAL"]
  /\ ~Pending("config_update") => params[current_config.op] = current_config.value

LEMMA InitConfigInv == Init => ConfigInv
  BY FirmwareAssumption DEF Init, ConfigInv, InitialStatus

LEMMA NextConfigInv == TypeOK /\ ConfigInv /\ [Next]_vars => ConfigInv'
  <1> SUFFICES ASSUME TypeOK, ConfigInv, [Next]_vars PROVE ConfigInv'
    OBVIOUS
  <1> USE DEF controlVars, statusVars
  <1>1. status \in Status /\ current_status \in Status
    BY DEF TypeOK
  <1> DEFINE Interval(record) == record.sample_interval_ms
             Kept == /\ UNCHANGED << params, current_config >>
                     /\ Interval(status') = Interval(status)
                     /\ \/ Interval(current_status') = Interval(current_status)
                        \/ Interval(current_status') = Interval(status)
             PendingKept == Pending("config_update") => Pending("config_update")'
  <1>2. ASSUME Kept, PendingKept PROVE ConfigInv'
    BY <1>2 DEF ConfigInv
  <1>3. CASE \/ HandleStart \/ HandleStop \/ HandleRequestStatus \/ HandleResetSequence
             \/ HandleForceGyroCalib \/ HandleConnected \/ HandleDisconnected
    <2>1. \/ \E c : HeadIs(CommandEvent(c))
          \/ HeadIs(ConnectedEvent) \/ HeadIs(DisconnectedEvent)
      BY <1>3 DEF HandleStart, HandleStop, HandleRequestStatus, HandleResetSequence,
                  HandleForceGyroCalib, HandleConnected, HandleDisconnected
    <2>2. PendingKept
      BY <2>1, StaysPending, EventTypesDiffer
    <2>3. UNCHANGED << params, current_config >>
      BY <1>3 DEF HandleStart, HandleStop, HandleRequestStatus, HandleResetSequence,
                  HandleForceGyroCalib, HandleConnected, HandleDisconnected
    <2>4. Interval(status') = Interval(status) /\ Interval(current_status') = Interval(status)
      BY <1>1, <1>3
         DEF HandleStart, HandleStop, HandleRequestStatus, HandleResetSequence,
             HandleForceGyroCalib, HandleConnected, HandleDisconnected, PublishStatus, Status
    <2>5. QED  BY <1>2, <2>2, <2>3, <2>4
  <1>4. ASSUME NEW c \in Configs, HandleConfig(c) PROVE ConfigInv'
    <2>1. c.op \in ConfigOps /\ params' = [params EXCEPT ![c.op] = c.value] /\ current_config' = c
      BY <1>4, ParamTypes DEF HandleConfig
    <2>2. params'[current_config'.op] = current_config'.value
      BY <2>1 DEF TypeOK
    <2>3. /\ Interval(status') = IF c.op = "SET_STREAM_INTERVAL" THEN c.value
                                 ELSE status.sample_interval_ms
          /\ current_status' = status'
      BY <1>1, <1>4 DEF HandleConfig, PublishStatus, Status
    <2>4. Interval(status') = params'["SET_STREAM_INTERVAL"]
      BY <2>1, <2>3, FirmwareAssumption DEF ConfigInv, TypeOK
    <2>5. QED  BY <2>2, <2>3, <2>4 DEF ConfigInv
  <1>5. CASE HandleSample
    <2>1. PendingKept
      BY <1>5, StaysPending DEF HandleSample
    <2>2. Kept
      BY <1>1, <1>5 DEF HandleSample, EnqueueSample, Status
    <2>3. QED  BY <1>2, <2>1, <2>2
  <1>6. ASSUME NEW s \in Sensors, SampleWork(s) PROVE ConfigInv'
    <2>1. PendingKept
      BY <1>6, StaysPending, SampleEventsType DEF SampleWork
    <2>2. Kept
      BY <1>6 DEF SampleWork
    <2>3. QED  BY <1>2, <2>1, <2>2
  <1>7. CASE BatchFlushWork
    <2>1. Kept /\ events' = events
      BY <1>1, <1>7 DEF BatchFlushWork, Status
    <2>2. QED  BY <1>2, <2>1, StaysPending
  <1>8. CASE \/ AdvertisingStarts \/ AdvertisingFails \/ ConnectionFailed
             \/ \E value \in BOOLEAN : SensorCccChanged(value)
    <2>1. Kept /\ events' = events
      BY <1>8 DEF AdvertisingStarts, AdvertisingFails, ConnectionFailed, SensorCccChanged
    <2>2. QED  BY <1>2, <2>1, StaysPending
  <1>9. CASE \/ \E e \in BadWrites \ {"INVALID_CONFIG"} : WriteControlRejected(e)
             \/ WriteConfigRejected
    <2>1. Kept /\ events' = events
      BY <1>1, <1>9 DEF WriteControlRejected, WriteConfigRejected, Status
    <2>2. QED  BY <1>2, <2>1, StaysPending
  <1>10. CASE Connected \/ Disconnected \/ \E c \in Commands : WriteControl(c)
    <2>1. Kept
      BY <1>1, <1>10 DEF Connected, Disconnected, WriteControl, Status
    <2>2. \E e \in Event : Submit(<< e >>)
      BY <1>10, EventTypes DEF Connected, Disconnected, WriteControl
    <2>3. ASSUME NEW e \in Event PROVE << e >> \in Seq(Event)
      OBVIOUS
    <2>4. QED  BY <1>2, <2>1, <2>2, <2>3, StaysPending
  <1>11. ASSUME NEW c \in Configs, WriteConfig(c) PROVE ConfigInv'
    <2>1. UNCHANGED << params, status, current_status >> /\ Submit(<< ConfigEvent(c) >>)
      BY <1>11 DEF WriteConfig
    <2>2. Pending("config_update")'
      BY <2>1, SubmittedIsPending, EventTypes, EventTypesDiffer
    <2>3. QED  BY <2>1, <2>2 DEF ConfigInv
  <1>12. CASE UNCHANGED vars
    <2>1. Kept /\ events' = events
      BY <1>12 DEF vars
    <2>2. QED  BY <1>2, <2>1, StaysPending
  <1>13. QED
    BY <1>3, <1>4, <1>5, <1>6, <1>7, <1>8, <1>9, <1>10, <1>11, <1>12
       DEF Next, ProcessEvent, BluetoothCallback

\* With no config write in the queue, what the central reads of the
\* configuration is what the sensors use, for any set of configurations.
THEOREM ConfigIsApplied == Spec => []ServedConfigIsApplied
  <1>1. ConfigInv => ServedConfigIsApplied
    BY DEF ConfigInv, ServedConfigIsApplied
  <1>2. TypeOK /\ ConfigInv /\ [Next]_vars => ConfigInv'
    BY NextConfigInv
  <1>3. QED  BY <1>1, <1>2, InitConfigInv, TypeCorrect, PTL DEF Spec

-----------------------------------------------------------------------------
(* A disconnected device falls quiet *)

\* With no central, every START in the queue has a disconnection behind it,
\* and so has a measurement under way.
QuietInv ==
  ~current_conn =>
    /\ \A i \in DOMAIN events : events[i] = CommandEvent("START_MEASUREMENT") =>
         \E j \in DOMAIN events : i < j /\ events[j].type = "ble_disconnected"
    /\ status.state = "MEASURING" => Pending("ble_disconnected")

\* The order of START and disconnection survives any event but a START handled
\* and any samples submitted.
LEMMA OrderKept ==
  ASSUME TypeOK, QuietInv, ~current_conn,
         \/ events' = events
         \/ \E e : HeadIs(e)
         \/ \E es \in Seq(Event) :
              Submit(es) /\ \A k \in DOMAIN es : es[k].type = "sensor_sample"
  PROVE  \A i \in DOMAIN events' : events'[i] = CommandEvent("START_MEASUREMENT") =>
           \E j \in DOMAIN events' : i < j /\ events'[j].type = "ble_disconnected"
  <1> SUFFICES ASSUME NEW i \in DOMAIN events', events'[i] = CommandEvent("START_MEASUREMENT")
               PROVE  \E j \in DOMAIN events' : i < j /\ events'[j].type = "ble_disconnected"
    OBVIOUS
  <1>1. CASE events' = events
    BY <1>1 DEF QuietInv
  <1>2. ASSUME NEW e, HeadIs(e)
        PROVE  \E j \in DOMAIN events' : i < j /\ events'[j].type = "ble_disconnected"
    <2>1. i + 1 \in DOMAIN events /\ events[i + 1] = CommandEvent("START_MEASUREMENT")
      BY <1>2, HandledQueue
    <2>2. PICK j \in DOMAIN events : i + 1 < j /\ events[j].type = "ble_disconnected"
      BY <2>1 DEF QuietInv
    <2>3. i \in Nat /\ j - 1 \in DOMAIN events' /\ events'[j - 1] = events[j] /\ i < j - 1
      BY <1>2, <2>2, HandledQueue
    <2>4. QED  BY <2>2, <2>3
  <1>3. ASSUME NEW es \in Seq(Event), Submit(es),
               \A k \in DOMAIN es : es[k].type = "sensor_sample"
        PROVE  \E j \in DOMAIN events' : i < j /\ events'[j].type = "ble_disconnected"
    <2>1. events'[i].type = "pc_command"
      BY EventTypesDiffer
    <2>2. i \in DOMAIN events /\ events[i] = events'[i]
      BY <1>3, <2>1, SubmittedQueue
    <2>3. PICK j \in DOMAIN events : i < j /\ events[j].type = "ble_disconnected"
      BY <2>2 DEF QuietInv
    <2>4. j \in DOMAIN events' /\ events'[j] = events[j]
      BY <1>3, SubmittedQueue
    <2>5. QED  BY <2>3, <2>4
  <1>4. QED  BY <1>1, <1>2, <1>3

LEMMA NextQuietInv == TypeOK /\ IdleRadioIsScheduled /\ QuietInv /\ [Next]_vars => QuietInv'
  <1> SUFFICES ASSUME TypeOK, IdleRadioIsScheduled, QuietInv, [Next]_vars PROVE QuietInv'
    OBVIOUS
  <1> USE DEF controlVars, statusVars, connVars
  <1> DEFINE Ordered == \A i \in DOMAIN events : events[i] = CommandEvent("START_MEASUREMENT") =>
               \E j \in DOMAIN events : i < j /\ events[j].type = "ble_disconnected"
  <1>1. status \in Status
    BY DEF TypeOK
  <1>2. CASE current_conn'
    BY <1>2 DEF QuietInv
  <1>3. ASSUME ~current_conn, Ordered',
               status'.state = "MEASURING" => Pending("ble_disconnected")'
        PROVE  QuietInv'
    BY <1>3 DEF QuietInv
  <1> HIDE DEF Ordered
  <1>4. CASE HandleStart
    <2>1. HeadIs(CommandEvent("START_MEASUREMENT")) /\ UNCHANGED current_conn
      BY <1>4 DEF HandleStart
    <2>2. ASSUME ~current_conn PROVE Pending("ble_disconnected")'
      <3>1. 1 \in DOMAIN events /\ events[1] = CommandEvent("START_MEASUREMENT")
        BY <2>1, HandledQueue
      <3>2. Pending("ble_disconnected")
        BY <2>2, <3>1 DEF QuietInv, Pending
      <3>3. QED  BY <2>1, <3>2, StaysPending, EventTypesDiffer
    <2>3. ASSUME ~current_conn PROVE Ordered'
      BY <2>1, <2>3, OrderKept DEF Ordered
    <2>4. QED  BY <1>2, <1>3, <2>1, <2>2, <2>3
  <1>5. CASE HandleStop \/ HandleDisconnected
    <2>1. (\E e : HeadIs(e)) /\ UNCHANGED current_conn
      BY <1>5 DEF HandleStop, HandleDisconnected
    <2>2. status'.state = "IDLE"
      BY <1>1, <1>5 DEF HandleStop, HandleDisconnected, PublishStatus, Status
    <2>3. ASSUME ~current_conn PROVE Ordered'
      BY <2>1, <2>3, OrderKept DEF Ordered
    <2>4. QED  BY <1>2, <1>3, <2>1, <2>2, <2>3
  <1>6. ASSUME UNCHANGED current_conn, status'.state = status.state,
               \/ events' = events
               \/ \E e : HeadIs(e) /\ e.type # "ble_disconnected"
               \/ \E es \in Seq(Event) :
                    Submit(es) /\ \A k \in DOMAIN es : es[k].type = "sensor_sample"
        PROVE  QuietInv'
    <2>1. ASSUME ~current_conn PROVE Ordered'
      BY <1>6, <2>1, OrderKept DEF Ordered
    <2>2. Pending("ble_disconnected") => Pending("ble_disconnected")'
      BY <1>6, StaysPending
    <2>3. ~current_conn => (status.state = "MEASURING" => Pending("ble_disconnected"))
      BY DEF QuietInv
    <2>4. QED  BY <1>2, <1>3, <1>6, <2>1, <2>2, <2>3
  <1>7. CASE \/ HandleRequestStatus \/ HandleResetSequence \/ HandleForceGyroCalib
             \/ HandleConnected
    <2>1. \E e : HeadIs(e) /\ e.type # "ble_disconnected"
      <3>1. (\E c : HeadIs(CommandEvent(c))) \/ HeadIs(ConnectedEvent)
        BY <1>7 DEF HandleRequestStatus, HandleResetSequence, HandleForceGyroCalib,
                    HandleConnected
      <3>2. QED  BY <3>1, EventTypesDiffer
    <2>2. UNCHANGED current_conn
      BY <1>7 DEF HandleRequestStatus, HandleResetSequence, HandleForceGyroCalib,
                  HandleConnected
    <2>3. status'.state = status.state
      BY <1>1, <1>7 DEF HandleRequestStatus, HandleResetSequence, HandleForceGyroCalib,
                        HandleConnected, PublishStatus, Status
    <2>4. QED  BY <1>6, <2>1, <2>2, <2>3
  <1>8. CASE HandleSample
    BY <1>6, <1>8 DEF HandleSample
  <1>9. ASSUME NEW s \in Sensors, SampleWork(s) PROVE QuietInv'
    <2>1. \/ events' = events
          \/ \E es \in Seq(Event) :
               Submit(es) /\ \A k \in DOMAIN es : es[k].type = "sensor_sample"
      BY <1>9, SampleEventsType DEF SampleWork
    <2>2. UNCHANGED << current_conn, status >>
      BY <1>9 DEF SampleWork
    <2>3. QED  BY <1>6, <2>1, <2>2
  <1>10. CASE \/ BatchFlushWork \/ AdvertisingStarts \/ AdvertisingFails \/ ConnectionFailed
              \/ \E value \in BOOLEAN : SensorCccChanged(value)
              \/ \E e \in BadWrites \ {"INVALID_CONFIG"} : WriteControlRejected(e)
              \/ WriteConfigRejected \/ UNCHANGED vars
    BY <1>6, <1>10
       DEF BatchFlushWork, AdvertisingStarts, AdvertisingFails, ConnectionFailed,
           SensorCccChanged, WriteControlRejected, WriteConfigRejected, vars
  <1>11. CASE Connected \/ (\E c \in Commands : WriteControl(c)) \/ \E c \in Configs : WriteConfig(c)
    <2>1. current_conn'
      BY <1>11 DEF Connected, WriteControl, WriteConfig, Write, IdleRadioIsScheduled
    <2>2. QED  BY <1>2, <2>1
  <1>12. CASE Disconnected
    <2>1. Submit(<< DisconnectedEvent >>)
      BY <1>12 DEF Disconnected
    <2>2. << DisconnectedEvent >> \in Seq(Event) /\ Len(<< DisconnectedEvent >>) = 1
          /\ << DisconnectedEvent >>[1] = DisconnectedEvent
      BY EventTypes
    <2>3. /\ Len(events) \in Nat /\ Len(events) + 1 \in DOMAIN events'
          /\ DOMAIN events' = 1 .. Len(events) + 1
          /\ events'[Len(events) + 1] = DisconnectedEvent
      <3>1. DOMAIN << DisconnectedEvent >> = 1 .. 1
        OBVIOUS
      <3> DEFINE es == << DisconnectedEvent >>
      <3>2. es \in Seq(Event) /\ Submit(es) /\ Len(es) = 1 /\ es[1] = DisconnectedEvent
            /\ 1 \in DOMAIN es
        BY <2>1, <2>2, <3>1
      <3> HIDE DEF es
      <3>3. QED  BY <3>2, SubmittedQueue
    <2>4. Pending("ble_disconnected")'
      BY <2>3, EventTypesDiffer DEF Pending
    <2>5. DisconnectedEvent # CommandEvent("START_MEASUREMENT")
      BY EventTypesDiffer
    <2>6. ASSUME NEW i \in DOMAIN events', events'[i] = CommandEvent("START_MEASUREMENT")
          PROVE  \E j \in DOMAIN events' : i < j /\ events'[j].type = "ble_disconnected"
      <3>1. i # Len(events) + 1
        BY <2>3, <2>5, <2>6
      <3>2. i < Len(events) + 1
        BY <2>3, <3>1
      <3>3. QED  BY <2>3, <3>2, EventTypesDiffer
    <2>7. QED  BY <2>4, <2>6 DEF QuietInv
  <1>13. ASSUME NEW c \in Configs, HandleConfig(c) PROVE QuietInv'
    <2>1. \E e : HeadIs(e) /\ e.type # "ble_disconnected"
      BY <1>13, EventTypesDiffer DEF HandleConfig
    <2>2. UNCHANGED current_conn /\ status'.state = status.state
      BY <1>1, <1>13 DEF HandleConfig, PublishStatus, Status
    <2>3. QED  BY <1>6, <2>1, <2>2
  <1>14. QED
    BY <1>4, <1>5, <1>7, <1>8, <1>9, <1>10, <1>11, <1>12, <1>13
       DEF Next, ProcessEvent, BluetoothCallback

\* Once the disconnection is handled nothing samples and no START is left in
\* the queue, whatever the central wrote before it went.
THEOREM DisconnectedIsQuiet == Spec => []QuietWhenDisconnected
  <1>1. Init => QuietInv
    BY DEF Init, QuietInv, InitialStatus
  <1>2. TypeOK /\ IdleRadioIsScheduled /\ QuietInv /\ [Next]_vars => QuietInv'
    BY NextQuietInv
  <1>3. TypeOK /\ QuietInv /\ StateInv => QuietWhenDisconnected
    <2> SUFFICES ASSUME TypeOK, QuietInv, StateInv,
                        ~current_conn, ~Pending("ble_disconnected")
                 PROVE  /\ status.state = "IDLE"
                        /\ \A s \in Sensors : ~running[s] /\ ~sample_work[s]
                        /\ ~PendingCommand("START_MEASUREMENT")
      BY DEF QuietWhenDisconnected
    <2>1. status.state = "IDLE"
      BY DEF QuietInv, TypeOK, Status
    <2>2. \A s \in Sensors : ~running[s] /\ ~sample_work[s]
      BY <2>1 DEF StateInv, TypeOK
    <2>3. ~PendingCommand("START_MEASUREMENT")
      BY DEF QuietInv, PendingCommand, Pending
    <2>4. QED  BY <2>1, <2>2, <2>3
  <1>4. QED
    BY <1>1, <1>2, <1>3, TypeCorrect, RadioIsScheduled, AlwaysStateInv, PTL DEF Spec

-----------------------------------------------------------------------------
(* The number of connections *)

\* The ConnectedEvents control has not handled.
Unhandled == { i \in DOMAIN events : events[i] = ConnectedEvent }

LEMMA UnhandledIsFinite ==
  ASSUME TypeOK
  PROVE  IsFiniteSet(Unhandled) /\ Cardinality(Unhandled) \in Nat
  <1>1. DOMAIN events = 1 .. Len(events) /\ Len(events) \in Nat
    BY DEF TypeOK
  <1>2. IsFiniteSet(DOMAIN events)
    BY <1>1, FS_Interval
  <1>3. Unhandled \in SUBSET DOMAIN events
    BY DEF Unhandled
  <1>4. IsFiniteSet(Unhandled)
    BY <1>2, <1>3, FS_Subset
  <1>5. QED  BY <1>4, FS_CardinalityType

\* Handling the head event takes it, and only it, off the unhandled ones.
LEMMA UnhandledAfterHandling ==
  ASSUME TypeOK, NEW e, HeadIs(e)
  PROVE  Cardinality(Unhandled') = IF e = ConnectedEvent THEN Cardinality(Unhandled) - 1
                                   ELSE Cardinality(Unhandled)
  <1> DEFINE rest == Unhandled \ {1}
             shift == [i \in rest |-> i - 1]
  <1>1. /\ Len(events) \in Nat \ {0}
        /\ DOMAIN events = 1 .. Len(events) /\ DOMAIN events' = 1 .. Len(events) - 1
        /\ events[1] = e
        /\ \A i \in DOMAIN events' : events'[i] = events[i + 1]
    BY HandledQueue
  <1>2. \A i \in rest : i - 1 \in Unhandled' /\ i \in Nat
    BY <1>1 DEF Unhandled
  <1>3. \A k \in Unhandled' : k + 1 \in rest /\ k \in Nat
    BY <1>1 DEF Unhandled
  <1> HIDE DEF rest
  <1>4. shift \in Bijection(rest, Unhandled')
    <2>1. shift \in [rest -> Unhandled']
      BY <1>2
    <2>2. \A i, j \in rest : shift[i] = shift[j] => i = j
      BY <1>2
    <2>3. ASSUME NEW k \in Unhandled' PROVE k + 1 \in rest /\ shift[k + 1] = k
      <3>1. k + 1 \in rest /\ k \in Nat /\ k + 1 - 1 = k
        BY <1>3
      <3>2. QED  BY <3>1
    <2> HIDE DEF shift
    <2>4. QED  BY <2>1, <2>2, <2>3 DEF Bijection, Injection, Surjection, IsInjective
  <1>5. ExistsBijection(rest, Unhandled')
    BY <1>4 DEF ExistsBijection
  <1>6. /\ IsFiniteSet(rest)
        /\ Cardinality(rest) = IF 1 \in Unhandled THEN Cardinality(Unhandled) - 1
                               ELSE Cardinality(Unhandled)
    BY UnhandledIsFinite, FS_RemoveElement DEF rest
  <1>7. Cardinality(Unhandled') = Cardinality(rest)
    BY <1>5, <1>6, FS_Bijection
  <1>8. 1 \in Unhandled <=> e = ConnectedEvent
    BY <1>1 DEF Unhandled
  <1>9. QED  BY <1>6, <1>7, <1>8

\* A connection adds one unhandled event, any other submission none.
LEMMA UnhandledAfterConnection ==
  ASSUME TypeOK, Submit(<< ConnectedEvent >>)
  PROVE  Cardinality(Unhandled') = Cardinality(Unhandled) + 1
  <1>1. events \in Seq(Event) /\ events' = Append(events, ConnectedEvent)
    BY DEF TypeOK, Submit
  <1>2. /\ Len(events) \in Nat /\ DOMAIN events = 1 .. Len(events)
        /\ DOMAIN events' = 1 .. Len(events) + 1
        /\ \A i \in DOMAIN events : events'[i] = events[i]
        /\ events'[Len(events) + 1] = ConnectedEvent
    BY <1>1
  <1>3. Unhandled' = Unhandled \cup {Len(events) + 1} /\ Len(events) + 1 \notin Unhandled
    BY <1>2 DEF Unhandled
  <1>4. QED  BY <1>3, UnhandledIsFinite, FS_AddElement

LEMMA UnhandledAfterOthers ==
  ASSUME TypeOK, NEW es \in Seq(Event), Submit(es), \A k \in DOMAIN es : es[k] # ConnectedEvent
  PROVE  Unhandled' = Unhandled
  BY SubmittedQueue DEF Unhandled

\* Control's count and the events on their way to it make up the connections;
\* the served count lies between.
CountInv ==
  /\ status.connection_count + Cardinality(Unhandled) = connections
  /\ status.connection_count <= current_status.connection_count
  /\ current_status.connection_count <= connections

LEMMA InitCountInv == Init => CountInv
  <1> SUFFICES ASSUME Init PROVE CountInv
    OBVIOUS
  <1>1. Unhandled = {}
    BY DEF Init, Unhandled
  <1>2. Cardinality(Unhandled) = 0
    BY <1>1, FS_EmptySet
  <1>3. QED  BY <1>2 DEF Init, InitialStatus, CountInv

LEMMA NextCountInv == TypeOK /\ CountInv /\ [Next]_vars => CountInv'
  <1> SUFFICES ASSUME TypeOK, CountInv, [Next]_vars PROVE CountInv'
    OBVIOUS
  <1> USE DEF controlVars, statusVars, countVars
  <1> DEFINE kept == status.connection_count
             served == current_status.connection_count
             n == Cardinality(Unhandled)
  <1>1. /\ status \in Status /\ current_status \in Status
        /\ kept \in Nat /\ served \in Nat /\ connections \in Nat
    BY DEF TypeOK, Status
  <1>2. n \in Nat
    BY UnhandledIsFinite
  <1>3. kept + n = connections /\ kept <= served /\ served <= connections
    BY DEF CountInv
  <1>4. ASSUME Unhandled' = Unhandled, UNCHANGED connections, kept' = kept,
               served' = served \/ served' = kept
        PROVE  CountInv'
    <2>1. Cardinality(Unhandled') = n
      BY <1>4
    <2> HIDE DEF kept, served, n
    <2>2. kept' + n = connections' /\ kept' <= served' /\ served' <= connections'
      BY <1>1, <1>2, <1>3, <1>4
    <2>3. QED  BY <2>1, <2>2 DEF CountInv, kept, served
  <1>5. \A e : HeadIs(e) /\ e.type # "ble_connected" => n' = n
    BY UnhandledAfterHandling, EventTypesDiffer
  <1>6. ASSUME \E e : HeadIs(e) /\ e.type # "ble_connected", UNCHANGED connections,
               kept' = kept, served' = served \/ served' = kept
        PROVE  CountInv'
    <2>1. n' = n
      BY <1>5, <1>6
    <2> HIDE DEF kept, served
    <2>2. kept' + n' = connections' /\ kept' <= served' /\ served' <= connections'
      BY <1>1, <1>2, <1>3, <1>6, <2>1
    <2>3. QED  BY <2>2 DEF CountInv, kept, served
  <1>7. CASE \/ HandleStart \/ HandleStop \/ HandleRequestStatus \/ HandleResetSequence
             \/ HandleForceGyroCalib \/ HandleDisconnected
    <2>1. (\E c : HeadIs(CommandEvent(c))) \/ HeadIs(DisconnectedEvent)
      BY <1>7 DEF HandleStart, HandleStop, HandleRequestStatus, HandleResetSequence,
                  HandleForceGyroCalib, HandleDisconnected
    <2>2. UNCHANGED connections
      BY <1>7 DEF HandleStart, HandleStop, HandleRequestStatus, HandleResetSequence,
                  HandleForceGyroCalib, HandleDisconnected
    <2>3. kept' = kept /\ served' = kept
      BY <1>1, <1>7
         DEF HandleStart, HandleStop, HandleRequestStatus, HandleResetSequence,
             HandleForceGyroCalib, HandleDisconnected, PublishStatus, Status
    <2>4. QED  BY <1>6, <2>1, <2>2, <2>3, EventTypesDiffer
  <1>8. ASSUME NEW c \in Configs, HandleConfig(c) PROVE CountInv'
    <2>1. HeadIs(ConfigEvent(c)) /\ UNCHANGED connections /\ kept' = kept /\ served' = kept
      BY <1>1, <1>8 DEF HandleConfig, PublishStatus, Status
    <2>2. QED  BY <1>6, <2>1, EventTypesDiffer
  <1>9. CASE HandleConnected
    <2>1. HeadIs(ConnectedEvent) /\ UNCHANGED connections
      BY <1>9 DEF HandleConnected
    <2>2. kept' = kept + 1 /\ served' = kept + 1
      BY <1>1, <1>9 DEF HandleConnected, PublishStatus, Status
    <2>3. n' = n - 1
      BY <2>1, UnhandledAfterHandling
    <2>4. n' \in Nat
      <3>1. 1 \in Unhandled
        BY <2>1, HandledQueue DEF Unhandled
      <3>2. Cardinality(Unhandled) # 0
        BY <3>1, UnhandledIsFinite, FS_EmptySet, FS_Subset
      <3>3. QED  BY <1>2, <2>3, <3>2
    <2> HIDE DEF kept, served, n
    <2>5. kept' + n' = connections' /\ kept' <= served' /\ served' <= connections'
      BY <1>1, <1>2, <1>3, <2>1, <2>2, <2>3, <2>4
    <2>6. QED  BY <2>5 DEF CountInv, kept, served, n
  <1>10. CASE HandleSample
    <2>1. \E e : HeadIs(e) /\ e.type # "ble_connected"
      BY <1>10 DEF HandleSample
    <2>2. UNCHANGED connections /\ kept' = kept /\ served' = served
      BY <1>1, <1>10 DEF HandleSample, EnqueueSample, Status
    <2>3. QED  BY <1>6, <2>1, <2>2
  <1>11. ASSUME NEW s \in Sensors, SampleWork(s) PROVE CountInv'
    <2>1. UNCHANGED << connections, status, current_status >>
      BY <1>11 DEF SampleWork
    <2>2. Unhandled' = Unhandled
      <3>1. CASE running[s]
        <4>1. \A k \in DOMAIN SampleEvents(s) : SampleEvents(s)[k] # ConnectedEvent
          BY SampleEventsType, EventTypesDiffer
        <4>2. Submit(SampleEvents(s))
          BY <1>11, <3>1 DEF SampleWork
        <4>3. QED  BY <4>1, <4>2, SampleEventsType, UnhandledAfterOthers
      <3>2. CASE ~running[s]
        BY <1>11, <3>2 DEF SampleWork, Unhandled
      <3>3. QED  BY <3>1, <3>2
    <2>3. QED  BY <1>4, <2>1, <2>2
  <1>12. CASE BatchFlushWork
    <2>1. Unhandled' = Unhandled
      BY <1>12 DEF BatchFlushWork, Unhandled
    <2>2. UNCHANGED connections /\ kept' = kept /\ served' = served
      BY <1>1, <1>12 DEF BatchFlushWork, Status
    <2>3. QED  BY <1>4, <2>1, <2>2
  <1>13. CASE \/ AdvertisingStarts \/ AdvertisingFails \/ ConnectionFailed
              \/ \E value \in BOOLEAN : SensorCccChanged(value)
    <2>1. UNCHANGED << events, connections, status, current_status >>
      BY <1>13 DEF AdvertisingStarts, AdvertisingFails, ConnectionFailed, SensorCccChanged
    <2>2. QED  BY <1>4, <2>1 DEF Unhandled
  <1>14. CASE \/ \E e \in BadWrites \ {"INVALID_CONFIG"} : WriteControlRejected(e)
              \/ WriteConfigRejected
    <2>1. UNCHANGED << events, connections, status >>
      BY <1>14 DEF WriteControlRejected, WriteConfigRejected
    <2>2. served' = served
      BY <1>1, <1>14 DEF WriteControlRejected, WriteConfigRejected, Status
    <2>3. QED  BY <1>4, <2>1, <2>2 DEF Unhandled
  <1>15. CASE Connected
    <2>1. UNCHANGED status /\ connections' = connections + 1 /\ Submit(<< ConnectedEvent >>)
      BY <1>15 DEF Connected
    <2>2. served' = served + 1
      BY <1>1, <1>15 DEF Connected, Status
    <2>3. n' = n + 1
      BY <2>1, UnhandledAfterConnection
    <2>4. kept' = kept
      BY <2>1
    <2> HIDE DEF kept, served, n
    <2>5. kept' + n' = connections' /\ kept' <= served' /\ served' <= connections'
      BY <1>1, <1>2, <1>3, <2>1, <2>2, <2>3, <2>4
    <2>6. QED  BY <2>5 DEF CountInv, kept, served, n
  <1>16. ASSUME NEW e \in Event, e # ConnectedEvent, Submit(<< e >>),
                UNCHANGED << connections, status, current_status >>
         PROVE  CountInv'
    <2>1. << e >> \in Seq(Event) /\ \A k \in DOMAIN << e >> : << e >>[k] # ConnectedEvent
      BY <1>16
    <2>2. Unhandled' = Unhandled
      BY <1>16, <2>1, UnhandledAfterOthers
    <2>3. QED  BY <1>4, <1>16, <2>2
  <1>17. CASE Disconnected
    <2>1. DisconnectedEvent # ConnectedEvent
      BY EventTypesDiffer
    <2>2. QED  BY <1>16, <1>17, <2>1, EventTypes DEF Disconnected
  <1>18. ASSUME NEW c \in Commands, WriteControl(c) PROVE CountInv'
    <2>1. CommandEvent(c) # ConnectedEvent
      BY EventTypesDiffer
    <2>2. QED  BY <1>16, <1>18, <2>1, EventTypes DEF WriteControl
  <1>19. ASSUME NEW c \in Configs, WriteConfig(c) PROVE CountInv'
    <2>1. ConfigEvent(c) # ConnectedEvent
      BY EventTypesDiffer
    <2>2. QED  BY <1>16, <1>19, <2>1, EventTypes DEF WriteConfig
  <1>20. CASE UNCHANGED vars
    BY <1>4, <1>20 DEF vars, Unhandled
  <1>21. QED
    BY <1>7, <1>8, <1>9, <1>10, <1>11, <1>12, <1>13, <1>14, <1>15, <1>17, <1>18, <1>19, <1>20
       DEF Next, ProcessEvent, BluetoothCallback

\* For any number of connections, control misses none of them and the served
\* count never claims one that was not made.
THEOREM CountIsClose == Spec => []ServedCountIsClose
  <1>1. TypeOK /\ CountInv => ServedCountIsClose
    BY DEF CountInv, Unhandled, ServedCountIsClose, TypeOK, Status
  <1>2. TypeOK /\ CountInv /\ [Next]_vars => CountInv'
    BY NextCountInv
  <1>3. QED  BY <1>1, <1>2, InitCountInv, TypeCorrect, PTL DEF Spec

=============================================================================
