--------------------------- MODULE PipelineProofs ---------------------------
(***************************************************************************)
(* The sample path of Firmware, from a sensor's reading to a notification, *)
(* for every value of the constants: the readings of a stream are kept in  *)
(* order and in one place, nothing is lost while a central is subscribed,  *)
(* and every stream is the channel that SampleChannel promises.            *)
(***************************************************************************)
EXTENDS FirmwareProofs

(* The event queue of one stream *)

IsSampleEvent(e, st) == e.type = "sensor_sample" /\ e.sample.stream = st

\* The samples of stream st in queue q carry the readings first + 1 .. last,
\* each once and in order.
QueueHolds(q, st, first, last) ==
  /\ first <= last
  /\ \A i \in DOMAIN q : IsSampleEvent(q[i], st) => q[i].sample.tick \in first + 1 .. last
  /\ \A t \in first + 1 .. last : \E i \in DOMAIN q : IsSampleEvent(q[i], st) /\ q[i].sample.tick = t
  /\ \A i, j \in DOMAIN q :
       IsSampleEvent(q[i], st) /\ IsSampleEvent(q[j], st) /\ i < j =>
         q[i].sample.tick < q[j].sample.tick

\* Handling an event that is no sample of the stream leaves its readings alone.
LEMMA TailOther ==
  ASSUME NEW q \in Seq(Event), q # << >>, NEW st, NEW first \in Nat, NEW last \in Nat,
         QueueHolds(q, st, first, last), ~IsSampleEvent(Head(q), st)
  PROVE  QueueHolds(Tail(q), st, first, last)
  <1> DEFINE r == Tail(q)
  <1>1. /\ Len(q) \in Nat /\ Len(q) > 0 /\ Len(r) = Len(q) - 1 /\ Head(q) = q[1]
        /\ DOMAIN q = 1 .. Len(q) /\ DOMAIN r = 1 .. Len(r)
        /\ \A i \in 1 .. Len(r) : r[i] = q[i + 1]
    OBVIOUS
  <1> HIDE DEF r
  <1>2. ASSUME NEW i \in DOMAIN r, IsSampleEvent(r[i], st)
        PROVE  r[i].sample.tick \in first + 1 .. last
    <2>1. i + 1 \in DOMAIN q /\ r[i] = q[i + 1]
      BY <1>1
    <2>2. QED  BY <1>2, <2>1 DEF QueueHolds
  <1>3. ASSUME NEW t \in first + 1 .. last
        PROVE  \E i \in DOMAIN r : IsSampleEvent(r[i], st) /\ r[i].sample.tick = t
    <2>1. PICK i \in DOMAIN q : IsSampleEvent(q[i], st) /\ q[i].sample.tick = t
      BY DEF QueueHolds
    <2>2. i # 1
      BY <1>1, <2>1
    <2>3. i - 1 \in DOMAIN r /\ r[i - 1] = q[i]
      BY <1>1, <2>2
    <2>4. QED  BY <2>1, <2>3
  <1>4. ASSUME NEW i \in DOMAIN r, NEW j \in DOMAIN r,
               IsSampleEvent(r[i], st), IsSampleEvent(r[j], st), i < j
        PROVE  r[i].sample.tick < r[j].sample.tick
    <2>1. /\ i + 1 \in DOMAIN q /\ j + 1 \in DOMAIN q /\ i + 1 < j + 1
          /\ r[i] = q[i + 1] /\ r[j] = q[j + 1]
      BY <1>1, <1>4
    <2>2. QED  BY <1>4, <2>1 DEF QueueHolds
  <1>5. QED  BY <1>2, <1>3, <1>4 DEF QueueHolds, r

\* The oldest queued sample of a stream carries the oldest outstanding reading.
LEMMA TailSample ==
  ASSUME NEW q \in Seq(Event), q # << >>, NEW st, NEW first \in Nat, NEW last \in Nat,
         QueueHolds(q, st, first, last), IsSampleEvent(Head(q), st)
  PROVE  /\ Head(q).sample.tick = first + 1
         /\ QueueHolds(Tail(q), st, first + 1, last)
  <1> DEFINE r == Tail(q)
  <1>1. /\ Len(q) \in Nat /\ Len(q) > 0 /\ Len(r) = Len(q) - 1 /\ Head(q) = q[1]
        /\ DOMAIN q = 1 .. Len(q) /\ DOMAIN r = 1 .. Len(r)
        /\ \A i \in 1 .. Len(r) : r[i] = q[i + 1]
    OBVIOUS
  <1> HIDE DEF r
  <1>2. 1 \in DOMAIN q /\ IsSampleEvent(q[1], st) /\ q[1].sample.tick \in first + 1 .. last
    BY <1>1 DEF QueueHolds
  <1>3. q[1].sample.tick = first + 1
    <2>1. first + 1 \in first + 1 .. last
      BY <1>2
    <2>2. PICK i \in DOMAIN q : IsSampleEvent(q[i], st) /\ q[i].sample.tick = first + 1
      BY <2>1 DEF QueueHolds
    <2>3. i = 1 \/ 1 < i
      BY <1>1
    <2>4. 1 < i => q[1].sample.tick < q[i].sample.tick
      BY <1>2, <2>2 DEF QueueHolds
    <2>5. QED  BY <1>2, <2>2, <2>3, <2>4
  <1>4. ASSUME NEW i \in DOMAIN r, IsSampleEvent(r[i], st)
        PROVE  r[i].sample.tick \in first + 2 .. last
    <2>1. i + 1 \in DOMAIN q /\ 1 < i + 1 /\ r[i] = q[i + 1]
      BY <1>1
    <2>2. q[i + 1].sample.tick \in first + 1 .. last
          /\ q[1].sample.tick < q[i + 1].sample.tick
      BY <1>2, <1>4, <2>1 DEF QueueHolds
    <2>3. QED  BY <1>3, <2>1, <2>2
  <1>5. ASSUME NEW t \in first + 2 .. last
        PROVE  \E i \in DOMAIN r : IsSampleEvent(r[i], st) /\ r[i].sample.tick = t
    <2>1. PICK i \in DOMAIN q : IsSampleEvent(q[i], st) /\ q[i].sample.tick = t
      BY DEF QueueHolds
    <2>2. i # 1
      BY <1>3, <2>1
    <2>3. i - 1 \in DOMAIN r /\ r[i - 1] = q[i]
      BY <1>1, <2>2
    <2>4. QED  BY <2>1, <2>3
  <1>6. ASSUME NEW i \in DOMAIN r, NEW j \in DOMAIN r,
               IsSampleEvent(r[i], st), IsSampleEvent(r[j], st), i < j
        PROVE  r[i].sample.tick < r[j].sample.tick
    <2>1. /\ i + 1 \in DOMAIN q /\ j + 1 \in DOMAIN q /\ i + 1 < j + 1
          /\ r[i] = q[i + 1] /\ r[j] = q[j + 1]
      BY <1>1, <1>6
    <2>2. QED  BY <1>6, <2>1 DEF QueueHolds
  <1>7. first + 1 <= last /\ first + 1 + 1 = first + 2
    BY <1>2
  <1>8. QED  BY <1>1, <1>3, <1>4, <1>5, <1>6, <1>7 DEF QueueHolds, r

\* Submitting an event that is no sample of the stream leaves its readings alone.
LEMMA AppendOther ==
  ASSUME NEW q \in Seq(Event), NEW e \in Event, NEW st, NEW first \in Nat, NEW last \in Nat,
         QueueHolds(q, st, first, last), ~IsSampleEvent(e, st)
  PROVE  QueueHolds(Append(q, e), st, first, last)
  <1> DEFINE r == Append(q, e)
  <1>1. /\ Len(q) \in Nat /\ Len(r) = Len(q) + 1
        /\ DOMAIN q = 1 .. Len(q) /\ DOMAIN r = 1 .. Len(r)
        /\ \A i \in 1 .. Len(q) : r[i] = q[i]
        /\ r[Len(q) + 1] = e
    OBVIOUS
  <1> HIDE DEF r
  <1>2. \A i \in DOMAIN r : IsSampleEvent(r[i], st) => i \in DOMAIN q /\ r[i] = q[i]
    BY <1>1
  <1>3. \A i \in DOMAIN q : i \in DOMAIN r /\ r[i] = q[i]
    BY <1>1
  <1>4. QED  BY <1>2, <1>3, Zenon DEF QueueHolds, r

\* Submitting the newest reading of a stream extends what is outstanding by it.
LEMMA AppendNewest ==
  ASSUME NEW q \in Seq(Event), NEW e \in Event, NEW st, NEW first \in Nat, NEW last \in Nat,
         QueueHolds(q, st, first, last), IsSampleEvent(e, st), e.sample.tick = last + 1
  PROVE  QueueHolds(Append(q, e), st, first, last + 1)
  <1> DEFINE r == Append(q, e)
  <1>1. /\ Len(q) \in Nat /\ Len(r) = Len(q) + 1
        /\ DOMAIN q = 1 .. Len(q) /\ DOMAIN r = 1 .. Len(r)
        /\ \A i \in 1 .. Len(q) : r[i] = q[i]
        /\ r[Len(q) + 1] = e
    OBVIOUS
  <1> HIDE DEF r
  <1>2. first <= last /\ first <= last + 1
    BY DEF QueueHolds
  <1>3. ASSUME NEW i \in DOMAIN r, IsSampleEvent(r[i], st)
        PROVE  r[i].sample.tick \in first + 1 .. last + 1
    <2>1. CASE i = Len(q) + 1
      BY <1>1, <1>2, <2>1
    <2>2. CASE i \in DOMAIN q
      <3>1. q[i].sample.tick \in first + 1 .. last
        BY <1>1, <1>3, <2>2 DEF QueueHolds
      <3>2. QED  BY <1>1, <2>2, <3>1
    <2>3. QED  BY <1>1, <2>1, <2>2
  <1>4. ASSUME NEW t \in first + 1 .. last + 1
        PROVE  \E i \in DOMAIN r : IsSampleEvent(r[i], st) /\ r[i].sample.tick = t
    <2>1. CASE t = last + 1
      BY <1>1, <2>1
    <2>2. CASE t # last + 1
      <3>1. t \in first + 1 .. last
        BY <2>2
      <3>2. PICK i \in DOMAIN q : IsSampleEvent(q[i], st) /\ q[i].sample.tick = t
        BY <3>1 DEF QueueHolds
      <3>3. i \in DOMAIN r /\ r[i] = q[i]
        BY <1>1
      <3>4. QED  BY <3>2, <3>3
    <2>3. QED  BY <2>1, <2>2
  <1>5. ASSUME NEW i \in DOMAIN r, NEW j \in DOMAIN r,
               IsSampleEvent(r[i], st), IsSampleEvent(r[j], st), i < j
        PROVE  r[i].sample.tick < r[j].sample.tick
    <2>1. i \in DOMAIN q /\ r[i] = q[i]
      BY <1>1, <1>5
    <2>2. q[i].sample.tick \in first + 1 .. last
      BY <1>5, <2>1 DEF QueueHolds
    <2>3. CASE j = Len(q) + 1
      BY <1>1, <2>1, <2>2, <2>3
    <2>4. CASE j \in DOMAIN q
      <3>1. r[j] = q[j]
        BY <1>1, <2>4
      <3>2. QED  BY <1>5, <2>1, <2>4, <3>1 DEF QueueHolds
    <2>5. QED  BY <1>1, <2>3, <2>4
  <1>6. QED  BY <1>2, <1>3, <1>4, <1>5 DEF QueueHolds, r

-----------------------------------------------------------------------------
(* The invariant *)

\* The readings of a stream that are settled or in its buffer.
Taken(st) == settled[st] + BatchLen(st)

\* Each stream's buffer holds the readings after the settled ones, and the
\* queue those after them, up to the newest.
PipelineInv ==
  \A st \in Streams :
    /\ \A i \in 1 .. BatchLen(st) : batch[st].payload[i].tick = settled[st] + i
    /\ QueueHolds(events, st, Taken(st), ticks[SensorOf(st)])

\* Each stream belongs to a sensor of the board, and a sensor's reading has
\* one event for each of its streams.
LEMMA StreamsOfSensors ==
  /\ \A st \in Streams : SensorOf(st) \in Sensors
  /\ \A s \in Sensors : \A i \in DOMAIN StreamsOf(s) : SensorOf(StreamsOf(s)[i]) = s
  <1>1. ASSUME NEW s \in Sensors, NEW i \in DOMAIN StreamsOf(s)
        PROVE  SensorOf(StreamsOf(s)[i]) = s
    <2>1. CASE s = "lsm6dsl"
      <3>1. StreamsOf(s) = << "imu6", "orientation" >>
        BY <2>1 DEF StreamsOf
      <3>2. StreamsOf(s)[i] \in {"imu6", "orientation"}
        BY <3>1
      <3>3. QED  BY <2>1, <3>2 DEF SensorOf
    <2>2. CASE s # "lsm6dsl"
      <3>1. StreamsOf(s)[i] = s
        BY <2>2 DEF StreamsOf
      <3>2. s \notin {"imu6", "orientation"}
        BY DEF Sensors, OptionalSensors
      <3>3. QED  BY <3>1, <3>2 DEF SensorOf
    <2>3. QED  BY <2>1, <2>2
  <1>2. \A st \in Streams : \E s \in Sensors : \E i \in DOMAIN StreamsOf(s) : st = StreamsOf(s)[i]
    BY FirmwareAssumption
  <1>3. QED  BY <1>1, <1>2

\* The types the steps below use.
LEMMA PipelineTypes ==
  ASSUME TypeOK, NEW st \in Streams
  PROVE  /\ settled[st] \in Nat /\ BatchLen(st) \in Nat /\ Taken(st) \in Nat
         /\ ticks[SensorOf(st)] \in Nat
         /\ events \in Seq(Event)
         /\ st \in BatchedStreams =>
              batch[st].payload \in Seq(Sample) /\ BatchLen(st) = Len(batch[st].payload)
  <1>1. SensorOf(st) \in Sensors
    BY StreamsOfSensors
  <1>2. st \in BatchedStreams => batch[st].payload \in Seq(Sample)
    BY DEF TypeOK, Batch
  <1>3. BatchLen(st) \in Nat
    BY <1>2 DEF BatchLen
  <1>4. QED  BY <1>1, <1>2, <1>3 DEF TypeOK, Taken, BatchLen

\* A stream nothing touches keeps its readings.
LEMMA SameStream ==
  ASSUME TypeOK, PipelineInv, NEW st \in Streams,
         settled'[st] = settled[st], BatchLen(st)' = BatchLen(st),
         st \in BatchedStreams => batch'[st].payload = batch[st].payload,
         ticks'[SensorOf(st)] = ticks[SensorOf(st)],
         \/ events' = events
         \/ events # << >> /\ events' = Tail(events) /\ ~IsSampleEvent(Head(events), st)
         \/ \E e \in Event : events' = Append(events, e) /\ ~IsSampleEvent(e, st)
  PROVE  /\ \A i \in 1 .. BatchLen(st)' : batch'[st].payload[i].tick = settled'[st] + i
         /\ QueueHolds(events', st, Taken(st)', ticks'[SensorOf(st)])
  <1>1. Taken(st)' = Taken(st)
    BY DEF Taken
  <1>2. QueueHolds(events, st, Taken(st), ticks[SensorOf(st)])
    BY DEF PipelineInv
  <1>3. /\ events \in Seq(Event) /\ Taken(st) \in Nat /\ ticks[SensorOf(st)] \in Nat
        /\ BatchLen(st) \in Nat
    BY PipelineTypes
  <1>4. QueueHolds(events', st, Taken(st)', ticks'[SensorOf(st)])
    <2>1. CASE events' = events
      BY <1>1, <1>2, <2>1, Zenon
    <2>2. CASE events # << >> /\ events' = Tail(events) /\ ~IsSampleEvent(Head(events), st)
      BY <1>1, <1>2, <1>3, <2>2, TailOther, Zenon
    <2>3. CASE \E e \in Event : events' = Append(events, e) /\ ~IsSampleEvent(e, st)
      BY <1>1, <1>2, <1>3, <2>3, AppendOther, Zenon
    <2>4. QED  BY <2>1, <2>2, <2>3
  <1>5. \A i \in 1 .. BatchLen(st)' : batch'[st].payload[i].tick = settled'[st] + i
    <2>1. CASE st \in BatchedStreams
      BY <2>1 DEF PipelineInv
    <2>2. CASE st \notin BatchedStreams
      BY <2>2 DEF BatchLen
    <2>3. QED  BY <2>1, <2>2
  <1>6. QED  BY <1>4, <1>5

-----------------------------------------------------------------------------
(* What sending and flushing do to a stream *)

\* Frames of distinct streams settle the samples they carry, and no others.
LEMMA NotifyEffect ==
  ASSUME TypeOK, NEW frames, NotifyPackedSample(frames),
         \A f, g \in frames : f.stream = g.stream => f = g
  PROVE  /\ notified' \subseteq frames
         /\ \A f \in frames :
              f.stream \in Streams => settled'[f.stream] = settled[f.stream] + Len(f.payload)
         /\ \A st \in Streams : (\A f \in frames : f.stream # st) => settled'[st] = settled[st]
  <1>1. notified' \subseteq frames
    BY DEF NotifyPackedSample
  <1>2. ASSUME NEW f \in frames, f.stream \in Streams
        PROVE  settled'[f.stream] = settled[f.stream] + Len(f.payload)
    <2>1. FrameIn(frames, f.stream) \in frames /\ FrameIn(frames, f.stream).stream = f.stream
      BY DEF FrameIn
    <2>2. FrameIn(frames, f.stream) = f
      BY <2>1
    <2>3. QED  BY <1>2, <2>2 DEF NotifyPackedSample
  <1>3. ASSUME NEW st \in Streams, \A f \in frames : f.stream # st
        PROVE  settled'[st] = settled[st]
    <2>1. settled[st] + 0 = settled[st]
      BY DEF TypeOK
    <2>2. QED  BY <1>3, <2>1 DEF NotifyPackedSample
  <1>4. QED  BY <1>1, <1>2, <1>3

\* A flush settles all the buffers hold, in one run for each stream, and
\* empties them.
LEMMA FlushEffect ==
  ASSUME TypeOK, BatchConsistent, PipelineInv, FlushAllBatches
  PROVE  /\ \A st \in Streams : settled'[st] = Taken(st) /\ BatchLen(st)' = 0
         /\ \A f \in notified' :
              /\ f.stream \in Streams /\ Len(f.payload) \in Nat \ {0}
              /\ f.payload[1].tick = settled[f.stream] + 1
              /\ f.payload[Len(f.payload)].tick = settled[f.stream] + Len(f.payload)
              /\ settled'[f.stream] = settled[f.stream] + Len(f.payload)
  <1> DEFINE frames == { FrameOf(st, batch[st]) : st \in ActiveStreams }
  <1>1. ActiveStreams \subseteq Streams /\ ActiveStreams \subseteq BatchedStreams
    BY SizeAssumption DEF ActiveStreams
  <1>2. \A f \in frames : f.stream \in ActiveStreams /\ f.payload = batch[f.stream].payload
                          /\ f = FrameOf(f.stream, batch[f.stream])
    BY DEF FrameOf
  <1>3. \A st \in ActiveStreams :
          FrameOf(st, batch[st]) \in frames /\ FrameOf(st, batch[st]).stream = st
    BY DEF FrameOf
  <1>4. NotifyPackedSample(frames)
    BY DEF FlushAllBatches
  <1> HIDE DEF frames
  <1>5. \A f, g \in frames : f.stream = g.stream => f = g
    BY <1>2
  <1>6. /\ notified' \subseteq frames
        /\ \A f \in frames :
              f.stream \in Streams => settled'[f.stream] = settled[f.stream] + Len(f.payload)
        /\ \A st \in Streams : (\A f \in frames : f.stream # st) => settled'[st] = settled[st]
    BY <1>4, <1>5, NotifyEffect
  <1>7. ASSUME NEW st \in Streams
        PROVE  settled'[st] = Taken(st) /\ BatchLen(st)' = 0
    <2>1. CASE st \in ActiveStreams
      <3>1. settled'[st] = settled[st] + Len(batch[st].payload)
        BY <1>2, <1>3, <1>6, <2>1
      <3>2. st \in BatchedStreams /\ batch[st].active
        BY <2>1 DEF ActiveStreams
      <3>3. batch'[st] = ClearBatch(batch[st])
        BY <3>2 DEF FlushAllBatches
      <3>4. batch'[st].payload = << >>
        BY <3>3 DEF ClearBatch
      <3>5. QED  BY <3>1, <3>2, <3>4 DEF Taken, BatchLen
    <2>2. CASE st \in BatchedStreams /\ ~batch[st].active
      <3>1. BatchLen(st) = 0
        BY <2>2, PipelineTypes DEF BatchConsistent, Consistent
      <3>2. batch'[st] = batch[st]
        BY <2>2 DEF FlushAllBatches
      <3>3. settled'[st] = settled[st]
        BY <1>2, <1>6, <2>2 DEF ActiveStreams
      <3>4. BatchLen(st)' = 0
        BY <2>2, <3>1, <3>2 DEF BatchLen
      <3>5. QED  BY <3>1, <3>3, <3>4, PipelineTypes DEF Taken
    <2>3. CASE st \notin BatchedStreams
      <3>1. BatchLen(st) = 0 /\ BatchLen(st)' = 0
        BY <2>3 DEF BatchLen
      <3>2. settled'[st] = settled[st]
        BY <1>1, <1>2, <1>6, <2>3
      <3>3. QED  BY <3>1, <3>2, PipelineTypes DEF Taken
    <2>4. QED  BY <2>1, <2>2, <2>3 DEF ActiveStreams
  <1>8. ASSUME NEW f \in notified'
        PROVE  /\ f.stream \in Streams /\ Len(f.payload) \in Nat \ {0}
               /\ f.payload[1].tick = settled[f.stream] + 1
               /\ f.payload[Len(f.payload)].tick = settled[f.stream] + Len(f.payload)
               /\ settled'[f.stream] = settled[f.stream] + Len(f.payload)
    <2> DEFINE st == f.stream
    <2>1. /\ f \in frames /\ st \in ActiveStreams /\ st \in BatchedStreams /\ st \in Streams
          /\ f.payload = batch[st].payload
      BY <1>1, <1>2, <1>6
    <2>2. Len(f.payload) = BatchLen(st) /\ BatchLen(st) \in Nat
      BY <2>1, PipelineTypes
    <2>3. batch[st].active /\ Consistent(st, batch[st])
      BY <2>1 DEF ActiveStreams, BatchConsistent
    <2>4. Len(f.payload) # 0
      BY <2>1, <2>2, <2>3 DEF Consistent
    <2>5. \A i \in 1 .. BatchLen(st) : f.payload[i].tick = settled[st] + i
      BY <2>1 DEF PipelineInv
    <2>6. QED  BY <1>6, <2>1, <2>2, <2>4, <2>5
  <1>9. QED  BY <1>7, <1>8

\* Taking the oldest reading of a stream from the queue, ble_service_enqueue_sample
\* buffers it behind those before it or sends it after them.
LEMMA EnqueueEffect ==
  ASSUME TypeOK, BatchConsistent, PipelineInv, NEW sample \in Sample, EnqueueSample(sample),
         sample.tick = Taken(sample.stream) + 1
  PROVE  /\ \A st \in Streams \ {sample.stream} :
              /\ settled'[st] = settled[st] /\ BatchLen(st)' = BatchLen(st)
              /\ st \in BatchedStreams => batch'[st].payload = batch[st].payload
         /\ Taken(sample.stream)' = Taken(sample.stream) + 1
         /\ settled[sample.stream] <= settled'[sample.stream]
         /\ \A i \in 1 .. BatchLen(sample.stream)' :
              batch'[sample.stream].payload[i].tick = settled'[sample.stream] + i
         /\ \A f \in notified' :
              /\ f.stream = sample.stream /\ Len(f.payload) \in Nat \ {0}
              /\ f.payload[1].tick = settled[f.stream] + 1
              /\ f.payload[Len(f.payload)].tick = settled[f.stream] + Len(f.payload)
              /\ settled'[f.stream] = settled[f.stream] + Len(f.payload)
  <1> DEFINE st  == sample.stream
             b   == batch[st]
             x   == AppendSample(b, sample)
             res == IF st \in BatchedStreams THEN Enqueued(b, sample)
                    ELSE [frames |-> { SingleFrame(sample) }]
             frames == res.frames
             Sent(f) == /\ f.stream = st /\ Len(f.payload) \in Nat \ {0}
                        /\ f.payload[1].tick = settled[st] + 1
                        /\ f.payload[Len(f.payload)].tick = settled[st] + Len(f.payload)
  <1>1. st \in Streams
    BY DEF Sample
  <1>2. /\ settled[st] \in Nat /\ BatchLen(st) \in Nat
        /\ Taken(st) = settled[st] + BatchLen(st)
        /\ sample.tick = settled[st] + BatchLen(st) + 1
    BY <1>1, PipelineTypes DEF Taken
  <1>3. NotifyPackedSample(frames)
    BY DEF EnqueueSample
  <1>4. \A s \in Streams : settled[s] \in Nat
    BY DEF TypeOK
  <1>5. CASE st \notin BatchedStreams
    <2>1. frames = { SingleFrame(sample) }
      BY <1>5
    <2>2. SingleFrame(sample).stream = st /\ SingleFrame(sample).payload = << sample >>
      BY DEF SingleFrame
    <2>3. BatchLen(st) = 0 /\ BatchLen(st)' = 0
      BY <1>5 DEF BatchLen
    <2>4. UNCHANGED batch
      BY <1>5 DEF EnqueueSample
    <2> HIDE DEF res
    <2>5. /\ notified' \subseteq frames
          /\ \A f \in frames :
                f.stream \in Streams => settled'[f.stream] = settled[f.stream] + Len(f.payload)
          /\ \A s \in Streams : (\A f \in frames : f.stream # s) => settled'[s] = settled[s]
      BY <1>3, <2>1, NotifyEffect
    <2>10. SingleFrame(sample) \in frames /\ Len(SingleFrame(sample).payload) = 1
      BY <2>1, <2>2
    <2>6. settled'[st] = settled[st] + 1
      BY <1>1, <2>2, <2>5, <2>10
    <2>7. \A f \in frames : Sent(f)
      <3>1. Len(<< sample >>) = 1 /\ << sample >>[1] = sample
        OBVIOUS
      <3>2. sample.tick = settled[st] + 1
        BY <1>2, <2>3
      <3>3. Sent(SingleFrame(sample))
        BY <2>2, <3>1, <3>2
      <3> HIDE DEF Sent
      <3>4. QED  BY <2>1, <3>3
    <2>8. \A s \in Streams \ {st} : settled'[s] = settled[s] /\ BatchLen(s)' = BatchLen(s)
      BY <2>1, <2>2, <2>4, <2>5 DEF BatchLen
    <2>9. Taken(st)' = Taken(st) + 1 /\ settled[st] <= settled'[st]
      BY <1>2, <2>3, <2>6 DEF Taken
    <2>11. QED  BY <1>1, <2>3, <2>4, <2>5, <2>7, <2>8, <2>9
  <1>6. CASE st \in BatchedStreams
    <2>1. /\ b.payload \in Seq(Sample) /\ BatchLen(st) = Len(b.payload)
          /\ \A i \in 1 .. Len(b.payload) : b.payload[i].tick = settled[st] + i
      BY <1>1, <1>6, PipelineTypes DEF PipelineInv
    <2>2. /\ b.active <=> Len(b.payload) > 0
          /\ st \in DOMAIN batch
      BY <1>6 DEF BatchConsistent, Consistent, TypeOK
    <2>3. batch' = [batch EXCEPT ![st] = res.batch]
      BY <1>6 DEF EnqueueSample
    <2>4. /\ x.payload = Append(b.payload, sample)
          /\ Len(x.payload) = Len(b.payload) + 1
          /\ \A i \in 1 .. Len(x.payload) : x.payload[i].tick = settled[st] + i
      <3>1. x.payload = Append(b.payload, sample)
        BY DEF AppendSample
      <3>2. Len(x.payload) = Len(b.payload) + 1 /\ x.payload[Len(b.payload) + 1] = sample
            /\ \A i \in 1 .. Len(b.payload) : x.payload[i] = b.payload[i]
        BY <2>1, <3>1
      <3>3. ASSUME NEW i \in 1 .. Len(x.payload)
            PROVE  x.payload[i].tick = settled[st] + i
        <4>1. CASE i = Len(b.payload) + 1
          <5>1. sample.tick = settled[st] + i
            BY <1>2, <2>1, <4>1
          <5>2. QED  BY <3>2, <4>1, <5>1
        <4>2. CASE i \in 1 .. Len(b.payload)
          BY <2>1, <3>2, <4>2
        <4>3. QED  BY <2>1, <3>2, <4>1, <4>2
      <3>4. QED  BY <3>1, <3>2, <3>3
    <2>5. StartBatch(sample).payload = << sample >>
      BY DEF StartBatch
    <2>6. \/ /\ ~b.active /\ frames = {} /\ res.batch.payload = << sample >>
          \/ /\ b.active /\ frames = { FrameOf(st, b) } /\ res.batch.payload = << sample >>
          \/ /\ frames = { FrameOf(st, x) } /\ res.batch.payload = << >>
          \/ /\ frames = {} /\ res.batch.payload = x.payload
      <3>1. \/ ~b.active /\ res = [batch |-> StartBatch(sample), frames |-> {}]
            \/ b.active /\ res = [batch |-> StartBatch(sample), frames |-> { FrameOf(st, b) }]
            \/ res = [batch |-> ClearBatch(x), frames |-> { FrameOf(st, x) }]
            \/ res = [batch |-> x, frames |-> {}]
        BY <1>6 DEF Enqueued
      <3>2. ClearBatch(x).payload = << >>
        BY DEF ClearBatch
      <3> HIDE DEF res, x
      <3>3. QED  BY <2>5, <3>1, <3>2
    <2>7. /\ FrameOf(st, b).stream = st /\ FrameOf(st, b).payload = b.payload
          /\ FrameOf(st, x).stream = st /\ FrameOf(st, x).payload = x.payload
      BY DEF FrameOf
    <2>8. batch'[st] = res.batch /\ \A s \in BatchedStreams \ {st} : batch'[s] = batch[s]
      <3> HIDE DEF res
      <3>1. QED  BY <2>2, <2>3 DEF TypeOK
    <2>9. BatchLen(st)' = Len(res.batch.payload)
      BY <1>6, <2>8 DEF BatchLen
    <2> HIDE DEF res, x, b
    <2>10. \A f, g \in frames : f.stream = g.stream => f = g
      BY <2>6
    <2>11. /\ notified' \subseteq frames
           /\ \A f \in frames :
                f.stream \in Streams => settled'[f.stream] = settled[f.stream] + Len(f.payload)
           /\ \A s \in Streams : (\A f \in frames : f.stream # s) => settled'[s] = settled[s]
      BY <1>3, <2>10, NotifyEffect
    <2>12. \A f \in frames : Sent(f)
      <3>1. b.active => Sent(FrameOf(st, b))
        BY <2>1, <2>2, <2>7
      <3>2. Sent(FrameOf(st, x))
        BY <2>1, <2>4, <2>7
      <3> HIDE DEF Sent
      <3>3. QED  BY <2>6, <3>1, <3>2
    <2>13. \A s \in Streams \ {st} :
             /\ settled'[s] = settled[s] /\ BatchLen(s)' = BatchLen(s)
             /\ s \in BatchedStreams => batch'[s].payload = batch[s].payload
      BY <2>6, <2>7, <2>8, <2>11 DEF BatchLen
    <2>14. /\ Taken(st)' = Taken(st) + 1 /\ settled[st] <= settled'[st]
           /\ \A i \in 1 .. BatchLen(st)' : batch'[st].payload[i].tick = settled'[st] + i
      <3>0. \/ frames = {} /\ settled'[st] = settled[st]
            \/ \E f \in frames : frames = {f} /\ settled'[st] = settled[st] + Len(f.payload)
        BY <1>1, <2>6, <2>7, <2>11
      <3>1. CASE ~b.active /\ frames = {} /\ res.batch.payload = << sample >>
        BY <1>2, <2>1, <2>2, <2>8, <2>9, <3>0, <3>1 DEF Taken
      <3>2. CASE b.active /\ frames = { FrameOf(st, b) } /\ res.batch.payload = << sample >>
        <4>1. settled'[st] = settled[st] + BatchLen(st)
          BY <2>1, <2>7, <3>0, <3>2
        <4>2. BatchLen(st)' = 1 /\ batch'[st].payload = << sample >>
          BY <2>8, <2>9, <3>2
        <4>3. QED  BY <1>2, <4>1, <4>2 DEF Taken
      <3>3. CASE frames = { FrameOf(st, x) } /\ res.batch.payload = << >>
        <4>1. settled'[st] = settled[st] + BatchLen(st) + 1
          BY <1>2, <2>1, <2>4, <2>7, <3>0, <3>3
        <4>2. BatchLen(st)' = 0
          BY <2>9, <3>3
        <4>3. QED  BY <1>2, <4>1, <4>2 DEF Taken
      <3>4. CASE frames = {} /\ res.batch.payload = x.payload
        <4>1. settled'[st] = settled[st]
          BY <3>0, <3>4
        <4>2. BatchLen(st)' = BatchLen(st) + 1 /\ batch'[st].payload = x.payload
          BY <2>1, <2>4, <2>8, <2>9, <3>4
        <4>3. Taken(st)' = Taken(st) + 1 /\ settled[st] <= settled'[st]
          BY <1>2, <4>1, <4>2 DEF Taken
        <4>4. QED  BY <2>1, <2>4, <4>1, <4>2, <4>3
      <3>5. QED  BY <2>6, <3>1, <3>2, <3>3, <3>4
    <2>15. QED  BY <1>1, <2>11, <2>12, <2>13, <2>14
  <1>7. QED  BY <1>5, <1>6

-----------------------------------------------------------------------------
(* Every step keeps the order *)

\* The queue changes by at most an event that is no sample.
NoSampleMoves ==
  \/ events' = events
  \/ events # << >> /\ events' = Tail(events) /\ Head(events).type # "sensor_sample"
  \/ \E e \in Event : events' = Append(events, e) /\ e.type # "sensor_sample"

\* A step that takes no reading, sends nothing and moves no sample.
QuietStep == NoSampleMoves /\ UNCHANGED << settled, batch, ticks >> /\ notified' = {}

\* A step that empties the buffers: by sending, or by dropping, which leaves the
\* device with nobody to send to.
FlushStep == FlushAllBatches /\ NoSampleMoves /\ UNCHANGED ticks
DropStep == DropBatches /\ NoSampleMoves /\ UNCHANGED ticks /\ ~Receptive'

LEMMA EventsAreDistinct ==
  /\ \A c : CommandEvent(c).type = "pc_command"
  /\ \A c : ConfigEvent(c).type = "config_update"
  /\ ConnectedEvent.type = "ble_connected"
  /\ DisconnectedEvent.type = "ble_disconnected"
  BY DEF CommandEvent, ConfigEvent, ConnectedEvent, DisconnectedEvent

\* Every step of the firmware is of one of these kinds.
LEMMA StepKinds ==
  ASSUME TypeOK, Next
  PROVE  \/ QuietStep
         \/ FlushStep
         \/ DropStep
         \/ HandleSample
         \/ \E s \in Sensors : SampleWork(s)
  <1> USE DEF countVars, batchVars, NoNotification
  <1>0. \A e : Submit(<< e >>) => events' = Append(events, e)
    BY DEF Submit, TypeOK
  <1>1. CASE \/ HandleStart \/ HandleRequestStatus \/ HandleResetSequence
             \/ HandleForceGyroCalib \/ HandleConnected
             \/ \E c \in Configs : HandleConfig(c)
    <2> DEFINE Quiet == UNCHANGED << settled, batch, ticks >> /\ notified' = {}
    <2>1. CASE \/ HandleStart \/ HandleRequestStatus \/ HandleResetSequence
               \/ HandleForceGyroCalib
      <3>1. \E c : HeadIs(CommandEvent(c))
        BY <2>1 DEF HandleStart, HandleRequestStatus, HandleResetSequence, HandleForceGyroCalib
      <3>2. Quiet
        BY <2>1 DEF HandleStart, HandleRequestStatus, HandleResetSequence, HandleForceGyroCalib
      <3>3. QED  BY <3>1, <3>2, EventsAreDistinct DEF HeadIs, NoSampleMoves, QuietStep
    <2>2. CASE HandleConnected
      BY <2>2, EventsAreDistinct DEF HandleConnected, HeadIs, NoSampleMoves, QuietStep
    <2>3. ASSUME NEW c \in Configs, HandleConfig(c) PROVE QuietStep
      <3>1. HeadIs(ConfigEvent(c)) /\ Quiet
        BY <2>3 DEF HandleConfig
      <3>2. QED  BY <3>1, EventsAreDistinct DEF HeadIs, NoSampleMoves, QuietStep
    <2>4. QED  BY <1>1, <2>1, <2>2, <2>3
  <1>2. CASE HandleStop \/ HandleDisconnected
    <2>1. \E e : HeadIs(e) /\ e.type # "sensor_sample"
      BY <1>2, EventsAreDistinct DEF HandleStop, HandleDisconnected
    <2>2. NoSampleMoves
      BY <2>1 DEF HeadIs, NoSampleMoves
    <2>3. FlushAllBatches /\ UNCHANGED ticks
      BY <1>2 DEF HandleStop, HandleDisconnected, FlushSamples
    <2>4. QED  BY <2>2, <2>3 DEF FlushStep
  <1>3. CASE BatchFlushWork
    BY <1>3 DEF BatchFlushWork, FlushStep, NoSampleMoves
  <1>4. CASE Disconnected
    <2>1. events' = Append(events, DisconnectedEvent)
      BY <1>0, <1>4 DEF Disconnected
    <2>2. NoSampleMoves
      BY <2>1, EventTypes, EventsAreDistinct DEF NoSampleMoves
    <2>3. QED  BY <1>4, <2>2 DEF Disconnected, DropStep, Receptive
  <1>5. CASE Connected
    <2>1. events' = Append(events, ConnectedEvent)
      BY <1>0, <1>5 DEF Connected
    <2>2. NoSampleMoves
      BY <2>1, EventTypes, EventsAreDistinct DEF NoSampleMoves
    <2>3. QED  BY <1>5, <2>2 DEF Connected, QuietStep
  <1>6. ASSUME NEW c \in Commands, WriteControl(c) PROVE QuietStep
    <2>1. events' = Append(events, CommandEvent(c))
      BY <1>0, <1>6 DEF WriteControl
    <2>2. NoSampleMoves
      BY <2>1, EventTypes, EventsAreDistinct DEF NoSampleMoves
    <2>3. QED  BY <1>6, <2>2 DEF WriteControl, QuietStep
  <1>7. ASSUME NEW c \in Configs, WriteConfig(c) PROVE QuietStep
    <2>1. events' = Append(events, ConfigEvent(c))
      BY <1>0, <1>7 DEF WriteConfig
    <2>2. NoSampleMoves
      BY <2>1, EventTypes, EventsAreDistinct DEF NoSampleMoves
    <2>3. QED  BY <1>7, <2>2 DEF WriteConfig, QuietStep
  <1>8. CASE \/ AdvertisingStarts \/ AdvertisingFails \/ ConnectionFailed
             \/ \E value \in BOOLEAN : SensorCccChanged(value)
             \/ \E e \in BadWrites \ {"INVALID_CONFIG"} : WriteControlRejected(e)
             \/ WriteConfigRejected
    BY <1>8 DEF AdvertisingStarts, AdvertisingFails, ConnectionFailed, SensorCccChanged,
                WriteControlRejected, WriteConfigRejected, QuietStep, NoSampleMoves
  <1>9. QED
    BY <1>1, <1>2, <1>3, <1>4, <1>5, <1>6, <1>7, <1>8
       DEF Next, ProcessEvent, BluetoothCallback

\* Buffers emptied into the settled samples hold nothing out of order.
LEMMA EmptiedInv ==
  ASSUME TypeOK, PipelineInv, NoSampleMoves, UNCHANGED ticks,
         \A st \in Streams : settled'[st] = Taken(st) /\ BatchLen(st)' = 0
  PROVE  PipelineInv'
  <1> SUFFICES ASSUME NEW st \in Streams
               PROVE  /\ \A i \in 1 .. BatchLen(st)' :
                           batch'[st].payload[i].tick = settled'[st] + i
                      /\ QueueHolds(events', st, Taken(st)', ticks'[SensorOf(st)])
    BY DEF PipelineInv
  <1>1. Taken(st)' = Taken(st) /\ BatchLen(st)' = 0
    BY PipelineTypes DEF Taken
  <1>2. QueueHolds(events, st, Taken(st), ticks[SensorOf(st)])
    BY DEF PipelineInv
  <1>3. events \in Seq(Event) /\ Taken(st) \in Nat /\ ticks[SensorOf(st)] \in Nat
    BY PipelineTypes
  <1>4. CASE events' = events
    BY <1>1, <1>2, <1>4
  <1>5. CASE events # << >> /\ events' = Tail(events) /\ Head(events).type # "sensor_sample"
    BY <1>1, <1>2, <1>3, <1>5, TailOther DEF IsSampleEvent
  <1>6. CASE \E e \in Event : events' = Append(events, e) /\ e.type # "sensor_sample"
    BY <1>1, <1>2, <1>3, <1>6, AppendOther DEF IsSampleEvent
  <1>7. QED  BY <1>4, <1>5, <1>6 DEF NoSampleMoves

\* A disconnection settles what the buffers hold.
LEMMA DropEffect ==
  ASSUME TypeOK, DropBatches, NEW st \in Streams
  PROVE  settled'[st] = Taken(st) /\ BatchLen(st)' = 0
  BY DEF DropBatches, Taken, BatchLen, ClearBatch

\* Handling a sample takes the oldest queued reading of its stream.
LEMMA HandleSampleEffect ==
  ASSUME TypeOK, PipelineInv, HandleSample
  PROVE  /\ events # << >> /\ events' = Tail(events) /\ UNCHANGED ticks
         /\ Head(events).sample \in Sample
         /\ \A st \in Streams : IsSampleEvent(Head(events), st) <=> st = Head(events).sample.stream
         /\ Head(events).sample.tick = Taken(Head(events).sample.stream) + 1
         /\ EnqueueSample(Head(events).sample)
  <1> DEFINE sample == Head(events).sample
  <1>1. /\ HeadIs(Head(events)) /\ Head(events).type = "sensor_sample"
        /\ EnqueueSample(sample) /\ UNCHANGED ticks
    BY DEF HandleSample, countVars
  <1>2. Head(events) \in Event
    BY <1>1, HeadIsType
  <1>3. sample \in Sample
    BY <1>1, <1>2 DEF Event, CommandEvent, ConfigEvent, ConnectedEvent, DisconnectedEvent
  <1>4. events # << >> /\ events' = Tail(events)
    BY <1>1 DEF HeadIs, HandleSample, Pending
  <1>5. sample.stream \in Streams
    BY <1>3 DEF Sample
  <1>6. IsSampleEvent(Head(events), sample.stream)
    BY <1>1 DEF IsSampleEvent
  <1>7. sample.tick = Taken(sample.stream) + 1
    <2>1. QueueHolds(events, sample.stream, Taken(sample.stream), ticks[SensorOf(sample.stream)])
      BY <1>5 DEF PipelineInv
    <2>2. /\ events \in Seq(Event) /\ Taken(sample.stream) \in Nat
          /\ ticks[SensorOf(sample.stream)] \in Nat
      BY <1>5, PipelineTypes
    <2>3. QED  BY <1>4, <1>6, <2>1, <2>2, TailSample
  <1>8. QED  BY <1>1, <1>3, <1>4, <1>7 DEF IsSampleEvent

\* A reading is appended to the queue once for each stream of its sensor.
LEMMA SampleWorkEffect ==
  ASSUME TypeOK, PipelineInv, NEW s \in Sensors, SampleWork(s), running[s]
  PROVE  /\ ticks' = [ticks EXCEPT ![s] = @ + 1]
         /\ \A st \in Streams :
              QueueHolds(events', st, Taken(st), ticks'[SensorOf(st)])
  <1> DEFINE E(st) == SampleEvent([stream |-> st, sequence |-> sequence[s],
                                   tick |-> ticks[s] + 1])
  <1>1. ticks' = [ticks EXCEPT ![s] = @ + 1] /\ ticks[s] \in Nat /\ ticks'[s] = ticks[s] + 1
    BY DEF SampleWork, TypeOK
  <1>2. events' = events \o SampleEvents(s) /\ events \in Seq(Event)
    BY DEF SampleWork, Submit, TypeOK
  <1>3. \A st \in Streams :
          /\ E(st) \in Event
          /\ IsSampleEvent(E(st), st) /\ E(st).sample.tick = ticks[s] + 1
          /\ \A x \in Streams : IsSampleEvent(E(x), st) => x = st
    <2>1. sequence[s] \in Sequences16
      BY DEF TypeOK
    <2>2. \A st \in Streams : [stream |-> st, sequence |-> sequence[s], tick |-> ticks[s] + 1] \in Sample
      BY <1>1, <2>1 DEF Sample
    <2>3. QED  BY <2>2 DEF SampleEvent, Event, IsSampleEvent
  <1> HIDE DEF E
  <1>4. ASSUME NEW st \in Streams
        PROVE  /\ QueueHolds(events, st, Taken(st), ticks[SensorOf(st)])
               /\ Taken(st) \in Nat /\ ticks[SensorOf(st)] \in Nat
               /\ SensorOf(st) # s => ticks'[SensorOf(st)] = ticks[SensorOf(st)]
    BY <1>1, PipelineTypes, StreamsOfSensors DEF PipelineInv, TypeOK
  <1>5. CASE s = "lsm6dsl"
    <2>1. SampleEvents(s) = << E("imu6"), E("orientation") >>
      BY <1>5 DEF SampleEvents, StreamsOf, E
    <2>2. "imu6" \in Streams /\ "orientation" \in Streams
      <3>1. StreamsOf(s) = << "imu6", "orientation" >>
        BY <1>5 DEF StreamsOf
      <3>2. 1 \in DOMAIN StreamsOf(s) /\ 2 \in DOMAIN StreamsOf(s)
        BY <3>1
      <3>3. QED  BY <3>1, <3>2, StreamsOfType
    <2> DEFINE q == Append(events, E("imu6"))
    <2>3. events' = Append(q, E("orientation")) /\ q \in Seq(Event)
      BY <1>2, <1>3, <2>1, <2>2
    <2> HIDE DEF q
    <2>4. ASSUME NEW st \in Streams, st \notin {"imu6", "orientation"}
          PROVE  QueueHolds(events', st, Taken(st), ticks'[SensorOf(st)])
      <3>1. SensorOf(st) # s
        <4>1. PICK o \in Sensors : \E i \in DOMAIN StreamsOf(o) : st = StreamsOf(o)[i]
          BY FirmwareAssumption
        <4>2. o = s => st \in {"imu6", "orientation"}
          BY <1>5, <4>1 DEF StreamsOf
        <4>3. QED  BY <2>4, <4>1, <4>2, StreamsOfSensors
      <3>2. ~IsSampleEvent(E("imu6"), st) /\ ~IsSampleEvent(E("orientation"), st)
        BY <1>3, <2>2, <2>4
      <3>3. QueueHolds(q, st, Taken(st), ticks[SensorOf(st)])
        BY <1>2, <1>3, <1>4, <2>2, <3>2, AppendOther DEF q
      <3>4. QueueHolds(events', st, Taken(st), ticks[SensorOf(st)])
        BY <1>3, <1>4, <2>2, <2>3, <3>2, <3>3, AppendOther
      <3>5. QED  BY <1>4, <3>1, <3>4
    <2>5. QueueHolds(events', "imu6", Taken("imu6"), ticks'[SensorOf("imu6")])
      <3>1. SensorOf("imu6") = s
        BY <1>5 DEF SensorOf
      <3>2. QueueHolds(q, "imu6", Taken("imu6"), ticks[s] + 1)
        BY <1>2, <1>3, <1>4, <2>2, <3>1, AppendNewest DEF q
      <3>3. ~IsSampleEvent(E("orientation"), "imu6")
        BY <1>3, <2>2
      <3>4. ticks[s] + 1 \in Nat
        BY <1>1
      <3>5. QueueHolds(events', "imu6", Taken("imu6"), ticks[s] + 1)
        BY <1>3, <1>4, <2>2, <2>3, <3>2, <3>3, <3>4, AppendOther
      <3>6. QED  BY <1>1, <3>1, <3>5
    <2>6. QueueHolds(events', "orientation", Taken("orientation"), ticks'[SensorOf("orientation")])
      <3>1. SensorOf("orientation") = s
        BY <1>5 DEF SensorOf
      <3>2. ~IsSampleEvent(E("imu6"), "orientation")
        BY <1>3, <2>2
      <3>3. QueueHolds(q, "orientation", Taken("orientation"), ticks[s])
        BY <1>2, <1>3, <1>4, <2>2, <3>1, <3>2, AppendOther DEF q
      <3>4. QueueHolds(events', "orientation", Taken("orientation"), ticks[s] + 1)
        BY <1>1, <1>3, <1>4, <2>2, <2>3, <3>3, AppendNewest
      <3>5. QED  BY <1>1, <3>1, <3>4
    <2>7. QED  BY <1>1, <2>4, <2>5, <2>6
  <1>6. CASE s # "lsm6dsl"
    <2>1. StreamsOf(s) = << s >> /\ SampleEvents(s) = << E(s) >>
      BY <1>6 DEF SampleEvents, StreamsOf, E
    <2>2. s \in Streams /\ SensorOf(s) = s
      <3>1. 1 \in DOMAIN StreamsOf(s) /\ StreamsOf(s)[1] = s
        BY <2>1
      <3>2. QED  BY <3>1, StreamsOfType, StreamsOfSensors
    <2>3. events' = Append(events, E(s))
      BY <1>2, <2>1
    <2>4. ASSUME NEW st \in Streams, st # s
          PROVE  QueueHolds(events', st, Taken(st), ticks'[SensorOf(st)])
      <3>1. SensorOf(st) # s
        BY <1>6, <2>4 DEF SensorOf
      <3>2. ~IsSampleEvent(E(s), st)
        BY <1>3, <2>2, <2>4
      <3>3. QueueHolds(events', st, Taken(st), ticks[SensorOf(st)])
        BY <1>2, <1>3, <1>4, <2>2, <2>3, <3>2, AppendOther
      <3>4. QED  BY <1>4, <3>1, <3>3
    <2>5. QueueHolds(events', s, Taken(s), ticks[s] + 1)
      BY <1>2, <1>3, <1>4, <2>2, <2>3, AppendNewest
    <2>6. QED  BY <1>1, <2>2, <2>4, <2>5
  <1>7. QED  BY <1>1, <1>5, <1>6

LEMMA InitPipelineInv == Init => PipelineInv
  <1> SUFFICES ASSUME Init, NEW st \in Streams
               PROVE  /\ \A i \in 1 .. BatchLen(st) : batch[st].payload[i].tick = settled[st] + i
                      /\ QueueHolds(events, st, Taken(st), ticks[SensorOf(st)])
    BY DEF PipelineInv
  <1>1. SensorOf(st) \in Sensors
    BY StreamsOfSensors
  <1>2. BatchLen(st) = 0 /\ settled[st] = 0 /\ ticks[SensorOf(st)] = 0 /\ events = << >>
    BY <1>1 DEF Init, BatchLen, EmptyBatch
  <1>3. Taken(st) = 0
    BY <1>2 DEF Taken
  <1>4. QED  BY <1>2, <1>3 DEF QueueHolds

LEMMA NextPipelineInv == TypeOK /\ BatchConsistent /\ PipelineInv /\ [Next]_vars => PipelineInv'
  <1> SUFFICES ASSUME TypeOK, BatchConsistent, PipelineInv, [Next]_vars PROVE PipelineInv'
    OBVIOUS
  <1>1. CASE QuietStep
    <2> SUFFICES ASSUME NEW st \in Streams
                 PROVE  /\ \A i \in 1 .. BatchLen(st)' :
                             batch'[st].payload[i].tick = settled'[st] + i
                        /\ QueueHolds(events', st, Taken(st)', ticks'[SensorOf(st)])
      BY DEF PipelineInv
    <2>1. BatchLen(st)' = BatchLen(st) /\ UNCHANGED << settled, batch, ticks >>
      BY <1>1 DEF QuietStep, BatchLen
    <2>2. \/ events' = events
          \/ events # << >> /\ events' = Tail(events) /\ ~IsSampleEvent(Head(events), st)
          \/ \E e \in Event : events' = Append(events, e) /\ ~IsSampleEvent(e, st)
      BY <1>1 DEF QuietStep, NoSampleMoves, IsSampleEvent
    <2>3. QED  BY <2>1, <2>2, SameStream
  <1>2. CASE FlushStep
    BY <1>2, FlushEffect, EmptiedInv DEF FlushStep
  <1>3. CASE DropStep
    BY <1>3, DropEffect, EmptiedInv DEF DropStep
  <1>4. CASE HandleSample
    <2>1. PICK sample \in Sample :
            /\ events # << >> /\ events' = Tail(events) /\ UNCHANGED ticks
            /\ \A st \in Streams : IsSampleEvent(Head(events), st) <=> st = sample.stream
            /\ sample.tick = Taken(sample.stream) + 1
            /\ EnqueueSample(sample)
      BY <1>4, HandleSampleEffect
    <2>2. /\ \A st \in Streams \ {sample.stream} :
               /\ settled'[st] = settled[st] /\ BatchLen(st)' = BatchLen(st)
               /\ st \in BatchedStreams => batch'[st].payload = batch[st].payload
          /\ Taken(sample.stream)' = Taken(sample.stream) + 1
          /\ \A i \in 1 .. BatchLen(sample.stream)' :
               batch'[sample.stream].payload[i].tick = settled'[sample.stream] + i
      BY <2>1, EnqueueEffect
    <2>3. ASSUME NEW st \in Streams, st # sample.stream
          PROVE  /\ \A i \in 1 .. BatchLen(st)' : batch'[st].payload[i].tick = settled'[st] + i
                 /\ QueueHolds(events', st, Taken(st)', ticks'[SensorOf(st)])
      <3>1. ~IsSampleEvent(Head(events), st)
        BY <2>1, <2>3
      <3>2. QED  BY <2>1, <2>2, <2>3, <3>1, SameStream
    <2>4. ASSUME NEW st \in Streams, st = sample.stream
          PROVE  QueueHolds(events', st, Taken(st)', ticks'[SensorOf(st)])
      <3>1. IsSampleEvent(Head(events), st)
        BY <2>1, <2>4
      <3>2. QueueHolds(events, st, Taken(st), ticks[SensorOf(st)])
        BY DEF PipelineInv
      <3>3. events \in Seq(Event) /\ Taken(st) \in Nat /\ ticks[SensorOf(st)] \in Nat
        BY PipelineTypes
      <3>4. QueueHolds(Tail(events), st, Taken(st) + 1, ticks[SensorOf(st)])
        BY <2>1, <3>1, <3>2, <3>3, TailSample
      <3>5. QED  BY <2>1, <2>2, <2>4, <3>4
    <2>5. QED  BY <2>2, <2>3, <2>4 DEF PipelineInv
  <1>5. ASSUME NEW s \in Sensors, SampleWork(s) PROVE PipelineInv'
    <2>1. UNCHANGED << settled, batch >>
      BY <1>5 DEF SampleWork, NoNotification
    <2>2. \A st \in Streams : Taken(st)' = Taken(st) /\ BatchLen(st)' = BatchLen(st)
      BY <2>1 DEF Taken, BatchLen
    <2>3. \A st \in Streams : QueueHolds(events', st, Taken(st), ticks'[SensorOf(st)])
      <3>1. CASE running[s]
        BY <1>5, <3>1, SampleWorkEffect
      <3>2. CASE ~running[s]
        BY <1>5, <3>2 DEF SampleWork, PipelineInv
      <3>3. QED  BY <3>1, <3>2
    <2>4. QED  BY <2>1, <2>2, <2>3 DEF PipelineInv
  <1>6. CASE UNCHANGED vars
    <2>1. UNCHANGED << settled, batch, events, ticks >>
      BY <1>6 DEF vars, batchVars, countVars
    <2>2. QED  BY <2>1 DEF PipelineInv, QueueHolds, Taken, BatchLen
  <1>7. QED  BY <1>1, <1>2, <1>3, <1>4, <1>5, <1>6, StepKinds

LEMMA AlwaysPipelineInv == Spec => [](TypeOK /\ BatchConsistent /\ PipelineInv)
  <1>1. TypeOK /\ BatchConsistent /\ PipelineInv /\ [Next]_vars => PipelineInv'
    BY NextPipelineInv
  <1>2. QED
    BY <1>1, InitPipelineInv, TypeCorrect, BatchesAreConsistent, PTL DEF Spec

\* For every board, batch limit and sequence space, each reading a sensor took
\* is settled, buffered or queued, in this order, once.
THEOREM ReadingsStayInOrder == Spec => []PipelineFifo
  <1>1. TypeOK /\ PipelineInv => PipelineFifo
    <2> SUFFICES ASSUME TypeOK, PipelineInv, NEW st \in Streams
                 PROVE  LET queued == { i \in DOMAIN events : IsSampleOf(i, st) }
                            next   == settled[st] + BatchLen(st)
                        IN  /\ \A i \in 1 .. BatchLen(st) :
                                 batch[st].payload[i].tick = settled[st] + i
                            /\ { events[i].sample.tick : i \in queued }
                                 = next + 1 .. ticks[SensorOf(st)]
                            /\ \A i, j \in queued :
                                 i < j => events[i].sample.tick < events[j].sample.tick
                            /\ Cardinality(queued) = ticks[SensorOf(st)] - next
      BY DEF PipelineFifo
    <2> DEFINE queued == { i \in DOMAIN events : IsSampleOf(i, st) }
               next   == settled[st] + BatchLen(st)
               last   == ticks[SensorOf(st)]
               due    == next + 1 .. last
               tick   == [i \in queued |-> events[i].sample.tick]
    <2>1. /\ events \in Seq(Event) /\ next \in Nat /\ last \in Nat
          /\ QueueHolds(events, st, next, last)
      BY PipelineTypes DEF PipelineInv, Taken
    <2>2. \A i \in DOMAIN events : IsSampleOf(i, st) <=> IsSampleEvent(events[i], st)
      BY DEF IsSampleOf, IsSampleEvent
    <2>3. DOMAIN events = 1 .. Len(events) /\ Len(events) \in Nat
      BY <2>1
    <2> HIDE DEF next, last
    <2>4. \A i \in queued : events[i].sample.tick \in due
      BY <2>1, <2>2 DEF QueueHolds
    <2>5. \A t \in due : \E i \in queued : events[i].sample.tick = t
      BY <2>1, <2>2 DEF QueueHolds
    <2>6. \A i, j \in queued : i < j => events[i].sample.tick < events[j].sample.tick
      BY <2>1, <2>2 DEF QueueHolds
    <2>7. tick \in Injection(queued, due)
      <3>1. tick \in [queued -> due]
        BY <2>4
      <3>2. ASSUME NEW i \in queued, NEW j \in queued, tick[i] = tick[j] PROVE i = j
        <4>1. tick[i] \in Nat /\ tick[j] \in Nat
          BY <2>1, <2>4
        <4>2. ~(i < j) /\ ~(j < i)
          BY <2>6, <3>2, <4>1
        <4>3. QED  BY <2>3, <4>2
      <3> HIDE DEF tick
      <3>3. QED  BY <3>1, <3>2 DEF Injection, IsInjective
    <2>8. tick \in Surjection(queued, due)
      BY <2>4, <2>5 DEF Surjection
    <2>9. IsFiniteSet(due) /\ Cardinality(due) = last - next
      <3>1. next <= last
        BY <2>1 DEF QueueHolds
      <3>2. next + 1 \in Int /\ last \in Int
        BY <2>1
      <3>3. /\ IsFiniteSet(due)
            /\ Cardinality(due) = IF next + 1 > last THEN 0 ELSE last - (next + 1) + 1
        BY <3>2, FS_Interval
      <3>4. QED  BY <2>1, <3>1, <3>3
    <2>10. Cardinality(queued) = last - next
      <3> HIDE DEF tick, queued, due
      <3>1. QED  BY <2>7, <2>8, <2>9, FS_Injection
    <2>11. \A i \in 1 .. BatchLen(st) : batch[st].payload[i].tick = settled[st] + i
      BY DEF PipelineInv
    <2>12. { events[i].sample.tick : i \in queued } = due
      BY <2>4, <2>5
    <2>13. QED  BY <2>6, <2>10, <2>11, <2>12 DEF next, last
  <1>2. QED  BY <1>1, AlwaysPipelineInv, PTL

-----------------------------------------------------------------------------
(* Refinement of SampleChannel *)

\* Settled samples were taken before.
SettledBound ==
  \A st \in Streams :
    /\ settled[st] \in Nat /\ ticks[SensorOf(st)] \in Nat /\ Taken(st) \in Nat
    /\ settled[st] <= Taken(st) /\ Taken(st) <= ticks[SensorOf(st)]

LEMMA SettledWereTaken == TypeOK /\ PipelineInv => SettledBound
  BY PipelineTypes DEF PipelineInv, QueueHolds, Taken, SettledBound

Produced == [st \in Streams |-> ticks[SensorOf(st)]]
Sent == { [stream |-> f.stream, from |-> f.payload[1].tick,
           to |-> f.payload[Len(f.payload)].tick] : f \in notified }

\* Whatever a step sends is a run of what it settles.
SentRuns ==
  \A f \in notified' :
    /\ f.stream \in Streams /\ Len(f.payload) \in Nat \ {0}
    /\ f.payload[1].tick = settled[f.stream] + 1
    /\ f.payload[Len(f.payload)].tick = settled[f.stream] + Len(f.payload)
    /\ settled'[f.stream] = settled[f.stream] + Len(f.payload)

\* A step that takes no reading and settles what it sends is a Settle step.
LEMMA SettleStep ==
  ASSUME TypeOK, PipelineInv, TypeOK', PipelineInv', UNCHANGED ticks, SentRuns,
         \A st \in Streams : settled[st] <= settled'[st]
  PROVE  Channel!Settle
  <1>0. SettledBound /\ SettledBound'
    <2>1. (TypeOK /\ PipelineInv => SettledBound)'
      BY SettledWereTaken, PTL
    <2>2. QED  BY <2>1, SettledWereTaken
  <1>1. UNCHANGED Produced
    BY DEF Produced
  <1>2. \A st \in Streams : settled'[st] \in settled[st] .. Produced[st]
    <2> SUFFICES ASSUME NEW st \in Streams PROVE settled'[st] \in settled[st] .. Produced[st]
      OBVIOUS
    <2>1. settled'[st] <= Taken(st)' /\ Taken(st)' <= ticks'[SensorOf(st)]
          /\ settled'[st] \in Nat /\ Taken(st)' \in Nat
      BY <1>0 DEF SettledBound
    <2>2. settled[st] \in Nat /\ ticks[SensorOf(st)] \in Nat
      BY <1>0 DEF SettledBound
    <2>3. QED  BY <2>1, <2>2 DEF Produced
  <1>3. settled' = [st \in Streams |-> settled'[st]]
    BY DEF TypeOK
  <1>4. Sent' \subseteq { Channel!Run(st, settled[st] + 1, settled'[st]) :
                           st \in { x \in Streams : settled'[x] > settled[x] } }
    <2> SUFFICES ASSUME NEW f \in notified'
                 PROVE  \E st \in { x \in Streams : settled'[x] > settled[x] } :
                          [stream |-> f.stream, from |-> f.payload[1].tick,
                           to |-> f.payload[Len(f.payload)].tick]
                            = Channel!Run(st, settled[st] + 1, settled'[st])
      BY DEF Sent
    <2>1. /\ f.stream \in Streams /\ Len(f.payload) \in Nat \ {0}
          /\ f.payload[1].tick = settled[f.stream] + 1
          /\ f.payload[Len(f.payload)].tick = settled'[f.stream]
          /\ settled'[f.stream] = settled[f.stream] + Len(f.payload)
      BY DEF SentRuns
    <2>2. settled'[f.stream] > settled[f.stream]
      BY <2>1 DEF TypeOK
    <2>3. [stream |-> f.stream, from |-> f.payload[1].tick,
           to |-> f.payload[Len(f.payload)].tick]
             = Channel!Run(f.stream, settled[f.stream] + 1, settled'[f.stream])
      BY <2>1 DEF Channel!Run
    <2>4. QED  BY <2>1, <2>2, <2>3
  <1>5. QED  BY <1>1, <1>2, <1>3, <1>4 DEF Channel!Settle, Produced, Sent

\* A reading is a Produce step of the streams it feeds.
LEMMA ProduceStep ==
  ASSUME TypeOK, NEW s \in Sensors, ticks' = [ticks EXCEPT ![s] = @ + 1],
         UNCHANGED settled, notified' = {}
  PROVE  Channel!Produce
  <1> DEFINE S == { st \in Streams : SensorOf(st) = s }
  <1>1. S \in SUBSET Streams
    OBVIOUS
  <1>2. ASSUME NEW st \in Streams
        PROVE  ticks'[SensorOf(st)] = ticks[SensorOf(st)] + (IF st \in S THEN 1 ELSE 0)
    BY StreamsOfSensors DEF TypeOK
  <1>3. Produced' = [st \in Streams |-> Produced[st] + (IF st \in S THEN 1 ELSE 0)]
    BY <1>2 DEF Produced
  <1>4. Sent' = {}
    BY DEF Sent
  <1> HIDE DEF S
  <1>5. \E X \in SUBSET Streams :
          Produced' = [st \in Streams |-> Produced[st] + (IF st \in X THEN 1 ELSE 0)]
    BY <1>1, <1>3
  <1>6. QED  BY <1>4, <1>5 DEF Channel!Produce, Produced, Sent

LEMMA ChannelStep ==
  ASSUME TypeOK, BatchConsistent, PipelineInv, TypeOK', PipelineInv', [Next]_vars
  PROVE  [Channel!ChanNext]_(Channel!chanVars)
  <1> USE DEF Channel!ChanNext
  <1>1. ASSUME UNCHANGED << settled, ticks >>, notified' = {} PROVE Channel!ChanNext
    <2>1. SentRuns /\ \A st \in Streams : settled[st] <= settled'[st]
      BY <1>1 DEF SentRuns, TypeOK
    <2>2. QED  BY <1>1, <2>1, SettleStep
  <1>2. CASE QuietStep
    BY <1>1, <1>2 DEF QuietStep
  <1>3. CASE FlushStep
    <2>1. \A st \in Streams : settled[st] <= settled'[st]
      BY <1>3, FlushEffect, SettledWereTaken DEF FlushStep, SettledBound
    <2>2. SentRuns
      BY <1>3, FlushEffect DEF FlushStep, SentRuns
    <2>3. QED  BY <1>3, <2>1, <2>2, SettleStep DEF FlushStep
  <1>4. CASE DropStep
    <2>1. \A st \in Streams : settled[st] <= settled'[st]
      BY <1>4, DropEffect, SettledWereTaken DEF DropStep, SettledBound
    <2>2. SentRuns
      BY <1>4 DEF DropStep, DropBatches, SentRuns
    <2>3. QED  BY <1>4, <2>1, <2>2, SettleStep DEF DropStep
  <1>5. CASE HandleSample
    <2>1. PICK sample \in Sample :
            /\ UNCHANGED ticks
            /\ sample.tick = Taken(sample.stream) + 1
            /\ EnqueueSample(sample)
      BY <1>5, HandleSampleEffect
    <2>2. sample.stream \in Streams
      BY DEF Sample
    <2>3. /\ \A st \in Streams \ {sample.stream} : settled'[st] = settled[st]
          /\ SentRuns
      BY <2>1, <2>2, EnqueueEffect DEF SentRuns
    <2>4. settled[sample.stream] <= settled'[sample.stream]
      BY <2>1, EnqueueEffect
    <2>5. ASSUME NEW st \in Streams PROVE settled[st] <= settled'[st]
      <3>1. CASE st = sample.stream
        BY <2>4, <3>1
      <3>2. CASE st # sample.stream
        BY <2>3, <3>2, PipelineTypes
      <3>3. QED  BY <3>1, <3>2
    <2>6. QED  BY <2>1, <2>3, <2>5, SettleStep
  <1>6. ASSUME NEW s \in Sensors, SampleWork(s) PROVE Channel!ChanNext
    <2>1. UNCHANGED settled /\ notified' = {}
      BY <1>6 DEF SampleWork, NoNotification
    <2>2. CASE running[s]
      <3>1. ticks' = [ticks EXCEPT ![s] = @ + 1]
        BY <1>6, <2>2 DEF SampleWork
      <3>2. QED  BY <2>1, <3>1, ProduceStep
    <2>3. CASE ~running[s]
      BY <1>1, <1>6, <2>1, <2>3 DEF SampleWork
    <2>4. QED  BY <2>2, <2>3
  <1>7. CASE UNCHANGED vars
    BY <1>7 DEF vars, batchVars, countVars, Channel!chanVars
  <1>8. QED  BY <1>2, <1>3, <1>4, <1>5, <1>6, <1>7, StepKinds

\* For every value of the constants, the sample path implements SampleChannel:
\* in each stream the samples that leave, sent or lost, are the next ones, in
\* order, and a notification carries a run of them.
THEOREM FirmwareImplementsChannel == Spec => ImplementsChannel
  <1>1. Init => Channel!ChanInit
    <2> SUFFICES ASSUME Init PROVE Channel!ChanInit
      OBVIOUS
    <2>1. \A st \in Streams : ticks[SensorOf(st)] = 0
      BY StreamsOfSensors DEF Init
    <2>2. QED  BY <2>1 DEF Init, Channel!ChanInit
  <1> DEFINE I == TypeOK /\ BatchConsistent /\ PipelineInv
  <1>2. I /\ I' /\ [Next]_vars => [Channel!ChanNext]_(Channel!chanVars)
    BY ChannelStep
  <1>3. Spec => []I
    BY AlwaysPipelineInv
  <1> HIDE DEF I
  <1>4. QED  BY <1>1, <1>2, <1>3, PTL DEF Spec, ImplementsChannel, Channel!ChanSpec

-----------------------------------------------------------------------------
(* No loss while a central is subscribed *)

\* bsl_sensor_data_pack accepts the frame of any consistent buffer in use.
LEMMA ActivePacks ==
  ASSUME NEW st \in Streams, NEW b \in Batch, Consistent(st, b), b.active
  PROVE  Packs(FrameOf(st, b))
  <1> DEFINE n == b.sample_count
             z == SampleSize[st]
             m == MaxBatch[st]
  <1>1. /\ n \in Nat \ {0} /\ n <= m /\ b.payload_len = z * n
        /\ z \in Nat \ {0} /\ m \in Nat \ {0} /\ MaxPayload \in Nat /\ z * m <= MaxPayload
    BY SizeAssumption DEF Batch, Consistent
  <1> HIDE DEF n, z, m
  <1>2. z * n \in Nat /\ z * n >= 1 /\ z * n <= z * m /\ z * m \in Nat
    BY <1>1
  <1>3. b.payload_len \in 1 .. MaxPayload /\ n \in 1 .. m /\ b.payload_len = z * n
    BY <1>1, <1>2
  <1>4. QED  BY <1>3 DEF Packs, FrameOf, n, z, m

\* bsl_sensor_data_pack accepts the frame of one sample.
LEMMA SinglePacks ==
  ASSUME NEW sample \in Sample
  PROVE  Packs(SingleFrame(sample))
  <1> DEFINE z == SampleSize[sample.stream]
             m == MaxBatch[sample.stream]
  <1>1. z \in Nat \ {0} /\ m \in Nat \ {0} /\ MaxPayload \in Nat /\ z * m <= MaxPayload
    BY SizeAssumption DEF Sample
  <1> HIDE DEF z, m
  <1>2. z <= z * m /\ z * m \in Nat /\ z * 1 = z
    BY <1>1
  <1>3. z \in 1 .. MaxPayload /\ 1 \in 1 .. m
    BY <1>1, <1>2
  <1>4. QED  BY <1>2, <1>3 DEF Packs, SingleFrame, z, m

\* With a subscriber and room in the host, all that is settled is sent.
LEMMA NotifyWithoutLoss ==
  ASSUME TypeOK, NEW frames \in SUBSET Frame, NotifyPackedSample(frames),
         \A f \in frames : Packs(f), ~HostMayRefuse, Receptive
  PROVE  \A st \in Streams : settled'[st] - settled[st] = FrameLen(notified', st)
  <1>1. notified' = frames
    BY DEF NotifyPackedSample
  <1>2. ASSUME NEW st \in Streams PROVE settled'[st] - settled[st] = FrameLen(frames, st)
    <2>1. settled[st] \in Nat
      BY DEF TypeOK
    <2>2. settled'[st] = settled[st] + FrameLen(frames, st)
      BY DEF NotifyPackedSample, FrameLen
    <2>3. FrameLen(frames, st) \in Nat
      <3>1. CASE \E f \in frames : f.stream = st
        <4>1. FrameIn(frames, st) \in Frame
          BY <3>1 DEF FrameIn
        <4>2. FrameIn(frames, st).payload \in Seq(Sample)
          BY <4>1 DEF Frame
        <4>3. QED  BY <3>1, <4>2 DEF FrameLen
      <3>2. CASE ~\E f \in frames : f.stream = st
        BY <3>2 DEF FrameLen
      <3>3. QED  BY <3>1, <3>2
    <2>4. QED  BY <2>1, <2>2, <2>3
  <1>3. QED  BY <1>1, <1>2

LEMMA LosslessStep ==
  ASSUME TypeOK, BatchConsistent, PipelineInv, Next, ~HostMayRefuse, Receptive, Receptive'
  PROVE  \A st \in Streams : settled'[st] - settled[st] = FrameLen(notified', st)
  <1>1. ASSUME UNCHANGED settled, notified' = {}
        PROVE  \A st \in Streams : settled'[st] - settled[st] = FrameLen(notified', st)
    BY <1>1 DEF FrameLen, TypeOK
  <1>2. CASE QuietStep
    BY <1>1, <1>2 DEF QuietStep
  <1>3. CASE FlushAllBatches
    <2> DEFINE frames == { FrameOf(st, batch[st]) : st \in ActiveStreams }
    <2>1. \A st \in ActiveStreams :
            /\ st \in Streams /\ batch[st] \in Batch
            /\ batch[st].active /\ Consistent(st, batch[st])
      BY SizeAssumption DEF ActiveStreams, TypeOK, BatchConsistent
    <2>2. \A st \in ActiveStreams :
            Packs(FrameOf(st, batch[st])) /\ FrameOf(st, batch[st]) \in Frame
      BY <2>1, ActivePacks DEF FrameOf, Frame, Batch
    <2>3. frames \in SUBSET Frame /\ \A f \in frames : Packs(f)
      BY <2>2
    <2>4. NotifyPackedSample(frames)
      BY <1>3 DEF FlushAllBatches
    <2> HIDE DEF frames
    <2>5. QED  BY <2>3, <2>4, NotifyWithoutLoss
  <1>4. CASE HandleSample
    <2>1. PICK sample \in Sample : EnqueueSample(sample)
      BY <1>4, HandleSampleEffect
    <2> DEFINE st  == sample.stream
               b   == batch[st]
               x   == AppendSample(b, sample)
               res == IF st \in BatchedStreams THEN Enqueued(b, sample)
                      ELSE [frames |-> { SingleFrame(sample) }]
               frames == res.frames
    <2>2. NotifyPackedSample(frames)
      BY <2>1 DEF EnqueueSample
    <2>3. st \in Streams
      BY DEF Sample
    <2>4. frames \in SUBSET Frame /\ \A f \in frames : Packs(f)
      <3>1. CASE st \notin BatchedStreams
        <4>1. frames = { SingleFrame(sample) }
          BY <3>1
        <4>2. SingleFrame(sample) \in Frame
          BY SizeAssumption, <2>3 DEF SingleFrame, Frame, Sample
        <4> HIDE DEF frames
        <4>3. QED  BY <4>1, <4>2, SinglePacks
      <3>2. CASE st \in BatchedStreams
        <4>1. b \in Batch /\ Consistent(st, b)
          BY <3>2 DEF TypeOK, BatchConsistent
        <4>2. x \in Batch /\ FrameOf(st, b) \in Frame
          BY <2>3, <4>1, BatchTypes
        <4>3. FrameOf(st, x) \in Frame
          BY <2>3, <4>2, BatchTypes
        <4>4. b.active /\ ~MustRestart(b, sample) => Consistent(st, x) /\ x.active
          BY <4>1, AppendConsistent DEF AppendSample
        <4>5. \/ frames = {}
              \/ b.active /\ frames = { FrameOf(st, b) }
              \/ b.active /\ ~MustRestart(b, sample) /\ frames = { FrameOf(st, x) }
          BY <3>2 DEF Enqueued
        <4>6. b.active => Packs(FrameOf(st, b))
          BY <2>3, <4>1, ActivePacks
        <4>7. Consistent(st, x) /\ x.active => Packs(FrameOf(st, x))
          BY <2>3, <4>2, ActivePacks
        <4> HIDE DEF frames, x, b
        <4>8. QED  BY <4>2, <4>3, <4>4, <4>5, <4>6, <4>7
      <3>3. QED  BY <3>1, <3>2
    <2> HIDE DEF frames
    <2>5. QED  BY <2>2, <2>4, NotifyWithoutLoss
  <1>5. ASSUME NEW s \in Sensors, SampleWork(s)
        PROVE  \A st \in Streams : settled'[st] - settled[st] = FrameLen(notified', st)
    BY <1>1, <1>5 DEF SampleWork, NoNotification
  <1>6. QED  BY <1>2, <1>3, <1>4, <1>5, StepKinds DEF FlushStep, DropStep

\* For every value of the constants: with a subscribed central and a host that
\* has buffers, every sample that leaves the device leaves in a notification.
THEOREM SubscribedLosesNothing == Spec => NoLossWhileSubscribed
  <1>1. TypeOK /\ BatchConsistent /\ PipelineInv /\ [Next]_vars =>
          [~HostMayRefuse /\ Receptive /\ Receptive' =>
             \A st \in Streams : settled'[st] - settled[st] = FrameLen(notified', st)]_vars
    BY LosslessStep
  <1>2. QED  BY <1>1, AlwaysPipelineInv, PTL DEF Spec, NoLossWhileSubscribed

=============================================================================
