--------------------------- MODULE EndToEndProofs ---------------------------
(***************************************************************************)
(* missed_samples is what was lost, for every board, batch limit, link and *)
(* number of connections, provided that the user resets patiently.         *)
(*                                                                         *)
(* Between the reset of the device and the reset of the PC the two have    *)
(* nothing to do with each other; ResetInv says that nothing is measured   *)
(* then and nothing is on its way.  At all other times a sample's number   *)
(* lags the sensor's by as much as its reading lags the newest (NumberInv),*)
(* and frames arrive in the order of their readings (InboxInv), so that    *)
(* the difference of two numbers is the difference of two readings.        *)
(***************************************************************************)
EXTENDS PipelineProofs, EndToEnd

-----------------------------------------------------------------------------
(* Sequence numbers *)

\* Numbers that differ by multiples of the modulus leave the same remainder.
LEMMA SameRemainder ==
  ASSUME NEW a \in Int, NEW b \in Int, NEW k \in Int, NEW m \in Nat \ {0}, a = b + k * m
  PROVE  a % m = b % m
PROOF
  <1> DEFINE qa == a \div m
             ra == a % m
             qb == b \div m
             rb == b % m
             j  == qb + k - qa
  <1>1. /\ qa \in Int /\ ra \in 0 .. m - 1 /\ a = qa * m + ra
        /\ qb \in Int /\ rb \in 0 .. m - 1 /\ b = qb * m + rb
    OBVIOUS
  <1> HIDE DEF qa, ra, qb, rb
  <1>2. j \in Int /\ ra - rb = j * m
    <2>1. j * m = qb * m + k * m - qa * m
      BY <1>1
    <2>2. /\ j \in Int /\ qb * m \in Int /\ k * m \in Int /\ qa * m \in Int
      BY <1>1
    <2> QED
      BY <1>1, <2>1, <2>2
  <1> HIDE DEF j
  <1>3. ASSUME j >= 1
        PROVE  FALSE
    <2>1. j * m >= m
      BY <1>2, <1>3
    <2> QED
      BY <1>1, <1>2, <2>1
  <1>4. ASSUME j <= -1
        PROVE  FALSE
    <2>1. j * m <= -m
      BY <1>2, <1>4
    <2> QED
      BY <1>1, <1>2, <2>1
  <1>5. j = 0
    BY <1>2, <1>3, <1>4
  <1>6. ra = rb
    BY <1>1, <1>2, <1>5
  <1> QED
    BY <1>6 DEF ra, rb

\* Counting on twice is counting on by both.
LEMMA AddTwice ==
  ASSUME NEW a \in Nat, NEW m \in Nat, NEW n \in Nat
  PROVE  Add16(Add16(a, m), n) = Add16(a, m + n)
PROOF
  <1> DEFINE q == (a + m) \div SeqSpace
             r == (a + m) % SeqSpace
  <1>1. SeqSpace \in Nat \ {0}
    BY SizeAssumption
  <1>2. q \in Int /\ r \in Nat /\ a + m = q * SeqSpace + r
    BY <1>1
  <1> HIDE DEF q, r
  <1>3. q * SeqSpace \in Int
    BY <1>1, <1>2
  <1>4. a + (m + n) = (r + n) + q * SeqSpace
    BY <1>2, <1>3
  <1>5. (a + (m + n)) % SeqSpace = (r + n) % SeqSpace
    <2> DEFINE u == a + (m + n)
               v == r + n
    <2>1. u \in Int /\ v \in Int /\ u = v + q * SeqSpace
      BY <1>2, <1>4
    <2> HIDE DEF u, v
    <2>2. u % SeqSpace = v % SeqSpace
      BY <1>1, <1>2, <2>1, SameRemainder
    <2> QED
      BY <2>2 DEF u, v
  <1> QED
    BY <1>5 DEF Add16, r

\* Two numbers that lead to the same one, after p and q more, are p - q apart.
LEMMA GapOfNumbers ==
  ASSUME NEW a \in Sequences16, NEW b \in Sequences16, NEW p \in Nat, NEW q \in Nat, q < p,
         Add16(a, p) = Add16(b, q)
  PROVE  Difference(b, Add16(a, 1)) = (p - q - 1) % SeqSpace
PROOF
  <1> DEFINE k1 == (a + p) \div SeqSpace
             k2 == (b + q) \div SeqSpace
             k3 == (a + 1) \div SeqSpace
             r == (a + p) % SeqSpace
             y == (a + 1) % SeqSpace
             k == k2 - k1 + k3 + 1
  <1>1. SeqSpace \in Nat \ {0} /\ a \in Nat /\ b \in Nat
    BY SizeAssumption DEF Sequences16
  <1>2. /\ k1 \in Int /\ k2 \in Int /\ k3 \in Int /\ r \in Int /\ y \in Int
        /\ a + p = k1 * SeqSpace + r /\ a + 1 = k3 * SeqSpace + y
    BY <1>1
  <1>3. b + q = k2 * SeqSpace + r
    <2>1. r = (b + q) % SeqSpace
      BY DEF Add16
    <2> HIDE DEF r
    <2> QED
      BY <1>1, <2>1
  <1>4. k * SeqSpace = k2 * SeqSpace - k1 * SeqSpace + k3 * SeqSpace + SeqSpace
    <2> HIDE DEF k1, k2, k3
    <2> QED
      BY <1>1, <1>2
  <1>5. b + SeqSpace - y = (p - q - 1) + k * SeqSpace /\ k \in Int
    <2> DEFINE x1 == k1 * SeqSpace
               x2 == k2 * SeqSpace
               x3 == k3 * SeqSpace
    <2>1. x1 \in Int /\ x2 \in Int /\ x3 \in Int
      <3> HIDE DEF k1, k2, k3
      <3> QED
        BY <1>1, <1>2
    <2>2. k * SeqSpace = x2 - x1 + x3 + SeqSpace /\ a + p = x1 + r /\ a + 1 = x3 + y
          /\ b + q = x2 + r /\ k \in Int
      BY <1>2, <1>3, <1>4
    <2> HIDE DEF x1, x2, x3, r, y, k
    <2> QED
      BY <1>1, <1>2, <2>1, <2>2
  <1>6. b + SeqSpace - y \in Int /\ p - q - 1 \in Int
    BY <1>1, <1>2
  <1>7. (b + SeqSpace - y) % SeqSpace = (p - q - 1) % SeqSpace
    <2> HIDE DEF k, y
    <2> QED
      BY <1>1, <1>5, <1>6, SameRemainder
  <1> QED
    BY <1>7 DEF Difference, Add16

-----------------------------------------------------------------------------
(* What the device's steps send *)

FirstTick(f) == f.payload[1].tick
LastTick(f) == f.payload[Len(f.payload)].tick

\* The samples in the event queue and in the buffers.
Waiting(x) ==
  \/ \E i \in DOMAIN events : events[i].type = "sensor_sample" /\ x = events[i].sample
  \/ \E st \in BatchedStreams : \E i \in DOMAIN batch[st].payload : x = batch[st].payload[i]

\* What is sent in a step is, for each stream, at most one frame; it holds the oldest of
\* the stream's samples outstanding.
SentInOrder ==
  /\ IsFiniteSet(notified')
  /\ \A f, g \in notified' : f.stream = g.stream => f = g
  /\ \A f \in notified' :
       /\ f.stream \in Streams /\ Len(f.payload) \in Nat \ {0}
       /\ FirstTick(f) = settled[f.stream] + 1
       /\ LastTick(f) = settled[f.stream] + Len(f.payload)
       /\ settled'[f.stream] = settled[f.stream] + Len(f.payload)
       /\ \A i \in DOMAIN f.payload : Waiting(f.payload[i])

\* What waits after a step was waiting before it.
NothingAdded == \A x : Waiting(x)' => Waiting(x)

\* The two batched streams send finitely many frames.
LEMMA PairIsFinite ==
  ASSUME NEW a, NEW b
  PROVE  IsFiniteSet({a, b})
PROOF
  <1>1. IsFiniteSet({a})
    BY FS_Singleton
  <1>2. {a, b} = {a} \cup {b}
    OBVIOUS
  <1> QED
    BY <1>1, <1>2, FS_AddElement

\* A frame of an active buffer holds what waited in the buffer.
LEMMA FlushSends ==
  ASSUME TypeOK, BatchConsistent, PipelineInv, FlushAllBatches
  PROVE  /\ SentInOrder
         /\ \A st \in Streams : settled[st] <= settled'[st]
         /\ \A st \in BatchedStreams : \A i \in DOMAIN batch'[st].payload :
              Waiting(batch'[st].payload[i])
PROOF
  <1> DEFINE frames == { FrameOf(st, batch[st]) : st \in ActiveStreams }
  <1>1. ActiveStreams \subseteq BatchedStreams /\ BatchedStreams \subseteq {"imu6", "orientation"}
    BY FirmwareAssumption DEF ActiveStreams
  <1>2. notified' \subseteq frames
    BY DEF FlushAllBatches, NotifyPackedSample
  <1>3. IsFiniteSet(notified')
    <2>1. frames \subseteq { FrameOf("imu6", batch["imu6"]), FrameOf("orientation", batch["orientation"]) }
      BY <1>1
    <2>2. IsFiniteSet({ FrameOf("imu6", batch["imu6"]), FrameOf("orientation", batch["orientation"]) })
      BY PairIsFinite, Zenon
    <2> QED
      BY <1>2, <2>1, <2>2, FS_Subset
  <1>4. \A f, g \in notified' : f.stream = g.stream => f = g
    BY <1>2 DEF FrameOf
  <1>5. ASSUME NEW f \in notified', NEW i \in DOMAIN f.payload
        PROVE  Waiting(f.payload[i])
    <2>1. PICK st \in ActiveStreams : f = FrameOf(st, batch[st])
      BY <1>2
    <2>2. f.payload = batch[st].payload /\ st \in BatchedStreams
      BY <1>1, <2>1 DEF FrameOf
    <2> QED
      BY <2>2 DEF Waiting
  <1>6. \A st \in Streams : settled[st] <= settled'[st]
    BY FlushEffect, PipelineTypes DEF Taken
  <1>7. ASSUME NEW st \in BatchedStreams, NEW i \in DOMAIN batch'[st].payload
        PROVE  Waiting(batch'[st].payload[i])
    <2>1. batch'[st].payload = <<>> \/ batch'[st] = batch[st]
      BY DEF FlushAllBatches, ClearBatch
    <2>2. batch'[st].payload # <<>>
      BY <1>7
    <2> QED
      BY <1>7, <2>1, <2>2 DEF Waiting
  <1> QED
    BY <1>3, <1>4, <1>5, <1>6, <1>7, FlushEffect DEF SentInOrder, FirstTick, LastTick

\* A frame sent when a sample is handled holds what waited in the buffer and the sample.
LEMMA HandlingSends ==
  ASSUME TypeOK, BatchConsistent, PipelineInv, HandleSample
  PROVE  /\ SentInOrder
         /\ \A st \in Streams : settled[st] <= settled'[st]
         /\ \A st \in BatchedStreams : \A i \in DOMAIN batch'[st].payload :
              Waiting(batch'[st].payload[i])
PROOF
  <1> DEFINE sample == Head(events).sample
             st == sample.stream
             b == batch[st]
             x == AppendSample(b, sample)
             res == IF st \in BatchedStreams THEN Enqueued(b, sample)
                    ELSE [frames |-> { SingleFrame(sample) }]
             frames == res.frames
  <1>1. /\ events # << >> /\ events \in Seq(Event) /\ sample \in Sample
        /\ sample.tick = Taken(st) + 1 /\ EnqueueSample(sample) /\ st \in Streams
    BY HandleSampleEffect DEF TypeOK, Sample
  <1>2. Waiting(sample)
    <2>1. 1 \in DOMAIN events /\ events[1] = Head(events)
      BY <1>1
    <2>2. events[1].type = "sensor_sample"
      BY <2>1 DEF HandleSample
    <2> QED
      BY <2>1, <2>2 DEF Waiting
  <1>3. st \in BatchedStreams => b \in Batch
    BY DEF TypeOK
  <1>4. \A y : st \in BatchedStreams /\ (\E i \in DOMAIN b.payload : y = b.payload[i]) => Waiting(y)
    BY DEF Waiting
  <1>5. ASSUME st \in BatchedStreams, NEW i \in DOMAIN x.payload
        PROVE  Waiting(x.payload[i])
    <2>1. x.payload = Append(b.payload, sample)
      BY DEF AppendSample
    <2>2. b.payload \in Seq(Sample)
      BY <1>3, <1>5 DEF Batch
    <2>3. x.payload[i] = sample \/ (i \in DOMAIN b.payload /\ x.payload[i] = b.payload[i])
      <3> HIDE DEF sample, b
      <3> QED
        BY <1>1, <1>5, <2>1, <2>2
    <2> QED
      BY <1>2, <1>4, <1>5, <2>3
  <1>6. notified' \subseteq frames
    BY <1>1 DEF EnqueueSample, NotifyPackedSample
  <1>7. \/ frames = {}
        \/ frames = { FrameOf(st, b) } /\ st \in BatchedStreams
        \/ frames = { FrameOf(st, x) } /\ st \in BatchedStreams
        \/ frames = { SingleFrame(sample) }
    BY DEF Enqueued
  <1>8. ASSUME NEW f \in notified', NEW i \in DOMAIN f.payload
        PROVE  Waiting(f.payload[i])
    <2>1. CASE f = FrameOf(st, b) /\ st \in BatchedStreams
      <3>1. f.payload = b.payload
        BY <2>1 DEF FrameOf
      <3> QED
        BY <1>4, <1>8, <2>1, <3>1
    <2>2. CASE f = FrameOf(st, x) /\ st \in BatchedStreams
      <3>1. f.payload = x.payload
        BY <2>2 DEF FrameOf
      <3> QED
        BY <1>5, <1>8, <2>2, <3>1
    <2>3. CASE f = SingleFrame(sample)
      <3>1. f.payload = << sample >>
        BY <2>3 DEF SingleFrame
      <3>2. f.payload[i] = sample
        BY <1>8, <3>1
      <3> QED
        BY <1>2, <3>2
    <2> QED
      BY <1>6, <1>7, <1>8, <2>1, <2>2, <2>3
  <1>9. IsFiniteSet(notified') /\ \A f, g \in notified' : f = g
    <2>1. notified' = {} \/ \E f : notified' = {f}
      BY <1>6, <1>7
    <2> QED
      BY <2>1, FS_EmptySet, FS_Singleton
  <1>10. \A s \in Streams : settled[s] <= settled'[s]
    BY <1>1, EnqueueEffect, PipelineTypes
  <1>11. ASSUME NEW s \in BatchedStreams, NEW i \in DOMAIN batch'[s].payload
         PROVE  Waiting(batch'[s].payload[i])
    <2>1. CASE s # st
      <3>1. batch'[s].payload = batch[s].payload
        BY <1>1, <2>1, EnqueueEffect, SizeAssumption
      <3> QED
        BY <1>11, <3>1 DEF Waiting
    <2>2. CASE s = st
      <3>1. batch'[s] = Enqueued(b, sample).batch
        BY <1>1, <2>2 DEF EnqueueSample, TypeOK
      <3>2. \/ batch'[s].payload = << sample >>
            \/ batch'[s].payload = << >>
            \/ batch'[s].payload = x.payload
        <4>1. Enqueued(b, sample).batch \in { StartBatch(sample), ClearBatch(x), x }
          BY DEF Enqueued
        <4>2. StartBatch(sample).payload = << sample >> /\ ClearBatch(x).payload = << >>
          BY DEF StartBatch, ClearBatch
        <4> QED
          BY <3>1, <4>1, <4>2
      <3>3. CASE batch'[s].payload = << sample >>
        <4>1. batch'[s].payload[i] = sample
          BY <1>11, <3>3
        <4> QED
          BY <1>2, <4>1
      <3> QED
        BY <1>5, <1>11, <2>2, <3>2, <3>3
    <2> QED
      BY <2>1, <2>2
  <1> QED
    BY <1>1, <1>8, <1>9, <1>10, <1>11, EnqueueEffect DEF SentInOrder, FirstTick, LastTick

\* Every step but a reading adds nothing to what waits, and sends the oldest of it.
LEMMA StepSends ==
  ASSUME TypeOK, BatchConsistent, PipelineInv, Next
  PROVE  /\ SentInOrder
         /\ \A st \in Streams : settled[st] <= settled'[st]
         /\ NothingAdded \/ \E s \in Sensors : SampleWork(s) /\ running[s]
PROOF
  <1>1. ASSUME notified' = {}
        PROVE  SentInOrder
    BY <1>1, FS_EmptySet DEF SentInOrder
  <1>2. ASSUME UNCHANGED settled
        PROVE  \A st \in Streams : settled[st] <= settled'[st]
    BY <1>2 DEF TypeOK
  <1>3. ASSUME NoSampleMoves, NEW i \in DOMAIN events', events'[i].type = "sensor_sample"
        PROVE  Waiting(events'[i].sample)
    <2>1. events \in Seq(Event)
      BY DEF TypeOK
    <2>2. CASE events # << >> /\ events' = Tail(events)
      <3>1. i + 1 \in DOMAIN events /\ events'[i] = events[i + 1]
        BY <1>3, <2>1, <2>2
      <3> QED
        BY <1>3, <3>1 DEF Waiting
    <2>3. ASSUME NEW e \in Event, events' = Append(events, e), e.type # "sensor_sample"
          PROVE  Waiting(events'[i].sample)
      <3>1. i \in DOMAIN events /\ events'[i] = events[i]
        BY <1>3, <2>1, <2>3
      <3> QED
        BY <1>3, <3>1 DEF Waiting
    <2> QED
      BY <1>3, <2>2, <2>3 DEF NoSampleMoves, Waiting
  <1>4. ASSUME NoSampleMoves,
               \A st \in BatchedStreams : \A i \in DOMAIN batch'[st].payload :
                 Waiting(batch'[st].payload[i])
        PROVE  NothingAdded
    BY <1>3, <1>4 DEF NothingAdded, Waiting
  <1>5. CASE QuietStep
    <2>1. \A st \in BatchedStreams : \A i \in DOMAIN batch'[st].payload :
            Waiting(batch'[st].payload[i])
      BY <1>5 DEF QuietStep, Waiting
    <2> QED
      BY <1>1, <1>2, <1>4, <1>5, <2>1 DEF QuietStep
  <1>6. CASE FlushStep
    BY <1>4, <1>6, FlushSends DEF FlushStep
  <1>7. CASE DropStep
    <2>1. notified' = {} /\ \A st \in BatchedStreams : batch'[st].payload = << >>
      BY <1>7 DEF DropStep, DropBatches, ClearBatch
    <2>2. \A st \in Streams : settled[st] <= settled'[st]
      BY <1>7, DropEffect, PipelineTypes DEF DropStep, Taken
    <2> QED
      BY <1>1, <1>4, <1>7, <2>1, <2>2 DEF DropStep
  <1>8. CASE HandleSample
    <2>1. events # << >> /\ events' = Tail(events) /\ events \in Seq(Event)
      BY <1>8, HandleSampleEffect DEF TypeOK
    <2>2. ASSUME NEW i \in DOMAIN events', events'[i].type = "sensor_sample"
          PROVE  Waiting(events'[i].sample)
      <3>1. i + 1 \in DOMAIN events /\ events'[i] = events[i + 1]
        BY <2>1, <2>2
      <3> QED
        BY <2>2, <3>1 DEF Waiting
    <2>3. NothingAdded
      BY <1>8, <2>2, HandlingSends DEF NothingAdded, Waiting
    <2> QED
      BY <1>8, <2>3, HandlingSends
  <1>9. ASSUME NEW s \in Sensors, SampleWork(s)
        PROVE  /\ SentInOrder
               /\ \A st \in Streams : settled[st] <= settled'[st]
               /\ NothingAdded \/ running[s]
    <2>1. notified' = {} /\ UNCHANGED << settled, batch >>
      BY <1>9 DEF SampleWork, NoNotification
    <2>2. ~running[s] => events' = events
      BY <1>9 DEF SampleWork
    <2>3. ~running[s] => NothingAdded
      BY <2>1, <2>2 DEF NothingAdded, Waiting
    <2> QED
      BY <1>1, <1>2, <2>1, <2>3
  <1> QED
    BY <1>5, <1>6, <1>7, <1>8, <1>9, StepKinds

-----------------------------------------------------------------------------
(* The invariant *)

\* The number of the reading `tick` of a stream, counted on, is the sensor's next.
Numbers(st, number, tick) ==
  Add16(number, ticks[SensorOf(st)] + 1 - tick) = sequence[SensorOf(st)]

NumbersSample(x) == Numbers(x.stream, x.sequence, x.tick)

\* So it is of the samples in the queue and in the buffers, of the first of a frame on its
\* way, and of the last sample received, unless the device was reset since.
NumberInv ==
  /\ \A i \in DOMAIN events :
       events[i].type = "sensor_sample" => NumbersSample(events[i].sample)
  /\ \A st \in BatchedStreams : \A i \in DOMAIN batch[st].payload :
       NumbersSample(batch[st].payload[i])
  /\ \A i \in DOMAIN inbox : inbox[i].kind = "notification" =>
       Numbers(inbox[i].frame.stream, inbox[i].frame.sequence, FirstTick(inbox[i].frame))
  /\ ~reset_unanswered =>
       \A st \in Streams : last_tick[st] # 0 =>
         Numbers(st, last_sequences_by_stream[st], last_tick[st])

Messages == {ResetResponse} \cup { Notification(f) : f \in Frame }

\* A frame on its way holds a run of settled readings, newer than those received before.
Arriving(f) ==
  /\ Len(f.payload) > 0 /\ f.sample_count = Len(f.payload)
  /\ FirstTick(f) \in Nat /\ LastTick(f) = FirstTick(f) + Len(f.payload) - 1
  /\ last_tick[f.stream] < FirstTick(f) /\ LastTick(f) <= settled[f.stream]

InboxInv ==
  /\ inbox \in Seq(Messages)
  /\ \A i \in DOMAIN inbox : inbox[i].kind = "notification" => Arriving(inbox[i].frame)
  /\ \A i, j \in DOMAIN inbox :
       /\ inbox[i].kind = "notification" /\ inbox[j].kind = "notification" /\ i < j
       /\ inbox[i].frame.stream = inbox[j].frame.stream
       => LastTick(inbox[i].frame) < FirstTick(inbox[j].frame)

StatisticsInv ==
  /\ last_sequences_by_stream \in [Streams -> Sequences16 \cup {NoSequence}]
  /\ last_tick \in [Streams -> Nat]
  /\ \A st \in Streams :
       /\ last_tick[st] <= settled[st]
       /\ last_sequences_by_stream[st] = NoSequence <=> last_tick[st] = 0

\* Nothing is measured or held, and nothing is on its way.
DeviceStill ==
  /\ \A s \in Sensors : ~running[s]
  /\ \A i \in DOMAIN events : events[i].type # "sensor_sample"
  /\ ActiveStreams = {}

Still == DeviceStill /\ \A i \in DOMAIN inbox : inbox[i].kind # "notification"

\* From the write of a reset to its handling by the device, and to its handling by the PC,
\* all is still, and between the two the PC counts nothing.
ResetInv ==
  /\ reset_unanswered \in BOOLEAN
  /\ reset_unanswered => Still /\ ~PendingCommand("START_MEASUREMENT")
  /\ \A i \in DOMAIN inbox : inbox[i].kind = "reset_response" => i = 1 /\ reset_unanswered
  /\ \A i \in DOMAIN events : events[i] = CommandEvent("RESET_SEQUENCE") =>
       /\ i = 1 /\ Still
       /\ reset_unanswered \/ \A st \in Streams : last_tick[st] = 0

\* A stream has too few readings for a gap as long as the sequence space.
FewReadings == \A s \in Sensors : MaxTicks[s] <= SeqSpace + 1

\* Gaps are counted but for whole turns of the sequence space.
TallyInv ==
  /\ missed_samples \in Nat /\ lost \in Nat
  /\ \E turns \in Nat : lost = missed_samples + turns * SeqSpace
  /\ FewReadings => missed_samples = lost

TicksInv == \A s \in Sensors : ticks[s] <= MaxTicks[s]

EndToEndInv == NumberInv /\ InboxInv /\ StatisticsInv /\ ResetInv /\ TallyInv /\ TicksInv

-----------------------------------------------------------------------------
(* What the device's steps do to numbers and to stillness *)

\* Only a reading and a reset touch the numbers.
LEMMA StepCounts ==
  ASSUME TypeOK, Next
  PROVE  \/ UNCHANGED << sequence, ticks >>
         \/ HandleResetSequence
         \/ \E s \in Sensors : SampleWork(s) /\ running[s]
PROOF
  <1> USE DEF controlVars, countVars
  <1>1. ASSUME NEW s \in Sensors, SampleWork(s)
        PROVE  UNCHANGED << sequence, ticks >> \/ running[s]
    BY <1>1 DEF SampleWork
  <1>2. CASE ProcessEvent
    <2>1. HandleStart \/ HandleStop \/ HandleRequestStatus \/ HandleForceGyroCalib
            => UNCHANGED << sequence, ticks >>
      BY DEF HandleStart, HandleStop, HandleRequestStatus, HandleForceGyroCalib
    <2>2. \A c \in Configs : HandleConfig(c) => UNCHANGED << sequence, ticks >>
      BY DEF HandleConfig
    <2>3. HandleConnected \/ HandleDisconnected \/ HandleSample
            => UNCHANGED << sequence, ticks >>
      BY DEF HandleConnected, HandleDisconnected, HandleSample
    <2> QED
      BY <1>2, <2>1, <2>2, <2>3 DEF ProcessEvent
  <1>3. CASE BatchFlushWork \/ AdvertisingStarts \/ AdvertisingFails
    BY <1>3 DEF BatchFlushWork, AdvertisingStarts, AdvertisingFails
  <1>4. CASE BluetoothCallback
    BY <1>4 DEF BluetoothCallback, Connected, ConnectionFailed, Disconnected, SensorCccChanged,
                WriteControl, WriteControlRejected, WriteConfig, WriteConfigRejected
  <1> QED
    BY <1>1, <1>2, <1>3, <1>4 DEF Next

\* Only START_MEASUREMENT has a sensor run that did not.
LEMMA StepRuns ==
  ASSUME TypeOK, Next, ~HandleStart, NEW s \in Sensors, ~running[s]
  PROVE  ~running'[s]
PROOF
  <1> USE DEF controlVars, StopSensors
  <1>1. CASE ProcessEvent
    <2>1. HandleRequestStatus \/ HandleResetSequence \/ HandleForceGyroCalib
            => UNCHANGED running
      BY DEF HandleRequestStatus, HandleResetSequence, HandleForceGyroCalib
    <2>2. \A c \in Configs : HandleConfig(c) => UNCHANGED running
      BY DEF HandleConfig
    <2>3. HandleConnected \/ HandleSample => UNCHANGED running
      BY DEF HandleConnected, HandleSample
    <2>4. HandleStop \/ HandleDisconnected => ~running'[s]
      BY DEF HandleStop, HandleDisconnected
    <2> QED
      BY <1>1, <2>1, <2>2, <2>3, <2>4 DEF ProcessEvent
  <1>2. CASE BatchFlushWork \/ AdvertisingStarts \/ AdvertisingFails
    BY <1>2 DEF BatchFlushWork, AdvertisingStarts, AdvertisingFails
  <1>3. CASE \E o \in Sensors : SampleWork(o)
    BY <1>3 DEF SampleWork
  <1>4. CASE BluetoothCallback
    BY <1>4 DEF BluetoothCallback, Connected, ConnectionFailed, Disconnected, SensorCccChanged,
                WriteControl, WriteControlRejected, WriteConfig, WriteConfigRejected
  <1> QED
    BY <1>1, <1>2, <1>3, <1>4 DEF Next

\* Nothing waits in a device that is still.
LEMMA StillIsEmpty ==
  ASSUME TypeOK, BatchConsistent, DeviceStill, NEW x
  PROVE  ~Waiting(x)
PROOF
  <1>1. ASSUME NEW st \in BatchedStreams, NEW i \in DOMAIN batch[st].payload
        PROVE  FALSE
    <2>1. ~batch[st].active
      BY DEF DeviceStill, ActiveStreams
    <2>2. batch[st].payload \in Seq(Sample) /\ batch[st].sample_count \in Nat
      BY DEF TypeOK, Batch
    <2>3. Len(batch[st].payload) = 0
      BY <2>1, <2>2 DEF BatchConsistent, Consistent
    <2> QED
      BY <1>1, <2>2, <2>3
  <1> QED
    BY <1>1 DEF Waiting, DeviceStill

\* The same, as an implication.
LEMMA StillHoldsNothing == TypeOK /\ BatchConsistent /\ DeviceStill => \A x : ~Waiting(x)
PROOF
  BY StillIsEmpty

\* A device that is still stays so, and sends nothing, until it is started.
LEMMA StillStays ==
  ASSUME TypeOK, BatchConsistent, PipelineInv, TypeOK', BatchConsistent', DeviceStill,
         Next, ~HandleStart
  PROVE  DeviceStill' /\ notified' = {}
PROOF
  <1>1. \A s \in Sensors : ~running[s] /\ ~running'[s]
    BY StepRuns DEF DeviceStill
  <1>2. SentInOrder /\ NothingAdded
    BY <1>1, StepSends
  <1>3. \A x : ~Waiting(x) /\ ~Waiting(x)'
    BY <1>2, StillIsEmpty DEF NothingAdded
  <1>4. notified' = {}
    <2>1. ASSUME NEW f \in notified'
          PROVE  FALSE
      <3>1. f.payload \in Seq(Sample) /\ Len(f.payload) \in Nat \ {0}
        BY <1>2 DEF SentInOrder, TypeOK, Frame
      <3>2. 1 \in DOMAIN f.payload
        BY <3>1
      <3> QED
        BY <1>2, <1>3, <3>2 DEF SentInOrder
    <2> QED
      BY <2>1
  <1>5. \A i \in DOMAIN events' : events'[i].type # "sensor_sample"
    BY <1>3 DEF Waiting
  <1>6. ASSUME NEW st \in BatchedStreams
        PROVE  ~batch'[st].active
    <2>1. batch'[st].payload \in Seq(Sample) /\ batch'[st].sample_count \in Nat
      BY DEF TypeOK, Batch
    <2>2. batch'[st].payload = << >>
      <3>1. ASSUME batch'[st].payload # << >>
            PROVE  FALSE
        <4>1. 1 \in DOMAIN batch'[st].payload
          BY <2>1, <3>1
        <4> QED
          BY <1>3, <4>1 DEF Waiting
      <3> QED
        BY <3>1
    <2> QED
      BY <2>1, <2>2 DEF BatchConsistent, Consistent
  <1> QED
    BY <1>1, <1>4, <1>5, <1>6 DEF DeviceStill, ActiveStreams

-----------------------------------------------------------------------------
(* The numbers are kept *)

\* The notifications on their way are those that were, and what the step sent.
InboxFrom ==
  \A i \in DOMAIN inbox' : inbox'[i].kind = "notification" =>
    \/ \E j \in DOMAIN inbox : inbox'[i] = inbox[j]
    \/ \E f \in notified' : inbox'[i] = Notification(f)

\* What waits has readings taken.
LEMMA WaitingTicks ==
  ASSUME TypeOK, BatchConsistent, PipelineInv, NEW x, Waiting(x)
  PROVE  /\ x \in Sample /\ x.stream \in Streams /\ SensorOf(x.stream) \in Sensors
         /\ x.tick \in Nat /\ x.tick <= ticks[SensorOf(x.stream)]
         /\ x.sequence \in Sequences16
PROOF
  <1>1. ASSUME NEW i \in DOMAIN events, events[i].type = "sensor_sample", x = events[i].sample
        PROVE  x \in Sample /\ x.tick <= ticks[SensorOf(x.stream)]
    <2>1. events \in Seq(Event) /\ events[i] \in Event
      BY DEF TypeOK
    <2>2. x \in Sample
      BY <1>1, <2>1 DEF Event, CommandEvent, ConfigEvent, ConnectedEvent, DisconnectedEvent
    <2>3. x.stream \in Streams /\ IsSampleEvent(events[i], x.stream)
      BY <1>1, <2>2 DEF Sample, IsSampleEvent
    <2>4. x.tick \in Taken(x.stream) + 1 .. ticks[SensorOf(x.stream)]
      BY <1>1, <2>3 DEF PipelineInv, QueueHolds
    <2>5. Taken(x.stream) \in Nat /\ ticks[SensorOf(x.stream)] \in Nat
      BY <2>3, PipelineTypes
    <2> QED
      BY <2>2, <2>4, <2>5
  <1>2. ASSUME NEW st \in BatchedStreams, NEW i \in DOMAIN batch[st].payload,
               x = batch[st].payload[i]
        PROVE  x \in Sample /\ x.tick <= ticks[SensorOf(x.stream)]
    <2>1. st \in Streams /\ batch[st].payload \in Seq(Sample)
      BY SizeAssumption DEF TypeOK, Batch
    <2>2. x \in Sample /\ x.stream = st
      BY <1>2, <2>1 DEF BatchConsistent, Consistent, NumberedFrom
    <2>3. BatchLen(st) = Len(batch[st].payload) /\ i \in 1 .. BatchLen(st)
      BY <1>2, <2>1 DEF BatchLen
    <2>4. x.tick = settled[st] + i
      BY <1>2, <2>1, <2>3 DEF PipelineInv
    <2>5. /\ settled[st] \in Nat /\ BatchLen(st) \in Nat /\ ticks[SensorOf(st)] \in Nat
          /\ settled[st] + BatchLen(st) <= ticks[SensorOf(st)]
      BY <2>1, PipelineTypes, SettledWereTaken DEF SettledBound, Taken
    <2> QED
      BY <2>2, <2>3, <2>4, <2>5
  <1>3. x \in Sample /\ x.tick <= ticks[SensorOf(x.stream)]
    BY <1>1, <1>2 DEF Waiting
  <1> QED
    BY <1>3, StreamsOfSensors DEF Sample

\* A reading leaves the numbers of those before it as they were.
LEMMA ReadingKeepsNumbers ==
  ASSUME TypeOK, NEW s \in Sensors, SampleWork(s), running[s],
         NEW st, SensorOf(st) \in Sensors, NEW number \in Sequences16,
         NEW tick \in Nat, tick <= ticks[SensorOf(st)], Numbers(st, number, tick)
  PROVE  Numbers(st, number, tick)'
PROOF
  <1> DEFINE o == SensorOf(st)
             n == ticks[o] + 1 - tick
  <1>1. /\ ticks' = [ticks EXCEPT ![s] = @ + 1] /\ sequence' = [sequence EXCEPT ![s] = Add16(@, 1)]
        /\ ticks \in [Sensors -> Nat] /\ sequence \in [Sensors -> Sequences16]
    BY DEF SampleWork, TypeOK
  <1>2. CASE o # s
    <2>1. ticks'[o] = ticks[o] /\ sequence'[o] = sequence[o]
      BY <1>1, <1>2
    <2> QED
      BY <2>1 DEF Numbers
  <1>3. CASE o = s
    <2>1. ticks'[o] = ticks[o] + 1 /\ sequence'[o] = Add16(sequence[o], 1)
      BY <1>1, <1>3
    <2>2. n \in Nat /\ number \in Nat /\ sequence[o] = Add16(number, n)
      BY <1>1 DEF Numbers, Sequences16
    <2>3. sequence'[o] = Add16(number, n + 1)
      <3> HIDE DEF n
      <3> QED
        BY <2>1, <2>2, AddTwice
    <2>4. ticks'[o] + 1 - tick = n + 1
      BY <1>1, <2>1
    <2> QED
      BY <2>3, <2>4 DEF Numbers
  <1> QED
    BY <1>2, <1>3

\* NumberInv of the next state, with the frames and the numbers named.
LEMMA NumbersFrom ==
  ASSUME \A x : Waiting(x)' => NumbersSample(x)',
         \A i \in DOMAIN inbox' : \A f :
           inbox'[i].kind = "notification" /\ inbox'[i].frame = f =>
             Numbers(f.stream, f.sequence, FirstTick(f))',
         \A st \in Streams : \A number, tick :
           /\ ~reset_unanswered' /\ tick # 0
           /\ last_sequences_by_stream'[st] = number /\ last_tick'[st] = tick
           => Numbers(st, number, tick)'
  PROVE  NumberInv'
PROOF
  <1>1. \A i \in DOMAIN events' :
          events'[i].type = "sensor_sample" =>
            \A x : x = events'[i].sample => NumbersSample(x)'
    BY DEF Waiting
  <1>2. \A st \in BatchedStreams : \A i \in DOMAIN batch'[st].payload :
          \A x : x = batch'[st].payload[i] => NumbersSample(x)'
    BY DEF Waiting
  <1> QED
    BY <1>1, <1>2 DEF NumberInv, NumbersSample, Numbers, FirstTick

\* The samples of a reading carry its number.
LEMMA ReadingNumbers ==
  ASSUME TypeOK, NEW s \in Sensors, SampleWork(s), running[s], NEW x, Waiting(x)', ~Waiting(x)
  PROVE  NumbersSample(x)'
PROOF
  <1>1. /\ ticks' = [ticks EXCEPT ![s] = @ + 1] /\ sequence' = [sequence EXCEPT ![s] = Add16(@, 1)]
        /\ ticks \in [Sensors -> Nat] /\ sequence \in [Sensors -> Sequences16]
        /\ batch' = batch /\ Submit(SampleEvents(s))
    BY DEF SampleWork, TypeOK
  <1>2. PICK i \in DOMAIN events' : events'[i].type = "sensor_sample" /\ x = events'[i].sample
    BY <1>1 DEF Waiting
  <1>3. PICK k \in DOMAIN SampleEvents(s) : events'[i] = SampleEvents(s)[k]
    <2>1. ~(i \in DOMAIN events /\ events'[i] = events[i])
      BY <1>2 DEF Waiting
    <2> QED
      BY <1>1, <2>1, SubmittedQueue, SampleEventsType
  <1>4. x = [stream |-> StreamsOf(s)[k], sequence |-> sequence[s], tick |-> ticks[s] + 1]
        /\ k \in DOMAIN StreamsOf(s)
    BY <1>2, <1>3 DEF SampleEvents, SampleEvent
  <1>5. x.stream = StreamsOf(s)[k] /\ x.sequence = sequence[s] /\ x.tick = ticks[s] + 1
    BY <1>4
  <1>6. SensorOf(x.stream) = s
    BY <1>4, <1>5, StreamsOfSensors
  <1>7. sequence'[s] = Add16(sequence[s], 1) /\ ticks'[s] + 1 - x.tick = 1
    BY <1>1, <1>5
  <1> QED
    BY <1>5, <1>6, <1>7 DEF NumbersSample, Numbers

\* Every step of the device keeps the numbers.
LEMMA NextNumbers ==
  ASSUME TypeOK, BatchInv, PipelineInv, TypeOK', BatchInv', EndToEndInv, Next, InboxFrom,
         UNCHANGED pcVars, ~reset_unanswered' => ~reset_unanswered
  PROVE  NumberInv'
PROOF
  <1>1. BatchConsistent /\ SentInOrder
    BY StepSends DEF BatchInv
  <1>2. ASSUME NEW x, Waiting(x)
        PROVE  NumbersSample(x)
    BY <1>2 DEF EndToEndInv, NumberInv, Waiting
  <1>3. ASSUME NEW f \in notified'
        PROVE  Numbers(f.stream, f.sequence, FirstTick(f))
    <2>1. f \in Frame /\ Len(f.payload) \in Nat \ {0} /\ Waiting(f.payload[1])
      <3>1. f \in Frame /\ Len(f.payload) \in Nat \ {0}
        BY <1>1 DEF TypeOK, SentInOrder
      <3>2. 1 \in DOMAIN f.payload
        BY <3>1 DEF Frame
      <3> QED
        BY <1>1, <3>1, <3>2 DEF SentInOrder
    <2>2. f.payload[1].stream = f.stream /\ f.payload[1].sequence = Add16(f.sequence, 0)
      <3>1. 1 \in DOMAIN f.payload /\ 1 - 1 = 0
        BY <2>1 DEF Frame
      <3>2. NumberedFrom(f.sequence, f.stream, f.payload)
        BY DEF BatchInv, NotifiedDecodable, Decodable
      <3> QED
        BY <3>1, <3>2 DEF NumberedFrom
    <2>3. f.payload[1].sequence = f.sequence
      BY <2>1, <2>2, Add16Zero DEF Frame
    <2> QED
      BY <1>2, <2>1, <2>2, <2>3 DEF NumbersSample, FirstTick
  <1>4. ASSUME NEW i \in DOMAIN inbox', inbox'[i].kind = "notification"
        PROVE  \/ inbox'[i].frame \in notified'
               \/ \E j \in DOMAIN inbox : inbox[j].kind = "notification" /\ inbox'[i] = inbox[j]
    BY <1>4 DEF InboxFrom, Notification
  <1>5. CASE UNCHANGED << sequence, ticks >>
    <2>1. \A st, number, tick : Numbers(st, number, tick) => Numbers(st, number, tick)'
      BY <1>5 DEF Numbers
    <2>2. \A x : Waiting(x)' => NumbersSample(x)'
      <3>1. NothingAdded
        <4>1. ASSUME NEW s \in Sensors, SampleWork(s), running[s]
              PROVE  FALSE
          <5>1. ticks'[s] = ticks[s] + 1 /\ ticks[s] \in Nat
            BY <4>1 DEF SampleWork, TypeOK
          <5> QED
            BY <1>5, <5>1
        <4> QED
          BY <1>1, <4>1, StepSends
      <3> QED
        BY <1>2, <2>1, <3>1 DEF NothingAdded, NumbersSample
    <2>3. ASSUME NEW i \in DOMAIN inbox', NEW f, inbox'[i].kind = "notification",
                 inbox'[i].frame = f
          PROVE  Numbers(f.stream, f.sequence, FirstTick(f))'
      <3>1. Numbers(f.stream, f.sequence, FirstTick(f))
        BY <1>3, <1>4, <2>3 DEF EndToEndInv, NumberInv
      <3> QED
        BY <2>1, <3>1 DEF FirstTick
    <2>4. ASSUME NEW st \in Streams, NEW number, NEW tick, ~reset_unanswered', tick # 0,
                 last_sequences_by_stream'[st] = number, last_tick'[st] = tick
          PROVE  Numbers(st, number, tick)'
      <3>1. Numbers(st, number, tick)
        BY <2>4 DEF EndToEndInv, NumberInv, pcVars
      <3> QED
        BY <2>1, <3>1
    <2> QED
      BY <2>2, <2>3, <2>4, NumbersFrom
  <1>6. ASSUME NEW s \in Sensors, SampleWork(s), running[s]
        PROVE  NumberInv'
    <2>1. notified' = {} /\ SettledBound
      BY <1>6, SettledWereTaken DEF SampleWork, NoNotification
    <2>2. ASSUME NEW x, Waiting(x)'
          PROVE  NumbersSample(x)'
      <3>1. CASE Waiting(x)
        BY <1>1, <1>2, <1>6, <3>1, WaitingTicks, ReadingKeepsNumbers DEF NumbersSample
      <3>2. CASE ~Waiting(x)
        BY <1>6, <2>2, <3>2, ReadingNumbers
      <3> QED
        BY <3>1, <3>2
    <2>3. ASSUME NEW i \in DOMAIN inbox', NEW f, inbox'[i].kind = "notification",
                 inbox'[i].frame = f
          PROVE  Numbers(f.stream, f.sequence, FirstTick(f))'
      <3>1. PICK j \in DOMAIN inbox : inbox[j].kind = "notification" /\ inbox[j].frame = f
        BY <1>4, <2>1, <2>3
      <3>2. f \in Frame /\ Arriving(f) /\ Numbers(f.stream, f.sequence, FirstTick(f))
        BY <3>1 DEF EndToEndInv, InboxInv, NumberInv, Messages, ResetResponse, Notification
      <3>3. f.stream \in Streams /\ f.sequence \in Sequences16 /\ Len(f.payload) \in Nat
        BY <3>2 DEF Frame
      <3>4. FirstTick(f) \in Nat /\ FirstTick(f) <= settled[f.stream]
        BY <2>1, <3>2, <3>3 DEF Arriving, SettledBound
      <3>5. FirstTick(f) <= ticks[SensorOf(f.stream)] /\ SensorOf(f.stream) \in Sensors
        BY <2>1, <3>3, <3>4, StreamsOfSensors DEF SettledBound
      <3> QED
        BY <1>6, <3>2, <3>3, <3>4, <3>5, ReadingKeepsNumbers DEF FirstTick
    <2>4. ASSUME NEW st \in Streams, NEW number, NEW tick, ~reset_unanswered', tick # 0,
                 last_sequences_by_stream'[st] = number, last_tick'[st] = tick
          PROVE  Numbers(st, number, tick)'
      <3>1. Numbers(st, number, tick)
        BY <2>4 DEF EndToEndInv, NumberInv, pcVars
      <3>2. number \in Sequences16 /\ tick \in Nat /\ tick <= settled[st]
        BY <2>4 DEF EndToEndInv, StatisticsInv, pcVars
      <3>3. tick <= ticks[SensorOf(st)] /\ SensorOf(st) \in Sensors
        BY <2>1, <3>2, StreamsOfSensors DEF SettledBound
      <3> QED
        BY <1>6, <3>1, <3>2, <3>3, ReadingKeepsNumbers
    <2> QED
      BY <2>2, <2>3, <2>4, NumbersFrom
  <1>7. CASE HandleResetSequence
    <2>1. 1 \in DOMAIN events /\ events[1] = CommandEvent("RESET_SEQUENCE")
      BY <1>7, HandledQueue DEF HandleResetSequence
    <2>2. Still /\ (reset_unanswered \/ \A st \in Streams : last_tick[st] = 0)
      BY <2>1 DEF EndToEndInv, ResetInv
    <2>3. ~HandleStart
      BY <1>7 DEF HandleResetSequence, HandleStart, HeadIs, CommandEvent
    <2>4. DeviceStill' /\ notified' = {}
      BY <1>1, <2>2, <2>3, StillStays DEF BatchInv, Still
    <2>5. \A x : ~Waiting(x)'
      <3>1. (TypeOK /\ BatchConsistent /\ DeviceStill => \A x : ~Waiting(x))'
        BY StillHoldsNothing, PTL
      <3> QED
        BY <2>4, <3>1 DEF BatchInv
    <2>6. \A i \in DOMAIN inbox' : inbox'[i].kind # "notification"
      BY <1>4, <2>2, <2>4 DEF Still
    <2>7. reset_unanswered' \/ \A st \in Streams : last_tick'[st] = 0
      BY <2>2 DEF pcVars
    <2> QED
      BY <2>5, <2>6, <2>7, NumbersFrom
  <1> QED
    BY <1>5, <1>6, <1>7, StepCounts

-----------------------------------------------------------------------------
(* What the device's steps do to the inbox *)

\* The frames of a step are appended, each once.
LEMMA FramesAppended ==
  ASSUME TypeOK', IsFiniteSet(notified'), SendsFrames, inbox \in Seq(Messages)
  PROVE  \E s \in Seq(Messages) :
           /\ inbox' = inbox \o s
           /\ \A k \in DOMAIN s : \E f \in notified' : s[k] = Notification(f)
           /\ \A k, l \in DOMAIN s : k # l => s[k] # s[l]
PROOF
  <1> DEFINE M == { Notification(f) : f \in notified' }
             D == 1 .. Cardinality(M)
  <1>1. IsFiniteSet(M)
    <2> DEFINE g == [f \in notified' |-> Notification(f)]
    <2>1. g \in [notified' -> M]
      OBVIOUS
    <2>2. \A m \in M : \E f \in notified' : g[f] = m
      OBVIOUS
    <2> HIDE DEF g, M
    <2>3. g \in Surjection(notified', M)
      BY <2>1, <2>2 DEF Surjection
    <2> QED
      BY <2>3, FS_Surjection
  <1>2. Cardinality(M) \in Nat
    BY <1>1, FS_CardinalityType
  <1>3. PICK s \in SetToSeqs(M) : inbox' = inbox \o s
    BY DEF SendsFrames
  <1>4. s \in [D -> M] /\ \A k, l \in D : k # l => s[k] # s[l]
    BY <1>3 DEF SetToSeqs
  <1>5. M \subseteq Messages
    BY DEF TypeOK, Messages
  <1>6. s \in Seq(Messages) /\ DOMAIN s = D
    <2> HIDE DEF M
    <2> QED
      BY <1>2, <1>4, <1>5
  <1>7. \A k \in DOMAIN s : \E f \in notified' : s[k] = Notification(f)
    BY <1>4, <1>6
  <1> QED
    BY <1>3, <1>4, <1>6, <1>7

\* InboxInv of the next state, with the frames named.
LEMMA InboxFromParts ==
  ASSUME inbox' \in Seq(Messages),
         \A i \in DOMAIN inbox' : \A f :
           inbox'[i].kind = "notification" /\ inbox'[i].frame = f => Arriving(f)',
         \A i, j \in DOMAIN inbox' : \A f, g :
           /\ inbox'[i].kind = "notification" /\ inbox'[i].frame = f
           /\ inbox'[j].kind = "notification" /\ inbox'[j].frame = g
           /\ i < j /\ f.stream = g.stream
           => LastTick(f) < FirstTick(g)
  PROVE  InboxInv'
PROOF
  BY DEF InboxInv, Arriving, FirstTick, LastTick, Messages, Notification, ResetResponse

\* A message on its way stays where it is.
LEMMA SendingInbox ==
  ASSUME TypeOK, BatchInv, PipelineInv, TypeOK', BatchInv', InboxInv, StatisticsInv, Next,
         SendsFrames, UNCHANGED pcVars
  PROVE  /\ InboxFrom /\ InboxInv'
         /\ \A i \in DOMAIN inbox' : inbox'[i].kind = "notification"
              \/ (i \in DOMAIN inbox /\ inbox'[i] = inbox[i])
PROOF
  <1>1. SentInOrder /\ \A st \in Streams : settled[st] <= settled'[st]
    BY StepSends DEF BatchInv
  <1>2. PICK s \in Seq(Messages) :
           /\ inbox' = inbox \o s
           /\ \A k \in DOMAIN s : \E f \in notified' : s[k] = Notification(f)
           /\ \A k, l \in DOMAIN s : k # l => s[k] # s[l]
    BY <1>1, FramesAppended DEF SentInOrder, InboxInv
  <1> DEFINE n == Len(inbox)
  <1>3. /\ n \in Nat /\ Len(s) \in Nat /\ inbox' \in Seq(Messages)
        /\ DOMAIN inbox = 1 .. n /\ DOMAIN s = 1 .. Len(s) /\ DOMAIN inbox' = 1 .. n + Len(s)
        /\ \A i \in DOMAIN inbox : inbox'[i] = inbox[i]
        /\ \A k \in DOMAIN s : inbox'[n + k] = s[k]
    BY <1>2 DEF InboxInv
  <1> HIDE DEF n
  <1>4. ASSUME NEW i \in DOMAIN inbox', i \notin DOMAIN inbox
        PROVE  /\ i > n /\ i - n \in DOMAIN s /\ inbox'[i] = s[i - n]
               /\ \E f \in notified' : inbox'[i] = Notification(f)
    <2>1. i > n /\ i - n \in DOMAIN s /\ n + (i - n) = i
      BY <1>3, <1>4
    <2> QED
      BY <1>2, <1>3, <2>1
  <1>5. ASSUME NEW f \in notified'
        PROVE  /\ f \in Frame /\ f.stream \in Streams
               /\ Arriving(f)' /\ FirstTick(f) = settled[f.stream] + 1
    <2>1. /\ f \in Frame /\ f.stream \in Streams /\ Len(f.payload) \in Nat \ {0}
          /\ FirstTick(f) = settled[f.stream] + 1
          /\ LastTick(f) = settled[f.stream] + Len(f.payload)
          /\ settled'[f.stream] = settled[f.stream] + Len(f.payload)
      BY <1>1 DEF SentInOrder, TypeOK
    <2>2. f.sample_count = Len(f.payload)
      BY DEF BatchInv, NotifiedDecodable, Decodable
    <2>3. /\ settled[f.stream] \in Nat /\ last_tick'[f.stream] \in Nat
          /\ last_tick'[f.stream] <= settled[f.stream]
      BY <2>1 DEF TypeOK, StatisticsInv, pcVars
    <2>4. FirstTick(f)' = FirstTick(f) /\ LastTick(f)' = LastTick(f)
      BY DEF FirstTick, LastTick
    <2> DEFINE a == FirstTick(f)
               z == LastTick(f)
               m == Len(f.payload)
    <2>5. /\ m > 0 /\ a \in Nat /\ z = a + m - 1 /\ last_tick'[f.stream] < a
          /\ z <= settled'[f.stream]
      <3>1. m \in Nat \ {0} /\ a = settled[f.stream] + 1 /\ z = settled[f.stream] + m
            /\ settled'[f.stream] = settled[f.stream] + m
        BY <2>1
      <3> HIDE DEF a, z, m
      <3> QED
        BY <2>3, <3>1
    <2> QED
      BY <2>1, <2>2, <2>4, <2>5 DEF Arriving
  <1>6. ASSUME NEW i \in DOMAIN inbox, inbox[i].kind = "notification", NEW f,
               inbox[i].frame = f
        PROVE  /\ f \in Frame /\ f.stream \in Streams
               /\ Arriving(f)' /\ LastTick(f) \in Int /\ LastTick(f) <= settled[f.stream]
    <2>1. f \in Frame /\ Arriving(f)
      BY <1>6 DEF InboxInv, Messages, ResetResponse, Notification
    <2>2. f.stream \in Streams /\ Len(f.payload) \in Nat
      BY <2>1 DEF Frame
    <2>3. /\ settled[f.stream] \in Nat /\ settled'[f.stream] \in Nat
          /\ settled[f.stream] <= settled'[f.stream]
          /\ last_tick'[f.stream] = last_tick[f.stream]
      BY <1>1, <2>2 DEF TypeOK, pcVars
    <2>4. FirstTick(f)' = FirstTick(f) /\ LastTick(f)' = LastTick(f)
      BY DEF FirstTick, LastTick
    <2> QED
      BY <2>1, <2>2, <2>3, <2>4 DEF Arriving
  <1>7. \A i \in DOMAIN inbox' : inbox'[i].kind = "notification"
              \/ (i \in DOMAIN inbox /\ inbox'[i] = inbox[i])
    BY <1>3, <1>4 DEF Notification
  <1>8. InboxFrom
    BY <1>3, <1>4 DEF InboxFrom
  <1>9. ASSUME NEW i \in DOMAIN inbox', NEW f, inbox'[i].kind = "notification",
               inbox'[i].frame = f
        PROVE  Arriving(f)'
    BY <1>3, <1>4, <1>5, <1>6, <1>9 DEF Notification
  <1>10. ASSUME NEW i \in DOMAIN inbox', NEW f, inbox'[i].kind = "notification",
                inbox'[i].frame = f,
                NEW j \in DOMAIN inbox', NEW g, inbox'[j].kind = "notification",
                inbox'[j].frame = g, i < j, f.stream = g.stream
         PROVE  LastTick(f) < FirstTick(g)
    <2>1. CASE j \in DOMAIN inbox
      <3>1. i \in DOMAIN inbox
        BY <1>3, <1>10, <2>1
      <3> QED
        BY <1>3, <1>10, <2>1, <3>1 DEF InboxInv
    <2>2. CASE i \in DOMAIN inbox /\ j \notin DOMAIN inbox
      <3>1. g \in notified'
        BY <1>4, <1>10, <2>2 DEF Notification
      <3>2. /\ LastTick(f) \in Int /\ LastTick(f) <= settled[f.stream] /\ f.stream \in Streams
        BY <1>3, <1>6, <1>10, <2>2
      <3>3. FirstTick(g) = settled[f.stream] + 1 /\ settled[f.stream] \in Nat
        BY <1>5, <1>10, <3>1, <3>2 DEF TypeOK
      <3> QED
        BY <3>2, <3>3
    <2>3. CASE i \notin DOMAIN inbox /\ j \notin DOMAIN inbox
      <3>1. f \in notified' /\ g \in notified'
        BY <1>4, <1>10, <2>3 DEF Notification
      <3>2. f = g
        BY <1>1, <1>10, <3>1 DEF SentInOrder
      <3>3. s[i - n] = s[j - n] /\ i - n \in DOMAIN s /\ j - n \in DOMAIN s
        BY <1>4, <1>10, <2>3, <3>2 DEF Notification
      <3>4. i - n # j - n
        BY <1>3, <1>10
      <3> QED
        BY <1>2, <3>3, <3>4
    <2> QED
      BY <2>1, <2>2, <2>3
  <1>11. InboxInv'
    BY <1>3, <1>9, <1>10, InboxFromParts
  <1> QED
    BY <1>7, <1>8, <1>11

\* What a link that drops leaves of the inbox, and an inbox nothing changes, is as it was.
LEMMA KeptInbox ==
  ASSUME TypeOK, BatchInv, PipelineInv, TypeOK', InboxInv, StatisticsInv, Next,
         \E n \in 0 .. Len(inbox) : inbox' = SubSeq(inbox, 1, n), UNCHANGED pcVars
  PROVE  /\ InboxFrom /\ InboxInv'
         /\ \A i \in DOMAIN inbox' : i \in DOMAIN inbox /\ inbox'[i] = inbox[i]
PROOF
  <1>1. \A st \in Streams : settled[st] <= settled'[st]
    BY StepSends DEF BatchInv
  <1>2. PICK n \in 0 .. Len(inbox) : inbox' = SubSeq(inbox, 1, n)
    OBVIOUS
  <1>3. inbox \in Seq(Messages)
    BY DEF InboxInv
  <1>4. /\ inbox' \in Seq(Messages)
        /\ \A i \in DOMAIN inbox' : i \in DOMAIN inbox /\ inbox'[i] = inbox[i]
    BY <1>2, <1>3
  <1>5. ASSUME NEW i \in DOMAIN inbox', NEW f, inbox'[i].kind = "notification",
               inbox'[i].frame = f
        PROVE  Arriving(f)'
    <2>1. inbox[i] \in Messages /\ f \in Frame /\ Arriving(f)
      BY <1>3, <1>4, <1>5 DEF InboxInv, Messages, ResetResponse, Notification
    <2>2. f.stream \in Streams /\ Len(f.payload) \in Nat
      BY <2>1 DEF Frame
    <2>3. /\ settled[f.stream] \in Nat /\ settled'[f.stream] \in Nat
          /\ settled[f.stream] <= settled'[f.stream]
          /\ last_tick'[f.stream] = last_tick[f.stream]
      BY <1>1, <2>2 DEF TypeOK, pcVars
    <2>4. FirstTick(f)' = FirstTick(f) /\ LastTick(f)' = LastTick(f)
      BY DEF FirstTick, LastTick
    <2>5. LastTick(f) \in Int /\ LastTick(f) <= settled[f.stream]
      BY <2>1, <2>2 DEF Arriving
    <2>6. LastTick(f) <= settled'[f.stream]
      BY <2>3, <2>5
    <2> QED
      BY <2>1, <2>3, <2>4, <2>6 DEF Arriving
  <1>6. \A i, j \in DOMAIN inbox' : \A f, g :
           /\ inbox'[i].kind = "notification" /\ inbox'[i].frame = f
           /\ inbox'[j].kind = "notification" /\ inbox'[j].frame = g
           /\ i < j /\ f.stream = g.stream
           => LastTick(f) < FirstTick(g)
    BY <1>4 DEF InboxInv
  <1>7. InboxInv'
    BY <1>4, <1>5, <1>6, InboxFromParts
  <1> QED
    BY <1>4, <1>7 DEF InboxFrom

-----------------------------------------------------------------------------
(* Resets *)

\* The steps of the device and the link, but for the central's writes.
DeviceActs ==
  \/ ProcessEvent \/ BatchFlushWork \/ AdvertisingStarts \/ AdvertisingFails
  \/ \E s \in Sensors : SampleWork(s)
  \/ Connected \/ ConnectionFailed \/ Disconnected
  \/ \E value \in BOOLEAN : SensorCccChanged(value)

\* The commands in the queue after such a step were there, and no further back.
LEMMA CommandsInQueue ==
  ASSUME TypeOK, DeviceActs, NEW c, NEW i \in DOMAIN events', events'[i] = CommandEvent(c)
  PROVE  \E j \in DOMAIN events : i <= j /\ events[j] = CommandEvent(c)
PROOF
  <1>1. CASE ProcessEvent
    <2>1. PICK e : HeadIs(e)
      <3>1. \/ \E x : HeadIs(CommandEvent(x))
            \/ HeadIs(ConnectedEvent) \/ HeadIs(DisconnectedEvent) \/ HeadIs(Head(events))
            \/ \E x : HeadIs(ConfigEvent(x))
        <4>1. HandleStart \/ HandleStop \/ HandleRequestStatus \/ HandleResetSequence
                \/ HandleForceGyroCalib => \E x : HeadIs(CommandEvent(x))
          BY DEF HandleStart, HandleStop, HandleRequestStatus, HandleResetSequence,
                 HandleForceGyroCalib
        <4>2. \A x \in Configs : HandleConfig(x) => HeadIs(ConfigEvent(x))
          BY DEF HandleConfig
        <4>3. /\ HandleConnected => HeadIs(ConnectedEvent)
              /\ HandleDisconnected => HeadIs(DisconnectedEvent)
              /\ HandleSample => HeadIs(Head(events))
          BY DEF HandleConnected, HandleDisconnected, HandleSample
        <4> QED
          BY <1>1, <4>1, <4>2, <4>3 DEF ProcessEvent
      <3> QED
        BY <3>1
    <2>2. i + 1 \in DOMAIN events /\ events[i + 1] = CommandEvent(c) /\ i <= i + 1
      BY <2>1, HandledQueue
    <2> QED
      BY <2>2
  <1>2. ASSUME NEW es \in Seq(Event), Submit(es), \A k \in DOMAIN es : es[k].type # "pc_command"
        PROVE  \E j \in DOMAIN events : i <= j /\ events[j] = CommandEvent(c)
    <2>1. i \in DOMAIN events /\ events[i] = CommandEvent(c) /\ i \in Nat
      BY <1>2, SubmittedQueue, EventTypesDiffer
    <2> QED
      BY <2>1
  <1>3. ASSUME NEW s \in Sensors, SampleWork(s)
        PROVE  \E j \in DOMAIN events : i <= j /\ events[j] = CommandEvent(c)
    <2>1. CASE running[s]
      <3>1. Submit(SampleEvents(s)) /\ \A k \in DOMAIN SampleEvents(s) :
              SampleEvents(s)[k].type # "pc_command"
        BY <1>3, <2>1, SampleEventsType DEF SampleWork
      <3> QED
        BY <1>2, <3>1, SampleEventsType
    <2>2. CASE ~running[s]
      BY <1>3, <2>2 DEF SampleWork, TypeOK
    <2> QED
      BY <2>1, <2>2
  <1>4. CASE Connected \/ Disconnected
    <2>1. PICK e \in {ConnectedEvent, DisconnectedEvent} : Submit(<< e >>)
      BY <1>4 DEF Connected, Disconnected
    <2>2. << e >> \in Seq(Event) /\ \A k \in DOMAIN << e >> : << e >>[k].type # "pc_command"
      BY EventTypes, EventTypesDiffer
    <2> QED
      BY <1>2, <2>1, <2>2
  <1>5. CASE \/ BatchFlushWork \/ AdvertisingStarts \/ AdvertisingFails \/ ConnectionFailed
             \/ \E value \in BOOLEAN : SensorCccChanged(value)
    <2>1. events' = events
      BY <1>5 DEF BatchFlushWork, AdvertisingStarts, AdvertisingFails, ConnectionFailed,
                  SensorCccChanged
    <2> QED
      BY <2>1 DEF TypeOK
  <1> QED
    BY <1>1, <1>3, <1>4, <1>5 DEF DeviceActs

\* These are steps of the firmware.
LEMMA ActsAreSteps == DeviceActs => Next
PROOF
  BY DEF DeviceActs, Next, BluetoothCallback

\* HandleStart handles a START_MEASUREMENT at the head of the queue.
LEMMA StartIsFirst ==
  ASSUME TypeOK, HandleStart
  PROVE  1 \in DOMAIN events /\ events[1] = CommandEvent("START_MEASUREMENT")
PROOF
  BY HandledQueue DEF HandleStart

\* What the device and the link do keeps a reset safe.
LEMMA ActsKeepReset ==
  ASSUME TypeOK, BatchInv, PipelineInv, TypeOK', BatchInv', ResetInv, DeviceActs, InboxFrom,
         UNCHANGED << pcVars, reset_unanswered >>,
         \A i \in DOMAIN inbox' : inbox'[i].kind = "notification"
           \/ (i \in DOMAIN inbox /\ inbox'[i] = inbox[i])
  PROVE  ResetInv'
PROOF
  <1>1. Next /\ BatchConsistent /\ BatchConsistent'
    BY ActsAreSteps DEF BatchInv
  <1>2. ASSUME Still, ~HandleStart
        PROVE  Still'
    <2>1. DeviceStill' /\ notified' = {}
      BY <1>1, <1>2, StillStays DEF Still
    <2>2. \A i \in DOMAIN inbox' : inbox'[i].kind # "notification"
      BY <1>2, <2>1 DEF InboxFrom, Still
    <2> QED
      BY <2>1, <2>2 DEF Still
  <1>3. ASSUME reset_unanswered'
        PROVE  Still' /\ ~PendingCommand("START_MEASUREMENT")'
    <2>1. Still /\ ~PendingCommand("START_MEASUREMENT")
      BY <1>3 DEF ResetInv
    <2>2. ~HandleStart
      BY <2>1, StartIsFirst DEF PendingCommand
    <2>3. ~PendingCommand("START_MEASUREMENT")'
      BY <2>1, CommandsInQueue DEF PendingCommand, CommandEvent
    <2> QED
      BY <1>2, <2>1, <2>2, <2>3
  <1>4. ASSUME NEW i \in DOMAIN inbox', inbox'[i].kind = "reset_response"
        PROVE  i = 1 /\ reset_unanswered'
    BY <1>4 DEF ResetInv
  <1>5. ASSUME NEW i \in DOMAIN events', events'[i] = CommandEvent("RESET_SEQUENCE")
        PROVE  /\ i = 1 /\ Still'
               /\ reset_unanswered' \/ \A st \in Streams : last_tick'[st] = 0
    <2>1. PICK j \in DOMAIN events : i <= j /\ events[j] = CommandEvent("RESET_SEQUENCE")
      BY <1>5, CommandsInQueue
    <2>2. j = 1 /\ Still /\ (reset_unanswered \/ \A st \in Streams : last_tick[st] = 0)
      BY <2>1 DEF ResetInv
    <2>3. i = 1
      BY <1>5, <2>1, <2>2 DEF TypeOK
    <2>4. ~HandleStart
      BY <2>1, <2>2, StartIsFirst DEF CommandEvent
    <2> QED
      BY <1>2, <2>2, <2>3, <2>4 DEF pcVars
  <1> QED
    BY <1>3, <1>4, <1>5 DEF ResetInv

\* What the central writes: nobody resets what runs, or starts what is being reset.
LEMMA WriteKeepsReset ==
  ASSUME TypeOK, BatchInv, PipelineInv, TypeOK', BatchInv', InboxInv, ResetInv, PatientReset,
         NEW c \in Commands, WritesCommand(c)
  PROVE  ResetInv'
PROOF
  <1>1. /\ WriteControl(c) /\ Next /\ notified' = {} /\ events' = Append(events, CommandEvent(c))
        /\ UNCHANGED << running, batch, last_tick >> /\ events \in Seq(Event)
    BY DEF WritesCommand, WriteControl, Next, BluetoothCallback, NoNotification, Submit,
           controlVars, pcVars, TypeOK
  <1>2. /\ DOMAIN events = 1 .. Len(events) /\ DOMAIN events' = 1 .. Len(events) + 1
        /\ Len(events) \in Nat
        /\ \A i \in DOMAIN events : events'[i] = events[i]
        /\ events'[Len(events) + 1] = CommandEvent(c)
    BY <1>1
  <1>3. DeviceStill => DeviceStill'
    BY <1>1, <1>2, EventTypesDiffer DEF DeviceStill, ActiveStreams
  <1>4. CASE c = "RESET_SEQUENCE"
    <2>1. Drained /\ inbox' = Append(inbox, ResetResponse) /\ reset_unanswered' = TRUE
      BY <1>4 DEF WritesCommand
    <2>2. events' = << CommandEvent("RESET_SEQUENCE") >> /\ inbox' = << ResetResponse >>
      BY <1>1, <1>4, <2>1 DEF Drained
    <2>3. DeviceStill
      BY <2>1 DEF Drained, DeviceStill
    <2>4. Still'
      BY <1>3, <2>2, <2>3 DEF Still, ResetResponse
    <2>5. ~PendingCommand("START_MEASUREMENT")'
      BY <2>2 DEF PendingCommand, CommandEvent
    <2> QED
      BY <2>1, <2>2, <2>4, <2>5 DEF ResetInv
  <1>5. CASE c # "RESET_SEQUENCE"
    <2>1. ~reset_unanswered /\ UNCHANGED << inbox, reset_unanswered >>
      BY <1>5 DEF WritesCommand
    <2>2. \A i \in DOMAIN events' : events'[i] = CommandEvent("RESET_SEQUENCE") =>
            i \in DOMAIN events /\ events'[i] = events[i]
      BY <1>2, <1>5 DEF CommandEvent
    <2>3. Still => Still'
      BY <1>3, <2>1 DEF Still
    <2> QED
      BY <1>1, <2>1, <2>2, <2>3 DEF ResetInv
  <1> QED
    BY <1>4, <1>5

-----------------------------------------------------------------------------
(* The steps of the device, the link and the central *)

\* No step of the device, the link or the central touches what the PC has counted.
LEMMA StepKeepsTally ==
  ASSUME TypeOK, BatchInv, PipelineInv, TypeOK', StatisticsInv, TallyInv,
         TicksInv, Next, UNCHANGED pcVars
  PROVE  StatisticsInv' /\ TallyInv' /\ TicksInv'
PROOF
  <1>1. \A st \in Streams : settled[st] <= settled'[st]
    BY StepSends DEF BatchInv
  <1>2. StatisticsInv'
    <2>1. \A st \in Streams :
            settled[st] \in Nat /\ settled'[st] \in Nat /\ last_tick[st] \in Nat
      BY DEF TypeOK, StatisticsInv
    <2> QED
      BY <1>1, <2>1 DEF StatisticsInv, pcVars
  <1>3. TallyInv'
    BY DEF TallyInv, pcVars, FewReadings
  <1>4. TicksInv'
    <2>1. ASSUME NEW s \in Sensors, SampleWork(s), running[s]
          PROVE  TicksInv'
      <3>1. ticks[s] < MaxTicks[s] /\ ticks' = [ticks EXCEPT ![s] = @ + 1]
            /\ ticks \in [Sensors -> Nat]
        BY <2>1 DEF SampleWork, TypeOK
      <3>2. MaxTicks[s] \in Nat
        BY FirmwareAssumption
      <3>3. ticks'[s] <= MaxTicks[s]
        BY <3>1, <3>2
      <3> QED
        BY <3>1, <3>3 DEF TicksInv
    <2>2. HandleResetSequence => UNCHANGED ticks
      BY DEF HandleResetSequence, countVars
    <2> QED
      BY <2>1, <2>2, StepCounts DEF TicksInv
  <1> QED
    BY <1>2, <1>3, <1>4

-----------------------------------------------------------------------------
(* The steps of the PC *)

\* The frame at the head of the inbox.
LEMMA HeadArrives ==
  ASSUME TypeOK, PipelineInv, EndToEndInv, inbox # << >>, Head(inbox).kind = "notification",
         NEW f, f = Head(inbox).frame
  PROVE  /\ f \in Frame /\ Arriving(f) /\ f.stream \in Streams /\ f.sequence \in Sequences16
         /\ Len(f.payload) \in Nat \ {0} /\ f.sample_count = Len(f.payload)
         /\ FirstTick(f) \in Nat /\ LastTick(f) = FirstTick(f) + Len(f.payload) - 1
         /\ last_tick[f.stream] \in Nat /\ last_tick[f.stream] < FirstTick(f)
         /\ LastTick(f) \in Nat /\ LastTick(f) <= settled[f.stream]
         /\ settled[f.stream] \in Nat /\ ticks[SensorOf(f.stream)] \in Nat
         /\ LastTick(f) <= ticks[SensorOf(f.stream)]
         /\ FirstTick(f) <= LastTick(f)
         /\ ~reset_unanswered
         /\ Numbers(f.stream, f.sequence, FirstTick(f))
         /\ last_tick[f.stream] # 0 =>
              /\ last_sequences_by_stream[f.stream] \in Sequences16
              /\ Numbers(f.stream, last_sequences_by_stream[f.stream], last_tick[f.stream])
PROOF
  <1>1. inbox \in Seq(Messages) /\ 1 \in DOMAIN inbox /\ inbox[1] = Head(inbox)
    BY DEF EndToEndInv, InboxInv
  <1>2. f \in Frame /\ Arriving(f) /\ Numbers(f.stream, f.sequence, FirstTick(f))
    BY <1>1 DEF EndToEndInv, InboxInv, NumberInv, Messages, ResetResponse, Notification
  <1>3. ~reset_unanswered
    BY <1>1 DEF EndToEndInv, ResetInv, Still
  <1>4. f.stream \in Streams /\ f.sequence \in Sequences16 /\ Len(f.payload) \in Nat
    BY <1>2 DEF Frame
  <1>5. /\ Len(f.payload) \in Nat \ {0} /\ f.sample_count = Len(f.payload)
        /\ FirstTick(f) \in Nat /\ LastTick(f) = FirstTick(f) + Len(f.payload) - 1
        /\ last_tick[f.stream] < FirstTick(f) /\ LastTick(f) <= settled[f.stream]
    BY <1>2, <1>4 DEF Arriving
  <1>6. /\ settled[f.stream] \in Nat /\ ticks[SensorOf(f.stream)] \in Nat
        /\ settled[f.stream] <= ticks[SensorOf(f.stream)]
    BY <1>4, SettledWereTaken DEF SettledBound
  <1>7. LastTick(f) \in Nat /\ FirstTick(f) <= LastTick(f)
    BY <1>5
  <1>8. LastTick(f) <= ticks[SensorOf(f.stream)]
    BY <1>5, <1>6, <1>7
  <1>9. /\ last_tick[f.stream] \in Nat
        /\ last_tick[f.stream] # 0 =>
             /\ last_sequences_by_stream[f.stream] \in Sequences16
             /\ Numbers(f.stream, last_sequences_by_stream[f.stream], last_tick[f.stream])
    BY <1>3, <1>4 DEF EndToEndInv, StatisticsInv, NumberInv
  <1> QED
    BY <1>2, <1>3, <1>4, <1>5, <1>6, <1>7, <1>8, <1>9

\* The messages behind the head keep their order, one place forward.
LEMMA TailOfInbox ==
  ASSUME InboxInv, inbox # << >>, inbox' = Tail(inbox)
  PROVE  /\ inbox' \in Seq(Messages)
         /\ \A i \in DOMAIN inbox' : i + 1 \in DOMAIN inbox /\ inbox'[i] = inbox[i + 1]
                                     /\ i \in Nat \ {0}
         /\ \A i, j \in DOMAIN inbox' : i < j => i + 1 < j + 1
PROOF
  BY DEF InboxInv

\* The PC counts what is missing between the last sample it got and the first of a frame.
LEMMA ReceiveCounts ==
  ASSUME TypeOK, PipelineInv, EndToEndInv, inbox # << >>, Head(inbox).kind = "notification",
         NEW f, f = Head(inbox).frame, ReceiveNotification(f)
  PROVE  TallyInv'
PROOF
  <1> DEFINE st    == f.stream
             first == FirstTick(f)
             last  == last_tick[st]
             now   == ticks[SensorOf(st)]
             gap   == IF last = 0 THEN 0 ELSE first - last - 1
             number == last_sequences_by_stream[st]
  <1>1. /\ st \in Streams /\ f.sequence \in Sequences16 /\ first \in Nat /\ last \in Nat
        /\ last < first /\ first <= now /\ now \in Nat
        /\ Add16(f.sequence, now + 1 - first) = sequence[SensorOf(st)]
        /\ last # 0 => number \in Sequences16
                       /\ Add16(number, now + 1 - last) = sequence[SensorOf(st)]
    <2>1. /\ st \in Streams /\ f.sequence \in Sequences16 /\ first \in Nat /\ last \in Nat
          /\ last < first /\ now \in Nat
          /\ first <= LastTick(f) /\ LastTick(f) <= now /\ LastTick(f) \in Nat
          /\ Numbers(st, f.sequence, first)
          /\ last # 0 => number \in Sequences16 /\ Numbers(st, number, last)
      BY HeadArrives
    <2>2. first <= now
      BY <2>1
    <2> QED
      BY <2>1, <2>2 DEF Numbers
  <1>2. last = 0 => number = NoSequence
    BY <1>1 DEF EndToEndInv, StatisticsInv
  <1>3. /\ missed_samples' = missed_samples + MissedBy(number, f.sequence)
        /\ lost' = lost + gap
    BY DEF ReceiveNotification, FirstTick
  <1>4. SeqSpace \in Nat \ {0}
    BY SizeAssumption
  <1>5. MissedBy(number, f.sequence) = gap % SeqSpace
    <2>1. CASE last = 0
      <3>1. gap = 0 /\ MissedBy(number, f.sequence) = 0
        BY <1>2, <2>1 DEF MissedBy
      <3> QED
        BY <1>4, <3>1
    <2>2. CASE last # 0
      <3> DEFINE p == now + 1 - last
                 q == now + 1 - first
      <3>1. p \in Nat /\ q \in Nat /\ q < p /\ p - q - 1 = first - last - 1
        <4> HIDE DEF first, last, now
        <4> QED
          BY <1>1
      <3>2. Difference(f.sequence, Add16(number, 1)) = (p - q - 1) % SeqSpace
        <4>1. Add16(number, p) = Add16(f.sequence, q) /\ number \in Sequences16
          BY <1>1, <2>2
        <4> HIDE DEF p, q, number
        <4> QED
          BY <1>1, <3>1, <4>1, GapOfNumbers
      <3>3. number # NoSequence
        BY <1>1, <2>2, EndToEndAssumption
      <3>4. MissedBy(number, f.sequence) = Difference(f.sequence, Add16(number, 1))
        BY <3>3 DEF MissedBy
      <3>5. gap = p - q - 1
        BY <2>2, <3>1
      <3> QED
        BY <3>2, <3>4, <3>5
    <2> QED
      BY <2>1, <2>2
  <1>6. gap \in Nat
    <2> HIDE DEF first, last
    <2> QED
      BY <1>1
  <1>7. FewReadings => gap < SeqSpace
    <2>1. ASSUME FewReadings
          PROVE  gap < SeqSpace
      <3>1. /\ SensorOf(st) \in Sensors /\ MaxTicks[SensorOf(st)] <= SeqSpace + 1
            /\ now <= MaxTicks[SensorOf(st)] /\ MaxTicks[SensorOf(st)] \in Nat
        BY <1>1, <2>1, StreamsOfSensors, FirmwareAssumption
           DEF FewReadings, EndToEndInv, TicksInv
      <3> DEFINE top == MaxTicks[SensorOf(st)]
      <3>2. top <= SeqSpace + 1 /\ now <= top /\ top \in Nat
        BY <3>1
      <3> HIDE DEF first, last, now, top
      <3> QED
        BY <1>1, <1>4, <3>2
    <2> QED
      BY <2>1
  <1> HIDE DEF gap
  <1> DEFINE turn == gap \div SeqSpace
             rest == gap % SeqSpace
  <1>8. turn \in Nat /\ rest \in Nat /\ gap = turn * SeqSpace + rest
        /\ (gap < SeqSpace => rest = gap)
    BY <1>4, <1>6
  <1>9. missed_samples' = missed_samples + rest
    BY <1>3, <1>5
  <1> HIDE DEF turn, rest
  <1>10. PICK turns \in Nat : lost = missed_samples + turns * SeqSpace
    BY DEF EndToEndInv, TallyInv
  <1>11. missed_samples \in Nat /\ lost \in Nat /\ (FewReadings => missed_samples = lost)
    BY DEF EndToEndInv, TallyInv
  <1>12. lost' = missed_samples' + (turns + turn) * SeqSpace /\ turns + turn \in Nat
    <2> DEFINE x == turns * SeqSpace
               y == turn * SeqSpace
    <2>1. x \in Int /\ y \in Int /\ (turns + turn) * SeqSpace = x + y
      BY <1>4, <1>8
    <2>2. lost = missed_samples + x /\ gap = y + rest /\ rest \in Nat
      BY <1>8, <1>10
    <2> HIDE DEF x, y
    <2>3. lost' = missed_samples' + (x + y)
      <3>1. x \in Int /\ y \in Int
        BY <2>1
      <3> QED
        BY <1>3, <1>9, <1>11, <2>2, <3>1
    <2> QED
      BY <1>8, <2>1, <2>3
  <1>13. missed_samples' \in Nat /\ lost' \in Nat
    BY <1>3, <1>6, <1>8, <1>9, <1>11
  <1>14. FewReadings => missed_samples' = lost'
    BY <1>3, <1>7, <1>8, <1>9, <1>11
  <1>15. FewReadings' <=> FewReadings
    BY DEF FewReadings
  <1> QED
    BY <1>12, <1>13, <1>14, <1>15 DEF TallyInv

\* The number the PC gives the last sample of a frame is the sample's.
LEMMA LastNumbers ==
  ASSUME TypeOK, PipelineInv, EndToEndInv, inbox # << >>, Head(inbox).kind = "notification",
         NEW f, f = Head(inbox).frame
  PROVE  LastNumber(f) \in Sequences16 /\ Numbers(f.stream, LastNumber(f), LastTick(f))
PROOF
  <1> DEFINE m     == Len(f.payload) - 1
             first == FirstTick(f)
             last  == LastTick(f)
             now   == ticks[SensorOf(f.stream)]
             n     == now + 1 - last
  <1>1. /\ f.sequence \in Sequences16 /\ Len(f.payload) \in Nat \ {0}
        /\ f.sample_count = Len(f.payload) /\ first \in Nat
        /\ last = first + Len(f.payload) - 1 /\ last \in Nat /\ last <= now /\ now \in Nat
        /\ Add16(f.sequence, now + 1 - first) = sequence[SensorOf(f.stream)]
    BY HeadArrives DEF Numbers
  <1>2. m \in Nat /\ n \in Nat /\ m + n = now + 1 - first
    <2> DEFINE len == Len(f.payload)
    <2>1. /\ len \in Nat \ {0} /\ last = first + len - 1 /\ m = len - 1
          /\ first \in Nat /\ last \in Nat /\ last <= now /\ now \in Nat
      BY <1>1
    <2> HIDE DEF first, last, now, len, m
    <2> QED
      BY <2>1
  <1>3. f.sequence \in Nat
    BY <1>1, SizeAssumption DEF Sequences16
  <1>4. LastNumber(f) = Add16(f.sequence, m)
    BY <1>1 DEF LastNumber
  <1>5. LastNumber(f) \in Sequences16
    BY <1>2, <1>3, <1>4, Add16Type, SizeAssumption DEF Sequences16
  <1>6. Add16(LastNumber(f), n) = sequence[SensorOf(f.stream)]
    <2> HIDE DEF m, n, first, last, now
    <2>1. Add16(Add16(f.sequence, m), n) = Add16(f.sequence, m + n)
      BY <1>2, <1>3, AddTwice
    <2> QED
      BY <1>1, <1>2, <1>4, <2>1
  <1> QED
    BY <1>5, <1>6 DEF Numbers

\* Handling a notification keeps the invariant.
LEMMA ReceiveFrame ==
  ASSUME TypeOK, BatchInv, PipelineInv, EndToEndInv, inbox # << >>, inbox' = Tail(inbox),
         Head(inbox).kind = "notification", ReceiveNotification(Head(inbox).frame),
         UNCHANGED << vars, reset_unanswered >>
  PROVE  EndToEndInv'
PROOF
  <1> DEFINE f == Head(inbox).frame
  <1> DEFINE st == f.stream
  <1>1. /\ f.stream \in Streams /\ ~reset_unanswered
        /\ FirstTick(f) \in Nat /\ LastTick(f) \in Nat /\ FirstTick(f) <= LastTick(f)
        /\ last_tick[st] \in Nat /\ last_tick[st] < FirstTick(f)
        /\ LastTick(f) <= settled[st]
    BY HeadArrives
  <1>2. /\ last_sequences_by_stream' = [last_sequences_by_stream EXCEPT ![st] = LastNumber(f)]
        /\ last_tick' = [last_tick EXCEPT ![st] = LastTick(f)]
    BY DEF ReceiveNotification, LastTick
  <1>3. /\ last_sequences_by_stream \in [Streams -> Sequences16 \cup {NoSequence}]
        /\ last_tick \in [Streams -> Nat]
        /\ \A s \in Streams :
             /\ last_tick[s] <= settled[s]
             /\ last_sequences_by_stream[s] = NoSequence <=> last_tick[s] = 0
    BY DEF EndToEndInv, StatisticsInv
  <1>4. LastNumber(f) \in Sequences16 /\ Numbers(st, LastNumber(f), LastTick(f))
    BY LastNumbers
  <1>5. UNCHANGED << ticks, sequence, settled, events, batch, running, reset_unanswered >>
    BY DEF vars, controlVars, batchVars, countVars
  <1>6. InboxInv /\ NumberInv /\ ResetInv /\ TicksInv
    BY DEF EndToEndInv
  <1>7. /\ inbox' \in Seq(Messages)
        /\ \A i \in DOMAIN inbox' : i + 1 \in DOMAIN inbox /\ inbox'[i] = inbox[i + 1]
                                     /\ i \in Nat \ {0}
        /\ \A i, j \in DOMAIN inbox' : i < j => i + 1 < j + 1
    BY <1>6, TailOfInbox
  <1>8. 1 \in DOMAIN inbox /\ inbox[1] = Head(inbox)
    BY <1>6 DEF InboxInv
  <1> HIDE DEF f, st
  <1>9. NumberInv'
    <2>1. \A s, number, tick : Numbers(s, number, tick) => Numbers(s, number, tick)'
      BY <1>5 DEF Numbers
    <2>2. \A x : Waiting(x)' => NumbersSample(x)'
      BY <1>5, <1>6, <2>1 DEF Waiting, NumberInv, NumbersSample
    <2>3. \A i \in DOMAIN inbox' : \A g :
            inbox'[i].kind = "notification" /\ inbox'[i].frame = g =>
              Numbers(g.stream, g.sequence, FirstTick(g))'
      BY <1>6, <1>7, <2>1 DEF NumberInv, FirstTick
    <2>4. ASSUME NEW s \in Streams, NEW number, NEW tick, tick # 0,
                 last_sequences_by_stream'[s] = number, last_tick'[s] = tick
          PROVE  Numbers(s, number, tick)'
      <3>1. CASE s = st
        <4>1. number = LastNumber(f) /\ tick = LastTick(f)
          BY <1>2, <1>3, <2>4, <3>1
        <4> QED
          BY <1>4, <2>1, <3>1, <4>1
      <3>2. CASE s # st
        <4>1. number = last_sequences_by_stream[s] /\ tick = last_tick[s]
          BY <1>2, <1>3, <2>4, <3>2
        <4> QED
          BY <1>1, <1>6, <2>1, <2>4, <4>1 DEF NumberInv
      <3> QED
        BY <3>1, <3>2
    <2> QED
      BY <2>2, <2>3, <2>4, NumbersFrom
  <1>10. InboxInv'
    <2>1. ASSUME NEW i \in DOMAIN inbox', NEW g, inbox'[i].kind = "notification",
                 inbox'[i].frame = g
          PROVE  Arriving(g)'
      <3>1. /\ i + 1 \in DOMAIN inbox /\ inbox[i + 1].kind = "notification"
            /\ inbox[i + 1].frame = g /\ 1 < i + 1
        BY <1>7, <2>1
      <3>2. Arriving(g)
        BY <1>6, <3>1 DEF InboxInv
      <3>3. last_tick'[g.stream] < FirstTick(g)
        <4>1. CASE g.stream = st
          <5>1. LastTick(f) < FirstTick(g)
            BY <1>6, <1>8, <3>1, <4>1 DEF InboxInv, f, st
          <5>2. last_tick'[g.stream] = LastTick(f)
            BY <1>1, <1>2, <1>3, <4>1 DEF st
          <5> QED
            BY <5>1, <5>2
        <4>2. CASE g.stream # st
          <5>1. last_tick'[g.stream] = last_tick[g.stream]
            BY <1>2, <1>3, <4>2
          <5> QED
            BY <3>2, <5>1 DEF Arriving
        <4> QED
          BY <4>1, <4>2
      <3>4. FirstTick(g)' = FirstTick(g) /\ LastTick(g)' = LastTick(g)
        BY DEF FirstTick, LastTick
      <3> QED
        BY <1>5, <3>2, <3>3, <3>4 DEF Arriving
    <2>2. \A i, j \in DOMAIN inbox' : \A g, h :
            /\ inbox'[i].kind = "notification" /\ inbox'[i].frame = g
            /\ inbox'[j].kind = "notification" /\ inbox'[j].frame = h
            /\ i < j /\ g.stream = h.stream
            => LastTick(g) < FirstTick(h)
      BY <1>6, <1>7 DEF InboxInv
    <2> QED
      BY <1>7, <2>1, <2>2, InboxFromParts
  <1>11. StatisticsInv'
    <2>1. LastTick(f) # 0 /\ LastNumber(f) # NoSequence
      BY <1>1, <1>4, EndToEndAssumption
    <2>2. /\ last_sequences_by_stream' \in [Streams -> Sequences16 \cup {NoSequence}]
          /\ last_tick' \in [Streams -> Nat]
      BY <1>1, <1>2, <1>3, <1>4
    <2>3. ASSUME NEW s \in Streams
          PROVE  /\ last_tick'[s] <= settled'[s]
                 /\ last_sequences_by_stream'[s] = NoSequence <=> last_tick'[s] = 0
      <3>1. CASE s = st
        BY <1>1, <1>2, <1>3, <1>5, <2>1, <3>1
      <3>2. CASE s # st
        BY <1>2, <1>3, <1>5, <3>2
      <3> QED
        BY <3>1, <3>2
    <2> QED
      BY <2>2, <2>3 DEF StatisticsInv
  <1>12. ResetInv'
    <2>1. ~Still
      BY <1>8 DEF Still
    <2>2. \A i \in DOMAIN events' : events'[i] # CommandEvent("RESET_SEQUENCE")
      BY <1>5, <1>6, <2>1 DEF ResetInv
    <2>3. \A i \in DOMAIN inbox' : inbox'[i].kind # "reset_response"
      BY <1>1, <1>6, <1>7 DEF ResetInv
    <2>4. reset_unanswered' = FALSE
      BY <1>1, <1>5, <1>6 DEF ResetInv
    <2> QED
      BY <2>2, <2>3, <2>4 DEF ResetInv
  <1>13. TallyInv'
    BY ReceiveCounts
  <1>14. TicksInv'
    BY <1>5, <1>6 DEF TicksInv
  <1> QED
    BY <1>9, <1>10, <1>11, <1>12, <1>13, <1>14 DEF EndToEndInv

\* Handling the answer to a reset keeps the invariant.
LEMMA ReceiveAnswer ==
  ASSUME TypeOK, BatchInv, PipelineInv, EndToEndInv, inbox # << >>, inbox' = Tail(inbox),
         Head(inbox).kind = "reset_response", ClearStatistics, reset_unanswered' = FALSE,
         UNCHANGED vars
  PROVE  EndToEndInv'
PROOF
  <1>1. InboxInv /\ NumberInv /\ ResetInv /\ TicksInv
    BY DEF EndToEndInv
  <1>2. 1 \in DOMAIN inbox /\ inbox[1] = Head(inbox)
    BY <1>1 DEF InboxInv
  <1>3. Still
    BY <1>1, <1>2 DEF ResetInv
  <1>4. UNCHANGED << ticks, sequence, settled, events, batch, running >>
    BY DEF vars, controlVars, batchVars, countVars
  <1>5. /\ inbox' \in Seq(Messages)
        /\ \A i \in DOMAIN inbox' : i + 1 \in DOMAIN inbox /\ inbox'[i] = inbox[i + 1]
                                     /\ i \in Nat \ {0}
    BY <1>1, TailOfInbox
  <1>6. \A i \in DOMAIN inbox' :
          inbox'[i].kind # "notification" /\ inbox'[i].kind # "reset_response"
    BY <1>1, <1>3, <1>5 DEF Still, ResetInv
  <1>7. \A st \in Streams : last_sequences_by_stream'[st] = NoSequence /\ last_tick'[st] = 0
    BY DEF ClearStatistics
  <1>8. NumberInv'
    <2>1. \A x : Waiting(x)' => NumbersSample(x)'
      BY <1>1, <1>4 DEF Waiting, NumberInv, NumbersSample, Numbers
    <2> QED
      BY <1>6, <1>7, <2>1, NumbersFrom
  <1>9. InboxInv'
    BY <1>5, <1>6, InboxFromParts
  <1>10. StatisticsInv'
    <2>1. /\ last_sequences_by_stream' \in [Streams -> Sequences16 \cup {NoSequence}]
          /\ last_tick' \in [Streams -> Nat]
      BY DEF ClearStatistics
    <2>2. \A st \in Streams : settled'[st] \in Nat
      BY <1>4 DEF TypeOK
    <2> QED
      BY <1>7, <2>1, <2>2 DEF StatisticsInv
  <1>11. ResetInv'
    <2>1. Still'
      BY <1>3, <1>4, <1>6 DEF Still, DeviceStill, ActiveStreams
    <2>2. \A i \in DOMAIN events' : events'[i] = CommandEvent("RESET_SEQUENCE") => i = 1
      BY <1>1, <1>4 DEF ResetInv
    <2> QED
      BY <1>6, <1>7, <2>1, <2>2 DEF ResetInv
  <1>12. TallyInv'
    <2>1. missed_samples' = 0 /\ lost' = 0 /\ 0 = 0 + 0 * SeqSpace
      BY SizeAssumption DEF ClearStatistics
    <2>2. \E turns \in Nat : lost' = missed_samples' + turns * SeqSpace
      BY <2>1
    <2> QED
      BY <2>1, <2>2 DEF TallyInv
  <1>13. TicksInv'
    BY <1>1, <1>4 DEF TicksInv
  <1> QED
    BY <1>8, <1>9, <1>10, <1>11, <1>12, <1>13 DEF EndToEndInv

-----------------------------------------------------------------------------
(* The theorems *)

\* Every step is one of the firmware or leaves it alone.
LEMMA EndToEndSteps == [EndToEndNext]_allVars => [Next]_vars
PROOF
  <1>1. DeviceStep => Next
    BY DEF DeviceStep, Next, BluetoothCallback
  <1>2. ASSUME NEW c \in Commands, WritesCommand(c)
        PROVE  Next
    BY <1>2 DEF WritesCommand, Next, BluetoothCallback
  <1>3. LinkDrops => Next
    BY DEF LinkDrops, Next, BluetoothCallback
  <1>4. Receive => UNCHANGED vars
    BY DEF Receive
  <1>5. UNCHANGED allVars => UNCHANGED vars
    BY DEF allVars
  <1> QED
    BY <1>1, <1>2, <1>3, <1>4, <1>5 DEF EndToEndNext

\* The device behaves as it does on its own: what is proved of it holds here.
LEMMA EndToEndIsFirmware == EndToEndSpec => Spec
PROOF
  <1>1. EndToEndInit => Init
    BY DEF EndToEndInit
  <1> QED
    BY <1>1, EndToEndSteps, PTL DEF EndToEndSpec, Spec

\* Nothing has been sent, counted or lost initially.
LEMMA InitEndToEndInv == EndToEndInit => EndToEndInv
PROOF
  <1> SUFFICES ASSUME EndToEndInit
               PROVE  EndToEndInv
    OBVIOUS
  <1>1. /\ events = << >> /\ inbox = << >> /\ missed_samples = 0 /\ lost = 0
        /\ reset_unanswered = FALSE
        /\ last_sequences_by_stream = [st \in Streams |-> NoSequence]
        /\ last_tick = [st \in Streams |-> 0]
        /\ batch = [st \in BatchedStreams |-> EmptyBatch]
        /\ ticks = [s \in Sensors |-> 0] /\ settled = [st \in Streams |-> 0]
    BY DEF EndToEndInit, Init
  <1>2. NumberInv
    BY <1>1 DEF NumberInv, EmptyBatch
  <1>3. InboxInv
    BY <1>1 DEF InboxInv
  <1>4. StatisticsInv
    BY <1>1 DEF StatisticsInv
  <1>5. ResetInv
    <2>1. DOMAIN events = {} /\ DOMAIN inbox = {} /\ reset_unanswered = FALSE
      BY <1>1
    <2> QED
      BY <2>1 DEF ResetInv
  <1>6. TallyInv
    <2>1. missed_samples = 0 /\ lost = 0 /\ 0 = 0 + 0 * SeqSpace
      BY <1>1, SizeAssumption
    <2>2. \E turns \in Nat : lost = missed_samples + turns * SeqSpace
      BY <2>1
    <2> QED
      BY <2>1, <2>2 DEF TallyInv
  <1>7. TicksInv
    BY <1>1, FirmwareAssumption DEF TicksInv
  <1> QED
    BY <1>2, <1>3, <1>4, <1>5, <1>6, <1>7 DEF EndToEndInv

\* A step in which nothing happens keeps the invariant.
LEMMA StutterEndToEndInv ==
  ASSUME EndToEndInv, UNCHANGED allVars
  PROVE  EndToEndInv'
PROOF
  <1>1. UNCHANGED << ticks, sequence, settled, events, batch, running, inbox, reset_unanswered,
                     last_sequences_by_stream, missed_samples, last_tick, lost >>
    BY DEF allVars, vars, controlVars, batchVars, countVars, pcVars
  <1>2. NumberInv'
    BY <1>1 DEF EndToEndInv, NumberInv, NumbersSample, Numbers, FirstTick
  <1>3. InboxInv'
    BY <1>1 DEF EndToEndInv, InboxInv, Arriving, FirstTick, LastTick
  <1>4. StatisticsInv' /\ TallyInv' /\ TicksInv'
    BY <1>1 DEF EndToEndInv, StatisticsInv, TallyInv, TicksInv, FewReadings
  <1>5. ResetInv'
    BY <1>1 DEF EndToEndInv, ResetInv, Still, DeviceStill, ActiveStreams, PendingCommand
  <1> QED
    BY <1>2, <1>3, <1>4, <1>5 DEF EndToEndInv

\* Every step keeps the invariant, if the user is patient.
LEMMA NextEndToEndInv ==
  ASSUME PatientReset, TypeOK, BatchInv, PipelineInv, TypeOK', BatchInv', EndToEndInv,
         [EndToEndNext]_allVars
  PROVE  EndToEndInv'
PROOF
  <1>1. /\ InboxInv /\ StatisticsInv /\ ResetInv /\ TallyInv /\ TicksInv
        /\ inbox \in Seq(Messages)
    BY DEF EndToEndInv, InboxInv
  <1>2. ASSUME Next, UNCHANGED pcVars, InboxFrom, InboxInv', ResetInv',
               ~reset_unanswered' => ~reset_unanswered
        PROVE  EndToEndInv'
    <2>1. NumberInv'
      BY <1>2, NextNumbers
    <2>2. StatisticsInv' /\ TallyInv' /\ TicksInv'
      BY <1>1, <1>2, StepKeepsTally
    <2> QED
      BY <1>2, <2>1, <2>2 DEF EndToEndInv
  <1>3. CASE DeviceStep
    <2>1. DeviceActs /\ SendsFrames /\ UNCHANGED << pcVars, reset_unanswered >>
      BY <1>3 DEF DeviceStep, DeviceActs
    <2>2. Next
      BY <2>1, ActsAreSteps
    <2>3. /\ InboxFrom /\ InboxInv'
          /\ \A i \in DOMAIN inbox' : inbox'[i].kind = "notification"
               \/ (i \in DOMAIN inbox /\ inbox'[i] = inbox[i])
      BY <1>1, <2>1, <2>2, SendingInbox
    <2>4. ResetInv'
      BY <1>1, <2>1, <2>3, ActsKeepReset
    <2> QED
      BY <1>2, <2>1, <2>2, <2>3, <2>4
  <1>4. ASSUME NEW c \in Commands, WritesCommand(c)
        PROVE  EndToEndInv'
    <2>1. Next /\ UNCHANGED pcVars
      BY <1>4 DEF WritesCommand, Next, BluetoothCallback
    <2>2. ResetInv'
      BY <1>1, <1>4, WriteKeepsReset
    <2>3. CASE c = "RESET_SEQUENCE"
      <3>1. inbox = << >> /\ inbox' = Append(inbox, ResetResponse) /\ reset_unanswered' = TRUE
        BY <1>4, <2>3 DEF WritesCommand, Drained
      <3>2. inbox' = << ResetResponse >>
        BY <3>1
      <3>3. \A i \in DOMAIN inbox' : inbox'[i].kind # "notification"
        BY <3>2 DEF ResetResponse
      <3>4. inbox' \in Seq(Messages)
        BY <3>2 DEF Messages
      <3>5. InboxInv' /\ InboxFrom
        BY <3>3, <3>4, InboxFromParts DEF InboxFrom
      <3> QED
        BY <1>2, <2>1, <2>2, <3>1, <3>5
    <2>4. CASE c # "RESET_SEQUENCE"
      <3>1. UNCHANGED << inbox, reset_unanswered >>
        BY <1>4, <2>4 DEF WritesCommand
      <3>2. Len(inbox) \in 0 .. Len(inbox) /\ inbox' = SubSeq(inbox, 1, Len(inbox))
        BY <1>1, <3>1
      <3>3. InboxInv' /\ InboxFrom
        BY <1>1, <2>1, <3>2, KeptInbox
      <3> QED
        BY <1>2, <2>1, <2>2, <3>1, <3>3
    <2> QED
      BY <2>3, <2>4
  <1>5. CASE LinkDrops
    <2>1. /\ DeviceActs /\ UNCHANGED << pcVars, reset_unanswered >>
          /\ \E n \in 0 .. Len(inbox) : inbox' = SubSeq(inbox, 1, n)
      BY <1>5 DEF LinkDrops, DeviceActs
    <2>2. Next
      BY <2>1, ActsAreSteps
    <2>3. /\ InboxFrom /\ InboxInv'
          /\ \A i \in DOMAIN inbox' : i \in DOMAIN inbox /\ inbox'[i] = inbox[i]
      BY <1>1, <2>1, <2>2, KeptInbox
    <2>4. ResetInv'
      BY <1>1, <2>1, <2>3, ActsKeepReset
    <2> QED
      BY <1>2, <2>1, <2>2, <2>3, <2>4
  <1>6. CASE Receive
    BY <1>6, ReceiveFrame, ReceiveAnswer DEF Receive
  <1>7. CASE UNCHANGED allVars
    BY <1>7, StutterEndToEndInv
  <1> QED
    BY <1>3, <1>4, <1>5, <1>6, <1>7 DEF EndToEndNext

\* So it always holds.
LEMMA AlwaysEndToEndInv ==
  ASSUME PatientReset
  PROVE  EndToEndSpec => []EndToEndInv
PROOF
  <1>1. /\ TypeOK /\ BatchInv /\ PipelineInv /\ TypeOK' /\ BatchInv' /\ EndToEndInv
        /\ [EndToEndNext]_allVars
        => EndToEndInv'
    BY NextEndToEndInv
  <1>2. EndToEndSpec => [](TypeOK /\ BatchConsistent /\ PipelineInv) /\ []BatchInv
    BY EndToEndIsFirmware, AlwaysPipelineInv, AlwaysBatchInv, PTL
  <1> QED
    BY <1>1, <1>2, InitEndToEndInv, PTL DEF EndToEndSpec

\* Whatever is lost on the way, and over however many links, missed_samples differs from the
\* number of samples lost by whole turns of the sequence space at most: a gap is counted
\* modulo 2^16 (_update_sequence_stats), and nothing else is miscounted.
THEOREM MissedAreLostButTurns ==
  ASSUME PatientReset
  PROVE  EndToEndSpec => [](\E turns \in Nat : lost = missed_samples + turns * SeqSpace)
PROOF
  <1>1. EndToEndInv => \E turns \in Nat : lost = missed_samples + turns * SeqSpace
    BY DEF EndToEndInv, TallyInv
  <1> QED
    BY <1>1, AlwaysEndToEndInv, PTL

\* With too few readings for such a gap, missed_samples is the number of samples lost.
THEOREM MissedAreLost ==
  ASSUME PatientReset, FewReadings
  PROVE  EndToEndSpec => []MissedIsLost
PROOF
  <1>1. EndToEndInv => MissedIsLost
    BY DEF EndToEndInv, TallyInv, MissedIsLost
  <1> QED
    BY <1>1, AlwaysEndToEndInv, PTL

=============================================================================
