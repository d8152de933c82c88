---------------------------- MODULE StreamBatch ----------------------------
(***************************************************************************)
(* The batch buffer of ble_service.c: struct stream_batch_state and the    *)
(* pure part of what ble_service_enqueue_sample, flush_batch_state and     *)
(* disconnected do to one buffer, together with the sizes of protocol.h    *)
(* they depend on.                                                         *)
(*                                                                         *)
(* A sample is [stream, sequence, tick].  tick stands for the payload: it  *)
(* is the ordinal of the reading the sample carries, and the program never *)
(* looks at it.  sequence is the 16-bit number the sensor stamped on it.   *)
(* The payload format and the sample size are functions of the stream in   *)
(* this program, so the two comparisons of them in                         *)
(* ble_service_enqueue_sample never differ and are not modelled; flags and *)
(* timestamps are left out.                                                *)
(***************************************************************************)
EXTENDS Naturals, Sequences

CONSTANTS
  SeqSpace,            \* 65536 in the program: sequence numbers are uint16_t
  Streams,           \* the streams of the sensors present
  SampleSize,        \* bytes of one sample of a stream (stream_sample_size)
  MaxBatch,          \* samples a frame of a stream may carry
  MaxPayload,        \* BSL_SENSOR_DATA_MAX_PAYLOAD_SIZE
  BatchedStreams     \* streams stream_supports_batching accepts

ASSUME SizeAssumption ==
  /\ SeqSpace \in Nat \ {0}
  /\ MaxPayload \in Nat
  /\ BatchedStreams \subseteq Streams
  /\ \A st \in Streams :
       /\ SampleSize[st] \in Nat \ {0}
       /\ MaxBatch[st] \in Nat \ {0}
       /\ SampleSize[st] * MaxBatch[st] <= MaxPayload
       /\ MaxBatch[st] < SeqSpace

Sequences16 == 0 .. SeqSpace - 1

Add16_Unbounded(a, n) == a + n

\* uint16_t addition
Add16(a, n) == (a + n) % SeqSpace

(***************************************************************************)
(* The two static buffers start zeroed.  payload lists the samples whose   *)
(* bytes the first payload_len bytes of the C array hold; bytes past       *)
(* payload_len are never read.                                             *)
(***************************************************************************)
EmptyBatch ==
  [active |-> FALSE, first_sequence |-> 0, payload_len |-> 0,
   sample_count |-> 0, payload |-> << >>]

\* A buffer restarted with one sample (both restart paths assign the same fields).
StartBatch(sample) ==
  [active         |-> TRUE,
   first_sequence |-> sample.sequence,
   payload_len    |-> SampleSize[sample.stream],
   sample_count   |-> 1,
   payload        |-> << sample >>]

\* A buffer extended by the next sample.
AppendSample(b, sample) ==
  [active         |-> b.active,
   first_sequence |-> b.first_sequence,
   payload_len    |-> b.payload_len + SampleSize[sample.stream],
   sample_count   |-> b.sample_count + 1,
   payload        |-> Append(b.payload, sample)]

\* A buffer after flush_batch_state or disconnected emptied it.
ClearBatch(b) ==
  [active |-> FALSE, first_sequence |-> b.first_sequence, payload_len |-> 0,
   sample_count |-> 0, payload |-> << >>]

MustRestart_SequenceIgnored(b, sample) ==
  \/ b.sample_count >= MaxBatch[sample.stream]
  \/ b.payload_len + SampleSize[sample.stream] > MaxPayload

\* The active buffer cannot take the sample: it is sent and restarted.
MustRestart(b, sample) ==
  \/ sample.sequence # Add16(b.first_sequence, b.sample_count)
  \/ b.sample_count >= MaxBatch[sample.stream]
  \/ b.payload_len + SampleSize[sample.stream] > MaxPayload

\* The buffer reached the stream's limit and is sent at once.
IsFull(b, stream) == b.sample_count >= MaxBatch[stream]

FrameOf_NumberedByLast(stream, b) ==
  [stream |-> stream, sequence |-> b.payload[Len(b.payload)].sequence,
   payload_len |-> b.payload_len, sample_count |-> b.sample_count,
   payload |-> b.payload]

\* The notification built from a buffer.
FrameOf(stream, b) ==
  [stream |-> stream, sequence |-> b.first_sequence,
   payload_len |-> b.payload_len, sample_count |-> b.sample_count,
   payload |-> b.payload]

Packs_FullRefused(frame) ==
  /\ frame.payload_len \in 1 .. MaxPayload - 1
  /\ frame.sample_count \in 1 .. MaxBatch[frame.stream]
  /\ frame.payload_len = SampleSize[frame.stream] * frame.sample_count

\* bsl_sensor_data_pack accepts the frame; otherwise nothing is sent.
Packs(frame) ==
  /\ frame.payload_len \in 1 .. MaxPayload
  /\ frame.sample_count \in 1 .. MaxBatch[frame.stream]
  /\ frame.payload_len = SampleSize[frame.stream] * frame.sample_count

\* The notification of a stream that is not batched.
SingleFrame(sample) ==
  [stream |-> sample.stream, sequence |-> sample.sequence,
   payload_len |-> SampleSize[sample.stream], sample_count |-> 1,
   payload |-> << sample >>]

=============================================================================
