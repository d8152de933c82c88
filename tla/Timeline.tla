------------------------------ MODULE Timeline ------------------------------
(***************************************************************************)
(* When a sample was taken, and when the page says it was.  A sensor       *)
(* stamps its reading with the uptime of the device (32 bits of ms); the   *)
(* two streams of the LSM6DSL wait in their batch buffers, of which a      *)
(* frame keeps only the first timestamp; the PC spaces the others evenly   *)
(* (unpack_many) and turns them into host time with one offset for all     *)
(* streams, taken again whenever a timestamp is older than the one before. *)
(*                                                                         *)
(* Time is discrete: `now` is the time of the host, and everything due at  *)
(* a moment runs before the next.  What Firmware and EndToEnd model        *)
(* (sequence numbers, the event queue, the statistics) is left out: the    *)
(* handler of a sample event runs with the sensor that submitted it.       *)
(***************************************************************************)
EXTENDS Integers, Sequences, SequencesExt

CONSTANTS
  Batched,         \* the streams of the LSM6DSL, in the order of their flush
  MaxBatch,        \* bsl_sensor_data_max_samples of each
  SampleInterval,  \* BSL_LSM6DSL_INTERVAL_MS
  SingleInterval,  \* interval of a sensor whose stream is not batched
  FlushDelay,      \* BSL_SENSOR_BATCH_FLUSH_MS
  TimeModulus,     \* 2^32: timestamp_ms wraps here
  MaxDelay,        \* longest time from bt_gatt_notify to the callback of bleak
  Boots,           \* host times at which the device may have been switched on
  Horizon,         \* bound of `now`
  MaxLosses,       \* bound of the connections that are lost
  MaxStarts,       \* bound of the measurements started
  None             \* Python's None, and the expiry of a work not scheduled

BatchedStreams == {Batched[i] : i \in DOMAIN Batched}

ASSUME TimelineAssumption ==
  /\ Batched \in Seq(BatchedStreams)
  /\ MaxBatch \in [BatchedStreams -> Nat \ {0}]
  /\ SampleInterval \in Nat \ {0} /\ SingleInterval \in Nat \ {0}
  /\ FlushDelay \in Nat /\ SampleInterval < FlushDelay
  /\ MaxDelay \in Nat /\ Horizon \in Nat /\ MaxLosses \in Nat /\ MaxStarts \in Nat
  /\ TimeModulus \in Nat /\ Horizon < TimeModulus
  /\ \A b \in Boots : b \in Int /\ b <= 0
  /\ None \notin Int

VARIABLES
  now,        \* the time of the host, time.time()
  boot,       \* when the device was last switched on
  connected,  \* whether there is a connection, subscribed to the samples
  due,        \* when each delayable work of the device expires
  held,       \* when the samples in each batch buffer were taken
  air,        \* frames sent and not yet received
  offset,     \* device_time_offset_ms
  last,       \* last_device_timestamp_ms
  anchor,     \* history: the wrap in which `offset` was taken
  shown,      \* history: the samples the last step showed
  losses,     \* connections lost
  starts      \* measurements started

vars == <<now, boot, connected, due, held, air, offset, last, anchor, shown, losses, starts>>
device == <<boot, connected, due, held, losses, starts>>
page == <<offset, last, anchor>>

Works == {"lsm6dsl", "single", "flush"}
Sensors == {"lsm6dsl", "single"}

\* platform_uptime_ms at host time t, and how often it had wrapped by then.
Uptime(t) == (t - boot) % TimeModulus
Wraps(t) == (t - boot) \div TimeModulus

Init ==
  /\ now = 0 /\ boot \in Boots /\ connected = FALSE
  /\ due = [w \in Works |-> None]
  /\ held = [s \in BatchedStreams |-> <<>>]
  /\ air = <<>> /\ shown = <<>>
  /\ offset = None /\ last = None /\ anchor = 0
  /\ losses = 0 /\ starts = 0

----------------------------------------------------------------------------
(* The device. *)

\* Time passes when all that is due has run and no frame is overdue.
Tick ==
  /\ now < Horizon
  /\ \A w \in Works : due[w] # now
  /\ air # <<>> => now < Head(air).sent + MaxDelay
  /\ now' = now + 1 /\ shown' = <<>>
  /\ UNCHANGED <<device, page, air>>

\* A frame of samples taken at these times: it carries the first timestamp.
FrameOf(taken) == [timestamp |-> Uptime(Head(taken)), taken |-> taken, sent |-> now]

\* The frames of the buffers flushed together, in the order of the flush.
FramesOf(buffers, flushed) ==
  LET frames[i \in 0 .. Len(Batched)] ==
        IF i = 0 THEN <<>>
        ELSE LET s == Batched[i]
             IN  IF s \in flushed /\ buffers[s] # <<>>
                 THEN Append(frames[i - 1], FrameOf(buffers[s]))
                 ELSE frames[i - 1]
  IN  frames[Len(Batched)]

\* bt_gatt_notify takes the frames: what the host may refuse, Firmware models.
Notify(frames) == air' = air \o frames

Flush(buffers, flushed) ==
  /\ Notify(FramesOf(buffers, flushed))
  /\ held' = [s \in BatchedStreams |-> IF s \in flushed THEN <<>> ELSE buffers[s]]

\* Slip: a batch is sent when it is full and never before.
Rescheduled_Never == None

\* k_work_reschedule: every sample puts the flush off.
Rescheduled == now + FlushDelay

\* The LSM6DSL's work: a reading for both streams, or a fetch that fails.
Lsm6dslSample ==
  /\ due["lsm6dsl"] = now /\ shown' = <<>>
  /\ \/ LET buffers == [s \in BatchedStreams |-> Append(held[s], now)]
        IN  /\ Flush(buffers, {s \in BatchedStreams : Len(buffers[s]) >= MaxBatch[s]})
            /\ due' = [due EXCEPT !["lsm6dsl"] = now + SampleInterval, !["flush"] = Rescheduled]
     \/ /\ due' = [due EXCEPT !["lsm6dsl"] = now + SampleInterval]
        /\ UNCHANGED <<held, air>>
  /\ UNCHANGED <<now, boot, connected, losses, starts, page>>

\* A sensor that is not batched sends each reading at once.
SingleSample ==
  /\ due["single"] = now /\ shown' = <<>>
  /\ due' = [due EXCEPT !["single"] = now + SingleInterval]
  /\ Notify(<<FrameOf(<<now>>)>>)
  /\ UNCHANGED <<now, boot, connected, held, losses, starts, page>>

BatchFlushWork ==
  /\ due["flush"] = now /\ shown' = <<>>
  /\ due' = [due EXCEPT !["flush"] = None]
  /\ Flush(held, BatchedStreams)
  /\ UNCHANGED <<now, boot, connected, losses, starts, page>>

\* START_MEASUREMENT: the sensors that do not run take a reading at once.
Start ==
  /\ connected /\ due["lsm6dsl"] = None /\ shown' = <<>>
  /\ starts < MaxStarts /\ starts' = starts + 1
  /\ due' = [due EXCEPT !["lsm6dsl"] = now, !["single"] = now]
  /\ UNCHANGED <<now, boot, connected, held, air, losses, page>>

\* STOP_MEASUREMENT: the sensors stop, and what is held is sent.
Stop ==
  /\ connected /\ due["lsm6dsl"] # None /\ shown' = <<>>
  /\ due' = [w \in Works |-> None]
  /\ Flush(held, BatchedStreams)
  /\ UNCHANGED <<now, boot, connected, losses, starts, page>>

----------------------------------------------------------------------------
(* The PC. *)

\* Slip: the timestamps are trusted to tell that the device was restarted.
OnDisconnect_Kept == UNCHANGED page

\* Slip: only the offset is forgotten.
OnDisconnect_OffsetOnly == offset' = None /\ UNCHANGED <<last, anchor>>

\* _on_disconnect: the next connection takes its own offset.
OnDisconnect == offset' = None /\ last' = None /\ UNCHANGED anchor

\* The connection ends, on both sides: what is held or in the air is lost.
Disconnected ==
  /\ connected' = FALSE /\ losses' = losses + 1
  /\ due' = [w \in Works |-> None]
  /\ held' = [s \in BatchedStreams |-> <<>>] /\ air' = <<>>
  /\ OnDisconnect
  /\ shown' = <<>>

LinkLost ==
  /\ connected /\ losses < MaxLosses
  /\ Disconnected
  /\ UNCHANGED <<now, boot, starts>>

\* The device starts again, and its uptime with it.
Reboot ==
  /\ losses < MaxLosses
  /\ Disconnected
  /\ boot' = now
  /\ UNCHANGED <<now, starts>>

\* A connection with monitoring, as _connect makes it.
Reconnect ==
  /\ ~connected /\ connected' = TRUE /\ shown' = <<>>
  /\ UNCHANGED <<now, boot, due, held, air, losses, starts, page>>

\* Slip: the interval is added once too often.
ReadTime_FromOne(frame, i) == frame.timestamp + i * SampleInterval

\* The timestamp unpack_many gives the i-th sample of a frame.
ReadTime(frame, i) == frame.timestamp + (i - 1) * SampleInterval

\* struct.pack refuses a timestamp of more than 32 bits.
Readable(frame) ==
  \A i \in DOMAIN frame.taken : i > 1 => ReadTime(frame, i) < TimeModulus

\* Slip: timestamps are believed to rise as long as a connection lasts.
Older_Never(before, timestamp) == FALSE

\* A timestamp older than the one before is taken for a new device's.
Older(before, timestamp) == before # None /\ timestamp < before

\* _plot_time_ms and _on_sample for the i-th sample of a frame.
Show(pc, frame, i) ==
  LET timestamp == ReadTime(frame, i)
      anew == Older(pc.last, timestamp) \/ pc.offset = None
      off == IF anew THEN now - timestamp ELSE pc.offset
  IN  [offset |-> off, last |-> timestamp,
       anchor |-> IF anew THEN Wraps(Head(frame.taken)) ELSE pc.anchor,
       shown |-> Append(pc.shown,
         [taken |-> frame.taken[i], read |-> timestamp, plot |-> timestamp + off,
          place |-> i, wraps |-> Wraps(Head(frame.taken)),
          anchor |-> IF anew THEN Wraps(Head(frame.taken)) ELSE pc.anchor])]

\* What the page remembers and has shown after the samples of a frame, in their order.
AfterFrame(frame) ==
  LET pc[i \in 0 .. Len(frame.taken)] ==
        IF i = 0
        THEN [offset |-> offset, last |-> last, anchor |-> anchor, shown |-> <<>>]
        ELSE Show(pc[i - 1], frame, i)
  IN  pc[Len(frame.taken)]

\* _handle_sensor_data: every sample of a frame, or none of them.
Receive ==
  /\ air # <<>>
  /\ air' = Tail(air)
  /\ LET pc == AfterFrame(Head(air))
     IN  IF Readable(Head(air))
         THEN /\ offset' = pc.offset /\ last' = pc.last
              /\ anchor' = pc.anchor /\ shown' = pc.shown
         ELSE shown' = <<>> /\ UNCHANGED page
  /\ UNCHANGED <<now, device>>

Next ==
  \/ Tick \/ Lsm6dslSample \/ SingleSample \/ BatchFlushWork
  \/ Start \/ Stop \/ LinkLost \/ Reboot \/ Reconnect \/ Receive

Spec == Init /\ [][Next]_vars

----------------------------------------------------------------------------
(* Properties. *)

Times == 0..Horizon

\* Every variable keeps its type: the works expire in the future, no buffer is
\* left full, and what the page remembers of one connection it remembers whole
\* (ble_service.c, lsm6dsl_sensor.c, web_api.py:308).
TypeOK ==
  /\ now \in Times /\ boot \in Boots \cup Times /\ boot <= now
  /\ connected \in BOOLEAN /\ losses \in 0..MaxLosses /\ starts \in 0..MaxStarts
  /\ due \in [Works -> (now..now + FlushDelay + SampleInterval + SingleInterval) \cup {None}]
  /\ \A s \in BatchedStreams : Len(held[s]) < MaxBatch[s] /\ held[s] \in Seq(0..now)
  /\ \A f \in ToSet(air) : f.timestamp \in 0..TimeModulus - 1 /\ now - f.sent \in 0..MaxDelay
  /\ last \in (0..TimeModulus - 1) \cup {None}
  /\ (offset = None) = (last = None) /\ offset \in Int \cup {None}
  /\ ~connected => air = <<>> /\ last = None

\* How much earlier than it was taken a sample may be read: each sample before
\* it kept the batch open for one flush delay, of which the PC counts one
\* sample interval.
Drift(sample) == (sample.place - 1) * (FlushDelay - SampleInterval)

\* How long the first sample of a batch may wait for the last.
MaxHold == FlushDelay * Max({1} \cup {MaxBatch[s] : s \in BatchedStreams})

\* unpack_many spaces the samples of a frame evenly while failed fetches leave
\* holes between them (lsm6dsl_sensor.c:568): the time read is never later than
\* the sample was taken, and earlier by no more than the flush delay allows.
ReadTimeIsClose ==
  \A sample \in ToSet(shown) :
    (Uptime(sample.taken) - sample.read) % TimeModulus <= Drift(sample)

\* The page shows a sample near the time it was taken, through streams that
\* overtake each other and so take the offset again for no reason
\* (web_api.py:508), restarts of the device and the wrap of its uptime.  The
\* exception is a frame from before the wrap that arrives after one from
\* behind it: its timestamp is not older, and it is shown 2^32 ms ahead.
PlotTimeIsClose ==
  \A sample \in ToSet(shown) :
    sample.wraps >= sample.anchor =>
      sample.plot - sample.taken \in -Drift(sample)..MaxHold + MaxDelay

\* unpack_many raises when a timestamp it computes passes 2^32 ms
\* (protocol.py:464), and the whole frame is lost: no frame is whose samples
\* were taken on one side of the wrap.
OnlyTheWrapLosesAFrame ==
  [][ (air # <<>> /\ air' = Tail(air) /\ connected' /\ shown' = <<>>) =>
        Wraps(Last(Head(air).taken)) > Wraps(Head(Head(air).taken)) ]_vars
=============================================================================
