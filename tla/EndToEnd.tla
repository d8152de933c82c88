------------------------------ MODULE EndToEnd ------------------------------
(***************************************************************************)
(* The firmware, the link and the sequence statistics of the PC            *)
(* (SensorLoggerApp in app_core.py): does missed_samples count the samples *)
(* that were lost?                                                         *)
(*                                                                         *)
(* inbox holds what the device has sent and the PC has not handled, in the *)
(* order of the ATT bearer: notifications and the response to a            *)
(* RESET_SEQUENCE write, which the Bluetooth thread sends as soon as       *)
(* write_control has submitted the command.  What is in flight when the    *)
(* link drops may be lost.  The PC is subscribed again with each link      *)
(* (SensorCccChanged), and its statistics survive it.                      *)
(*                                                                         *)
(* A definition X_Slip before X is X with a plausible slip.                *)
(***************************************************************************)
EXTENDS Firmware, SequencesExt

CONSTANTS
  NoSequence,    \* no entry in last_sequences_by_stream
  PatientReset   \* the user resets only what has stopped and has all arrived,
                 \* and starts again only when a reset has been answered

ASSUME EndToEndAssumption == NoSequence \notin Sequences16 /\ PatientReset \in BOOLEAN

VARIABLES
  inbox,
  last_sequences_by_stream, missed_samples,
  \* history: per stream the reading received last since the reset, 0 if
  \* none, and the readings lost between received ones
  last_tick, lost,
  reset_unanswered  \* history: a RESET_SEQUENCE was written and not answered

pcVars == << last_sequences_by_stream, missed_samples, last_tick, lost >>
allVars == << vars, inbox, pcVars, reset_unanswered >>

ResetResponse == [kind |-> "reset_response"]
Notification(f) == [kind |-> "notification", frame |-> f]

ClearStatistics_KeepsLast ==
  /\ missed_samples' = 0
  /\ last_tick' = [st \in Streams |-> 0]
  /\ lost' = 0
  /\ UNCHANGED last_sequences_by_stream

\* What reset_sequence does once its write has returned.
ClearStatistics ==
  /\ last_sequences_by_stream' = [st \in Streams |-> NoSequence]
  /\ missed_samples' = 0
  /\ last_tick' = [st \in Streams |-> 0]
  /\ lost' = 0

EndToEndInit ==
  /\ Init
  /\ inbox = << >>
  /\ last_sequences_by_stream = [st \in Streams |-> NoSequence]
  /\ missed_samples = 0
  /\ last_tick = [st \in Streams |-> 0]
  /\ lost = 0
  /\ reset_unanswered = FALSE

-----------------------------------------------------------------------------
(* The device and the link *)

\* A step that flushes two streams sends their frames in some order.
SendsFrames == \E s \in SetToSeqs({ Notification(f) : f \in notified' }) : inbox' = inbox \o s

DeviceStep ==
  /\ \/ ProcessEvent \/ BatchFlushWork \/ AdvertisingStarts \/ AdvertisingFails
     \/ \E s \in Sensors : SampleWork(s)
     \/ Connected \/ ConnectionFailed
     \/ \E value \in BOOLEAN : SensorCccChanged(value)
  /\ SendsFrames
  /\ UNCHANGED << pcVars, reset_unanswered >>

Drained ==
  /\ \A s \in Sensors : ~running[s]
  /\ events = << >> /\ ActiveStreams = {} /\ inbox = << >>

\* The response to a write of another command changes nothing here.
WritesCommand(c) ==
  /\ WriteControl(c)
  /\ \/ /\ c = "RESET_SEQUENCE"
        /\ PatientReset => Drained
        /\ inbox' = Append(inbox, ResetResponse)
        /\ reset_unanswered' = TRUE
     \/ /\ c # "RESET_SEQUENCE"
        /\ PatientReset => ~reset_unanswered
        /\ UNCHANGED << inbox, reset_unanswered >>
  /\ UNCHANGED pcVars

LinkDrops ==
  /\ Disconnected
  /\ \E n \in 0 .. Len(inbox) : inbox' = SubSeq(inbox, 1, n)
  /\ UNCHANGED << pcVars, reset_unanswered >>

-----------------------------------------------------------------------------
(* SensorLoggerApp *)

Difference_Unmasked(a, b) == IF a >= b THEN a - b ELSE 0

\* (a - b) & 0xFFFF
Difference(a, b) == (a + SeqSpace - b) % SeqSpace

\* What _update_sequence_stats adds for the number first after last.
MissedBy(last, first) ==
  IF last = NoSequence THEN 0 ELSE Difference(first, Add16(last, 1))

\* The number unpack_many gives the last sample of a frame.
LastNumber(f) == Add16(f.sequence, f.sample_count - 1)

\* _handle_sensor_data: unpack_many numbers the samples of a frame from the
\* header's sequence, so only the first can follow a gap.
ReceiveNotification(f) ==
  LET st    == f.stream
      first == f.payload[1].tick
  IN  /\ missed_samples' = missed_samples + MissedBy(last_sequences_by_stream[st], f.sequence)
      /\ last_sequences_by_stream' =
           [last_sequences_by_stream EXCEPT ![st] = LastNumber(f)]
      /\ last_tick' = [last_tick EXCEPT ![st] = f.payload[Len(f.payload)].tick]
      /\ lost' = lost + (IF last_tick[st] = 0 THEN 0 ELSE first - last_tick[st] - 1)

\* A notification is handled, or the write that reset_sequence awaits returns.
Receive ==
  /\ inbox # << >>
  /\ inbox' = Tail(inbox)
  /\ \/ /\ Head(inbox).kind = "notification"
        /\ ReceiveNotification(Head(inbox).frame)
        /\ UNCHANGED reset_unanswered
     \/ /\ Head(inbox).kind = "reset_response"
        /\ ClearStatistics
        /\ reset_unanswered' = FALSE
  /\ UNCHANGED vars

-----------------------------------------------------------------------------

EndToEndNext ==
  \/ DeviceStep
  \/ \E c \in Commands : WritesCommand(c)
  \/ LinkDrops
  \/ Receive

EndToEndSpec == EndToEndInit /\ [][EndToEndNext]_allVars

-----------------------------------------------------------------------------
(* Properties *)

\* missed_samples is the number of samples the sensors took between received
\* ones and the PC never got: a notification the host refused, a batch dropped
\* at a disconnection, readings taken while nothing was subscribed.  It needs
\* PatientReset, and gaps shorter than the sequence space.
MissedIsLost == missed_samples = lost

=============================================================================
