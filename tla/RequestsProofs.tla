--------------------------- MODULE RequestsProofs ---------------------------
(***************************************************************************)
(* Theorems about Requests, for any requests the page, the shell and the   *)
(* scripts may be made of, any number of tasks and of lost links.          *)
(*                                                                         *)
(*   AwaitInv    a pending request awaits one operation of its own;        *)
(*   ServedInv   what it has passed the device has executed;               *)
(*   CauseInv    every error, on its way or returned, has its cause;       *)
(*   AppliedInv  the last config of an op in the event queue, or else the  *)
(*               drivers, have the value last written;                     *)
(*   GroupInv    of two parameters of a group, the one with the older      *)
(*               request is yet to be written by the newer, or one of the  *)
(*               two requests is blamed.                                   *)
(***************************************************************************)
EXTENDS FirmwareProofs, Requests

Outcomes == Caught \cup {"none", "pending", "broadcasting", "struct.error", "BleakError",
                       "refused", "RuntimeError", "UncaughtValueError"}

\* Awaiting something, or answered without an error.
Unfailed == {"ok", "pending", "broadcasting"}

RequestTypes ==
  /\ frontend \in Frontends /\ ended \in BOOLEAN
  /\ request \in [Clients -> {<< >>} \cup AllRequests]
  /\ at \in [Clients -> Nat]
  /\ outcome \in [Clients -> Outcomes]
  /\ att \in Seq(Clients)
  /\ reply \in [Clients -> {"none", "done", "refused", "lost"}]
  /\ begun \in Nat /\ number \in [Clients -> Nat]
  /\ executed \in [Clients -> SUBSET Nat]
  /\ written \in [ConfigOps -> [value : ParamValues, by : Nat]]
  /\ cut \in [Clients -> BOOLEAN] /\ disturbed \in [Clients -> BOOLEAN]
  /\ blamed \subseteq 1 .. begun

\* The operation a task is at.
Current(c) == request[c][at[c]]

Held(c) == \E i \in DOMAIN att : att[i] = c

\* A task with a pending request awaits the operation it is at, in the host's
\* queue or answered; the request is the frontend's and has a number of its own.
AwaitInv ==
  /\ \A i, j \in DOMAIN att : att[i] = att[j] => i = j
  /\ \A c \in Clients :
       /\ Held(c) <=> Pends(c) /\ reply[c] = "none"
       /\ reply[c] # "none" => Pends(c)
       /\ Pends(c) => /\ at[c] \in DOMAIN request[c] /\ request[c] \in FrontendRequests
                      /\ c \in Tasks /\ number[c] # 0
       /\ executed[c] \subseteq DOMAIN request[c]
       /\ number[c] <= begun
  /\ ended => frontend = "shell"

\* Operation i of the latest request of c needs nothing more from the device.
Settled(c, i) == i \in executed[c] \/ request[c][i].do \in {"poll", "malformed"}

ServedInv ==
  \A c \in Clients :
    /\ Pends(c) => \A i \in DOMAIN request[c] : i < at[c] => Settled(c, i)
    /\ reply[c] = "done" => at[c] \in executed[c]
    /\ outcome[c] \in {"ok", "broadcasting", "RuntimeError"} =>
         \A i \in DOMAIN request[c] : Settled(c, i)

\* An operation the PC lets through.
Passes(o) == o.do # "bad_input" /\ (o.do = "config" => Wire!BslConfigIsValid(WireConfig(o)))

CauseInv ==
  /\ ErrorsAreExplained
  /\ \A c \in Clients :
       /\ Pends(c) => Passes(Current(c)) /\ (IsConnected \/ cut[c])
       /\ reply[c] = "lost" => cut[c]
       /\ reply[c] = "refused" => Current(c).do = "malformed"

\* Event i of the queue sets op.
Sets(queue, i, op) == queue[i].type = "config_update" /\ queue[i].config.op = op

AppliedInv ==
  \A op \in ConfigOps :
    \/ \E i \in DOMAIN events :
         /\ Sets(events, i, op) /\ events[i].config.value = written[op].value
         /\ \A j \in DOMAIN events : j > i => ~Sets(events, j, op)
    \/ /\ params[op] = written[op].value
       /\ \A i \in DOMAIN events : ~Sets(events, i, op)

\* The parameters the latest request of c has set.
SetBy(c) == { request[c][i].op : i \in { j \in executed[c] : request[c][j].do = "config" } }

Rivals(c, d) == c # d /\ Pends(c) /\ Pends(d) /\ SetsOf(request[c]) \cap SetsOf(request[d]) # {}

\* The newer of the requests last to set op and other, if it is other's, is
\* still to set op.
Unfinished(op, other) ==
  \E c \in Clients : Pends(c) /\ number[c] = written[other].by /\ op \notin SetBy(c)

\* Of a parameter and the latest request of c: what it has set is its own, or it
\* is blamed, and no newer request has set what it is to set.
KeepsTo(c, op) ==
  /\ number[c] # 0 /\ written[op].by = number[c] => op \in SetBy(c)
  /\ Pends(c) /\ op \in SetBy(c) => written[op].by = number[c] \/ number[c] \in blamed
  /\ Pends(c) /\ op \in SetsOf(request[c]) /\ written[op].by > number[c] =>
       number[c] \in blamed

\* Where op holds the value of an older request than other does.
MixtureCaused(op, other) ==
  written[op].by < written[other].by =>
    \/ written[op].by \in blamed
    \/ written[other].by \in blamed
    \/ Unfinished(op, other)

GroupInv ==
  /\ \A op \in ConfigOps : written[op].by <= begun
  /\ \A c, d \in Clients : number[c] # 0 /\ number[c] = number[d] => c = d
  /\ \A c, d \in Clients : Rivals(c, d) => number[c] \in blamed
  /\ \A c \in Clients : \A op \in ConfigOps : KeepsTo(c, op)
  /\ \A group \in {FilterOps, GyroOps} : \A op, other \in group \cap ConfigOps :
       MixtureCaused(op, other)

-----------------------------------------------------------------------------
(* Operations *)

LEMMA OperationKinds ==
  ASSUME NEW o \in Operation
  PROVE  /\ o.do = "config" => o.op \in ConfigOps /\ o.stream_id \in Int /\ o.value \in Int
         /\ o.do = "control" => o.command \in Commands
         /\ o.do = "notify" => o.value \in BOOLEAN
         /\ o.do = "malformed" =>
              o.error \in BadWrites /\ o.error \in {"INVALID_CONFIG", "INVALID_LENGTH"}
         /\ o.do = "bad_input" => o = BadInput
         /\ o.do = "unparsed" => o = Unparsed
         /\ o.do \in {"config", "control", "notify", "malformed", "read", "poll", "bad_input",
                     "unparsed"}
BY DEF Operation, Control, Notify, Malformed, Read, Poll, BadInput, Unparsed

LEMMA ConfigPositions ==
  /\ \A op \in ConfigOps : Wire!PositionOf(op, Wire!ConfigOp) \in 1 .. 8
  /\ Wire!PositionOf("SET_STREAM_INTERVAL", Wire!ConfigOp) = 1
<1>1. DOMAIN Wire!ConfigOp = 1 .. 8 BY DEF Wire!ConfigOp
<1>2. ASSUME NEW op \in ConfigOps PROVE Wire!PositionOf(op, Wire!ConfigOp) \in 1 .. 8
  <2>1. \E i \in 1 .. 8 : Wire!ConfigOp[i] = op BY <1>1, RequestsAssumption DEF RequestsAssumption
  <2> QED BY <1>1, <2>1 DEF Wire!PositionOf
<1>3. \A i \in 1 .. 8 : Wire!ConfigOp[i] = "SET_STREAM_INTERVAL" <=> i = 1
  BY DEF Wire!ConfigOp
<1> QED BY <1>1, <1>2, <1>3 DEF Wire!PositionOf

\* What a write may carry, as both ends see it.
Allowed(op, id, value) ==
  \/ op = 1 /\ id = 1 /\ value >= 20 /\ value <= 10000
  \/ op = 2 /\ id = 13 /\ value >= 0 /\ value <= 1000
  \/ op \in {3, 4} /\ id = 13 /\ value >= 0 /\ value <= 10000
  \/ op = 5 /\ id = 13 /\ value >= 1 /\ value <= 13000
  \/ op = 6 /\ id = 10 /\ value >= 10 /\ value <= 1000
  \/ op = 7 /\ id = 10 /\ value >= 0 /\ value <= 1000
  \/ op = 8 /\ id = 10 /\ value >= 5 /\ value <= 260

LEMMA WritesAllowed ==
  ASSUME NEW op \in 1 .. 8, NEW id \in Int, NEW value \in Int
  PROVE  /\ Wire!PacksConfig(Wire!ConfigRecord(op, id, value)) <=> Allowed(op, id, value)
         /\ Wire!BslConfigIsValid(Wire!ConfigRecord(op, id, value)) <=> Allowed(op, id, value)
         /\ op = 1 /\ Wire!ValidConfig(Wire!ConfigRecord(op, id, value)) => Allowed(op, id, value)
<1>1. /\ Len(Wire!ConfigOp) = 8 /\ Wire!StreamId.dummy = 1 /\ Wire!StreamId.imu6 = 10
      /\ Wire!StreamId.orientation = 13
  BY DEF Wire!ConfigOp, Wire!StreamId
<1>2. /\ DOMAIN Wire!BslConfigRange = 1 .. 8
      /\ Wire!BslConfigRange[1] = [stream_id |-> 1, min |-> 20, max |-> 10000]
      /\ Wire!BslConfigRange[2] = [stream_id |-> 13, min |-> 0, max |-> 1000]
      /\ Wire!BslConfigRange[3] = [stream_id |-> 13, min |-> 0, max |-> 10000]
      /\ Wire!BslConfigRange[4] = [stream_id |-> 13, min |-> 0, max |-> 10000]
      /\ Wire!BslConfigRange[5] = [stream_id |-> 13, min |-> 1, max |-> 13000]
      /\ Wire!BslConfigRange[6] = [stream_id |-> 10, min |-> 10, max |-> 1000]
      /\ Wire!BslConfigRange[7] = [stream_id |-> 10, min |-> 0, max |-> 1000]
      /\ Wire!BslConfigRange[8] = [stream_id |-> 10, min |-> 5, max |-> 260]
  BY DEF Wire!BslConfigRange, Wire!Limits
<1>3. Wire!BslConfigIsValid(Wire!ConfigRecord(op, id, value)) <=>
        /\ id = Wire!BslConfigRange[op].stream_id
        /\ value >= Wire!BslConfigRange[op].min
        /\ value <= Wire!BslConfigRange[op].max
  BY <1>2 DEF Wire!BslConfigIsValid, Wire!ConfigRecord
<1>4. Wire!BslConfigIsValid(Wire!ConfigRecord(op, id, value)) <=> Allowed(op, id, value)
  <2>1. CASE op = 1 BY <1>2, <1>3, <2>1 DEF Allowed
  <2>2. CASE op = 2 BY <1>2, <1>3, <2>2 DEF Allowed
  <2>3. CASE op = 3 BY <1>2, <1>3, <2>3 DEF Allowed
  <2>4. CASE op = 4 BY <1>2, <1>3, <2>4 DEF Allowed
  <2>5. CASE op = 5 BY <1>2, <1>3, <2>5 DEF Allowed
  <2>6. CASE op = 6 BY <1>2, <1>3, <2>6 DEF Allowed
  <2>7. CASE op = 7 BY <1>2, <1>3, <2>7 DEF Allowed
  <2>8. CASE op = 8 BY <1>2, <1>3, <2>8 DEF Allowed
  <2> QED BY <2>1, <2>2, <2>3, <2>4, <2>5, <2>6, <2>7, <2>8
<1>5. Wire!PacksConfig(Wire!ConfigRecord(op, id, value)) <=> Allowed(op, id, value)
  BY <1>1 DEF Wire!PacksConfig, Wire!ValidConfig, Wire!ValidGyroCalibConfig,
              Wire!ValidFilterConfig, Wire!ConfigRecord, Allowed
<1>6. op = 1 /\ Wire!ValidConfig(Wire!ConfigRecord(op, id, value)) => Allowed(op, id, value)
  BY <1>1 DEF Wire!ValidConfig, Wire!ValidGyroCalibConfig, Wire!ValidFilterConfig,
              Wire!ConfigRecord, Allowed
<1> QED BY <1>4, <1>5, <1>6

\* What pack lets through is what the device accepts, and of the intervals it
\* lets through all that validate does.
LEMMA PacksIsAccepted ==
  ASSUME NEW o \in Operation, o.do = "config"
  PROVE  /\ Wire!PacksConfig(WireConfig(o)) <=> Wire!BslConfigIsValid(WireConfig(o))
         /\ Wire!PacksConfig(WireConfig(o)) => Wire!ValidConfig(WireConfig(o))
         /\ o.op = "SET_STREAM_INTERVAL" /\ Wire!ValidConfig(WireConfig(o)) =>
              Wire!PacksConfig(WireConfig(o))
<1>1. PICK op \in 1 .. 8, id \in Int, value \in Int :
        /\ WireConfig(o) = Wire!ConfigRecord(op, id, value)
        /\ o.op = "SET_STREAM_INTERVAL" => op = 1
  BY OperationKinds, ConfigPositions DEF WireConfig
<1>2. ASSUME NEW c PROVE Wire!PacksConfig(c) => Wire!ValidConfig(c)
  BY DEF Wire!PacksConfig
<1>3. Wire!PacksConfig(WireConfig(o)) => Wire!ValidConfig(WireConfig(o))
  BY <1>2, Zenon
<1> QED BY <1>1, <1>3, WritesAllowed, Zenon

\* What may be raised at operation o, and why.
Explains(o, result) ==
  \/ result = "ValueError" /\ o = BadInput
  \/ result = "UncaughtValueError" /\ o = Unparsed
  \/ /\ result \in {"ProtocolError", "struct.error"} /\ o.do = "config"
     /\ ~Wire!BslConfigIsValid(WireConfig(o))
     /\ result = "struct.error" => o.op # "SET_STREAM_INTERVAL"
  \/ result = "BleClientError" /\ ~IsConnected

LEMMA RaisesKinds ==
  ASSUME NEW o \in Operation
  PROVE  IF Raises(o) = "none" THEN Passes(o) /\ IsConnected ELSE Explains(o, Raises(o))
<1>0. CASE o.do = "unparsed" BY <1>0, OperationKinds DEF Raises, Explains
<1>1. CASE o.do = "bad_input" BY <1>1, OperationKinds DEF Raises, Explains
<1>2. CASE o.do = "config"
  <2> DEFINE valid == Wire!ValidConfig(WireConfig(o))
             packs == Wire!PacksConfig(WireConfig(o))
             accepted == Wire!BslConfigIsValid(WireConfig(o))
  <2>1. /\ packs <=> accepted
        /\ packs => valid
        /\ o.op = "SET_STREAM_INTERVAL" /\ valid => packs
    BY <1>2, PacksIsAccepted, Zenon
  <2>2. /\ ~valid => Raises(o) = "ProtocolError"
        /\ valid /\ ~packs => Raises(o) = "struct.error"
        /\ valid /\ packs => Raises(o) = IF IsConnected THEN "none" ELSE "BleClientError"
    <3> HIDE DEF valid, packs
    <3>1. o.do # "bad_input" /\ o.do # "unparsed" BY <1>2
    <3>2. Raises(o) = CASE o.do = "unparsed" -> "UncaughtValueError"
                        [] o.do = "bad_input" -> "ValueError"
                        [] o.do = "config" /\ ~valid -> "ProtocolError"
                        [] o.do = "config" /\ valid /\ ~packs -> "struct.error"
                        [] OTHER -> IF IsConnected THEN "none" ELSE "BleClientError"
      BY Zenon DEF Raises, valid, packs
    <3> QED BY <1>2, <3>1, <3>2
  <2> HIDE DEF valid, packs, accepted
  <2>3. CASE ~valid
    <3>1. Raises(o) = "ProtocolError" /\ ~accepted BY <2>1, <2>2, <2>3
    <3> QED BY <1>2, <3>1 DEF Explains, accepted
  <2>4. CASE valid /\ ~packs
    <3>1. Raises(o) = "struct.error" /\ ~accepted /\ o.op # "SET_STREAM_INTERVAL"
      BY <2>1, <2>2, <2>4
    <3> QED BY <1>2, <3>1 DEF Explains, accepted
  <2>5. CASE valid /\ packs
    <3>1. accepted /\ Raises(o) = IF IsConnected THEN "none" ELSE "BleClientError"
      BY <2>1, <2>2, <2>5
    <3> QED BY <1>2, <3>1 DEF Explains, Passes, accepted
  <2> QED BY <2>1, <2>3, <2>4, <2>5
<1>3. CASE o.do \notin {"unparsed", "bad_input", "config"}
  BY <1>3 DEF Raises, Explains, Passes
<1> QED BY <1>0, <1>1, <1>2, <1>3

\* A task that runs on ends its request, or awaits its broadcast or an
\* operation it hands to the host.
Finishes(c, n, ops, k, overlapping) ==
  /\ k > Len(ops) \/ (ops[k].do = "poll" /\ ~IsConnected)
  /\ \/ Answer(c, n, overlapping, "ok")
     \/ frontend = "web" /\ Broadcast(c, overlapping)

Fails(c, n, ops, k, overlapping) ==
  /\ k <= Len(ops)
  /\ \E result \in Outcomes : Explains(ops[k], result) /\ Answer(c, n, overlapping, result)

Sends(c, ops, k, overlapping) ==
  k <= Len(ops) /\ Passes(ops[k]) /\ IsConnected /\ Send(c, overlapping)

LEMMA RunToKinds ==
  ASSUME NEW c, NEW n, NEW ops \in Seq(Operation), NEW k \in 1 .. Len(ops) + 1, NEW overlapping,
         RunTo(c, n, ops, k, overlapping)
  PROVE  /\ at' = [at EXCEPT ![c] = k]
         /\ \/ Finishes(c, n, ops, k, overlapping)
            \/ Fails(c, n, ops, k, overlapping)
            \/ Sends(c, ops, k, overlapping)
<1>1. at' = [at EXCEPT ![c] = k] BY DEF RunTo
<1>2. CASE k > Len(ops)
  <2>1. \/ Answer(c, n, overlapping, "ok")
        \/ frontend = "web" /\ Broadcast(c, overlapping)
    BY <1>2 DEF RunTo, Announces
  <2> QED BY <1>1, <1>2, <2>1 DEF Finishes
<1>3. CASE k <= Len(ops)
  <2>1. ops[k] \in Operation BY <1>3
  <2> DEFINE poll == ops[k].do = "poll"
             raised == Raises(ops[k])
  <2>2. CASE poll /\ ~IsConnected
    <3>1. \/ Answer(c, n, overlapping, "ok")
          \/ frontend = "web" /\ Broadcast(c, overlapping)
      BY <2>2 DEF RunTo, Announces
    <3> QED BY <1>1, <2>2, <3>1 DEF Finishes
  <2>3. CASE ~poll /\ raised # "none"
    <3>1. Answer(c, n, overlapping, raised) BY <1>3, <2>3 DEF RunTo
    <3>2. Explains(ops[k], raised) BY <2>1, <2>3, RaisesKinds
    <3>3. raised \in Outcomes BY <3>2 DEF Explains, Outcomes, Caught
    <3> QED BY <1>1, <1>3, <3>1, <3>2, <3>3 DEF Fails
  <2>4. CASE (poll /\ IsConnected) \/ (~poll /\ raised = "none")
    <3>1. Send(c, overlapping) BY <1>3, <2>4 DEF RunTo
    <3>2. CASE poll /\ IsConnected
      BY <1>1, <1>3, <3>1, <3>2 DEF Sends, Passes
    <3>3. CASE ~poll /\ raised = "none"
      <4>1. Passes(ops[k]) /\ IsConnected BY <2>1, <3>3, RaisesKinds
      <4> QED BY <1>1, <1>3, <3>1, <4>1 DEF Sends
    <3> QED BY <2>4, <3>2, <3>3
  <2> QED BY <2>2, <2>3, <2>4
<1> QED BY <1>2, <1>3

-----------------------------------------------------------------------------
(* Steps *)

\* How a stretch of a task that begins at operation k of ops may end.
Reaches(ops, k, result) ==
  /\ result \in Outcomes \ {"none"}
  /\ result = "pending" => k <= Len(ops) /\ Passes(ops[k]) /\ IsConnected
  /\ result \in {"ok", "broadcasting"} => k > Len(ops) \/ ops[k].do = "poll"
  /\ result = "broadcasting" => frontend = "web"
  /\ result \notin Unfailed => k <= Len(ops) /\ Explains(ops[k], result)

\* The task of request n of c stops at its next await, or is over.
Stops(c, n, overlapping, result) ==
  /\ outcome' = [outcome EXCEPT ![c] = result]
  /\ reply' = [reply EXCEPT ![c] = "none"]
  /\ att' = IF result = "pending" THEN Append(att, c) ELSE att
  /\ disturbed' = IF result = "broadcasting" THEN [disturbed EXCEPT ![c] = FALSE] ELSE disturbed
  /\ blamed' = blamed \cup overlapping \cup (IF result \in Unfailed THEN {} ELSE {n})
  /\ ended' = (ended \/ (frontend = "shell" /\ result \notin Caught \cup Unfailed))

LEMMA RunToStops ==
  ASSUME NEW c, NEW n, NEW ops \in Seq(Operation), NEW k \in 1 .. Len(ops) + 1, NEW overlapping,
         RequestTypes, RunTo(c, n, ops, k, overlapping)
  PROVE  /\ at' = [at EXCEPT ![c] = k]
         /\ \E result : Reaches(ops, k, result) /\ Stops(c, n, overlapping, result)
<1>1. /\ at' = [at EXCEPT ![c] = k]
      /\ \/ Finishes(c, n, ops, k, overlapping)
         \/ Fails(c, n, ops, k, overlapping)
         \/ Sends(c, ops, k, overlapping)
  BY RunToKinds
<1>5. ended \in BOOLEAN BY DEF RequestTypes
<1>2. CASE Finishes(c, n, ops, k, overlapping)
  <2>1. CASE Answer(c, n, overlapping, "ok")
    <3>1. Reaches(ops, k, "ok")
      BY <1>2 DEF Finishes, Reaches, Outcomes, Caught, Unfailed
    <3>2. Stops(c, n, overlapping, "ok")
      BY <1>5, <2>1 DEF Answer, Stops, Unfailed, Caught
    <3> QED BY <1>1, <3>1, <3>2
  <2>2. CASE frontend = "web" /\ Broadcast(c, overlapping)
    <3>1. Reaches(ops, k, "broadcasting")
      BY <1>2, <2>2 DEF Finishes, Reaches, Outcomes, Unfailed
    <3>2. Stops(c, n, overlapping, "broadcasting")
      BY <1>5, <2>2 DEF Broadcast, Stops, Unfailed
    <3> QED BY <1>1, <3>1, <3>2
  <2> QED BY <1>2, <2>1, <2>2 DEF Finishes
<1>3. CASE Fails(c, n, ops, k, overlapping)
  <2>1. PICK result \in Outcomes : Explains(ops[k], result) /\ Answer(c, n, overlapping, result)
    BY <1>3 DEF Fails
  <2>2. result \notin {"none"} \cup Unfailed BY <2>1 DEF Explains, Unfailed
  <2>3. Reaches(ops, k, result)
    BY <1>3, <2>1, <2>2 DEF Fails, Reaches, Unfailed
  <2>4. Stops(c, n, overlapping, result)
    BY <1>5, <2>1, <2>2 DEF Answer, Stops, Unfailed
  <2> QED BY <1>1, <2>3, <2>4
<1>4. CASE Sends(c, ops, k, overlapping)
  <2>1. Reaches(ops, k, "pending")
    BY <1>4 DEF Sends, Reaches, Outcomes, Unfailed
  <2>2. Stops(c, n, overlapping, "pending")
    BY <1>4, <1>5 DEF Sends, Send, Stops, Unfailed
  <2> QED BY <1>1, <2>1, <2>2
<1> QED BY <1>1, <1>2, <1>3, <1>4

LEMMA RequestFacts ==
  ASSUME RequestTypes
  PROVE  /\ FrontendRequests \subseteq AllRequests
         /\ Tasks \subseteq Clients
         /\ \A ops \in AllRequests : ops \in Seq(Operation)
         /\ \A c \in Clients : request[c] \in Seq(Operation)
<1>1. FrontendRequests \subseteq AllRequests
  <2>1. frontend \in {"web", "shell"} \cup DOMAIN Scripts
    BY RequestsAssumption DEF RequestsAssumption, RequestTypes
  <2> QED BY <2>1 DEF FrontendRequests, AllRequests
<1>2. Tasks \subseteq Clients BY RequestsAssumption DEF RequestsAssumption, Tasks
<1>3. \A ops \in AllRequests : ops \in Seq(Operation)
  BY RequestsAssumption DEF RequestsAssumption
<1>4. \A c \in Clients : request[c] \in Seq(Operation)
  <2>1. << >> \in Seq(Operation) OBVIOUS
  <2> QED BY <1>3, <2>1 DEF RequestTypes
<1> QED BY <1>1, <1>2, <1>3, <1>4

RivalsOf(c, ops) ==
  { d \in Clients \ {c} : Pends(d) /\ SetsOf(request[d]) \cap SetsOf(ops) # {} }

OverlapsOf(c, ops) ==
  IF RivalsOf(c, ops) = {} THEN {}
  ELSE {begun + 1} \cup { number[d] : d \in RivalsOf(c, ops) }

\* A request of c comes in and runs to its first await.
Asks(c, ops, result) ==
  /\ c \in Tasks /\ ~Pends(c) /\ ~ended /\ ops \in FrontendRequests
  /\ Reaches(ops, 1, result) /\ Stops(c, begun + 1, OverlapsOf(c, ops), result)
  /\ request' = [request EXCEPT ![c] = ops]
  /\ at' = [at EXCEPT ![c] = 1]
  /\ begun' = begun + 1
  /\ number' = [number EXCEPT ![c] = begun + 1]
  /\ executed' = [executed EXCEPT ![c] = {}]
  /\ cut' = [cut EXCEPT ![c] = ~IsConnected]
  /\ UNCHANGED << vars, frontend, written >>

LEMMA BeginAsks ==
  ASSUME RequestTypes, NEW c, Begin(c)
  PROVE  \E ops, result : Asks(c, ops, result)
<1>1. PICK ops \in FrontendRequests :
        /\ request' = [request EXCEPT ![c] = ops]
        /\ RunTo(c, begun + 1, ops, 1, OverlapsOf(c, ops))
  BY DEF Begin, OverlapsOf, RivalsOf
<1>2. ops \in Seq(Operation) /\ 1 \in 1 .. Len(ops) + 1 BY RequestFacts
<1>3. PICK result : /\ Reaches(ops, 1, result)
                    /\ Stops(c, begun + 1, OverlapsOf(c, ops), result)
  BY <1>1, <1>2, RunToStops
<1>4. at' = [at EXCEPT ![c] = 1] BY <1>1 DEF RunTo
<1> QED BY <1>1, <1>3, <1>4 DEF Begin, Asks

\* The task of c sees its answer: it goes on to operation k, or fails.
Continues(c, k, result) ==
  /\ reply[c] # "none"
  /\ \/ /\ k = at[c] + 1
        /\ reply[c] = "done" \/ Current(c).do = "malformed"
        /\ Reaches(request[c], k, result)
     \/ /\ k = at[c]
        /\ reply[c] # "done" /\ Current(c).do # "malformed"
        /\ result = IF reply[c] = "lost" THEN "BleakError" ELSE "refused"
  /\ Stops(c, number[c], {}, result)
  /\ at' = [at EXCEPT ![c] = k]
  /\ UNCHANGED << vars, frontend, request, begun, number, executed, written, cut >>

LEMMA ResumeContinues ==
  ASSUME RequestTypes, AwaitInv, NEW c \in Clients, Resume(c)
  PROVE  \E k, result : Continues(c, k, result)
<1>1. /\ reply[c] # "none" /\ at[c] \in DOMAIN request[c] /\ request[c] \in Seq(Operation)
      /\ at \in [Clients -> Nat] /\ ended \in BOOLEAN
  BY RequestFacts DEF Resume, AwaitInv, RequestTypes
<1>2. CASE reply[c] = "done" \/ Current(c).do = "malformed"
  <2>1. RunTo(c, number[c], request[c], at[c] + 1, {}) BY <1>2 DEF Resume, Current
  <2>2. at[c] + 1 \in 1 .. Len(request[c]) + 1 BY <1>1
  <2>3. /\ at' = [at EXCEPT ![c] = at[c] + 1]
        /\ \E result : Reaches(request[c], at[c] + 1, result) /\ Stops(c, number[c], {}, result)
    BY <1>1, <2>1, <2>2, RunToStops
  <2>4. PICK result : /\ Reaches(request[c], at[c] + 1, result)
                      /\ Stops(c, number[c], {}, result)
    BY <2>3
  <2>5. Continues(c, at[c] + 1, result)
    BY <1>1, <1>2, <2>3, <2>4 DEF Resume, Continues
  <2> QED BY <2>5
<1>3. CASE ~(reply[c] = "done" \/ Current(c).do = "malformed")
  <2> DEFINE result == IF reply[c] = "lost" THEN "BleakError" ELSE "refused"
  <2>1. Answer(c, number[c], {}, result) /\ UNCHANGED at BY <1>3 DEF Resume, Current
  <2>2. result \notin Unfailed BY DEF Unfailed
  <2>3. Stops(c, number[c], {}, result) BY <2>1, <2>2 DEF Answer, Stops, Unfailed
  <2>4. at' = [at EXCEPT ![c] = at[c]] BY <1>1, <2>1
  <2>5. Continues(c, at[c], result)
    BY <1>1, <1>3, <2>3, <2>4 DEF Resume, Continues
  <2> QED BY <2>5
<1> QED BY <1>2, <1>3

\* A config the device takes is one of those the central may write.
LEMMA AcceptedConfigs ==
  ASSUME NEW ops \in AllRequests, NEW i \in DOMAIN ops, ops[i].do = "config",
         Wire!BslConfigIsValid(WireConfig(ops[i]))
  PROVE  [op |-> ops[i].op, value |-> ops[i].value] \in Configs
BY RequestsAssumption DEF RequestsAssumption

\* What the device does with an operation of a request is a callback of Firmware.
LEMMA ServeKinds ==
  ASSUME NEW ops \in AllRequests, NEW i \in DOMAIN ops, NEW answer, Serve(ops[i], answer)
  PROVE  /\ [Next]_vars
         /\ radio' = radio
         /\ answer = "refused" =>
              \/ ops[i].do = "malformed"
              \/ ops[i].do = "config" /\ ~Wire!BslConfigIsValid(WireConfig(ops[i]))
         /\ answer \in {"done", "refused"}
         /\ IF ops[i].do = "config" /\ answer = "done"
            THEN /\ [op |-> ops[i].op, value |-> ops[i].value] \in Configs
                 /\ WriteConfig([op |-> ops[i].op, value |-> ops[i].value])
            ELSE /\ params' = params
                 /\ events' = events \/ \E e : Submit(<< e >>) /\ e.type = "pc_command"
<1> DEFINE o == ops[i]
<1>1. o \in Operation BY RequestsAssumption DEF RequestsAssumption
<1> DEFINE valid == Wire!BslConfigIsValid(WireConfig(o))
           config == [op |-> o.op, value |-> o.value]
<1>2. CASE o.do = "config"
  <2>1. \/ valid /\ config \in Configs /\ WriteConfig(config) /\ answer = "done"
        \/ ~valid /\ WriteConfigRejected /\ answer = "refused"
    BY <1>2, AcceptedConfigs DEF Serve
  <2>2. CASE valid /\ config \in Configs /\ WriteConfig(config) /\ answer = "done"
    <3>1. Next BY <2>2, Zenon DEF Next, BluetoothCallback
    <3>2. radio' = radio BY <2>2 DEF WriteConfig, connVars
    <3> QED BY <1>2, <2>2, <3>1, <3>2
  <2>3. CASE ~valid /\ WriteConfigRejected /\ answer = "refused"
    <3>1. Next BY <2>3, Zenon DEF Next, BluetoothCallback
    <3>2. radio' = radio /\ params' = params /\ events' = events
      BY <2>3 DEF WriteConfigRejected, connVars, controlVars
    <3> QED BY <1>2, <2>3, <3>1, <3>2
  <2> QED BY <2>1, <2>2, <2>3
<1>3. CASE o.do = "control"
  <2>1. WriteControl(o.command) /\ answer = "done" /\ o.command \in Commands
    BY <1>1, <1>3, OperationKinds DEF Serve
  <2>2. Next BY <2>1, Zenon DEF Next, BluetoothCallback
  <2>3. radio' = radio /\ params' = params /\ Submit(<< CommandEvent(o.command) >>)
    BY <2>1 DEF WriteControl, connVars, controlVars
  <2>4. CommandEvent(o.command).type = "pc_command" BY DEF CommandEvent
  <2> QED BY <1>3, <2>1, <2>2, <2>3, <2>4
<1>4. CASE o.do = "notify"
  <2>1. SensorCccChanged(o.value) /\ answer = "done" /\ o.value \in BOOLEAN
    BY <1>1, <1>4, OperationKinds DEF Serve
  <2>2. Next BY <2>1, Zenon DEF Next, BluetoothCallback
  <2>3. radio' = radio /\ params' = params /\ events' = events
    BY <2>1 DEF SensorCccChanged, controlVars
  <2> QED BY <1>4, <2>1, <2>2, <2>3
<1>5. CASE o.do = "malformed"
  <2>1. /\ answer = "refused"
        /\ o.error \in BadWrites /\ o.error \in {"INVALID_CONFIG", "INVALID_LENGTH"}
        /\ \/ WriteConfigRejected
           \/ WriteControlRejected(o.error) /\ o.error # "INVALID_CONFIG"
    BY <1>1, <1>5, OperationKinds DEF Serve
  <2>2. CASE WriteConfigRejected
    <3>1. Next BY <2>2, Zenon DEF Next, BluetoothCallback
    <3>2. radio' = radio /\ params' = params /\ events' = events
      BY <2>2 DEF WriteConfigRejected, connVars, controlVars
    <3> QED BY <1>5, <2>1, <3>1, <3>2
  <2>3. CASE WriteControlRejected(o.error) /\ o.error # "INVALID_CONFIG"
    <3>0. o.error \in BadWrites \ {"INVALID_CONFIG"} BY <2>1, <2>3
    <3>1. Next BY <2>3, <3>0, Zenon DEF Next, BluetoothCallback
    <3>2. radio' = radio /\ params' = params /\ events' = events
      BY <2>3 DEF WriteControlRejected, connVars, controlVars
    <3> QED BY <1>5, <2>1, <3>1, <3>2
  <2> QED BY <2>1, <2>2, <2>3
<1>6. CASE o.do \in {"read", "poll", "bad_input", "unparsed"}
  <2>1. UNCHANGED vars /\ answer = "done" BY <1>6 DEF Serve
  <2>2. radio' = radio /\ params' = params /\ events' = events
    BY <2>1 DEF vars, connVars, controlVars
  <2> QED BY <1>6, <2>1, <2>2
<1> QED BY <1>1, <1>2, <1>3, <1>4, <1>5, <1>6, OperationKinds

\* The device answers the operation c is at.
Serves(c, answer) ==
  /\ att # << >> /\ c = Head(att) /\ IsConnected
  /\ Serve(Current(c), answer)
  /\ reply' = [reply EXCEPT ![c] = answer]
  /\ executed' = [executed EXCEPT ![c] = IF answer = "done" THEN @ \cup {at[c]} ELSE @]
  /\ written' = IF Current(c).do = "config" /\ answer = "done"
                THEN [written EXCEPT ![Current(c).op] =
                                       [value |-> Current(c).value, by |-> number[c]]]
                ELSE written
  /\ att' = Tail(att)
  /\ UNCHANGED << frontend, request, at, outcome, ended, begun, number, cut, disturbed, blamed >>

\* A broadcast goes on, or is disturbed.
AnyBroadcast == ViewersChange \/ \E c \in Clients : BroadcastEnds(c)

\* A step of the device alone, or of the link coming back.
Apart ==
  /\ UNCHANGED requestVars /\ [Next]_vars /\ (IsConnected => IsConnected')
  /\ ProcessEvent \/ AdvertisingStarts \/ Connected \/ UNCHANGED vars

LEMMA ProcessEventKeepsLink == ProcessEvent => UNCHANGED radio
<1> USE DEF connVars
<1>1. HandleStart => UNCHANGED radio BY DEF HandleStart
<1>2. HandleStop => UNCHANGED radio BY DEF HandleStop
<1>3. HandleRequestStatus => UNCHANGED radio BY DEF HandleRequestStatus
<1>4. HandleResetSequence => UNCHANGED radio BY DEF HandleResetSequence
<1>5. HandleForceGyroCalib => UNCHANGED radio BY DEF HandleForceGyroCalib
<1>6. ASSUME NEW c \in Configs PROVE HandleConfig(c) => UNCHANGED radio BY DEF HandleConfig
<1>7. HandleConnected => UNCHANGED radio BY DEF HandleConnected
<1>8. HandleDisconnected => UNCHANGED radio BY DEF HandleDisconnected
<1>9. HandleSample => UNCHANGED radio BY DEF HandleSample
<1> QED BY <1>1, <1>2, <1>3, <1>4, <1>5, <1>6, <1>7, <1>8, <1>9, Zenon DEF ProcessEvent

LEMMA RequestSteps ==
  ASSUME RequestTypes, AwaitInv, [RequestsNext]_<< vars, requestVars >>
  PROVE  \/ \E c \in Clients : \E ops, result : Asks(c, ops, result)
         \/ \E c \in Clients, answer \in {"done", "refused"} : Serves(c, answer)
         \/ \E c \in Clients : \E k, result : Continues(c, k, result)
         \/ AnyBroadcast
         \/ LinkDrops
         \/ Apart
<1>1. ASSUME NEW c \in Clients, Begin(c)
      PROVE  \E ops, result : Asks(c, ops, result)
  BY <1>1, BeginAsks
<1>2. CASE DeviceServes
  <2>1. Head(att) \in Clients BY <1>2 DEF DeviceServes, RequestTypes
  <2>2. \E answer \in {"done", "refused"} : Serves(Head(att), answer)
    BY <1>2 DEF DeviceServes, Serves, Current
  <2> QED BY <2>1, <2>2
<1>3. ASSUME NEW c \in Clients, Resume(c)
      PROVE  \E k, result : Continues(c, k, result)
  BY <1>3, ResumeContinues
<1>4. CASE ControlWorks
  <2>1. Next BY <1>4 DEF ControlWorks, Next
  <2>2. UNCHANGED radio BY <1>4, ProcessEventKeepsLink DEF ControlWorks
  <2> QED BY <1>4, <2>1, <2>2 DEF ControlWorks, Apart, IsConnected
<1>5. CASE LinkReturns
  <2>1. Next BY <1>5 DEF LinkReturns, Next, BluetoothCallback
  <2>2. IsConnected => IsConnected'
    BY <1>5 DEF LinkReturns, AdvertisingStarts, Connected, IsConnected
  <2> QED BY <1>5, <2>1, <2>2 DEF LinkReturns, Apart
<1>6. CASE UNCHANGED << vars, requestVars >>
  <2>1. UNCHANGED vars /\ UNCHANGED requestVars /\ UNCHANGED radio
    BY <1>6 DEF vars, connVars
  <2> QED BY <2>1 DEF Apart, IsConnected
<1> QED BY <1>1, <1>2, <1>3, <1>4, <1>5, <1>6 DEF RequestsNext, AnyBroadcast

LEMMA ServesFacts ==
  ASSUME RequestTypes, AwaitInv, NEW c \in Clients, NEW answer, Serves(c, answer)
  PROVE  /\ Pends(c) /\ reply[c] = "none" /\ answer \in {"done", "refused"}
         /\ at[c] \in DOMAIN request[c] /\ request[c] \in AllRequests
         /\ [Next]_vars /\ radio' = radio
         /\ answer = "refused" =>
              \/ Current(c).do = "malformed"
              \/ Current(c).do = "config" /\ ~Wire!BslConfigIsValid(WireConfig(Current(c)))
         /\ IF Current(c).do = "config" /\ answer = "done"
            THEN /\ [op |-> Current(c).op, value |-> Current(c).value] \in Configs
                 /\ WriteConfig([op |-> Current(c).op, value |-> Current(c).value])
            ELSE /\ params' = params
                 /\ events' = events \/ \E e : Submit(<< e >>) /\ e.type = "pc_command"
<1>1. Held(c)
  <2>1. 1 \in DOMAIN att /\ att[1] = c BY DEF Serves, RequestTypes
  <2> QED BY <2>1 DEF Held
<1>2. Pends(c) /\ reply[c] = "none" /\ at[c] \in DOMAIN request[c] BY <1>1 DEF AwaitInv
<1>3. request[c] \in AllRequests
  <2>1. request[c] \in FrontendRequests BY <1>2 DEF AwaitInv
  <2> QED BY <2>1, RequestFacts
<1>4. Serve(request[c][at[c]], answer) BY DEF Serves, Current
<1> QED BY <1>2, <1>3, <1>4, ServeKinds DEF Current

LEMMA NextRefines ==
  ASSUME RequestTypes, AwaitInv, [RequestsNext]_<< vars, requestVars >>
  PROVE  [Next]_vars
<1>1. ASSUME NEW c \in Clients, NEW ops, NEW result, Asks(c, ops, result) PROVE [Next]_vars
  BY <1>1 DEF Asks
<1>2. ASSUME NEW c \in Clients, NEW answer, Serves(c, answer) PROVE [Next]_vars
  BY <1>2, ServesFacts
<1>3. ASSUME NEW c \in Clients, NEW k, NEW result, Continues(c, k, result) PROVE [Next]_vars
  BY <1>3 DEF Continues
<1>4. CASE LinkDrops
  BY <1>4, Zenon DEF LinkDrops, Next, BluetoothCallback
<1>5. CASE AnyBroadcast BY <1>5 DEF AnyBroadcast, ViewersChange, BroadcastEnds
<1>6. CASE Apart BY <1>6 DEF Apart
<1> QED BY <1>1, <1>2, <1>3, <1>4, <1>5, <1>6, RequestSteps

-----------------------------------------------------------------------------
(* A task awaits its own operation *)

LEMMA QueueOfHost ==
  ASSUME att \in Seq(Clients), \A i, j \in DOMAIN att : att[i] = att[j] => i = j
  PROVE  /\ \A c : att' = Append(att, c) => \A d : Held(d)' <=> Held(d) \/ d = c
         /\ \A c : ~Held(c) /\ att' = Append(att, c) =>
              \A i, j \in DOMAIN att' : att'[i] = att'[j] => i = j
         /\ att # << >> /\ att' = Tail(att) =>
              /\ \A d : Held(d)' <=> Held(d) /\ d # Head(att)
              /\ \A i, j \in DOMAIN att' : att'[i] = att'[j] => i = j
<1>1. ASSUME NEW c, att' = Append(att, c)
      PROVE  /\ DOMAIN att' = 1 .. Len(att) + 1 /\ att'[Len(att) + 1] = c
             /\ \A i \in DOMAIN att : i \in DOMAIN att' /\ att'[i] = att[i]
             /\ \A i \in DOMAIN att' : i \in DOMAIN att \/ i = Len(att) + 1
  BY <1>1
<1>2. ASSUME NEW c, att' = Append(att, c) PROVE \A d : Held(d)' <=> Held(d) \/ d = c
  <2>1. Len(att) + 1 \in DOMAIN att' BY <1>1, <1>2
  <2> QED BY <1>1, <1>2, <2>1 DEF Held
<1>3. ASSUME NEW c, ~Held(c), att' = Append(att, c)
      PROVE  \A i, j \in DOMAIN att' : att'[i] = att'[j] => i = j
  BY <1>1, <1>3 DEF Held
<1>4. ASSUME att # << >>, att' = Tail(att)
      PROVE  /\ \A d : Held(d)' <=> Held(d) /\ d # Head(att)
             /\ \A i, j \in DOMAIN att' : att'[i] = att'[j] => i = j
  <2>1. /\ DOMAIN att' = 1 .. Len(att) - 1
        /\ \A i \in DOMAIN att' : i + 1 \in DOMAIN att /\ att'[i] = att[i + 1]
        /\ 1 \in DOMAIN att /\ Head(att) = att[1]
        /\ \A i \in DOMAIN att : i # 1 => i - 1 \in DOMAIN att' /\ att'[i - 1] = att[i]
    BY <1>4
  <2>2. ASSUME NEW i \in DOMAIN att', NEW j \in DOMAIN att', att'[i] = att'[j] PROVE i = j
    <3>1. i + 1 = j + 1 BY <2>1, <2>2
    <3> QED BY <2>1, <3>1
  <2>3. ASSUME NEW d, Held(d)' PROVE Held(d) /\ d # Head(att)
    <3>1. PICK i \in DOMAIN att' : att'[i] = d BY <2>3 DEF Held
    <3>2. i + 1 \in DOMAIN att /\ att[i + 1] = d /\ i + 1 # 1 BY <2>1, <3>1
    <3> QED BY <2>1, <3>2 DEF Held
  <2>4. ASSUME NEW d, Held(d), d # Head(att) PROVE Held(d)'
    <3>1. PICK i \in DOMAIN att : att[i] = d BY <2>4 DEF Held
    <3>2. i # 1 BY <2>1, <2>4, <3>1
    <3> QED BY <2>1, <3>1, <3>2 DEF Held
  <2> QED BY <2>2, <2>3, <2>4
<1> QED BY <1>2, <1>3, <1>4

LEMMA StopsEffect ==
  ASSUME RequestTypes, AwaitInv, NEW c \in Clients, ~Held(c), NEW n, NEW overlapping,
         NEW result \in Outcomes, Stops(c, n, overlapping, result)
  PROVE  /\ outcome' \in [Clients -> Outcomes] /\ outcome'[c] = result
         /\ reply' \in [Clients -> {"none", "done", "refused", "lost"}] /\ reply'[c] = "none"
         /\ att' \in Seq(Clients)
         /\ \A i, j \in DOMAIN att' : att'[i] = att'[j] => i = j
         /\ Pends(c)' <=> result = "pending"
         /\ Held(c)' <=> result = "pending"
         /\ disturbed' \in [Clients -> BOOLEAN]
         /\ \A d \in Clients \ {c} : /\ outcome'[d] = outcome[d] /\ reply'[d] = reply[d]
                                     /\ disturbed'[d] = disturbed[d]
                                     /\ Pends(d)' <=> Pends(d)
                                     /\ Held(d)' <=> Held(d)
<1>1. /\ outcome' = [outcome EXCEPT ![c] = result] /\ outcome \in [Clients -> Outcomes]
      /\ reply' = [reply EXCEPT ![c] = "none"]
      /\ reply \in [Clients -> {"none", "done", "refused", "lost"}]
      /\ att \in Seq(Clients)
  BY DEF Stops, RequestTypes
<1>2. \A i, j \in DOMAIN att : att[i] = att[j] => i = j BY DEF AwaitInv
<1>5. /\ disturbed' \in [Clients -> BOOLEAN]
      /\ \A d \in Clients \ {c} : disturbed'[d] = disturbed[d]
  BY DEF Stops, RequestTypes
<1>3. CASE result = "pending"
  <2>1. att' = Append(att, c) BY <1>3 DEF Stops
  <2>2. att' \in Seq(Clients) BY <1>1, <2>1
  <2>3. /\ \A d : Held(d)' <=> Held(d) \/ d = c
        /\ \A i, j \in DOMAIN att' : att'[i] = att'[j] => i = j
    BY <1>1, <1>2, <2>1, QueueOfHost
  <2> QED BY <1>1, <1>3, <1>5, <2>2, <2>3 DEF Pends
<1>4. CASE result # "pending"
  <2>1. att' = att BY <1>4 DEF Stops
  <2>2. \A d : Held(d)' <=> Held(d) BY <2>1 DEF Held
  <2> QED BY <1>1, <1>2, <1>4, <1>5, <2>1, <2>2 DEF Pends
<1> QED BY <1>3, <1>4

LEMMA AskedTypes ==
  ASSUME RequestTypes, AwaitInv, NEW c \in Clients, NEW ops, NEW result, Asks(c, ops, result)
  PROVE  /\ RequestTypes' /\ AwaitInv'
         /\ request'[c] = ops /\ at'[c] = 1 /\ number'[c] = begun + 1 /\ executed'[c] = {}
         /\ outcome'[c] = result /\ reply'[c] = "none" /\ cut'[c] = ~IsConnected
         /\ Pends(c)' <=> result = "pending"
         /\ \A d \in Clients \ {c} :
              /\ request'[d] = request[d] /\ at'[d] = at[d] /\ number'[d] = number[d]
              /\ executed'[d] = executed[d] /\ cut'[d] = cut[d]
              /\ outcome'[d] = outcome[d] /\ reply'[d] = reply[d] /\ (Pends(d)' <=> Pends(d))
              /\ disturbed'[d] = disturbed[d]
<1>1. ~Pends(c) /\ ~Held(c) BY DEF Asks, AwaitInv
<1>2. result \in Outcomes BY DEF Asks, Reaches
<1>3. /\ outcome' \in [Clients -> Outcomes] /\ outcome'[c] = result
      /\ reply' \in [Clients -> {"none", "done", "refused", "lost"}] /\ reply'[c] = "none"
      /\ att' \in Seq(Clients)
      /\ \A i, j \in DOMAIN att' : att'[i] = att'[j] => i = j
      /\ Pends(c)' <=> result = "pending"
      /\ Held(c)' <=> result = "pending"
      /\ disturbed' \in [Clients -> BOOLEAN]
      /\ \A d \in Clients \ {c} : /\ outcome'[d] = outcome[d] /\ reply'[d] = reply[d]
                                  /\ disturbed'[d] = disturbed[d]
                                  /\ Pends(d)' <=> Pends(d)
                                  /\ Held(d)' <=> Held(d)
  <2>1. Stops(c, begun + 1, OverlapsOf(c, ops), result) BY DEF Asks
  <2> QED BY <1>1, <1>2, <2>1, StopsEffect
<1>4. /\ request'[c] = ops /\ at'[c] = 1 /\ number'[c] = begun + 1 /\ executed'[c] = {}
      /\ cut'[c] = ~IsConnected
      /\ \A d \in Clients \ {c} :
           /\ request'[d] = request[d] /\ at'[d] = at[d] /\ number'[d] = number[d]
           /\ executed'[d] = executed[d] /\ cut'[d] = cut[d]
  BY DEF Asks, RequestTypes
<1>5. ops \in FrontendRequests /\ ops \in AllRequests /\ ops \in Seq(Operation)
  BY RequestFacts DEF Asks
<1>6. OverlapsOf(c, ops) \subseteq 1 .. begun + 1
  <2>1. \A d \in RivalsOf(c, ops) : number[d] \in 1 .. begun
    BY DEF RivalsOf, AwaitInv, RequestTypes
  <2> QED BY <2>1 DEF OverlapsOf, RequestTypes
<1>7. RequestTypes'
  <2>1. frontend' \in Frontends /\ ended' \in BOOLEAN BY DEF Asks, Stops, RequestTypes
  <2>2. request' \in [Clients -> {<< >>} \cup AllRequests]
    BY <1>5 DEF Asks, RequestTypes
  <2>3. at' \in [Clients -> Nat] /\ begun' \in Nat /\ number' \in [Clients -> Nat]
    BY DEF Asks, RequestTypes
  <2>4. executed' \in [Clients -> SUBSET Nat] /\ cut' \in [Clients -> BOOLEAN]
    BY DEF Asks, RequestTypes, IsConnected
  <2>5. written' \in [ConfigOps -> [value : ParamValues, by : Nat]]
    BY DEF Asks, RequestTypes
  <2>6. blamed' \subseteq 1 .. begun'
    <3>1. /\ blamed' \subseteq blamed \cup OverlapsOf(c, ops) \cup {begun + 1}
          /\ begun' = begun + 1
      BY DEF Asks, Stops
    <3> QED BY <1>6, <3>1 DEF RequestTypes
  <2> QED BY <1>3, <2>1, <2>2, <2>3, <2>4, <2>5, <2>6 DEF RequestTypes
<1>8. AwaitInv'
  <2>1. /\ FrontendRequests' = FrontendRequests /\ Tasks' = Tasks
        /\ frontend' = frontend /\ begun' = begun + 1 /\ begun \in Nat
    BY DEF Asks, FrontendRequests, Tasks, RequestTypes
  <2>2. ended' => frontend' = "shell" BY <2>1 DEF Asks, Stops, AwaitInv
  <2>3. result = "pending" => 1 \in DOMAIN ops BY <1>5 DEF Asks, Reaches
  <2>4. /\ Held(c)' <=> Pends(c)' /\ reply'[c] = "none"
        /\ reply'[c] # "none" => Pends(c)'
        /\ Pends(c)' => /\ at'[c] \in DOMAIN request'[c] /\ request'[c] \in FrontendRequests'
                        /\ c \in Tasks' /\ number'[c] # 0
        /\ executed'[c] \subseteq DOMAIN request'[c]
        /\ number'[c] <= begun'
    <3>1. c \in Tasks BY DEF Asks
    <3> QED BY <1>3, <1>4, <1>5, <2>1, <2>3, <3>1
  <2>5. ASSUME NEW d \in Clients \ {c}
        PROVE  /\ Held(d)' <=> Pends(d)' /\ reply'[d] = "none"
               /\ reply'[d] # "none" => Pends(d)'
               /\ Pends(d)' => /\ at'[d] \in DOMAIN request'[d]
                               /\ request'[d] \in FrontendRequests'
                               /\ d \in Tasks' /\ number'[d] # 0
               /\ executed'[d] \subseteq DOMAIN request'[d]
               /\ number'[d] <= begun'
    <3>1. number[d] \in Nat BY DEF RequestTypes
    <3> QED BY <1>3, <1>4, <2>1, <3>1 DEF AwaitInv
  <2> QED BY <1>3, <2>2, <2>4, <2>5 DEF AwaitInv
<1> QED BY <1>3, <1>4, <1>7, <1>8

LEMMA ContinuedTypes ==
  ASSUME RequestTypes, AwaitInv, NEW c \in Clients, NEW k, NEW result, Continues(c, k, result)
  PROVE  /\ RequestTypes' /\ AwaitInv'
         /\ at'[c] = k /\ outcome'[c] = result /\ reply'[c] = "none"
         /\ Pends(c) /\ (Pends(c)' <=> result = "pending")
         /\ \A d \in Clients \ {c} :
              /\ at'[d] = at[d] /\ outcome'[d] = outcome[d] /\ reply'[d] = reply[d]
              /\ disturbed'[d] = disturbed[d]
              /\ Pends(d)' <=> Pends(d)
<1>1. Pends(c) /\ ~Held(c) /\ at[c] \in DOMAIN request[c] /\ number[c] \in 1 .. begun
  BY DEF Continues, AwaitInv, RequestTypes
<1>2. result \in Outcomes BY DEF Continues, Reaches, Outcomes
<1>3. /\ outcome' \in [Clients -> Outcomes] /\ outcome'[c] = result
      /\ reply' \in [Clients -> {"none", "done", "refused", "lost"}] /\ reply'[c] = "none"
      /\ att' \in Seq(Clients)
      /\ \A i, j \in DOMAIN att' : att'[i] = att'[j] => i = j
      /\ Pends(c)' <=> result = "pending"
      /\ Held(c)' <=> result = "pending"
      /\ disturbed' \in [Clients -> BOOLEAN]
      /\ \A d \in Clients \ {c} : /\ outcome'[d] = outcome[d] /\ reply'[d] = reply[d]
                                  /\ disturbed'[d] = disturbed[d]
                                  /\ Pends(d)' <=> Pends(d)
                                  /\ Held(d)' <=> Held(d)
  <2>1. Stops(c, number[c], {}, result) BY DEF Continues
  <2> QED BY <1>1, <1>2, <2>1, StopsEffect
<1>4. at'[c] = k /\ \A d \in Clients \ {c} : at'[d] = at[d] BY DEF Continues, RequestTypes
<1>5. request[c] \in Seq(Operation) BY RequestFacts
<1>6. k \in Nat
  <2>1. at[c] \in Nat BY DEF RequestTypes
  <2> QED BY <2>1 DEF Continues
<1>7. RequestTypes'
  <2>1. at' \in [Clients -> Nat] BY <1>6 DEF Continues, RequestTypes
  <2>2. ended' \in BOOLEAN /\ blamed' \subseteq 1 .. begun'
    BY <1>1 DEF Continues, Stops, RequestTypes
  <2>3. UNCHANGED << frontend, request, begun, number, executed, written, cut >>
    BY DEF Continues
  <2> QED BY <1>3, <2>1, <2>2, <2>3 DEF RequestTypes
<1>8. AwaitInv'
  <2>1. /\ FrontendRequests' = FrontendRequests /\ Tasks' = Tasks
        /\ UNCHANGED << frontend, request, begun, number, executed >>
    BY DEF Continues, FrontendRequests, Tasks
  <2>2. ended' => frontend' = "shell" BY <2>1 DEF Continues, Stops, AwaitInv
  <2>3. result = "pending" => k \in DOMAIN request[c]
    <3>1. result = "pending" => k <= Len(request[c]) /\ k = at[c] + 1
      BY DEF Continues, Reaches
    <3> QED BY <1>1, <1>5, <3>1
  <2>4. /\ Held(c)' <=> Pends(c)' /\ reply'[c] = "none"
        /\ reply'[c] # "none" => Pends(c)'
        /\ Pends(c)' => /\ at'[c] \in DOMAIN request'[c] /\ request'[c] \in FrontendRequests'
                        /\ c \in Tasks' /\ number'[c] # 0
        /\ executed'[c] \subseteq DOMAIN request'[c]
        /\ number'[c] <= begun'
    BY <1>1, <1>3, <1>4, <2>1, <2>3 DEF AwaitInv
  <2>5. ASSUME NEW d \in Clients \ {c}
        PROVE  /\ Held(d)' <=> Pends(d)' /\ reply'[d] = "none"
               /\ reply'[d] # "none" => Pends(d)'
               /\ Pends(d)' => /\ at'[d] \in DOMAIN request'[d]
                               /\ request'[d] \in FrontendRequests'
                               /\ d \in Tasks' /\ number'[d] # 0
               /\ executed'[d] \subseteq DOMAIN request'[d]
               /\ number'[d] <= begun'
    BY <1>3, <1>4, <2>1 DEF AwaitInv
  <2> QED BY <1>3, <2>2, <2>4, <2>5 DEF AwaitInv
<1> QED BY <1>1, <1>3, <1>4, <1>7, <1>8

LEMMA ServedTypes ==
  ASSUME RequestTypes, AwaitInv, NEW c \in Clients, NEW answer, Serves(c, answer)
  PROVE  /\ RequestTypes' /\ AwaitInv'
         /\ reply'[c] = answer
         /\ executed'[c] = IF answer = "done" THEN executed[c] \cup {at[c]} ELSE executed[c]
         /\ \A d \in Clients \ {c} : reply'[d] = reply[d] /\ executed'[d] = executed[d]
         /\ \A d \in Clients : Pends(d)' <=> Pends(d)
         /\ UNCHANGED << frontend, request, at, outcome, ended, begun, number, cut, disturbed,
                         blamed >>
<1>1. /\ Pends(c) /\ reply[c] = "none" /\ answer \in {"done", "refused"}
      /\ at[c] \in DOMAIN request[c]
      /\ Current(c).do = "config" /\ answer = "done" =>
           [op |-> Current(c).op, value |-> Current(c).value] \in Configs
  BY ServesFacts
<1>2. UNCHANGED << frontend, request, at, outcome, ended, begun, number, cut, disturbed, blamed >>
  BY DEF Serves
<1>3. /\ reply'[c] = answer
      /\ executed'[c] = IF answer = "done" THEN executed[c] \cup {at[c]} ELSE executed[c]
      /\ \A d \in Clients \ {c} : reply'[d] = reply[d] /\ executed'[d] = executed[d]
  BY DEF Serves, RequestTypes
<1>4. \A d \in Clients : Pends(d)' <=> Pends(d) BY <1>2 DEF Pends
<1>5. /\ \A d : Held(d)' <=> Held(d) /\ d # c
      /\ \A i, j \in DOMAIN att' : att'[i] = att'[j] => i = j
      /\ att' \in Seq(Clients)
  <2>1. att \in Seq(Clients) /\ \A i, j \in DOMAIN att : att[i] = att[j] => i = j
    BY DEF RequestTypes, AwaitInv
  <2>2. att # << >> /\ att' = Tail(att) /\ c = Head(att) BY DEF Serves
  <2> QED BY <2>1, <2>2, QueueOfHost
<1>6. RequestTypes'
  <2>1. reply' \in [Clients -> {"none", "done", "refused", "lost"}]
    BY <1>1 DEF Serves, RequestTypes
  <2>2. executed' \in [Clients -> SUBSET Nat]
    BY DEF Serves, RequestTypes
  <2>3. written' \in [ConfigOps -> [value : ParamValues, by : Nat]]
    <3>1. CASE Current(c).do = "config" /\ answer = "done"
      <4> DEFINE new == [value |-> Current(c).value, by |-> number[c]]
      <4>1. Current(c).op \in ConfigOps /\ Current(c).value \in ParamValues
        BY <1>1, <3>1, FirmwareAssumption DEF FirmwareAssumption, ParamValues
      <4>2. new \in [value : ParamValues, by : Nat] BY <4>1 DEF RequestTypes
      <4>3. written' = [written EXCEPT ![Current(c).op] = new] BY <3>1 DEF Serves
      <4> HIDE DEF new
      <4> QED BY <4>1, <4>2, <4>3 DEF RequestTypes
    <3>2. CASE ~(Current(c).do = "config" /\ answer = "done")
      BY <3>2 DEF Serves, RequestTypes
    <3> QED BY <3>1, <3>2
  <2> QED BY <1>2, <1>5, <2>1, <2>2, <2>3 DEF RequestTypes
<1>7. AwaitInv'
  <2>1. FrontendRequests' = FrontendRequests /\ Tasks' = Tasks
    BY <1>2 DEF FrontendRequests, Tasks
  <2>2. ASSUME NEW d \in Clients
        PROVE  /\ Held(d)' <=> Pends(d)' /\ reply'[d] = "none"
               /\ reply'[d] # "none" => Pends(d)'
               /\ executed'[d] \subseteq DOMAIN request'[d]
    BY <1>1, <1>2, <1>3, <1>4, <1>5 DEF AwaitInv
  <2> QED BY <1>2, <1>4, <1>5, <2>1, <2>2 DEF AwaitInv
<1> QED BY <1>2, <1>3, <1>4, <1>6, <1>7

LEMMA DroppedTypes ==
  ASSUME RequestTypes, AwaitInv, LinkDrops
  PROVE  /\ RequestTypes' /\ AwaitInv'
         /\ \A c \in Clients : /\ (Pends(c)' <=> Pends(c))
                               /\ cut'[c]
                               /\ Pends(c) <=> reply'[c] # "none"
                               /\ reply'[c] \in {reply[c], "lost"}
         /\ UNCHANGED << frontend, request, at, outcome, ended, begun, number, executed,
                         written, disturbed, blamed >>
<1>1. PICK late \in SUBSET { c \in Clients : reply[c] # "none" } :
        reply' = [c \in Clients |->
                    IF c \in late \/ (Pends(c) /\ reply[c] = "none") THEN "lost" ELSE reply[c]]
  BY DEF LinkDrops
<1>2. /\ att' = << >> /\ cut' = [c \in Clients |-> TRUE]
      /\ UNCHANGED << frontend, request, at, outcome, ended, begun, number, executed,
                      written, disturbed, blamed >>
  BY DEF LinkDrops
<1>3. \A c \in Clients : Pends(c)' <=> Pends(c) BY <1>2 DEF Pends
<1>4. \A c \in Clients : /\ Pends(c) <=> reply'[c] # "none"
                         /\ reply'[c] \in {reply[c], "lost"}
  BY <1>1 DEF AwaitInv
<1>5. RequestTypes'
  <2>1. reply' \in [Clients -> {"none", "done", "refused", "lost"}]
    BY <1>1 DEF RequestTypes
  <2>2. att' \in Seq(Clients) /\ cut' \in [Clients -> BOOLEAN] BY <1>2
  <2> QED BY <1>2, <2>1, <2>2 DEF RequestTypes
<1>6. AwaitInv'
  <2>1. FrontendRequests' = FrontendRequests /\ Tasks' = Tasks
    BY <1>2 DEF FrontendRequests, Tasks
  <2>2. DOMAIN att' = {} BY <1>2
  <2>3. \A c : ~Held(c)' BY <2>2 DEF Held
  <2> QED BY <1>2, <1>3, <1>4, <2>1, <2>2, <2>3 DEF AwaitInv
<1> QED BY <1>2, <1>3, <1>4, <1>5, <1>6

LEMMA ApartTypes ==
  ASSUME RequestTypes, AwaitInv, UNCHANGED requestVars
  PROVE  /\ RequestTypes' /\ AwaitInv'
         /\ UNCHANGED << frontend, request, at, outcome, att, reply, ended >>
         /\ UNCHANGED << begun, number, executed, written, cut, disturbed, blamed >>
         /\ \A c \in Clients : Pends(c)' <=> Pends(c)
<1>1. /\ UNCHANGED << frontend, request, at, outcome, att, reply, ended >>
      /\ UNCHANGED << begun, number, executed, written, cut, disturbed, blamed >>
  BY DEF requestVars, taskVars, historyVars
<1>2. \A c \in Clients : (Pends(c)' <=> Pends(c)) /\ (Held(c)' <=> Held(c))
  BY <1>1 DEF Pends, Held
<1>3. FrontendRequests' = FrontendRequests /\ Tasks' = Tasks
  BY <1>1 DEF FrontendRequests, Tasks
<1>4. RequestTypes' BY <1>1 DEF RequestTypes
<1>5. AwaitInv' BY <1>1, <1>2, <1>3 DEF AwaitInv
<1> QED BY <1>1, <1>2, <1>4, <1>5

LEMMA BroadcastTypes ==
  ASSUME RequestTypes, AwaitInv, AnyBroadcast
  PROVE  /\ RequestTypes' /\ AwaitInv'
         /\ UNCHANGED << vars, frontend, request, at, att, reply, ended >>
         /\ UNCHANGED << begun, number, executed, written, cut, blamed >>
         /\ \A c \in Clients :
              /\ Pends(c)' <=> Pends(c)
              /\ disturbed[c] => disturbed'[c]
              /\ \/ outcome'[c] = outcome[c]
                 \/ outcome[c] = "broadcasting" /\ outcome'[c] = "ok"
                 \/ outcome[c] = "broadcasting" /\ outcome'[c] = "RuntimeError" /\ disturbed'[c]
<1>1. /\ UNCHANGED << vars, frontend, request, at, att, reply, ended >>
      /\ UNCHANGED << begun, number, executed, written, cut, blamed >>
  BY DEF AnyBroadcast, ViewersChange, BroadcastEnds, taskVars
<1>2. /\ outcome' \in [Clients -> Outcomes] /\ disturbed' \in [Clients -> BOOLEAN]
      /\ \A c \in Clients :
           /\ disturbed[c] => disturbed'[c]
           /\ \/ outcome'[c] = outcome[c]
              \/ outcome[c] = "broadcasting" /\ outcome'[c] = "ok"
              \/ outcome[c] = "broadcasting" /\ outcome'[c] = "RuntimeError" /\ disturbed'[c]
  <2>0. outcome \in [Clients -> Outcomes] /\ disturbed \in [Clients -> BOOLEAN]
    BY DEF RequestTypes
  <2>1. CASE ViewersChange
    <3>1. /\ outcome' = outcome
          /\ disturbed' = [c \in Clients |-> disturbed[c] \/ Broadcasts(c)]
      BY <2>1 DEF ViewersChange, taskVars
    <3>2. \A c \in Clients : (disturbed[c] \/ Broadcasts(c)) \in BOOLEAN
      BY <2>0 DEF Broadcasts
    <3> QED BY <2>0, <3>1, <3>2
  <2>2. ASSUME NEW c \in Clients, BroadcastEnds(c)
        PROVE  /\ outcome' \in [Clients -> Outcomes] /\ disturbed' = disturbed
               /\ outcome[c] = "broadcasting"
               /\ outcome'[c] = "ok" \/ (outcome'[c] = "RuntimeError" /\ disturbed[c])
               /\ \A d \in Clients \ {c} : outcome'[d] = outcome[d]
    <3>1. PICK result \in IF disturbed[c] THEN {"ok", "RuntimeError"} ELSE {"ok"} :
            outcome' = [outcome EXCEPT ![c] = result]
      BY <2>2 DEF BroadcastEnds
    <3>2. result \in Outcomes /\ (result = "ok" \/ (result = "RuntimeError" /\ disturbed[c]))
      BY <3>1 DEF Outcomes, Caught
    <3>3. outcome[c] = "broadcasting" /\ disturbed' = disturbed
      BY <2>2 DEF BroadcastEnds, Broadcasts
    <3> QED BY <2>0, <3>1, <3>2, <3>3
  <2> QED BY <2>0, <2>1, <2>2 DEF AnyBroadcast
<1>3. \A c \in Clients : (Pends(c)' <=> Pends(c)) /\ (Held(c)' <=> Held(c))
  BY <1>1, <1>2 DEF Pends, Held
<1>4. FrontendRequests' = FrontendRequests /\ Tasks' = Tasks
  BY <1>1 DEF FrontendRequests, Tasks
<1>5. RequestTypes' BY <1>1, <1>2 DEF RequestTypes
<1>6. AwaitInv' BY <1>1, <1>3, <1>4 DEF AwaitInv
<1> QED BY <1>1, <1>2, <1>3, <1>5, <1>6

LEMMA InitAwaitInv == RequestsInit => RequestTypes /\ AwaitInv
<1> SUFFICES ASSUME RequestsInit PROVE RequestTypes /\ AwaitInv OBVIOUS
<1>1. written \in [ConfigOps -> [value : ParamValues, by : Nat]]
  BY DEF RequestsInit, ParamValues
<1>2. RequestTypes
  <2>1. /\ request \in [Clients -> {<< >>} \cup AllRequests]
        /\ at \in [Clients -> Nat] /\ number \in [Clients -> Nat]
        /\ executed \in [Clients -> SUBSET Nat] /\ cut \in [Clients -> BOOLEAN]
        /\ disturbed \in [Clients -> BOOLEAN]
    BY DEF RequestsInit
  <2>2. /\ outcome \in [Clients -> Outcomes]
        /\ reply \in [Clients -> {"none", "done", "refused", "lost"}]
    BY DEF RequestsInit, Outcomes
  <2>3. /\ frontend \in Frontends /\ ended \in BOOLEAN /\ begun \in Nat
        /\ blamed \subseteq 1 .. begun
    BY DEF RequestsInit
  <2>4. att \in Seq(Clients)
    <3>1. att = << >> BY DEF RequestsInit
    <3> QED BY <3>1
  <2> QED BY <1>1, <2>1, <2>2, <2>3, <2>4 DEF RequestTypes
<1>3. \A c \in Clients : ~Pends(c) /\ ~Held(c) BY DEF RequestsInit, Pends, Held
<1> QED BY <1>2, <1>3 DEF RequestsInit, AwaitInv

LEMMA NextAwaitInv ==
  RequestTypes /\ AwaitInv /\ [RequestsNext]_<< vars, requestVars >> => RequestTypes' /\ AwaitInv'
<1> SUFFICES ASSUME RequestTypes, AwaitInv, [RequestsNext]_<< vars, requestVars >>
             PROVE  RequestTypes' /\ AwaitInv'
  OBVIOUS
<1>1. ASSUME NEW c \in Clients, NEW ops, NEW result, Asks(c, ops, result)
      PROVE  RequestTypes' /\ AwaitInv'
  BY <1>1, AskedTypes
<1>2. ASSUME NEW c \in Clients, NEW answer, Serves(c, answer) PROVE RequestTypes' /\ AwaitInv'
  BY <1>2, ServedTypes
<1>3. ASSUME NEW c \in Clients, NEW k, NEW result, Continues(c, k, result)
      PROVE  RequestTypes' /\ AwaitInv'
  BY <1>3, ContinuedTypes
<1>4. CASE LinkDrops BY <1>4, DroppedTypes
<1>5. CASE AnyBroadcast BY <1>5, BroadcastTypes
<1>6. CASE Apart BY <1>6, ApartTypes DEF Apart
<1> QED BY <1>1, <1>2, <1>3, <1>4, <1>5, <1>6, RequestSteps

LEMMA AlwaysAwaitInv == RequestsSpec => [](RequestTypes /\ AwaitInv)
BY InitAwaitInv, NextAwaitInv, PTL DEF RequestsSpec

\* A task awaits exactly one operation while its request is pending, held by the
\* host or answered, whatever requests overlap and whenever the link goes.
THEOREM RequestsAwaitOne == RequestsSpec => []RequestsTypeOK
<1>1. RequestTypes /\ AwaitInv => RequestsTypeOK
  <2> SUFFICES ASSUME RequestTypes, AwaitInv PROVE RequestsTypeOK OBVIOUS
  <2>1. ASSUME NEW c \in Clients
        PROVE  Cardinality({ i \in DOMAIN att : att[i] = c }) = (IF Held(c) THEN 1 ELSE 0)
    <3>1. CASE Held(c)
      <4>1. PICK i \in DOMAIN att : att[i] = c BY <3>1 DEF Held
      <4>2. { j \in DOMAIN att : att[j] = c } = {i} BY <4>1 DEF AwaitInv
      <4>3. Cardinality({i}) = 1 BY FS_Singleton
      <4> QED BY <3>1, <4>2, <4>3
    <3>2. CASE ~Held(c)
      <4>1. { j \in DOMAIN att : att[j] = c } = {} BY <3>2 DEF Held
      <4>2. Cardinality({}) = 0 BY FS_EmptySet
      <4> QED BY <3>2, <4>1, <4>2
    <3> QED BY <3>1, <3>2
  <2>2. ASSUME NEW c \in Clients
        PROVE  /\ outcome[c] \in Caught \cup {"none", "pending", "broadcasting",
                                              "struct.error", "BleakError", "refused",
                                              "RuntimeError", "UncaughtValueError"}
               /\ reply[c] \in {"none", "done", "refused", "lost"}
               /\ executed[c] \subseteq DOMAIN request[c]
               /\ Pends(c) => at[c] \in DOMAIN request[c]
               /\ Pends(c) = (reply[c] # "none" \/ \E i \in DOMAIN att : att[i] = c)
               /\ Cardinality({ i \in DOMAIN att : att[i] = c }) =
                    (IF Pends(c) /\ reply[c] = "none" THEN 1 ELSE 0)
    <3>1. /\ Held(c) <=> Pends(c) /\ reply[c] = "none"
          /\ reply[c] # "none" => Pends(c)
          /\ Pends(c) => at[c] \in DOMAIN request[c]
          /\ executed[c] \subseteq DOMAIN request[c]
      BY DEF AwaitInv
    <3>2. outcome[c] \in Outcomes /\ reply[c] \in {"none", "done", "refused", "lost"}
      BY DEF RequestTypes
    <3>3. Pends(c) = (reply[c] # "none" \/ Held(c)) BY <3>1 DEF Pends
    <3>4. Cardinality({ i \in DOMAIN att : att[i] = c }) =
            (IF Pends(c) /\ reply[c] = "none" THEN 1 ELSE 0)
      BY <2>1, <3>1
    <3> QED BY <3>1, <3>2, <3>3, <3>4 DEF Outcomes, Held
  <2> QED BY <2>2 DEF RequestsTypeOK, RequestTypes, AwaitInv
<1> QED BY <1>1, AlwaysAwaitInv, PTL

\* Whatever the programs of the PC ask, and whenever, the device does nothing but
\* what Firmware describes: each of the theorems about Firmware holds of it.
THEOREM RequestsStayInFirmware == RequestsSpec => Spec
<1>1. RequestsInit => Init BY DEF RequestsInit
<1>2. /\ RequestTypes /\ AwaitInv /\ [RequestsNext]_<< vars, requestVars >>
      => [Next]_vars
  BY NextRefines
<1> QED BY <1>1, <1>2, AlwaysAwaitInv, PTL DEF RequestsSpec, Spec

-----------------------------------------------------------------------------
(* A success is whole *)

\* Only the last operation of a request may be a poll.
LEMMA PollIsLast ==
  ASSUME NEW ops \in AllRequests, NEW i \in DOMAIN ops, ops[i].do = "poll"
  PROVE  i = Len(ops)
BY RequestsAssumption DEF RequestsAssumption

LEMMA NextServedInv ==
  ASSUME RequestTypes, AwaitInv, ServedInv, [RequestsNext]_<< vars, requestVars >>
  PROVE  ServedInv'
<1> DEFINE Good(c) == /\ Pends(c) => \A i \in DOMAIN request[c] : i < at[c] => Settled(c, i)
                      /\ reply[c] = "done" => at[c] \in executed[c]
                      /\ outcome[c] \in {"ok", "broadcasting", "RuntimeError"} =>
                           \A i \in DOMAIN request[c] : Settled(c, i)
<1>1. \A c \in Clients : Good(c) BY DEF ServedInv
<1>2. SUFFICES ASSUME NEW d \in Clients PROVE Good(d)' BY DEF ServedInv
<1>3. ASSUME NEW c \in Clients, NEW ops, NEW result, Asks(c, ops, result) PROVE Good(d)'
  <2>1. /\ request'[c] = ops /\ at'[c] = 1 /\ outcome'[c] = result /\ reply'[c] = "none"
        /\ \A q \in Clients \ {c} :
             /\ request'[q] = request[q] /\ at'[q] = at[q] /\ executed'[q] = executed[q]
             /\ outcome'[q] = outcome[q] /\ reply'[q] = reply[q] /\ (Pends(q)' <=> Pends(q))
    BY <1>3, AskedTypes
  <2>2. CASE d = c
    <3>1. ops \in AllRequests /\ ops \in Seq(Operation)
      <4>1. ops \in FrontendRequests BY <1>3 DEF Asks
      <4> QED BY <4>1, RequestFacts
    <3>4. result # "RuntimeError" BY <1>3 DEF Asks, Reaches, Explains, Unfailed
    <3>2. ASSUME result \in {"ok", "broadcasting"}, NEW i \in DOMAIN ops
          PROVE  ops[i].do = "poll"
      <4>1. 1 > Len(ops) \/ ops[1].do = "poll" BY <1>3, <3>2 DEF Asks, Reaches
      <4>2. Len(ops) \in Nat /\ DOMAIN ops = 1 .. Len(ops) BY <3>1
      <4>3. ops[1].do = "poll" /\ 1 \in DOMAIN ops BY <3>2, <4>1, <4>2
      <4>4. 1 = Len(ops) BY <3>1, <4>3, PollIsLast
      <4>5. i = 1 BY <3>1, <3>2, <4>4
      <4> QED BY <4>3, <4>5
    <3>3. ~(\E i \in DOMAIN ops : i < 1) BY <3>1
    <3> QED BY <2>1, <2>2, <3>2, <3>3, <3>4 DEF Settled
  <2>3. CASE d # c
    <3>1. Good(d) BY <1>1
    <3>2. /\ request'[d] = request[d] /\ at'[d] = at[d] /\ executed'[d] = executed[d]
          /\ outcome'[d] = outcome[d] /\ reply'[d] = reply[d] /\ (Pends(d)' <=> Pends(d))
      BY <2>1, <2>3
    <3>3. \A i : Settled(d, i)' <=> Settled(d, i) BY <3>2 DEF Settled
    <3> QED BY <3>1, <3>2, <3>3
  <2> QED BY <2>2, <2>3
<1>4. ASSUME NEW c \in Clients, NEW answer, Serves(c, answer) PROVE Good(d)'
  <2>1. /\ reply'[c] = answer
        /\ executed'[c] = IF answer = "done" THEN executed[c] \cup {at[c]} ELSE executed[c]
        /\ \A q \in Clients \ {c} : reply'[q] = reply[q] /\ executed'[q] = executed[q]
        /\ \A q \in Clients : Pends(q)' <=> Pends(q)
        /\ UNCHANGED << request, at, outcome >>
    BY <1>4, ServedTypes
  <2>2. executed[d] \subseteq executed'[d] BY <2>1
  <2>3. \A i : Settled(d, i) => Settled(d, i)' BY <2>1, <2>2 DEF Settled
  <2>4. reply'[d] = "done" => at'[d] \in executed'[d]
    BY <1>1, <2>1
  <2>5. Good(d) BY <1>1
  <2> QED BY <2>1, <2>3, <2>4, <2>5
<1>5. ASSUME NEW c \in Clients, NEW k, NEW result, Continues(c, k, result) PROVE Good(d)'
  <2>1. /\ at'[c] = k /\ outcome'[c] = result /\ reply'[c] = "none"
        /\ Pends(c) /\ (Pends(c)' <=> result = "pending")
        /\ \A q \in Clients \ {c} :
             /\ at'[q] = at[q] /\ outcome'[q] = outcome[q] /\ reply'[q] = reply[q]
             /\ Pends(q)' <=> Pends(q)
    BY <1>5, ContinuedTypes
  <2>2. UNCHANGED << request, executed >> BY <1>5 DEF Continues
  <2>3. \A q, i : Settled(q, i)' <=> Settled(q, i) BY <2>2 DEF Settled
  <2>4. CASE d = c
    <3>4. result # "RuntimeError" BY <1>5 DEF Continues, Reaches, Explains, Unfailed
    <3>1. ASSUME result \in Unfailed
          PROVE  /\ k = at[c] + 1
                 /\ \A i \in DOMAIN request[c] : i < k => Settled(c, i)
                 /\ Reaches(request[c], k, result)
      <4>1. /\ k = at[c] + 1 /\ Reaches(request[c], k, result)
            /\ reply[c] = "done" \/ Current(c).do = "malformed"
        BY <1>5, <3>1 DEF Continues, Unfailed
      <4>2. Settled(c, at[c])
        BY <1>1, <4>1 DEF Settled, Current
      <4>3. \A i \in DOMAIN request[c] : i < k => i < at[c] \/ i = at[c]
        <5>1. request[c] \in Seq(Operation) /\ at[c] \in Nat
          BY RequestFacts DEF RequestTypes
        <5> QED BY <4>1, <5>1
      <4>4. \A i \in DOMAIN request[c] : i < at[c] => Settled(c, i) BY <1>1, <2>1
      <4> QED BY <4>1, <4>2, <4>3, <4>4
    <3>2. ASSUME result \in {"ok", "broadcasting"}, NEW i \in DOMAIN request[c]
          PROVE  Settled(c, i)
      <4>0. result \in Unfailed BY <3>2 DEF Unfailed
      <4>1. k > Len(request[c]) \/ request[c][k].do = "poll" BY <3>1, <3>2, <4>0 DEF Reaches
      <4>2. /\ request[c] \in Seq(Operation) /\ k \in Nat /\ k >= 1
            /\ request[c] \in {<< >>} \cup AllRequests
        BY <3>1, <3>2, <4>0, RequestFacts DEF RequestTypes
      <4>3. CASE i < k BY <3>1, <3>2, <4>0, <4>3
      <4>4. CASE i >= k
        <5>1. k \in DOMAIN request[c] /\ k <= Len(request[c]) BY <3>2, <4>2, <4>4
        <5>2. request[c][k].do = "poll" BY <4>1, <4>2, <5>1
        <5>3. request[c] \in AllRequests BY <3>2, <4>2
        <5>4. k = Len(request[c]) BY <5>1, <5>2, <5>3, PollIsLast
        <5>5. i = k BY <3>2, <4>2, <4>4, <5>4
        <5> QED BY <5>2, <5>5 DEF Settled
      <4> QED BY <4>2, <4>3, <4>4
    <3>3. result = "pending" => result \in Unfailed BY DEF Unfailed
    <3> QED BY <2>1, <2>2, <2>3, <2>4, <3>1, <3>2, <3>3, <3>4
  <2>5. CASE d # c
    <3>1. Good(d) BY <1>1
    <3> QED BY <2>1, <2>2, <2>3, <2>5, <3>1
  <2> QED BY <2>4, <2>5
<1>6. CASE LinkDrops
  <2>1. /\ Pends(d)' <=> Pends(d)
        /\ reply'[d] \in {reply[d], "lost"}
        /\ UNCHANGED << request, at, outcome, executed >>
    BY <1>6, DroppedTypes
  <2>2. \A i : Settled(d, i)' <=> Settled(d, i) BY <2>1 DEF Settled
  <2>3. Good(d) BY <1>1
  <2> QED BY <2>1, <2>2, <2>3
<1>7. CASE Apart
  <2>1. UNCHANGED << request, at, outcome, reply, executed >> /\ (Pends(d)' <=> Pends(d))
    BY <1>7, ApartTypes DEF Apart
  <2>2. \A i : Settled(d, i)' <=> Settled(d, i) BY <2>1 DEF Settled
  <2>3. Good(d) BY <1>1
  <2> QED BY <2>1, <2>2, <2>3
<1>8. CASE AnyBroadcast
  <2>1. /\ UNCHANGED << request, at, reply, executed >> /\ (Pends(d)' <=> Pends(d))
        /\ \/ outcome'[d] = outcome[d]
           \/ outcome[d] = "broadcasting" /\ outcome'[d] \in {"ok", "RuntimeError"}
    BY <1>8, BroadcastTypes
  <2>2. \A i : Settled(d, i)' <=> Settled(d, i) BY <2>1 DEF Settled
  <2>3. Good(d) BY <1>1
  <2> QED BY <2>1, <2>2, <2>3
<1> QED BY <1>3, <1>4, <1>5, <1>6, <1>7, <1>8, RequestSteps

\* A request answered ok has been executed whole, and one that fails in its broadcast as
\* well, whichever links it went over and whatever else was asked meanwhile.
THEOREM SuccessIsWhole == RequestsSpec => []AnsweredIsExecuted
<1>1. RequestsInit => ServedInv
  BY DEF RequestsInit, ServedInv, Pends
<1>2. /\ RequestTypes /\ AwaitInv /\ ServedInv /\ [RequestsNext]_<< vars, requestVars >>
      => ServedInv'
  BY NextServedInv
<1>3. ServedInv => AnsweredIsExecuted BY DEF ServedInv, AnsweredIsExecuted, Settled
<1> QED BY <1>1, <1>2, <1>3, AlwaysAwaitInv, PTL DEF RequestsSpec

-----------------------------------------------------------------------------
(* Every error has its cause *)

LEMMA ReachesFor ==
  ASSUME NEW ops \in Seq(Operation), NEW k \in Nat, k >= 1, NEW result, Reaches(ops, k, result)
  PROVE  /\ result \notin {"refused", "BleakError", "RuntimeError"}
         /\ result \in {"ProtocolError", "struct.error"} =>
              ops[k].do = "config" /\ ~Wire!BslConfigIsValid(WireConfig(ops[k]))
         /\ result = "ValueError" => BadInput \in { ops[i] : i \in DOMAIN ops }
         /\ result = "UncaughtValueError" => Unparsed \in { ops[i] : i \in DOMAIN ops }
         /\ result = "BleClientError" => ~IsConnected
         /\ result = "pending" => Passes(ops[k]) /\ IsConnected
<1>1. CASE result \in Unfailed BY <1>1 DEF Reaches, Unfailed
<1>2. CASE result \notin Unfailed
  <2>1. k \in DOMAIN ops /\ Explains(ops[k], result) BY <1>2 DEF Reaches
  <2> QED BY <1>2, <2>1 DEF Explains, Unfailed
<1> QED BY <1>1, <1>2

\* The shell's parameters are intervals, which pack whenever they validate.
LEMMA ShellCatches ==
  ASSUME RequestTypes, frontend = "shell", NEW ops \in FrontendRequests,
         NEW k \in Nat, k >= 1, NEW result, Reaches(ops, k, result)
  PROVE  result \in Caught \cup Unfailed \cup {"UncaughtValueError"}
<1>1. CASE result \in Unfailed BY <1>1
<1>2. CASE result \notin Unfailed
  <2>1. ops \in ShellRequests /\ ops \in Seq(Operation)
    <3>1. FrontendRequests = ShellRequests BY DEF FrontendRequests
    <3> QED BY <3>1, RequestFacts
  <2>2. k \in DOMAIN ops /\ Explains(ops[k], result) BY <1>2, <2>1 DEF Reaches
  <2>3. ASSUME result = "struct.error" PROVE FALSE
    <3>1. ops[k].do = "config" /\ ops[k].op # "SET_STREAM_INTERVAL"
      BY <2>2, <2>3 DEF Explains
    <3>2. ops[k].op \in SetsOf(ops) BY <2>2, <3>1 DEF SetsOf
    <3> QED BY <2>1, <3>1, <3>2, RequestsAssumption DEF RequestsAssumption
  <2> QED BY <2>2, <2>3 DEF Explains, Caught
<1> QED BY <1>1, <1>2

\* What CauseInv says of one task.
Caused(c) ==
  /\ outcome[c] # "refused"
  /\ outcome[c] \in {"ProtocolError", "struct.error"} =>
       Current(c).do = "config" /\ ~Wire!BslConfigIsValid(WireConfig(Current(c)))
  /\ outcome[c] = "ValueError" => BadInput \in { request[c][i] : i \in DOMAIN request[c] }
  /\ outcome[c] = "UncaughtValueError" =>
       Unparsed \in { request[c][i] : i \in DOMAIN request[c] }
  /\ outcome[c] \in {"BleClientError", "BleakError"} => cut[c]
  /\ outcome[c] = "RuntimeError" => disturbed[c]
  /\ Pends(c) => Passes(Current(c)) /\ (IsConnected \/ cut[c])
  /\ reply[c] = "lost" => cut[c]
  /\ reply[c] = "refused" => Current(c).do = "malformed"

\* Why the shell's loop has ended.
EndCaused == ended => cut[Main] \/ outcome[Main] = "UncaughtValueError"

LEMMA CauseParts == CauseInv <=> (\A c \in Clients : Caused(c)) /\ EndCaused
BY DEF CauseInv, Caused, EndCaused, ErrorsAreExplained, Current

\* A task that nothing of what Caused speaks of changes for.
LEMMA CausedStays ==
  ASSUME NEW c, Caused(c), request'[c] = request[c], at'[c] = at[c],
         outcome'[c] \in {outcome[c], "ok"} \/ (outcome'[c] = "RuntimeError" /\ disturbed'[c]),
         reply'[c] \in {reply[c], "none"}, cut'[c] = cut[c], disturbed[c] => disturbed'[c],
         Pends(c)' <=> Pends(c), IsConnected => IsConnected'
  PROVE  Caused(c)'
<1>1. Current(c)' = Current(c) BY DEF Current
<1>2. Passes(Current(c))' <=> Passes(Current(c)) BY <1>1 DEF Passes, WireConfig
<1>3. WireConfig(Current(c))' = WireConfig(Current(c)) BY <1>1 DEF WireConfig
<1>4. Wire!BslConfigIsValid(WireConfig(Current(c)))' <=>
        Wire!BslConfigIsValid(WireConfig(Current(c)))
  BY <1>3 DEF Wire!BslConfigIsValid, Wire!BslConfigRange, Wire!Limits
<1> QED BY <1>1, <1>2, <1>4 DEF Caused

LEMMA NextCauseInv ==
  ASSUME RequestTypes, AwaitInv, CauseInv, [RequestsNext]_<< vars, requestVars >>
  PROVE  CauseInv'
<1>1. /\ \A c \in Clients : Caused(c)
      /\ EndCaused
      /\ Main \in Clients
  BY CauseParts, RequestsAssumption DEF RequestsAssumption
<1>2. SUFFICES (\A d \in Clients : Caused(d)') /\ EndCaused'
  BY DEF CauseInv, Caused, EndCaused, ErrorsAreExplained, Current
<1>3. ASSUME NEW c \in Clients, NEW ops, NEW result, Asks(c, ops, result)
      PROVE  (\A d \in Clients : Caused(d)') /\ EndCaused'
  <2>1. /\ request'[c] = ops /\ at'[c] = 1 /\ outcome'[c] = result /\ reply'[c] = "none"
        /\ cut'[c] = ~IsConnected
        /\ Pends(c)' <=> result = "pending"
        /\ \A q \in Clients \ {c} :
             /\ request'[q] = request[q] /\ at'[q] = at[q] /\ cut'[q] = cut[q]
             /\ outcome'[q] = outcome[q] /\ reply'[q] = reply[q] /\ (Pends(q)' <=> Pends(q))
             /\ disturbed'[q] = disturbed[q]
    BY <1>3, AskedTypes
  <2>2. IsConnected' <=> IsConnected BY <1>3 DEF Asks, vars, connVars, IsConnected
  <2>3. ops \in FrontendRequests /\ ops \in Seq(Operation) /\ Reaches(ops, 1, result) /\ ~ended
    BY <1>3, RequestFacts DEF Asks
  <2>4. /\ result \notin {"refused", "BleakError", "RuntimeError"}
        /\ result \in {"ProtocolError", "struct.error"} =>
             ops[1].do = "config" /\ ~Wire!BslConfigIsValid(WireConfig(ops[1]))
        /\ result = "ValueError" => BadInput \in { ops[i] : i \in DOMAIN ops }
        /\ result = "UncaughtValueError" => Unparsed \in { ops[i] : i \in DOMAIN ops }
        /\ result = "BleClientError" => ~IsConnected
        /\ result = "pending" => Passes(ops[1]) /\ IsConnected
    BY <2>3, ReachesFor
  <2>5. Current(c)' = ops[1] BY <2>1 DEF Current
  <2>6. Caused(c)' BY <2>1, <2>2, <2>4, <2>5 DEF Caused
  <2>7. ASSUME NEW d \in Clients \ {c} PROVE Caused(d)'
    BY <1>1, <2>1, <2>2, CausedStays
  <2>8. EndCaused'
    <3>1. frontend = "shell" => result \in Caught \cup Unfailed \cup {"UncaughtValueError"}
      BY <2>3, ShellCatches
    <3>2. ended' => frontend = "shell" /\ result = "UncaughtValueError"
      BY <1>3, <2>3, <3>1 DEF Asks, Stops
    <3>3. frontend = "shell" => c = Main BY <1>3 DEF Asks, Tasks
    <3> QED BY <2>1, <3>2, <3>3 DEF EndCaused
  <2> QED BY <2>6, <2>7, <2>8
<1>4. ASSUME NEW c \in Clients, NEW answer, Serves(c, answer)
      PROVE  (\A d \in Clients : Caused(d)') /\ EndCaused'
  <2>1. /\ reply'[c] = answer
        /\ \A q \in Clients \ {c} : reply'[q] = reply[q]
        /\ \A q \in Clients : Pends(q)' <=> Pends(q)
        /\ UNCHANGED << request, at, outcome, ended, cut, disturbed >>
    BY <1>4, ServedTypes
  <2>2. /\ Pends(c) /\ radio' = radio
        /\ answer = "refused" =>
             \/ Current(c).do = "malformed"
             \/ Current(c).do = "config" /\ ~Wire!BslConfigIsValid(WireConfig(Current(c)))
        /\ answer \in {"done", "refused"}
    BY <1>4, ServesFacts
  <2>3. Passes(Current(c)) BY <1>1, <2>2 DEF Caused
  <2>4. answer = "refused" => Current(c).do = "malformed" BY <2>2, <2>3 DEF Passes
  <2>5. IsConnected' <=> IsConnected BY <2>2 DEF IsConnected
  <2>6. Current(c)' = Current(c) BY <2>1 DEF Current
  <2>7. Caused(c)' BY <1>1, <2>1, <2>2, <2>4, <2>5, <2>6 DEF Caused
  <2>8. ASSUME NEW d \in Clients \ {c} PROVE Caused(d)'
    BY <1>1, <2>1, <2>5, CausedStays
  <2> QED BY <1>1, <2>1, <2>7, <2>8 DEF EndCaused
<1>5. ASSUME NEW c \in Clients, NEW k, NEW result, Continues(c, k, result)
      PROVE  (\A d \in Clients : Caused(d)') /\ EndCaused'
  <2>1. /\ at'[c] = k /\ outcome'[c] = result /\ reply'[c] = "none"
        /\ Pends(c) /\ (Pends(c)' <=> result = "pending")
        /\ \A q \in Clients \ {c} :
             /\ at'[q] = at[q] /\ outcome'[q] = outcome[q] /\ reply'[q] = reply[q]
             /\ disturbed'[q] = disturbed[q]
             /\ Pends(q)' <=> Pends(q)
    BY <1>5, ContinuedTypes
  <2>2. UNCHANGED << request, cut >> /\ (IsConnected' <=> IsConnected)
    BY <1>5 DEF Continues, vars, connVars, IsConnected
  <2>3. /\ request[c] \in Seq(Operation) /\ request[c] \in FrontendRequests
        /\ at[c] \in Nat /\ c \in Tasks
    BY <2>1, RequestFacts DEF AwaitInv, RequestTypes
  <2>4. Current(c)' = request[c][k] BY <2>1, <2>2 DEF Current
  <2>5. Caused(c) BY <1>1
  <2>9. ended => cut[Main] \/ outcome'[Main] = "UncaughtValueError"
    BY <1>1, <2>1 DEF EndCaused, Pends
  <2>6. ASSUME k = at[c] + 1, Reaches(request[c], k, result)
        PROVE  Caused(c)' /\ EndCaused'
    <3>0. k \in Nat /\ k >= 1 BY <2>3, <2>6
    <3>1. /\ result \notin {"refused", "BleakError", "RuntimeError"}
          /\ result \in {"ProtocolError", "struct.error"} =>
               /\ request[c][k].do = "config"
               /\ ~Wire!BslConfigIsValid(WireConfig(request[c][k]))
          /\ result = "ValueError" => BadInput \in { request[c][i] : i \in DOMAIN request[c] }
          /\ result = "UncaughtValueError" =>
               Unparsed \in { request[c][i] : i \in DOMAIN request[c] }
          /\ result = "BleClientError" => ~IsConnected
          /\ result = "pending" => Passes(request[c][k]) /\ IsConnected
      BY <2>3, <2>6, <3>0, ReachesFor
    <3>2. result = "BleClientError" => cut[c] BY <2>1, <2>5, <3>1 DEF Caused
    <3>3. Caused(c)' BY <2>1, <2>2, <2>4, <3>1, <3>2 DEF Caused
    <3>4. frontend = "shell" => result \in Caught \cup Unfailed \cup {"UncaughtValueError"}
      BY <2>3, <2>6, <3>0, ShellCatches
    <3>5. ended' => ended \/ (frontend = "shell" /\ result = "UncaughtValueError")
      BY <1>5, <3>4 DEF Continues, Stops
    <3>6. frontend = "shell" => c = Main BY <2>3 DEF Tasks
    <3>7. EndCaused' BY <1>1, <2>1, <2>2, <2>9, <3>5, <3>6 DEF EndCaused
    <3> QED BY <3>3, <3>7
  <2>7. ASSUME k = at[c], reply[c] # "done", Current(c).do # "malformed"
        PROVE  Caused(c)' /\ EndCaused'
    <3>1. reply[c] = "lost"
      <4>1. reply[c] \in {"none", "done", "refused", "lost"} /\ reply[c] # "none"
        BY <1>5 DEF Continues, RequestTypes
      <4> QED BY <2>5, <2>7, <4>1 DEF Caused
    <3>2. result = "BleakError" /\ cut[c] BY <1>5, <2>5, <2>7, <3>1 DEF Continues, Caused
    <3>3. Caused(c)' BY <2>1, <2>2, <3>2 DEF Caused
    <3>4. ended' => ended \/ frontend = "shell" BY <1>5 DEF Continues, Stops
    <3>5. frontend = "shell" => c = Main BY <2>3 DEF Tasks
    <3>6. EndCaused' BY <2>2, <2>9, <3>2, <3>4, <3>5 DEF EndCaused
    <3> QED BY <3>3, <3>6
  <2>8. Caused(c)' /\ EndCaused' BY <1>5, <2>6, <2>7 DEF Continues
  <2>10. ASSUME NEW d \in Clients \ {c} PROVE Caused(d)'
    BY <1>1, <2>1, <2>2, CausedStays
  <2> QED BY <2>8, <2>10
<1>6. CASE LinkDrops
  <2>1. /\ \A c \in Clients : /\ (Pends(c)' <=> Pends(c))
                              /\ cut'[c]
                              /\ reply'[c] \in {reply[c], "lost"}
        /\ UNCHANGED << request, at, outcome, ended, disturbed >>
    BY <1>6, DroppedTypes
  <2>2. ASSUME NEW d \in Clients PROVE Caused(d)'
    <3>1. Current(d)' = Current(d) BY <2>1 DEF Current
    <3> QED BY <1>1, <2>1, <3>1 DEF Caused
  <2> QED BY <1>1, <2>1, <2>2 DEF EndCaused
<1>7. CASE Apart
  <2>1. /\ UNCHANGED << request, at, outcome, reply, ended, cut, disturbed >>
        /\ \A c \in Clients : Pends(c)' <=> Pends(c)
        /\ IsConnected => IsConnected'
    BY <1>7, ApartTypes DEF Apart
  <2> QED BY <1>1, <2>1, CausedStays DEF EndCaused
<1>8. CASE AnyBroadcast
  <2>1. /\ UNCHANGED << request, at, reply, ended, cut >> /\ UNCHANGED vars
        /\ \A c \in Clients :
             /\ Pends(c)' <=> Pends(c)
             /\ disturbed[c] => disturbed'[c]
             /\ \/ outcome'[c] = outcome[c]
                \/ outcome[c] = "broadcasting" /\ outcome'[c] = "ok"
                \/ outcome[c] = "broadcasting" /\ outcome'[c] = "RuntimeError" /\ disturbed'[c]
    BY <1>8, BroadcastTypes
  <2>2. IsConnected => IsConnected' BY <2>1 DEF vars, connVars, IsConnected
  <2>3. ASSUME NEW d \in Clients PROVE Caused(d)'
    BY <1>1, <2>1, <2>2, CausedStays
  <2> QED BY <1>1, <2>1, <2>3 DEF EndCaused
<1> QED BY <1>3, <1>4, <1>5, <1>6, <1>7, <1>8, RequestSteps

\* Whatever is asked, whenever the link goes and whichever web sockets open and close:
\* the PC refuses only what the device would, the device nothing the PC packed, and
\* otherwise only a loss of the link during a request, or a web socket that opens or
\* closes during its broadcast, fails it; the shell ends only by such a loss or at a line
\* shlex cannot split.
THEOREM ErrorsHaveCauses == RequestsSpec => []ErrorsAreExplained
<1>1. RequestsInit => CauseInv
  BY DEF RequestsInit, CauseInv, ErrorsAreExplained, Pends
<1>2. /\ RequestTypes /\ AwaitInv /\ CauseInv /\ [RequestsNext]_<< vars, requestVars >>
      => CauseInv'
  BY NextCauseInv
<1>3. CauseInv => ErrorsAreExplained BY DEF CauseInv
<1> QED BY <1>1, <1>2, <1>3, AlwaysAwaitInv, PTL DEF RequestsSpec


-----------------------------------------------------------------------------
(* The last value written is the one in force *)

\* What AppliedInv says of one parameter.
AppliedTo(op) ==
  \/ \E i \in DOMAIN events :
       /\ Sets(events, i, op) /\ events[i].config.value = written[op].value
       /\ \A j \in DOMAIN events : j > i => ~Sets(events, j, op)
  \/ /\ params[op] = written[op].value
     /\ \A i \in DOMAIN events : ~Sets(events, i, op)

LEMMA AppliedStays ==
  ASSUME NEW op, AppliedTo(op), UNCHANGED << events, params, written >>
  PROVE  AppliedTo(op)'
BY DEF AppliedTo, Sets

LEMMA AppliedAfterHandling ==
  ASSUME events \in Seq(Event), events # << >>, events' = Tail(events),
         NEW op, AppliedTo(op), written' = written,
         params'[op] = IF Sets(events, 1, op) THEN events[1].config.value ELSE params[op]
  PROVE  AppliedTo(op)'
<1>1. /\ \A i \in DOMAIN events' : i + 1 \in DOMAIN events /\ events'[i] = events[i + 1]
      /\ \A i \in DOMAIN events : i # 1 => i - 1 \in DOMAIN events'
      /\ 1 \in DOMAIN events
      /\ \A i \in DOMAIN events' \cup DOMAIN events : i \in Nat /\ i >= 1
  OBVIOUS
<1>2. \A i \in DOMAIN events' : Sets(events', i, op) <=> Sets(events, i + 1, op)
  BY <1>1 DEF Sets
<1>3. ASSUME NEW i \in DOMAIN events, Sets(events, i, op),
             events[i].config.value = written[op].value,
             \A j \in DOMAIN events : j > i => ~Sets(events, j, op)
      PROVE  AppliedTo(op)'
  <2>1. \A j \in DOMAIN events' : j + 1 > i => ~Sets(events', j, op) BY <1>1, <1>2, <1>3
  <2>2. CASE i = 1
    <3>1. params'[op] = written'[op].value BY <1>3, <2>2
    <3>2. \A j \in DOMAIN events' : ~Sets(events', j, op) BY <1>1, <2>1, <2>2
    <3> QED BY <3>1, <3>2 DEF AppliedTo
  <2>3. CASE i # 1
    <3>1. /\ i - 1 \in DOMAIN events' /\ (i - 1) + 1 = i
          /\ events'[i - 1] = events[i] /\ Sets(events', i - 1, op)
      BY <1>1, <1>2, <1>3, <2>3
    <3>2. \A j \in DOMAIN events' : j > i - 1 => ~Sets(events', j, op) BY <1>1, <2>1
    <3> QED BY <1>3, <3>1, <3>2 DEF AppliedTo
  <2> QED BY <2>2, <2>3
<1>4. ASSUME params[op] = written[op].value, \A i \in DOMAIN events : ~Sets(events, i, op)
      PROVE  AppliedTo(op)'
  <2>1. params'[op] = written'[op].value BY <1>1, <1>4
  <2>2. \A i \in DOMAIN events' : ~Sets(events', i, op) BY <1>1, <1>2, <1>4
  <2> QED BY <2>1, <2>2 DEF AppliedTo
<1> QED BY <1>3, <1>4 DEF AppliedTo

LEMMA AppliedAfterSubmitting ==
  ASSUME events \in Seq(Event), NEW e, Submit(<< e >>), params' = params,
         NEW op, AppliedTo(op),
         IF e.type = "config_update" /\ e.config.op = op
         THEN e.config.value = written'[op].value ELSE written'[op] = written[op]
  PROVE  AppliedTo(op)'
<1> DEFINE last == Len(events) + 1
<1>1. /\ DOMAIN events' = 1 .. last /\ events'[last] = e
      /\ \A i \in DOMAIN events : i \in DOMAIN events' /\ events'[i] = events[i] /\ i < last
      /\ \A i \in DOMAIN events' : i \in DOMAIN events \/ i = last
      /\ last \in DOMAIN events'
  BY DEF Submit
<1>2. \A i \in DOMAIN events : Sets(events', i, op) <=> Sets(events, i, op) BY <1>1 DEF Sets
<1>3. Sets(events', last, op) <=> e.type = "config_update" /\ e.config.op = op
  BY <1>1 DEF Sets
<1> HIDE DEF last
<1>4. CASE Sets(events', last, op)
  <2>1. events'[last].config.value = written'[op].value BY <1>1, <1>3, <1>4
  <2>2. \A j \in DOMAIN events' : ~(j > last) BY <1>1
  <2> QED BY <1>1, <1>4, <2>1, <2>2 DEF AppliedTo
<1>5. CASE ~Sets(events', last, op)
  <2>1. written'[op] = written[op] BY <1>3, <1>5
  <2>2. ASSUME NEW i \in DOMAIN events, Sets(events, i, op),
               events[i].config.value = written[op].value,
               \A j \in DOMAIN events : j > i => ~Sets(events, j, op)
        PROVE  AppliedTo(op)'
    <3>1. /\ i \in DOMAIN events' /\ Sets(events', i, op)
          /\ events'[i].config.value = written'[op].value
      BY <1>1, <1>2, <2>1, <2>2
    <3>2. \A j \in DOMAIN events' : j > i => ~Sets(events', j, op) BY <1>1, <1>2, <1>5, <2>2
    <3> QED BY <3>1, <3>2 DEF AppliedTo
  <2>3. ASSUME params[op] = written[op].value, \A i \in DOMAIN events : ~Sets(events, i, op)
        PROVE  AppliedTo(op)'
    <3>1. params'[op] = written'[op].value BY <2>1, <2>3
    <3>2. \A i \in DOMAIN events' : ~Sets(events', i, op) BY <1>1, <1>2, <1>5, <2>3
    <3> QED BY <3>1, <3>2 DEF AppliedTo
  <2> QED BY <2>2, <2>3 DEF AppliedTo
<1> QED BY <1>4, <1>5

\* Control takes the head of the queue, and changes a parameter only as a config
\* at the head of it says.
LEMMA ProcessEventApplies ==
  ASSUME TypeOK, ProcessEvent
  PROVE  /\ events # << >> /\ events' = Tail(events)
         /\ \A op \in ConfigOps :
              params'[op] = IF Sets(events, 1, op) THEN events[1].config.value ELSE params[op]
<1>1. ASSUME NEW e, HeadIs(e)
      PROVE  events # << >> /\ events' = Tail(events) /\ events[1] = e
  BY <1>1 DEF HeadIs, TypeOK
<1>2. ASSUME NEW e, HeadIs(e), e.type # "config_update", params' = params
      PROVE  /\ events # << >> /\ events' = Tail(events)
             /\ \A op \in ConfigOps :
                  params'[op] = IF Sets(events, 1, op) THEN events[1].config.value
                                ELSE params[op]
  BY <1>1, <1>2 DEF Sets
<1>3. ASSUME NEW c \in Configs, HandleConfig(c)
      PROVE  /\ events # << >> /\ events' = Tail(events)
             /\ \A op \in ConfigOps :
                  params'[op] = IF Sets(events, 1, op) THEN events[1].config.value
                                ELSE params[op]
  <2>1. /\ events # << >> /\ events' = Tail(events) /\ events[1] = ConfigEvent(c)
        /\ params' = [params EXCEPT ![c.op] = c.value] /\ params \in [ConfigOps -> ParamValues]
    BY <1>1, <1>3 DEF HandleConfig, TypeOK
  <2>2. events[1].type = "config_update" /\ events[1].config = c BY <2>1 DEF ConfigEvent
  <2> QED BY <2>1, <2>2 DEF Sets
<1>4. CASE HandleStart BY <1>2, <1>4 DEF HandleStart, CommandEvent
<1>5. CASE HandleStop BY <1>2, <1>5 DEF HandleStop, CommandEvent
<1>6. CASE HandleRequestStatus BY <1>2, <1>6 DEF HandleRequestStatus, CommandEvent
<1>7. CASE HandleResetSequence BY <1>2, <1>7 DEF HandleResetSequence, CommandEvent
<1>8. CASE HandleForceGyroCalib BY <1>2, <1>8 DEF HandleForceGyroCalib, CommandEvent
<1>9. CASE HandleConnected BY <1>2, <1>9 DEF HandleConnected, ConnectedEvent
<1>10. CASE HandleDisconnected BY <1>2, <1>10 DEF HandleDisconnected, DisconnectedEvent
<1>11. CASE HandleSample BY <1>2, <1>11 DEF HandleSample, controlVars
<1> QED BY <1>3, <1>4, <1>5, <1>6, <1>7, <1>8, <1>9, <1>10, <1>11 DEF ProcessEvent

LEMMA NextAppliedInv ==
  ASSUME TypeOK, RequestTypes, AwaitInv, AppliedInv,
         [RequestsNext]_<< vars, requestVars >>
  PROVE  AppliedInv'
<1>1. events \in Seq(Event) BY DEF TypeOK
<1>2. SUFFICES ASSUME NEW op \in ConfigOps PROVE AppliedTo(op)' BY DEF AppliedInv, AppliedTo
<1>3. AppliedTo(op) BY DEF AppliedInv, AppliedTo
<1>4. ASSUME NEW c \in Clients, NEW ops, NEW result, Asks(c, ops, result) PROVE AppliedTo(op)'
  <2>1. UNCHANGED << events, params, written >> BY <1>4 DEF Asks, vars, controlVars
  <2> QED BY <1>3, <2>1, AppliedStays
<1>5. ASSUME NEW c \in Clients, NEW answer, Serves(c, answer) PROVE AppliedTo(op)'
  <2> DEFINE config == [op |-> Current(c).op, value |-> Current(c).value]
  <2>1. CASE Current(c).do = "config" /\ answer = "done"
    <3>1. config \in Configs /\ WriteConfig(config) BY <1>5, <2>1, ServesFacts
    <3>2. Submit(<< ConfigEvent(config) >>) /\ params' = params
      BY <3>1 DEF WriteConfig, controlVars
    <3>3. /\ ConfigEvent(config).type = "config_update"
          /\ ConfigEvent(config).config.op = Current(c).op
          /\ ConfigEvent(config).config.value = Current(c).value
      BY DEF ConfigEvent
    <3>4. /\ written' = [written EXCEPT ![Current(c).op] =
                                          [value |-> Current(c).value, by |-> number[c]]]
          /\ written \in [ConfigOps -> [value : ParamValues, by : Nat]]
      BY <1>5, <2>1 DEF Serves, RequestTypes
    <3>5. IF op = Current(c).op THEN written'[op].value = Current(c).value
                                ELSE written'[op] = written[op]
      BY <3>4
    <3> QED BY <1>1, <1>3, <3>2, <3>3, <3>5, AppliedAfterSubmitting
  <2>2. CASE ~(Current(c).do = "config" /\ answer = "done")
    <3>1. /\ params' = params
          /\ events' = events \/ \E e : Submit(<< e >>) /\ e.type = "pc_command"
      BY <1>5, <2>2, ServesFacts
    <3>2. written' = written BY <1>5, <2>2 DEF Serves
    <3>3. CASE events' = events BY <1>3, <3>1, <3>2, <3>3, AppliedStays
    <3>4. ASSUME NEW e, Submit(<< e >>), e.type = "pc_command" PROVE AppliedTo(op)'
      BY <1>1, <1>3, <3>1, <3>2, <3>4, AppliedAfterSubmitting
    <3> QED BY <3>1, <3>3, <3>4
  <2> QED BY <2>1, <2>2
<1>6. ASSUME NEW c \in Clients, NEW k, NEW result, Continues(c, k, result) PROVE AppliedTo(op)'
  <2>1. UNCHANGED << events, params, written >> BY <1>6 DEF Continues, vars, controlVars
  <2> QED BY <1>3, <2>1, AppliedStays
<1>7. CASE LinkDrops
  <2>1. Submit(<< DisconnectedEvent >>) /\ params' = params /\ written' = written
    BY <1>7 DEF LinkDrops, Disconnected, controlVars
  <2>2. DisconnectedEvent.type # "config_update" BY DEF DisconnectedEvent
  <2> QED BY <1>1, <1>3, <2>1, <2>2, AppliedAfterSubmitting
<1>8. CASE Apart
  <2>1. written' = written BY <1>8, ApartTypes DEF Apart
  <2>2. CASE ProcessEvent
    BY <1>1, <1>3, <2>1, <2>2, ProcessEventApplies, AppliedAfterHandling
  <2>3. CASE Connected
    <3>1. Submit(<< ConnectedEvent >>) /\ params' = params BY <2>3 DEF Connected, controlVars
    <3>2. ConnectedEvent.type # "config_update" BY DEF ConnectedEvent
    <3> QED BY <1>1, <1>3, <2>1, <3>1, <3>2, AppliedAfterSubmitting
  <2>4. CASE AdvertisingStarts \/ UNCHANGED vars
    <3>1. UNCHANGED << events, params >>
      BY <2>4 DEF AdvertisingStarts, vars, controlVars
    <3> QED BY <1>3, <2>1, <3>1, AppliedStays
  <2> QED BY <1>8, <2>2, <2>3, <2>4 DEF Apart
<1>9. CASE AnyBroadcast
  <2>1. UNCHANGED << events, params, written >>
    BY <1>9, BroadcastTypes DEF vars, controlVars
  <2> QED BY <1>3, <2>1, AppliedStays
<1> QED BY <1>4, <1>5, <1>6, <1>7, <1>8, <1>9, RequestSteps


-----------------------------------------------------------------------------
(* A mixture has its cause *)

\* A request that sets one parameter of a group sets them all.
LEMMA WholeGroups ==
  ASSUME NEW ops \in AllRequests, NEW group \in {FilterOps, GyroOps}, NEW op \in group,
         op \in SetsOf(ops), NEW other \in group \cap ConfigOps
  PROVE  other \in SetsOf(ops)
<1>1. SetsOf(ops) \cap group # {} => group \cap ConfigOps \subseteq SetsOf(ops)
  BY RequestsAssumption DEF RequestsAssumption
<1> QED BY <1>1

LEMMA SetIsAsked ==
  ASSUME AwaitInv, NEW c \in Clients
  PROVE  SetBy(c) \subseteq SetsOf(request[c])
BY DEF AwaitInv, SetBy, SetsOf

LEMMA GroupTypes ==
  ASSUME RequestTypes, AwaitInv
  PROVE  /\ \A c \in Clients : number[c] \in Nat /\ number[c] <= begun
         /\ \A c \in Clients : Pends(c) => number[c] # 0 /\ request[c] \in AllRequests
         /\ \A op \in ConfigOps : written[op].by \in Nat
         /\ begun \in Nat
<1>1. FrontendRequests \subseteq AllRequests BY RequestFacts
<1> QED BY <1>1 DEF RequestTypes, AwaitInv

\* Steps that leave the requests, the values and the blame alone.
LEMMA GroupStays ==
  ASSUME GroupInv, UNCHANGED << request, begun, number, written, blamed >>,
         \A c \in Clients : Pends(c)' <=> Pends(c),
         \A c \in Clients : SetBy(c)' = SetBy(c)
  PROVE  GroupInv'
<1>2. ASSUME NEW c \in Clients, NEW d \in Clients PROVE Rivals(c, d)' <=> Rivals(c, d)
  <2>1. \A e : SetsOf(request[e])' = SetsOf(request[e]) BY DEF SetsOf
  <2> QED BY <2>1 DEF Rivals
<1>3. ASSUME NEW c \in Clients, NEW op \in ConfigOps, KeepsTo(c, op) PROVE KeepsTo(c, op)'
  BY <1>3 DEF KeepsTo, SetsOf
<1>4. ASSUME NEW op, NEW other, MixtureCaused(op, other) PROVE MixtureCaused(op, other)'
  BY <1>4 DEF MixtureCaused, Unfinished
<1> QED BY <1>2, <1>3, <1>4 DEF GroupInv

LEMMA AskedGroups ==
  ASSUME RequestTypes, AwaitInv, GroupInv, NEW c \in Clients, NEW ops, NEW result,
         Asks(c, ops, result)
  PROVE  GroupInv'
<1>1. /\ request'[c] = ops /\ number'[c] = begun + 1 /\ executed'[c] = {}
      /\ \A d \in Clients \ {c} :
           /\ request'[d] = request[d] /\ number'[d] = number[d] /\ executed'[d] = executed[d]
           /\ Pends(d)' <=> Pends(d)
  BY AskedTypes
<1>2. /\ written' = written /\ begun' = begun + 1 /\ ~Pends(c)
      /\ blamed \subseteq blamed' /\ OverlapsOf(c, ops) \subseteq blamed'
  BY DEF Asks, Stops
<1>3. /\ \A d \in Clients : number[d] \in Nat /\ number[d] <= begun
      /\ \A op \in ConfigOps : written[op].by \in Nat /\ written[op].by <= begun
      /\ begun \in Nat
  BY GroupTypes DEF GroupInv
<1>4. \A d \in Clients \ {c} : SetBy(d)' = SetBy(d) BY <1>1 DEF SetBy
<1>5. SetBy(c)' = {} BY <1>1 DEF SetBy
<1>6. \A op \in ConfigOps : written'[op].by <= begun' BY <1>2, <1>3
<1>7. \A d, e \in Clients : number'[d] # 0 /\ number'[d] = number'[e] => d = e
  <2>1. \A d, e \in Clients \ {c} : number'[d] # 0 /\ number'[d] = number'[e] => d = e
    BY <1>1 DEF GroupInv
  <2>2. \A d \in Clients \ {c} : number'[d] # number'[c] BY <1>1, <1>3
  <2> QED BY <2>1, <2>2
<1>8. ASSUME NEW d \in Clients, NEW e \in Clients, Rivals(d, e)' PROVE number'[d] \in blamed'
  <2>1. d # e /\ Pends(d)' /\ Pends(e)' /\ SetsOf(request'[d]) \cap SetsOf(request'[e]) # {}
    BY <1>8 DEF Rivals, SetsOf
  <2>2. CASE d = c
    <3>1. e \in RivalsOf(c, ops) BY <1>1, <2>1, <2>2 DEF RivalsOf
    <3>2. begun + 1 \in OverlapsOf(c, ops) BY <3>1 DEF OverlapsOf
    <3> QED BY <1>1, <1>2, <2>2, <3>2
  <2>3. CASE e = c
    <3>1. d \in RivalsOf(c, ops) BY <1>1, <2>1, <2>3 DEF RivalsOf
    <3>2. number[d] \in OverlapsOf(c, ops) BY <3>1 DEF OverlapsOf
    <3> QED BY <1>1, <1>2, <2>1, <2>3, <3>2
  <2>4. CASE d # c /\ e # c
    <3>1. Rivals(d, e) BY <1>1, <2>1, <2>4 DEF Rivals
    <3> QED BY <1>1, <1>2, <2>4, <3>1 DEF GroupInv
  <2> QED BY <2>2, <2>3, <2>4
<1>9. ASSUME NEW d \in Clients, NEW op \in ConfigOps PROVE KeepsTo(d, op)'
  <2>1. CASE d = c
    <3>1. written'[op].by # number'[d] /\ ~(written'[op].by > number'[d])
      BY <1>1, <1>2, <1>3, <2>1
    <3> QED BY <1>5, <2>1, <3>1 DEF KeepsTo
  <2>2. CASE d # c
    <3>1. KeepsTo(d, op) BY DEF GroupInv
    <3>2. SetsOf(request[d])' = SetsOf(request[d]) BY <1>1, <2>2 DEF SetsOf
    <3> QED BY <1>1, <1>2, <1>4, <2>2, <3>1, <3>2 DEF KeepsTo
  <2> QED BY <2>1, <2>2
<1>10. ASSUME NEW op, NEW other, MixtureCaused(op, other) PROVE MixtureCaused(op, other)'
  <2>1. Unfinished(op, other) => Unfinished(op, other)'
    BY <1>1, <1>2, <1>4 DEF Unfinished
  <2> QED BY <1>2, <1>10, <2>1 DEF MixtureCaused
<1> QED BY <1>6, <1>7, <1>8, <1>9, <1>10 DEF GroupInv


\* The device executes a write: the parameter is the writer's now.
LEMMA WrittenGroups ==
  ASSUME RequestTypes, AwaitInv, GroupInv, NEW c \in Clients, NEW answer, Serves(c, answer),
         Current(c).do = "config", answer = "done"
  PROVE  GroupInv'
<1> DEFINE set == Current(c).op
<1>1. /\ Pends(c) /\ at[c] \in DOMAIN request[c] /\ request[c] \in AllRequests
      /\ request[c] \in Seq(Operation)
  BY ServesFacts, RequestFacts
<1>2. /\ executed'[c] = executed[c] \cup {at[c]}
      /\ \A d \in Clients \ {c} : executed'[d] = executed[d]
      /\ \A d \in Clients : Pends(d)' <=> Pends(d)
      /\ UNCHANGED << request, begun, number, blamed >>
  BY ServedTypes
<1>3. set \in ConfigOps
  <2>1. Current(c) \in Operation BY <1>1 DEF Current
  <2> QED BY <2>1, OperationKinds
<1>4. set \in SetsOf(request[c]) BY <1>1 DEF SetsOf, Current
<1>5. /\ written'[set].by = number[c]
      /\ \A op \in ConfigOps \ {set} : written'[op] = written[op]
  BY <1>3 DEF Serves, RequestTypes
<1>6. \A d \in Clients \ {c} : SetBy(d)' = SetBy(d) BY <1>2 DEF SetBy
<1>7. SetBy(c)' = SetBy(c) \cup {set} BY <1>2 DEF SetBy, Current
<1>8. /\ \A d \in Clients : number[d] \in Nat /\ number[d] <= begun
      /\ \A op \in ConfigOps : written[op].by \in Nat /\ written[op].by <= begun
      /\ \A d \in Clients : Pends(d) => number[d] # 0
  BY GroupTypes DEF GroupInv
<1>9. \A d : SetsOf(request[d])' = SetsOf(request[d]) BY <1>2 DEF SetsOf
<1> HIDE DEF set
<1>10. \A d, e \in Clients : Rivals(d, e)' <=> Rivals(d, e) BY <1>2, <1>9 DEF Rivals
<1>11. ASSUME NEW d \in Clients, d # c, Pends(d), set \in SetsOf(request[d])
       PROVE  number[d] \in blamed
  <2>1. Rivals(d, c) BY <1>1, <1>4, <1>11 DEF Rivals
  <2> QED BY <2>1 DEF GroupInv
<1>12. ASSUME NEW d \in Clients, NEW op \in ConfigOps PROVE KeepsTo(d, op)'
  <2>1. KeepsTo(d, op) BY DEF GroupInv
  <2>2. CASE op = set
    <3>1. number[d] # 0 /\ number[c] = number[d] => d = c BY DEF GroupInv
    <3>2. number'[d] # 0 /\ written'[op].by = number'[d] => op \in SetBy(d)'
      BY <1>2, <1>5, <1>7, <2>2, <3>1
    <3>3. CASE d = c BY <1>2, <1>5, <1>8, <2>2, <3>2, <3>3 DEF KeepsTo
    <3>4. CASE d # c
      <4>1. SetBy(d) \subseteq SetsOf(request[d]) BY SetIsAsked
      <4>2. Pends(d) /\ (op \in SetBy(d) \/ op \in SetsOf(request[d])) => number[d] \in blamed
        BY <1>11, <2>2, <3>4, <4>1
      <4> QED BY <1>2, <1>6, <1>9, <3>2, <3>4, <4>2 DEF KeepsTo
    <3> QED BY <3>3, <3>4
  <2>3. CASE op # set
    <3>1. written'[op] = written[op] /\ (op \in SetBy(d)' <=> op \in SetBy(d))
      BY <1>5, <1>6, <1>7, <2>3
    <3> QED BY <1>2, <1>9, <2>1, <3>1 DEF KeepsTo
  <2> QED BY <2>2, <2>3
<1>13. ASSUME NEW group \in {FilterOps, GyroOps}, NEW op \in group \cap ConfigOps,
              NEW other \in group \cap ConfigOps, written'[op].by < written'[other].by
       PROVE  \/ written'[op].by \in blamed'
              \/ written'[other].by \in blamed'
              \/ Unfinished(op, other)'
  <2>1. MixtureCaused(op, other) BY DEF GroupInv
  <2>2. CASE op = set
    <3>1. other # set
      <4>1. SUFFICES ASSUME other = set PROVE FALSE OBVIOUS
      <4> QED BY <1>5, <1>8, <1>13, <2>2, <4>1
    <3>2. written[other].by > number[c] BY <1>5, <1>8, <1>13, <2>2, <3>1
    <3>3. other \in SetsOf(request[c]) BY <1>1, <1>4, <2>2, WholeGroups
    <3>4. number[c] \in blamed
      <4>1. KeepsTo(c, other) BY DEF GroupInv
      <4> QED BY <1>1, <3>2, <3>3, <4>1 DEF KeepsTo
    <3> QED BY <1>2, <1>5, <2>2, <3>4
  <2>3. CASE op # set /\ other = set
    <3>1. CASE op \in SetBy(c)
      <4>1. written[op].by # number[c] BY <1>5, <1>8, <1>13, <2>3
      <4>2. KeepsTo(c, op) BY DEF GroupInv
      <4> QED BY <1>1, <1>2, <1>5, <2>3, <3>1, <4>1, <4>2 DEF KeepsTo
    <3>2. CASE op \notin SetBy(c)
      <4>1. /\ op \notin SetBy(c)' /\ Pends(c)'
            /\ number'[c] = written'[other].by
        BY <1>1, <1>2, <1>5, <1>7, <2>3, <3>2
      <4> QED BY <4>1 DEF Unfinished
    <3> QED BY <3>1, <3>2
  <2>4. CASE op # set /\ other # set
    <3>1. written'[op] = written[op] /\ written'[other] = written[other] BY <1>5, <2>4
    <3>2. Unfinished(op, other) => Unfinished(op, other)'
      <4>1. ASSUME NEW d \in Clients, Pends(d), number[d] = written[other].by, op \notin SetBy(d)
            PROVE  Pends(d)' /\ number'[d] = written'[other].by /\ op \notin SetBy(d)'
        BY <1>2, <1>6, <1>7, <2>4, <3>1, <4>1
      <4> QED BY <4>1 DEF Unfinished
    <3> QED BY <1>2, <1>13, <2>1, <3>1, <3>2 DEF MixtureCaused
  <2> QED BY <2>2, <2>3, <2>4
<1>14. \A op \in ConfigOps : written'[op].by <= begun' BY <1>2, <1>5, <1>8
<1>15. \A d, e \in Clients : number'[d] # 0 /\ number'[d] = number'[e] => d = e
  BY <1>2 DEF GroupInv
<1>16. \A d, e \in Clients : Rivals(d, e)' => number'[d] \in blamed'
  BY <1>2, <1>10 DEF GroupInv
<1> QED BY <1>12, <1>13, <1>14, <1>15, <1>16 DEF GroupInv, MixtureCaused

LEMMA ServedGroups ==
  ASSUME RequestTypes, AwaitInv, GroupInv, NEW c \in Clients, NEW answer, Serves(c, answer)
  PROVE  GroupInv'
<1>1. CASE Current(c).do = "config" /\ answer = "done" BY <1>1, WrittenGroups
<1>2. CASE ~(Current(c).do = "config" /\ answer = "done")
  <2>1. /\ executed'[c] = IF answer = "done" THEN executed[c] \cup {at[c]} ELSE executed[c]
        /\ \A d \in Clients \ {c} : executed'[d] = executed[d]
        /\ \A d \in Clients : Pends(d)' <=> Pends(d)
        /\ UNCHANGED << request, begun, number, blamed >>
    BY ServedTypes
  <2>2. written' = written BY <1>2 DEF Serves
  <2>3. \A d \in Clients : SetBy(d)' = SetBy(d)
    <3>1. SetBy(c)' = SetBy(c) BY <1>2, <2>1 DEF SetBy, Current
    <3>2. \A d \in Clients \ {c} : SetBy(d)' = SetBy(d) BY <2>1 DEF SetBy
    <3> QED BY <3>1, <3>2
  <2> QED BY <2>1, <2>2, <2>3, GroupStays
<1> QED BY <1>1, <1>2


\* A request that ends either is blamed or has set all parameters of the group.
LEMMA ContinuedGroups ==
  ASSUME RequestTypes, AwaitInv, GroupInv, ServedInv',
         NEW c \in Clients, NEW k, NEW result, Continues(c, k, result)
  PROVE  GroupInv'
<1>1. /\ outcome'[c] = result /\ Pends(c) /\ (Pends(c)' <=> result = "pending")
      /\ \A d \in Clients \ {c} : Pends(d)' <=> Pends(d)
  BY ContinuedTypes
<1>2. /\ UNCHANGED << request, begun, number, executed, written >>
      /\ blamed \subseteq blamed'
      /\ result \notin Unfailed => number[c] \in blamed'
  BY DEF Continues, Stops
<1>3. \A d \in Clients : Pends(d)' => Pends(d) BY <1>1
<1>4. /\ \A d : SetBy(d)' = SetBy(d)
      /\ \A d : SetsOf(request[d])' = SetsOf(request[d])
  BY <1>2 DEF SetBy, SetsOf
<1>5. number[c] # 0 /\ request[c] \in AllRequests BY <1>1, GroupTypes
<1>6. ASSUME result \in {"ok", "broadcasting"} PROVE SetsOf(request[c]) \subseteq SetBy(c)
  <2>1. \A i \in DOMAIN request[c] : Settled(c, i)' BY <1>1, <1>2, <1>6 DEF ServedInv
  <2>2. ASSUME NEW i \in DOMAIN request[c], request[c][i].do = "config"
        PROVE  i \in executed[c]
    BY <1>2, <2>1, <2>2 DEF Settled
  <2> QED BY <2>2 DEF SetsOf, SetBy
<1>7. ASSUME NEW d \in Clients, NEW op \in ConfigOps PROVE KeepsTo(d, op)'
  <2>1. KeepsTo(d, op) BY DEF GroupInv
  <2> QED BY <1>2, <1>3, <1>4, <2>1 DEF KeepsTo
<1>8. ASSUME NEW group \in {FilterOps, GyroOps}, NEW op \in group \cap ConfigOps,
             NEW other \in group \cap ConfigOps, written'[op].by < written'[other].by
      PROVE  \/ written'[op].by \in blamed'
             \/ written'[other].by \in blamed'
             \/ Unfinished(op, other)'
  <2>1. MixtureCaused(op, other) BY DEF GroupInv
  <2>2. ASSUME NEW d \in Clients, Pends(d), number[d] = written[other].by, op \notin SetBy(d)
        PROVE  \/ written'[other].by \in blamed'
               \/ Unfinished(op, other)'
    <3>1. CASE Pends(d)'
      <4>1. Pends(d)' /\ number'[d] = written'[other].by /\ op \notin SetBy(d)'
        BY <1>2, <1>4, <2>2, <3>1
      <4> QED BY <4>1 DEF Unfinished
    <3>2. CASE ~Pends(d)'
      <4>1. d = c /\ result # "pending" BY <1>1, <2>2, <3>2
      <4>2. result \notin Unfailed
        <5>1. SUFFICES ASSUME result \in {"ok", "broadcasting"} PROVE FALSE
          BY <4>1 DEF Unfailed
        <5>2. other \in SetBy(c)
          <6>1. KeepsTo(c, other) BY DEF GroupInv
          <6> QED BY <1>5, <2>2, <4>1, <6>1 DEF KeepsTo
        <5>3. other \in SetsOf(request[c]) BY <5>2, SetIsAsked
        <5>4. op \in SetsOf(request[c]) BY <1>5, <5>3, WholeGroups
        <5> QED BY <1>6, <2>2, <4>1, <5>1, <5>4
      <4> QED BY <1>2, <2>2, <4>1, <4>2
    <3> QED BY <3>1, <3>2
  <2> QED BY <1>2, <1>8, <2>1, <2>2 DEF MixtureCaused, Unfinished
<1>9. \A op \in ConfigOps : written'[op].by <= begun' BY <1>2 DEF GroupInv
<1>10. \A d, e \in Clients : number'[d] # 0 /\ number'[d] = number'[e] => d = e
  BY <1>2 DEF GroupInv
<1>11. \A d, e \in Clients : Rivals(d, e)' => number'[d] \in blamed'
  <2>1. \A d, e \in Clients : Rivals(d, e)' => Rivals(d, e) BY <1>3, <1>4 DEF Rivals
  <2> QED BY <1>2, <2>1 DEF GroupInv
<1> QED BY <1>7, <1>8, <1>9, <1>10, <1>11 DEF GroupInv, MixtureCaused

LEMMA InitGroupInv == RequestsInit => AppliedInv /\ GroupInv
<1> SUFFICES ASSUME RequestsInit PROVE AppliedInv /\ GroupInv OBVIOUS
<1>1. /\ events = << >> /\ params = DefaultParams /\ begun = 0
      /\ written = [op \in ConfigOps |-> [value |-> DefaultParams[op], by |-> 0]]
      /\ number = [c \in Clients |-> 0]
      /\ \A c \in Clients : ~Pends(c)
  BY DEF RequestsInit, Init, Pends
<1>2. \A op \in ConfigOps : written[op].value = DefaultParams[op] /\ written[op].by = 0
  BY <1>1
<1>3. AppliedInv BY <1>1, <1>2 DEF AppliedInv
<1>4. GroupInv
  BY <1>1, <1>2 DEF GroupInv, Rivals, KeepsTo, MixtureCaused
<1> QED BY <1>3, <1>4

LEMMA NextGroupInv ==
  ASSUME RequestTypes, AwaitInv, ServedInv, GroupInv, [RequestsNext]_<< vars, requestVars >>
  PROVE  GroupInv'
<1>1. ASSUME NEW c \in Clients, NEW ops, NEW result, Asks(c, ops, result) PROVE GroupInv'
  BY <1>1, AskedGroups
<1>2. ASSUME NEW c \in Clients, NEW answer, Serves(c, answer) PROVE GroupInv'
  BY <1>2, ServedGroups
<1>3. ASSUME NEW c \in Clients, NEW k, NEW result, Continues(c, k, result) PROVE GroupInv'
  <2>1. ServedInv' BY NextServedInv
  <2> QED BY <1>3, <2>1, ContinuedGroups
<1>4. CASE LinkDrops
  <2>1. /\ UNCHANGED << request, begun, number, executed, written, blamed >>
        /\ \A c \in Clients : Pends(c)' <=> Pends(c)
    BY <1>4, DroppedTypes
  <2>2. \A c \in Clients : SetBy(c)' = SetBy(c) BY <2>1 DEF SetBy
  <2> QED BY <2>1, <2>2, GroupStays
<1>5. CASE Apart
  <2>1. /\ UNCHANGED << request, begun, number, executed, written, blamed >>
        /\ \A c \in Clients : Pends(c)' <=> Pends(c)
    BY <1>5, ApartTypes DEF Apart
  <2>2. \A c \in Clients : SetBy(c)' = SetBy(c) BY <2>1 DEF SetBy
  <2> QED BY <2>1, <2>2, GroupStays
<1>6. CASE AnyBroadcast
  <2>1. /\ UNCHANGED << request, begun, number, executed, written, blamed >>
        /\ \A c \in Clients : Pends(c)' <=> Pends(c)
    BY <1>6, BroadcastTypes
  <2>2. \A c \in Clients : SetBy(c)' = SetBy(c) BY <2>1 DEF SetBy
  <2> QED BY <2>1, <2>2, GroupStays
<1> QED BY <1>1, <1>2, <1>3, <1>4, <1>5, <1>6, RequestSteps

\* With every request answered and every write handled, the drivers hold the values
\* last written, and values of two requests stand side by side in a group only if
\* one of the two failed or overlapped another: for any requests, links and overlaps.
THEOREM MixturesHaveCauses == RequestsSpec => []MixtureIsExplained
<1>1. RequestsInit => ServedInv /\ AppliedInv /\ GroupInv
  <2>1. RequestsInit => ServedInv BY DEF RequestsInit, ServedInv, Pends
  <2> QED BY <2>1, InitGroupInv
<1>2. /\ TypeOK /\ RequestTypes /\ AwaitInv /\ ServedInv /\ AppliedInv /\ GroupInv
      /\ [RequestsNext]_<< vars, requestVars >>
      => ServedInv' /\ AppliedInv' /\ GroupInv'
  BY NextServedInv, NextAppliedInv, NextGroupInv
<1>3. RequestTypes /\ AwaitInv /\ AppliedInv /\ GroupInv => MixtureIsExplained
  <2> SUFFICES ASSUME RequestTypes, AwaitInv, AppliedInv, GroupInv,
                      ~Pending("config_update"), \A c \in Clients : ~Pends(c)
               PROVE  /\ \A op \in ConfigOps : params[op] = written[op].value
                      /\ \A group \in {FilterOps, GyroOps} :
                           \A op, other \in group \cap ConfigOps :
                             \/ written[op].by = written[other].by
                             \/ written[op].by \in blamed
                             \/ written[other].by \in blamed
    BY DEF MixtureIsExplained
  <2>1. \A op \in ConfigOps : params[op] = written[op].value
    <3>1. \A op \in ConfigOps : \A i \in DOMAIN events : ~Sets(events, i, op)
      BY DEF Pending, Sets
    <3> QED BY <3>1 DEF AppliedInv
  <2>2. \A op, other : ~Unfinished(op, other) BY DEF Unfinished
  <2>3. ASSUME NEW group \in {FilterOps, GyroOps}, NEW op \in group \cap ConfigOps,
               NEW other \in group \cap ConfigOps
        PROVE  \/ written[op].by = written[other].by
               \/ written[op].by \in blamed
               \/ written[other].by \in blamed
    <3>1. MixtureCaused(op, other) /\ MixtureCaused(other, op) BY DEF GroupInv
    <3>2. written[op].by \in Nat /\ written[other].by \in Nat BY GroupTypes
    <3> QED BY <2>2, <3>1, <3>2 DEF MixtureCaused
  <2> QED BY <2>1, <2>3
<1>4. RequestsSpec => []TypeOK BY RequestsStayInFirmware, TypeCorrect, PTL
<1> QED BY <1>1, <1>2, <1>3, <1>4, AlwaysAwaitInv, PTL DEF RequestsSpec
=============================================================================
