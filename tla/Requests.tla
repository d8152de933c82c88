------------------------------ MODULE Requests ------------------------------
(***************************************************************************)
(* What the PC asks of a connected device: the handlers of web_api.py, the *)
(* commands of ui_shell.py and the two smoke scripts, down through         *)
(* SensorLoggerApp and BleSensorClient to the GATT callbacks and the work  *)
(* queue of the firmware (module Firmware), with the validation each end   *)
(* makes (module Codec).                                                   *)
(*                                                                         *)
(* A request is a sequence of GATT operations.  Its task packs one, writes *)
(* it with response (or reads), awaits the answer and goes on; between two *)
(* awaits it runs alone.  The host sends the operations of all tasks one   *)
(* at a time, in order.  The device answers a write when its callback has  *)
(* queued the event, before control applies it.  A loss of the link fails  *)
(* every operation the PC has no answer to, executed or not; a request     *)
(* whose answer came in time may go on over the next link.                 *)
(*                                                                         *)
(* A web command ends with a broadcast to the open web sockets, which may  *)
(* suspend and fails when one opens or closes meanwhile; a line of the     *)
(* shell may be one shlex cannot split.                                    *)
(*                                                                         *)
(* The link comes and goes by itself here (WebBackend models how), and the *)
(* sensors deliver nothing (EndToEnd has the samples).                     *)
(***************************************************************************)
EXTENDS Firmware, Integers

CONSTANTS
  Frontends,    \* the programs that may be driving: "web", "shell" or the name of a script
  Clients,      \* tasks the web backend may have in progress
  Main,         \* the only task of the shell or of a script, one of Clients
  WebRequests,  \* requests the page makes
  ShellRequests,
  Scripts,      \* name of a script |-> its operations
  MaxRequests,  \* bound: requests begun
  MaxLag        \* bound: events control may be behind when the device serves an operation

Wire == INSTANCE Codec WITH SeqModulus <- SeqSpace, TimeModulus <- SeqSpace

VARIABLES
  frontend,  \* the program running
  request,   \* per task: the operations of its latest request
  at,        \* per task: the operation it is at
  outcome,   \* per task: "none", "pending", "broadcasting", "ok" or the exception that ended it
  att,       \* tasks whose operation the host holds, in order
  reply,     \* per task: "none", "done", "refused", or "lost" with the link
  ended,     \* the shell has left its loop
  \* history
  begun,     \* requests begun
  number,    \* per task: its latest request is the number-th
  executed,  \* per task: the operations of its latest request the device executed
  written,   \* per config op: the value of its last executed write, and the request's number
  cut,       \* per task: the link was down at some moment of its request
  disturbed, \* per task: a web socket opened or closed during its last broadcast
  blamed     \* numbers of the requests that overlapped in setting parameters, or failed

taskVars == << frontend, request, at, outcome, att, reply, ended >>
historyVars == << begun, number, executed, written, cut, disturbed, blamed >>
requestVars == << taskVars, historyVars >>

-----------------------------------------------------------------------------
(* Operations and requests *)

Config(op, stream_id, value) ==
  [do |-> "config", op |-> op, stream_id |-> stream_id, value |-> value]
Control(command) == [do |-> "control", command |-> command]
Read == [do |-> "read"]
Notify(value) == [do |-> "notify", value |-> value]
\* The status page: answered without a reading when nothing is connected.
Poll == [do |-> "poll"]
\* What the negative script writes past the packing, and input int() or float() refuses.
Malformed(error) == [do |-> "malformed", error |-> error]
BadInput == [do |-> "bad_input"]
\* A line of the shell with an unbalanced quote.
Unparsed == [do |-> "unparsed"]

SetStreamInterval(stream_id, ms) == << Config("SET_STREAM_INTERVAL", stream_id, ms) >>

SetOrientationFilterParams(alpha, kp, ki, cutoff) ==
  << Config("SET_COMPLEMENTARY_ALPHA", 13, alpha), Config("SET_MAHONY_KP", 13, kp),
     Config("SET_MAHONY_KI", 13, ki), Config("SET_IIR_CUTOFF_MILLIHZ", 13, cutoff) >>

SetGyroCalibParams(threshold, alpha, window) ==
  << Config("SET_GYRO_CALIB_THRESHOLD", 10, threshold),
     Config("SET_GYRO_CALIB_ALPHA", 10, alpha), Config("SET_GYRO_CALIB_WINDOW", 10, window) >>

WriteCommand(command) == << Control(command) >>

RequestStatus == << Control("REQUEST_STATUS"), Read >>

\* ble_e2e_smoke.py between its connect and its disconnect
E2ESmoke ==
  << Read >> \o SetOrientationFilterParams(970, 600, 20, 2500) \o << Read, Notify(TRUE) >>
  \o SetStreamInterval(1, 100) \o WriteCommand("START_MEASUREMENT")
  \o SetStreamInterval(1, 500) \o RequestStatus \o WriteCommand("STOP_MEASUREMENT")

\* ble_negative_smoke.py, likewise
NegativeSmoke == << Malformed("INVALID_CONFIG"), Read, Malformed("INVALID_LENGTH"), Read >>

FrontendRequests ==
  CASE frontend = "web" -> WebRequests
    [] frontend = "shell" -> ShellRequests
    [] OTHER -> {Scripts[frontend]}

Tasks == IF frontend = "web" THEN Clients ELSE {Main}

WireConfig(o) == Wire!ConfigRecord(Wire!PositionOf(o.op, Wire!ConfigOp), o.stream_id, o.value)

\* The parameters a request sets together.
SetsOf(ops) == { ops[i].op : i \in { j \in DOMAIN ops : ops[j].do = "config" } }

FilterOps == {"SET_COMPLEMENTARY_ALPHA", "SET_MAHONY_KP", "SET_MAHONY_KI",
              "SET_IIR_CUTOFF_MILLIHZ"}
GyroOps == {"SET_GYRO_CALIB_THRESHOLD", "SET_GYRO_CALIB_ALPHA", "SET_GYRO_CALIB_WINDOW"}

Operation ==
  [do : {"config"}, op : ConfigOps, stream_id : Int, value : Int]
    \cup { Control(c) : c \in Commands }
    \cup { Notify(value) : value \in BOOLEAN }
    \cup { Malformed(error) : error \in BadWrites \cap {"INVALID_CONFIG", "INVALID_LENGTH"} }
    \cup { Read, Poll, BadInput, Unparsed }

AllRequests == WebRequests \cup ShellRequests \cup { Scripts[x] : x \in DOMAIN Scripts }

\* The status page asks nothing after its poll.  The handlers and the script set all
\* parameters of a group (the filter's, the gyro calibration's), the shell only intervals.
ASSUME RequestsAssumption ==
  /\ Main \in Clients
  /\ Frontends \subseteq {"web", "shell"} \cup DOMAIN Scripts
  /\ MaxRequests \in Nat /\ MaxLag \in Nat \ {0}
  /\ ConfigOps \subseteq { Wire!ConfigOp[i] : i \in DOMAIN Wire!ConfigOp }
  /\ \A ops \in AllRequests :
       /\ ops \in Seq(Operation)
       /\ \A i \in DOMAIN ops :
            /\ ops[i].do = "poll" => i = Len(ops)
            /\ ops[i].do = "config" /\ Wire!BslConfigIsValid(WireConfig(ops[i])) =>
                 [op |-> ops[i].op, value |-> ops[i].value] \in Configs
       /\ \A group \in {FilterOps, GyroOps} :
            SetsOf(ops) \cap group # {} => group \cap ConfigOps \subseteq SetsOf(ops)
  /\ \A ops \in ShellRequests : SetsOf(ops) \subseteq {"SET_STREAM_INTERVAL"}

\* BleSensorClient._require_client finds a connected client.
IsConnected == radio = "connected"

-----------------------------------------------------------------------------

RequestsInit ==
  /\ Init
  /\ frontend \in Frontends
  /\ request = [c \in Clients |-> << >>]
  /\ at = [c \in Clients |-> 0]
  /\ outcome = [c \in Clients |-> "none"]
  /\ att = << >>
  /\ reply = [c \in Clients |-> "none"]
  /\ ended = FALSE
  /\ begun = 0
  /\ number = [c \in Clients |-> 0]
  /\ executed = [c \in Clients |-> {}]
  /\ written = [op \in ConfigOps |-> [value |-> DefaultParams[op], by |-> 0]]
  /\ cut = [c \in Clients |-> FALSE]
  /\ disturbed = [c \in Clients |-> FALSE]
  /\ blamed = {}

\* The task awaits an operation, or the broadcast that follows the last.
Pends(c) == outcome[c] = "pending"
Broadcasts(c) == outcome[c] = "broadcasting"

\* What InteractiveShell.dispatch catches; the web server answers every exception.
Caught == {"ok", "BleClientError", "ProtocolError", "ValueError"}

Answer_KeepsReply(c, n, overlapping, result) ==
  /\ outcome' = [outcome EXCEPT ![c] = result]
  /\ ended' = (ended \/ (frontend = "shell" /\ result \notin Caught))
  /\ blamed' = blamed \cup overlapping \cup (IF result = "ok" THEN {} ELSE {n})
  /\ UNCHANGED << reply, att, disturbed >>

Answer(c, n, overlapping, result) ==
  /\ outcome' = [outcome EXCEPT ![c] = result]
  /\ reply' = [reply EXCEPT ![c] = "none"]
  /\ ended' = (ended \/ (frontend = "shell" /\ result \notin Caught))
  /\ blamed' = blamed \cup overlapping \cup (IF result = "ok" THEN {} ELSE {n})
  /\ UNCHANGED << att, disturbed >>

\* The task awaits an operation.
Send(c, overlapping) ==
  /\ outcome' = [outcome EXCEPT ![c] = "pending"]
  /\ reply' = [reply EXCEPT ![c] = "none"]
  /\ att' = Append(att, c)
  /\ blamed' = blamed \cup overlapping
  /\ UNCHANGED << ended, disturbed >>

\* The handler of a web command broadcasts the state before it answers, and a send to
\* one of the web sockets suspends it; those of the status and the capability do not.
Announces(ops) == frontend = "web" /\ \A i \in DOMAIN ops : ops[i].do # "poll"

Broadcast(c, overlapping) ==
  /\ outcome' = [outcome EXCEPT ![c] = "broadcasting"]
  /\ reply' = [reply EXCEPT ![c] = "none"]
  /\ blamed' = blamed \cup overlapping
  /\ disturbed' = [disturbed EXCEPT ![c] = FALSE]
  /\ UNCHANGED << ended, att >>

\* The exception raised on the way to operation o's await, if any.  shlex.split is outside
\* dispatch's try.  ConfigPayload.pack (validate, then struct.pack) comes before
\* _require_client.
Raises(o) ==
  CASE o.do = "unparsed" -> "UncaughtValueError"
    [] o.do = "bad_input" -> "ValueError"
    [] o.do = "config" /\ ~Wire!ValidConfig(WireConfig(o)) -> "ProtocolError"
    [] o.do = "config" /\ Wire!ValidConfig(WireConfig(o)) /\ ~Wire!PacksConfig(WireConfig(o)) ->
         "struct.error"
    [] OTHER -> IF IsConnected THEN "none" ELSE "BleClientError"

RunTo_SkipsInvalid(c, n, ops, k, overlapping) ==
  LET next == IF k <= Len(ops) /\ Raises(ops[k]) = "ProtocolError" THEN k + 1 ELSE k
  IN  /\ at' = [at EXCEPT ![c] = next]
      /\ IF next > Len(ops) THEN Answer(c, n, overlapping, "ok")
         ELSE IF Raises(ops[next]) # "none" THEN Answer(c, n, overlapping, Raises(ops[next]))
         ELSE Send(c, overlapping)

\* The task of request n runs on to operation k: the end of the request, an exception, or
\* the operation handed to the host.
RunTo(c, n, ops, k, overlapping) ==
  /\ at' = [at EXCEPT ![c] = k]
  /\ CASE k > Len(ops) \/ (ops[k].do = "poll" /\ ~IsConnected) ->
            \/ Answer(c, n, overlapping, "ok")
            \/ Announces(ops) /\ Broadcast(c, overlapping)
       [] k <= Len(ops) /\ ops[k].do # "poll" /\ Raises(ops[k]) # "none" ->
            Answer(c, n, overlapping, Raises(ops[k]))
       [] OTHER -> Send(c, overlapping)

\* A request comes in: an HTTP request, a line of the shell, a script past its connect.
Begin(c) ==
  /\ begun < MaxRequests
  /\ c \in Tasks /\ ~Pends(c) /\ ~Broadcasts(c) /\ ~ended
  /\ frontend \in DOMAIN Scripts => IsConnected /\ begun = 0
  /\ \E ops \in FrontendRequests :
       LET rivals == { d \in Clients \ {c} : Pends(d) /\ SetsOf(request[d]) \cap SetsOf(ops) # {} }
           overlapping == IF rivals = {} THEN {}
                          ELSE {begun + 1} \cup { number[d] : d \in rivals }
       IN  /\ request' = [request EXCEPT ![c] = ops]
           /\ RunTo(c, begun + 1, ops, 1, overlapping)
  /\ begun' = begun + 1
  /\ number' = [number EXCEPT ![c] = begun + 1]
  /\ executed' = [executed EXCEPT ![c] = {}]
  /\ cut' = [cut EXCEPT ![c] = ~IsConnected]
  /\ UNCHANGED << vars, frontend, written >>

-----------------------------------------------------------------------------
(* The host and the device *)

\* What the device does with operation o, and the answer it gives.
Serve(o, answer) ==
  CASE o.do = "config" ->
         IF Wire!BslConfigIsValid(WireConfig(o))
         THEN WriteConfig([op |-> o.op, value |-> o.value]) /\ answer = "done"
         ELSE WriteConfigRejected /\ answer = "refused"
    [] o.do = "control" -> WriteControl(o.command) /\ answer = "done"
    [] o.do = "notify" -> SensorCccChanged(o.value) /\ answer = "done"
    [] o.do = "malformed" ->
         /\ IF o.error = "INVALID_CONFIG" THEN WriteConfigRejected
            ELSE WriteControlRejected(o.error)
         /\ answer = "refused"
    [] OTHER -> UNCHANGED vars /\ answer = "done"

\* The head of the host's queue reaches the device, and its answer the PC.
DeviceServes ==
  /\ att # << >>
  /\ IsConnected
  /\ Len(events) < MaxLag
  /\ LET c == Head(att)
         o == request[c][at[c]]
     IN  \E answer \in {"done", "refused"} :
           /\ Serve(o, answer)
           /\ reply' = [reply EXCEPT ![c] = answer]
           /\ executed' = [executed EXCEPT ![c] =
                             IF answer = "done" THEN @ \cup {at[c]} ELSE @]
           /\ written' = IF o.do = "config" /\ answer = "done"
                         THEN [written EXCEPT ![o.op] = [value |-> o.value, by |-> number[c]]]
                         ELSE written
  /\ att' = Tail(att)
  /\ UNCHANGED << frontend, request, at, outcome, ended, begun, number, cut, disturbed,
                  blamed >>

Resume_MissesLost(c) ==
  /\ reply[c] \in {"done", "refused"}
  /\ IF reply[c] = "done" \/ request[c][at[c]].do = "malformed"
     THEN RunTo(c, number[c], request[c], at[c] + 1, {})
     ELSE Answer(c, number[c], {}, "refused") /\ UNCHANGED at
  /\ UNCHANGED << vars, frontend, request, begun, number, executed, written, cut >>

\* The task sees the answer: it goes on, or the exception ends the request.  The negative
\* script catches what its malformed writes raise.
Resume(c) ==
  /\ reply[c] # "none"
  /\ IF reply[c] = "done" \/ request[c][at[c]].do = "malformed"
     THEN RunTo(c, number[c], request[c], at[c] + 1, {})
     ELSE /\ Answer(c, number[c], {}, IF reply[c] = "lost" THEN "BleakError" ELSE "refused")
          /\ UNCHANGED at
  /\ UNCHANGED << vars, frontend, request, begun, number, executed, written, cut >>

-----------------------------------------------------------------------------
(* The broadcast *)

\* A send goes through: the broadcast is over, or suspends again at the next web socket
\* (no step here).  The set it iterates over may have changed its size meanwhile.
BroadcastEnds(c) ==
  /\ Broadcasts(c)
  /\ \E result \in IF disturbed[c] THEN {"ok", "RuntimeError"} ELSE {"ok"} :
       outcome' = [outcome EXCEPT ![c] = result]
  /\ UNCHANGED << vars, frontend, request, at, att, reply, ended, begun, number, executed,
                  written, cut, disturbed, blamed >>

\* A web socket opens or closes.
ViewersChange ==
  /\ disturbed' = [c \in Clients |-> disturbed[c] \/ Broadcasts(c)]
  /\ UNCHANGED << vars, taskVars, begun, number, executed, written, cut, blamed >>

-----------------------------------------------------------------------------
(* The link and control *)

LinkDrops_CountsAsDone ==
  /\ Disconnected
  /\ reply' = [c \in Clients |-> IF Pends(c) THEN "done" ELSE "none"]
  /\ att' = << >>
  /\ cut' = [c \in Clients |-> TRUE]
  /\ UNCHANGED << frontend, request, at, outcome, ended, begun, number, executed, written,
                  disturbed, blamed >>

\* The operations in the host fail, and so do those whose answer is still on its way.
LinkDrops ==
  /\ Disconnected
  /\ \E late \in SUBSET { c \in Clients : reply[c] # "none" } :
       reply' = [c \in Clients |->
                   IF c \in late \/ (Pends(c) /\ reply[c] = "none") THEN "lost" ELSE reply[c]]
  /\ att' = << >>
  /\ cut' = [c \in Clients |-> TRUE]
  /\ UNCHANGED << frontend, request, at, outcome, ended, begun, number, executed, written,
                  disturbed, blamed >>

ControlWorks == ProcessEvent /\ UNCHANGED requestVars

\* That advertising or a connection attempt may fail makes no difference to a request.
LinkReturns == (AdvertisingStarts \/ Connected) /\ UNCHANGED requestVars

RequestsNext ==
  \/ \E c \in Clients : Begin(c)
  \/ DeviceServes
  \/ \E c \in Clients : Resume(c)
  \/ \E c \in Clients : BroadcastEnds(c)
  \/ ViewersChange
  \/ LinkDrops
  \/ ControlWorks
  \/ LinkReturns

\* The Bluetooth stacks serve what they accepted, control handles its events, a web socket
\* takes or refuses what is sent to it, and the event loop resumes tasks whose future is
\* done (each of these steps changes the subscript).
RequestsFairness ==
  /\ WF_att(DeviceServes)
  /\ WF_events(ControlWorks)
  /\ WF_reply(\E c \in Clients : Resume(c))
  /\ WF_outcome(\E c \in Clients : BroadcastEnds(c))

RequestsSpec ==
  RequestsInit /\ [][RequestsNext]_<< vars, requestVars >> /\ RequestsFairness

-----------------------------------------------------------------------------
(* Properties *)

\* Type invariant: a task awaits exactly one operation, in the host's queue or
\* answered, while its request is pending, and none otherwise.
RequestsTypeOK ==
  /\ frontend \in Frontends
  /\ \A c \in Clients :
       /\ outcome[c] \in Caught \cup {"none", "pending", "broadcasting", "struct.error",
                                      "BleakError", "refused", "RuntimeError",
                                      "UncaughtValueError"}
       /\ reply[c] \in {"none", "done", "refused", "lost"}
       /\ executed[c] \subseteq DOMAIN request[c]
       /\ Pends(c) => at[c] \in DOMAIN request[c]
       /\ Pends(c) = (reply[c] # "none" \/ \E i \in DOMAIN att : att[i] = c)
       /\ Cardinality({ i \in DOMAIN att : att[i] = c }) = (IF Pends(c) /\ reply[c] = "none"
                                                            THEN 1 ELSE 0)
  /\ ended => frontend = "shell"
  /\ blamed \subseteq 1 .. begun

\* Parameters set together stay together: once control has handled the writes, the
\* sensors hold the last value the device accepted of each parameter, and values two
\* requests gave parameters of one group (the filter's, the gyro calibration's) are in
\* force side by side only if one of the two was answered an error or overlapped another.
MixtureIsExplained ==
  ~Pending("config_update") /\ (\A c \in Clients : ~Pends(c)) =>
    /\ \A op \in ConfigOps : params[op] = written[op].value
    /\ \A group \in {FilterOps, GyroOps} : \A op, other \in group \cap ConfigOps :
         \/ written[op].by = written[other].by
         \/ written[op].by \in blamed
         \/ written[other].by \in blamed

\* A success is never claimed for less than the whole, and what fails in its broadcast
\* is whole as well: when a request is answered ok, or with the RuntimeError of the
\* broadcast, the device has executed every operation of it that is not deliberately
\* malformed (or the page asked for the status with nothing connected).
AnsweredIsExecuted ==
  \A c \in Clients : outcome[c] \in {"ok", "broadcasting", "RuntimeError"} =>
    \A i \in DOMAIN request[c] :
      i \in executed[c] \/ request[c][i].do \in {"poll", "malformed"}

\* Every error has its cause.  The PC refuses only a config the device would refuse, the
\* device refuses nothing the PC packed, a command fails after the device executed it
\* only if a web socket opened or closed during its broadcast, and every other failure
\* needs a loss of the link during the request; the shell's loop ends by such a loss or
\* at a line shlex cannot split, and at no other error of a command.
ErrorsAreExplained ==
  /\ \A c \in Clients :
       /\ outcome[c] # "refused"
       /\ outcome[c] \in {"ProtocolError", "struct.error"} =>
            /\ request[c][at[c]].do = "config"
            /\ ~Wire!BslConfigIsValid(WireConfig(request[c][at[c]]))
       /\ outcome[c] = "ValueError" => BadInput \in { request[c][i] : i \in DOMAIN request[c] }
       /\ outcome[c] = "UncaughtValueError" =>
            Unparsed \in { request[c][i] : i \in DOMAIN request[c] }
       /\ outcome[c] \in {"BleClientError", "BleakError"} => cut[c]
       /\ outcome[c] = "RuntimeError" => disturbed[c]
  /\ ended => cut[Main] \/ outcome[Main] = "UncaughtValueError"

\* Every request is answered, whatever becomes of the link and of the web sockets.
RequestsEnd ==
  \A c \in Clients : (Pends(c) \/ Broadcasts(c)) ~> (~Pends(c) /\ ~Broadcasts(c))

=============================================================================
