---------------------------- MODULE WebBackend ----------------------------
(***************************************************************************)
(* The connection management of the PC backend: WebBackend (web_api.py),   *)
(* SensorLoggerApp (app_core.py) and BleSensorClient (ble_client.py) on    *)
(* one asyncio event loop.                                                 *)
(*                                                                         *)
(* A coroutine is the handler of a request, <<"handler", r>>, or the task  *)
(* a connect request creates, <<"task", r>>.  at[c] is the await it is     *)
(* suspended in.  The loop runs the coroutine at the head of ready up to   *)
(* its next await, which is one step; a completed I/O operation, a new     *)
(* request, a cancellation or the end of an awaited task appends to ready. *)
(* The disconnected callback of bleak runs between two such steps, before  *)
(* or after those already in ready.                                        *)
(*                                                                         *)
(* The BleakClient a connect request creates has the request's name.       *)
(*                                                                         *)
(* A definition X_Slip before X is X with a plausible slip, kept to show   *)
(* which property notices it.                                              *)
(***************************************************************************)
EXTENDS Naturals, Sequences, FiniteSets

CONSTANTS
  Connects,      \* POST /api/connect requests
  Cancels,       \* POST /api/connect/cancel requests
  Disconnects,   \* POST /api/disconnect requests
  Shutdowns,     \* the end of the program: aiohttp's on_shutdown, at most one
  NoClient,      \* None
  MaxViewers,    \* bound: open web sockets
  MaxChanges,    \* bound: web sockets that open or close
  MaxLosses,     \* bound: links lost
  MaxCrossings,  \* bound: requests that cross another
  MaxDisturbances  \* bound: the three together

Cancellers == Cancels \cup Shutdowns
Requests == Connects \cup Cancellers \cup Disconnects
Handler(r) == << "handler", r >>
Task(r) == << "task", r >>
Coroutines == { Handler(r) : r \in Requests } \cup { Task(r) : r \in Connects }

ASSUME BackendAssumption ==
  /\ Connects \cap Cancels = {} /\ Connects \cap Disconnects = {}
  /\ Cancels \cap Disconnects = {}
  /\ Shutdowns \cap (Connects \cup Cancels \cup Disconnects) = {}
  /\ NoClient \notin Connects
  /\ MaxViewers \in Nat /\ MaxChanges \in Nat /\ MaxLosses \in Nat
  /\ MaxCrossings \in Nat /\ MaxDisturbances \in Nat

VARIABLES
  \* the event loop
  ready,           \* coroutines to resume, with whether their await succeeded
  at,              \* where each coroutine is
  must_cancel,     \* tasks whose next resumption raises CancelledError
  awaiters,        \* per task: the coroutines awaiting it, in order
  waits,           \* per cancel request and shutdown: the task it cancelled
  outcome,         \* per task: how it ended, or the exception it is handling
  target,          \* the client a suspended call of bleak is about
  \* WebBackend
  connecting, connection_task, viewers,
  seen,            \* per connect request: size of websockets when its broadcast began
  \* SensorLoggerApp.state and BleSensorClient._client
  connected, monitoring, client,
  \* bleak and the device
  link,            \* per client: "none", "up" or "down"
  subscribed,      \* per client: notifications enabled
  \* history: web sockets that came or went, links lost, requests that crossed
  \* another, and the connect requests that the end of the program passes over
  changes, losses, crossings, spared

webVars  == << connecting, connection_task, viewers, seen >>
appVars  == << connected, monitoring, client >>
linkVars == << link, subscribed >>
histVars == << changes, losses, crossings, spared >>
vars == << ready, at, must_cancel, awaiters, waits, outcome, target,
           webVars, appVars, linkVars, histVars >>

TearingPlaces == {"undoing", "tearing"}
Awaits == {"body", "broadcasting", "scanning", "linking", "subscribing"} \cup TearingPlaces
Places == {"idle", "new", "awaiting", "done"} \cup Awaits
Outcomes == {"none", "ok", "error", "cancelled"}

Item(c, ok) == [of |-> c, ok |-> ok]
Queued(c) == \E i \in DOMAIN ready : ready[i].of = c
Done(c) == at[c] = "done"
InProgress(c) == at[c] \notin {"idle", "done"}

\* connection_task is not None and not done().
TaskInProgress == connection_task # NoClient /\ ~Done(Task(connection_task))

Init ==
  /\ ready = << >>
  /\ at = [c \in Coroutines |-> "idle"]
  /\ must_cancel = [r \in Connects |-> FALSE]
  /\ awaiters = [r \in Connects |-> << >>]
  /\ waits = [r \in Cancellers |-> NoClient]
  /\ outcome = [r \in Connects |-> "none"]
  /\ target = [c \in Coroutines |-> NoClient]
  /\ connecting = FALSE
  /\ connection_task = NoClient
  /\ viewers \in 0 .. MaxViewers
  /\ seen = [r \in Connects |-> 0]
  /\ connected = FALSE /\ monitoring = FALSE /\ client = NoClient
  /\ link = [r \in Connects |-> "none"]
  /\ subscribed = [r \in Connects |-> FALSE]
  /\ changes = 0 /\ losses = 0 /\ crossings = 0 /\ spared = {}

-----------------------------------------------------------------------------
(* Resuming and suspending coroutines *)

\* The loop resumes c, suspended in place, whose await gave ok.
Resume(c, place, ok) == at[c] = place /\ ready # << >> /\ Head(ready) = Item(c, ok)

\* c ends or suspends in place and wakes nothing.
Suspend(c, place) == at' = [at EXCEPT ![c] = place] /\ ready' = Tail(ready)

\* Slip: one slot for whoever awaits the task, which the last to come takes.
EndTask_OneWaiter(r, o) ==
  LET Last == awaiters[r][Len(awaiters[r])]
  IN  /\ at' = [at EXCEPT ![Task(r)] = "done"]
      /\ outcome' = [outcome EXCEPT ![r] = o]
      /\ ready' = Append(Tail(ready), Item(Last, TRUE))

\* Task(r) ends, having raised or returned o: those awaiting it are resumed.
EndTask(r, o) ==
  /\ at' = [at EXCEPT ![Task(r)] = "done"]
  /\ outcome' = [outcome EXCEPT ![r] = o]
  /\ ready' = Tail(ready) \o [i \in DOMAIN awaiters[r] |-> Item(awaiters[r][i], TRUE)]

\* What the await at which Task(r) is resumed raises, "none" if nothing.
Raised(r, ok) == IF must_cancel[r] THEN "cancelled" ELSE IF ok THEN "none" ELSE "error"

-----------------------------------------------------------------------------
(* SensorLoggerApp.state and BleSensorClient._client *)

HandleDisconnect_Monitoring == client' = NoClient /\ connected' = FALSE /\ UNCHANGED monitoring
HandleDisconnect_Connected == client' = NoClient /\ monitoring' = FALSE /\ UNCHANGED connected

\* BleSensorClient._handle_disconnect with SensorLoggerApp._on_disconnect, and
\* the end of SensorLoggerApp.disconnect.
HandleDisconnect == client' = NoClient /\ connected' = FALSE /\ monitoring' = FALSE

\* bleak closes or loses the link of r: of a link that is up, it runs the callback.
Drop(r) ==
  /\ link' = [link EXCEPT ![r] = "down"]
  /\ subscribed' = [subscribed EXCEPT ![r] = FALSE]
  /\ IF link[r] = "up" THEN HandleDisconnect ELSE UNCHANGED appVars

CallDisconnect_Unchecked(c) ==
  /\ Suspend(c, "tearing")
  /\ target' = [target EXCEPT ![c] = client]
  /\ UNCHANGED appVars

\* SensorLoggerApp.disconnect called by c suspends to close the current client, if any.
CallDisconnect(c) ==
  /\ client # NoClient
  /\ Suspend(c, "tearing")
  /\ target' = [target EXCEPT ![c] = client]
  /\ UNCHANGED appVars

-----------------------------------------------------------------------------
(* The outside: requests, completions, losses, web sockets *)

\* The page means to send a connect request when not connected and alone, a
\* cancel request beside a connect request only, and a disconnect request beside
\* neither.  Nothing enforces it: there may be several pages, a cancel request
\* answered cancelled: false and the end of a scan enable Connect again
\* (app.js:1238, 868), and Cancel stays enabled once pressed.  Disconnect does
\* too, but disconnect requests do not cross each other.
Crosses(r) ==
  \/ r \in Connects /\ (connected \/ \E q \in Connects \cup Disconnects : InProgress(Handler(q)))
  \/ r \in Cancels /\ \E q \in Cancels \cup Disconnects : InProgress(Handler(q))
  \/ r \in Disconnects /\ \E q \in Connects \cup Cancels : InProgress(Handler(q))

\* aiohttp takes no request once it is shutting down.
RequestArrives(r) ==
  /\ at[Handler(r)] = "idle" /\ \A s \in Shutdowns : at[Handler(s)] = "idle"
  /\ crossings' = IF Crosses(r) THEN crossings + 1 ELSE crossings
  /\ crossings' <= MaxCrossings /\ changes + losses + crossings' <= MaxDisturbances
  /\ at' = [at EXCEPT ![Handler(r)] = "new"]
  /\ ready' = Append(ready, Item(Handler(r), TRUE))
  /\ UNCHANGED << must_cancel, awaiters, waits, outcome, target, webVars, appVars,
                  linkVars, changes, losses, spared >>

\* The operation of the network or of bleak that c awaits ends.
Completes(c, ok) ==
  /\ at[c] \in Awaits /\ ~Queued(c)
  /\ ready' = Append(ready, Item(c, ok))
  /\ UNCHANGED << at, must_cancel, awaiters, waits, outcome, target, webVars, histVars >>

\* The body of a request arrives, a web socket drains, a scan ends: with
\* ok = FALSE when the scan failed or found no such device.
InputCompletes(c, ok) ==
  /\ at[c] \in IF ok THEN {"body", "broadcasting", "scanning"} ELSE {"scanning"}
  /\ Completes(c, ok)
  /\ UNCHANGED << appVars, linkVars >>

\* BleakClient.connect
LinkCompletes(r, ok) ==
  /\ at[Task(r)] = "linking"
  /\ Completes(Task(r), ok)
  /\ link' = [link EXCEPT ![r] = IF ok THEN "up" ELSE @]
  /\ UNCHANGED << appVars, subscribed >>

\* BleakClient.start_notify
SubscribeCompletes(r, ok) ==
  /\ at[Task(r)] = "subscribing"
  /\ ok => link[target[Task(r)]] = "up"
  /\ Completes(Task(r), ok)
  /\ subscribed' = [subscribed EXCEPT ![target[Task(r)]] = @ \/ ok]
  /\ UNCHANGED << appVars, link >>

\* BleakClient.disconnect
DropCompletes(c) == at[c] \in TearingPlaces /\ Completes(c, TRUE) /\ Drop(target[c])

LinkLost(r) ==
  /\ link[r] = "up" /\ losses < MaxLosses /\ changes + losses + crossings < MaxDisturbances
  /\ losses' = losses + 1
  /\ Drop(r)
  /\ UNCHANGED << ready, at, must_cancel, awaiters, waits, outcome, target, webVars, changes,
                  crossings, spared >>

\* A web socket opens or closes.
ViewersChange ==
  /\ changes < MaxChanges /\ changes + losses + crossings < MaxDisturbances
  /\ viewers' \in { viewers - 1, viewers + 1 } \cap 0 .. MaxViewers
  /\ changes' = changes + 1
  /\ UNCHANGED << ready, at, must_cancel, awaiters, waits, outcome, target, connecting,
                  connection_task, seen, appVars, linkVars, losses, crossings, spared >>

Completion ==
  \/ \E c \in Coroutines : DropCompletes(c) \/ \E ok \in BOOLEAN : InputCompletes(c, ok)
  \/ \E r \in Connects, ok \in BOOLEAN : LinkCompletes(r, ok) \/ SubscribeCompletes(r, ok)

-----------------------------------------------------------------------------
(* WebBackend.connect *)

\* asyncio.create_task(self._connect(target)), awaited.
CreateTask(r) ==
  /\ connection_task' = r
  /\ at' = [at EXCEPT ![Handler(r)] = "awaiting", ![Task(r)] = "new"]
  /\ awaiters' = [awaiters EXCEPT ![r] = Append(@, Handler(r))]
  /\ ready' = Append(Tail(ready), Item(Task(r), TRUE))

\* HTTP 409 if a connection task is in progress, else the body is awaited.
ConnectStarts(r) ==
  /\ Resume(Handler(r), "new", TRUE)
  /\ Suspend(Handler(r), IF TaskInProgress THEN "done" ELSE "body")
  /\ UNCHANGED << awaiters, webVars >>

\* Sending to a web socket suspends the handler when its buffer is full.
ConnectReadsBody(r) ==
  /\ Resume(Handler(r), "body", TRUE)
  /\ connecting' = TRUE
  /\ \/ CreateTask(r) /\ UNCHANGED seen
     \/ /\ viewers > 0
        /\ Suspend(Handler(r), "broadcasting")
        /\ seen' = [seen EXCEPT ![r] = viewers]
        /\ UNCHANGED << connection_task, awaiters >>
  /\ UNCHANGED viewers

\* The iteration over a set whose size changed raises RuntimeError, and this
\* broadcast is not inside the try.
ConnectBroadcasts(r) ==
  /\ Resume(Handler(r), "broadcasting", TRUE)
  /\ IF viewers = seen[r]
     THEN CreateTask(r)
     ELSE Suspend(Handler(r), "done") /\ UNCHANGED << connection_task, awaiters >>
  /\ UNCHANGED << connecting, viewers, seen >>

ConnectReturns_FlagKept(r) ==
  /\ Resume(Handler(r), "awaiting", TRUE)
  /\ connection_task' = IF connection_task = r THEN NoClient ELSE connection_task
  /\ Suspend(Handler(r), "done")
  /\ UNCHANGED << awaiters, connecting, viewers, seen >>

\* The task is done: the finally clause, its last broadcast and the reply.
ConnectReturns(r) ==
  /\ Resume(Handler(r), "awaiting", TRUE)
  /\ connection_task' = IF connection_task = r THEN NoClient ELSE connection_task
  /\ connecting' = FALSE
  /\ Suspend(Handler(r), "done")
  /\ UNCHANGED << awaiters, viewers, seen >>

Connect(r) ==
  /\ ConnectStarts(r) \/ ConnectReadsBody(r) \/ ConnectBroadcasts(r) \/ ConnectReturns(r)
  /\ UNCHANGED << must_cancel, waits, outcome, target, appVars, linkVars, histVars >>

-----------------------------------------------------------------------------
(* WebBackend._connect, the task *)

\* The except clause of _connect: disconnect, then raise o again.
TaskFails(r, o) ==
  \/ CallDisconnect(Task(r)) /\ outcome' = [outcome EXCEPT ![r] = o]
  \/ client = NoClient /\ HandleDisconnect /\ EndTask(r, o) /\ UNCHANGED target

\* BleSensorClient.connect knows the address: the new client replaces the old.
NewClient(r) ==
  /\ client' = r
  /\ Suspend(Task(r), "linking")
  /\ UNCHANGED << connected, monitoring, outcome, target >>

\* A cancelled task that has not started never runs its body.  A device given
\* by address is not scanned for.
TaskStarts(r) ==
  /\ Resume(Task(r), "new", TRUE)
  /\ \/ must_cancel[r] /\ EndTask(r, "cancelled") /\ UNCHANGED << target, appVars >>
     \/ ~must_cancel[r] /\ Suspend(Task(r), "scanning") /\ UNCHANGED << outcome, target, appVars >>
     \/ ~must_cancel[r] /\ NewClient(r)

TaskScanned(r, ok) ==
  /\ Resume(Task(r), "scanning", ok)
  /\ \/ Raised(r, ok) = "none" /\ NewClient(r)
     \/ Raised(r, ok) # "none" /\ TaskFails(r, Raised(r, ok))

\* The end of BleSensorClient.connect's except clause when r is not connected,
\* then that of _connect.
ConnectFails(r, o) ==
  \/ client \in { NoClient, r } /\ HandleDisconnect /\ EndTask(r, o) /\ UNCHANGED target
  \/ client \notin { NoClient, r } /\ TaskFails(r, o)

\* SensorLoggerApp.connect returns: start_monitoring, unless the state says that
\* notifications are on; it raises if the current client is not connected.
StartMonitoring(r) ==
  \/ monitoring /\ EndTask(r, "ok") /\ connected' = TRUE /\ UNCHANGED << monitoring, client, target >>
  \/ ~monitoring /\ client = NoClient /\ HandleDisconnect /\ EndTask(r, "error") /\ UNCHANGED target
  \/ /\ ~monitoring /\ client # NoClient
     /\ connected' = TRUE
     /\ target' = [target EXCEPT ![Task(r)] = client]
     /\ \/ link[client] = "up" /\ Suspend(Task(r), "subscribing") /\ UNCHANGED outcome
        \/ /\ link[client] # "up"
           /\ Suspend(Task(r), "tearing")
           /\ outcome' = [outcome EXCEPT ![r] = "error"]
     /\ UNCHANGED << monitoring, client >>

TaskLinked_NotUndone(r, ok) ==
  LET raised == IF link[r] # "up" /\ Raised(r, ok) = "none" THEN "error" ELSE Raised(r, ok)
  IN  /\ Resume(Task(r), "linking", ok)
      /\ \/ raised = "none" /\ StartMonitoring(r)
         \/ raised # "none" /\ ConnectFails(r, raised)

\* client.connect() returned, or raised: a client that is connected all the same
\* is disconnected.
TaskLinked(r, ok) ==
  LET raised == IF link[r] # "up" /\ Raised(r, ok) = "none" THEN "error" ELSE Raised(r, ok)
  IN  /\ Resume(Task(r), "linking", ok)
      /\ \/ raised = "none" /\ StartMonitoring(r)
         \/ /\ raised # "none" /\ link[r] = "up"
            /\ Suspend(Task(r), "undoing")
            /\ target' = [target EXCEPT ![Task(r)] = r]
            /\ outcome' = [outcome EXCEPT ![r] = raised]
            /\ UNCHANGED appVars
         \/ raised # "none" /\ link[r] # "up" /\ ConnectFails(r, raised)

\* That disconnection returned or was cancelled.
TaskUndone(r) ==
  /\ Resume(Task(r), "undoing", TRUE)
  /\ ConnectFails(r, IF must_cancel[r] THEN "cancelled" ELSE outcome[r])

TaskSubscribed(r, ok) ==
  /\ Resume(Task(r), "subscribing", ok)
  /\ \/ /\ Raised(r, ok) = "none"
        /\ monitoring' = TRUE
        /\ EndTask(r, "ok")
        /\ UNCHANGED << connected, client, target >>
     \/ Raised(r, ok) # "none" /\ TaskFails(r, Raised(r, ok))

\* Cancelled while it disconnects, the task leaves the state as it is.
TaskTornDown(r) ==
  /\ Resume(Task(r), "tearing", TRUE)
  /\ \/ must_cancel[r] /\ EndTask(r, "cancelled") /\ UNCHANGED appVars
     \/ ~must_cancel[r] /\ EndTask(r, outcome[r]) /\ HandleDisconnect
  /\ UNCHANGED target

\* CancelledError is delivered once.
RunTask(r) ==
  /\ \/ TaskStarts(r) \/ TaskUndone(r) \/ TaskTornDown(r)
     \/ \E ok \in BOOLEAN : TaskScanned(r, ok) \/ TaskLinked(r, ok) \/ TaskSubscribed(r, ok)
  /\ must_cancel' = [must_cancel EXCEPT ![r] = FALSE]
  /\ UNCHANGED << awaiters, waits, webVars, linkVars, histVars >>

-----------------------------------------------------------------------------
(* WebBackend.cancel_connect and disconnect *)

\* Task.cancel(): what t awaits is cancelled, and t is resumed to raise.
Cancel(t) ==
  /\ must_cancel' = [must_cancel EXCEPT ![t] = TRUE]
  /\ ready' = IF Queued(Task(t)) THEN Tail(ready) ELSE Append(Tail(ready), Item(Task(t), TRUE))

CancelsTask(r) ==
  /\ TaskInProgress
  /\ Cancel(connection_task)
  /\ waits' = [waits EXCEPT ![r] = connection_task]
  /\ awaiters' = [awaiters EXCEPT ![connection_task] = Append(@, Handler(r))]
  /\ at' = [at EXCEPT ![Handler(r)] = "awaiting"]

CancelStarts(r) ==
  /\ Resume(Handler(r), "new", TRUE)
  /\ \/ CancelsTask(r)
     \/ /\ ~TaskInProgress
        /\ Suspend(Handler(r), "done")
        /\ UNCHANGED << waits, must_cancel, awaiters >>
  /\ UNCHANGED << target, appVars >>

\* SensorLoggerApp.disconnect called by a request's handler.
HandlerDisconnects(r) ==
  \/ CallDisconnect(Handler(r))
  \/ client = NoClient /\ HandleDisconnect /\ Suspend(Handler(r), "done") /\ UNCHANGED target

CancelResumes_TaskTrusted(r) ==
  /\ Resume(Handler(r), "awaiting", TRUE)
  /\ Suspend(Handler(r), "done")
  /\ UNCHANGED << target, appVars, must_cancel, awaiters, waits >>

\* The cancelled task ended; an error of its own is raised to the caller.
CancelResumes(r) ==
  /\ Resume(Handler(r), "awaiting", TRUE)
  /\ \/ outcome[waits[r]] = "error" /\ Suspend(Handler(r), "done") /\ UNCHANGED << target, appVars >>
     \/ outcome[waits[r]] # "error" /\ HandlerDisconnects(r)
  /\ UNCHANGED << must_cancel, awaiters, waits >>

\* The connect requests shutdown cannot end: those that have not created their
\* task, and those a cancel request is undoing, which a second cancellation of
\* the task would interrupt.
Unaccounted ==
  { q \in Connects : at[Handler(q)] \in {"new", "body", "broadcasting"} }
    \cup { q \in Connects : \E x \in Cancels : InProgress(Handler(x)) /\ waits[x] = q }

\* Slip: the program ends without a word to the device.
ShutdownStarts_TaskOnly(r) ==
  /\ Resume(Handler(r), "new", TRUE)
  /\ spared' = Unaccounted
  /\ \/ CancelsTask(r) /\ UNCHANGED << target, appVars >>
     \/ /\ ~TaskInProgress
        /\ Suspend(Handler(r), "done")
        /\ UNCHANGED << target, appVars, waits, must_cancel, awaiters >>

\* WebBackend.shutdown: cancel_connect's cancellation, or else a disconnection.
ShutdownStarts(r) ==
  /\ Resume(Handler(r), "new", TRUE)
  /\ spared' = Unaccounted
  /\ \/ CancelsTask(r) /\ UNCHANGED << target, appVars >>
     \/ /\ ~TaskInProgress
        /\ \/ connected /\ HandlerDisconnects(r)
           \/ ~connected /\ Suspend(Handler(r), "done") /\ UNCHANGED << target, appVars >>
        /\ UNCHANGED << waits, must_cancel, awaiters >>

DisconnectStarts(r) ==
  /\ Resume(Handler(r), "new", TRUE)
  /\ HandlerDisconnects(r)
  /\ UNCHANGED << must_cancel, awaiters, waits >>

HandlerTornDown(r) ==
  /\ Resume(Handler(r), "tearing", TRUE)
  /\ HandleDisconnect
  /\ Suspend(Handler(r), "done")
  /\ UNCHANGED << must_cancel, awaiters, waits, target >>

EndConnection(r) ==
  /\ \/ r \in Shutdowns /\ ShutdownStarts(r)
     \/ /\ \/ r \in Cancels /\ CancelStarts(r)
           \/ r \in Cancellers /\ CancelResumes(r)
           \/ r \in Disconnects /\ DisconnectStarts(r)
           \/ HandlerTornDown(r)
        /\ UNCHANGED spared
  /\ UNCHANGED << outcome, webVars, linkVars, changes, losses, crossings >>

-----------------------------------------------------------------------------

LoopStep ==
  \/ \E r \in Connects : Connect(r) \/ RunTask(r)
  \/ \E r \in Cancellers \cup Disconnects : EndConnection(r)

Next ==
  \/ \E r \in Requests : RequestArrives(r)
  \/ Completion
  \/ \E r \in Connects : LinkLost(r)
  \/ ViewersChange
  \/ LoopStep

Spec == Init /\ [][Next]_vars

(* The loop runs what is ready.  Every operation of bleak ends: scans, and     *)
(* connections have timeouts, and GATT requests end with the ATT timeout or    *)
(* the link.  A request, a loss or a web socket may never come.                *)
FairSpec == Spec /\ WF_vars(LoopStep) /\ WF_vars(Completion)

-----------------------------------------------------------------------------
(* Properties *)

Idle == \A c \in Coroutines : ~InProgress(c)

\* The state is well formed: each coroutine that is ready is in progress and is
\* there once, and one that waits for bleak or for a task has one to wait for.
TypeOK ==
  /\ ready \in Seq([of : Coroutines, ok : BOOLEAN])
  /\ \A i, j \in DOMAIN ready : ready[i].of = ready[j].of => i = j
  /\ \A i \in DOMAIN ready : InProgress(ready[i].of)
  /\ at \in [Coroutines -> Places]
  /\ must_cancel \in [Connects -> BOOLEAN]
  /\ awaiters \in [Connects -> Seq(Coroutines)]
  /\ waits \in [Cancellers -> Connects \cup {NoClient}]
  /\ \A r \in Cancellers : at[Handler(r)] = "awaiting" => waits[r] # NoClient
  /\ outcome \in [Connects -> Outcomes]
  /\ target \in [Coroutines -> Connects \cup {NoClient}]
  /\ \A c \in Coroutines : at[c] \in TearingPlaces \cup {"subscribing"} => target[c] # NoClient
  /\ connecting \in BOOLEAN /\ connection_task \in Connects \cup {NoClient}
  /\ viewers \in 0 .. MaxViewers /\ seen \in [Connects -> 0 .. MaxViewers]
  /\ connected \in BOOLEAN /\ monitoring \in BOOLEAN
  /\ client \in Connects \cup {NoClient}
  /\ link \in [Connects -> {"none", "up", "down"}]
  /\ subscribed \in [Connects -> BOOLEAN]
  /\ changes \in 0 .. MaxChanges /\ losses \in 0 .. MaxLosses
  /\ crossings \in 0 .. MaxCrossings /\ spared \subseteq Connects

\* At most one connection task is in progress (WebBackend.connect answers 409 to
\* a request made while there is one).
OneConnectTask == Cardinality({ r \in Connects : InProgress(Task(r)) }) <= 1

\* The page shows "Connecting..." only while a connect request is in progress.
ConnectingIsTrue == connecting => \E r \in Connects : InProgress(Handler(r))

\* ConnectingIsTrue, as long as no web socket opens or closes: whoever cancels,
\* and whatever bleak answers, connect's finally clears the flag it set.
OnlyViewersLeaveConnecting == changes = 0 => ConnectingIsTrue

\* Once every request is answered, AppState.connected is whether the current
\* client has a link, as long as no request crosses another: connect, disconnect
\* and the callback agree, whatever fails, is lost or is cancelled.
ConnectedIsTrue ==
  crossings = 0 /\ Idle => (connected <=> client # NoClient /\ link[client] = "up")

\* AppState.monitoring is true only while the current client notifies: _connect
\* skips start_monitoring when it is true.
MonitoringMeansSubscribed == monitoring => client # NoClient /\ subscribed[client]

\* MonitoringMeansSubscribed, as long as no link is lost and no request crosses
\* another: an attempt cancelled or failed at any of its awaits does not leave
\* the flag.
OnlyLossesLeaveMonitoring == losses = 0 /\ crossings = 0 => MonitoringMeansSubscribed

\* Once every request is answered, a link that is up is that of the current
\* client, which the Disconnect button can close, and the state says connected.
NoOrphanLink == Idle => \A r \in Connects : link[r] = "up" => client = r /\ connected

\* NoOrphanLink, as long as no link is lost, no request crosses another and the
\* program does not end while a connection is made: cancellation at any await,
\* even after bleak has connected, leaves no link without an owner.
OnlyLossesOrphan == losses = 0 /\ crossings = 0 /\ spared = {} => NoOrphanLink

\* A connect request that a cancel request interrupted leaves no link behind
\* once both are answered, and the end of the program leaves none at all, as
\* long as no link is lost (a loss during the cancellation lets a new connect
\* in, see NoOrphanLink) and no request crosses another.  Only a connect request
\* whose task did not exist when shutdown looked for it (web_api.py:324), or
\* whose clean-up it interrupted, may keep its link.
NoResidualConnection ==
  losses = 0 /\ crossings = 0 =>
    /\ \A x \in Cancels :
         waits[x] \in Connects \ spared /\ Done(Handler(x)) /\ Done(Handler(waits[x]))
           => link[waits[x]] # "up"
    /\ \A s \in Shutdowns : Done(Handler(s)) => \A r \in Connects \ spared : link[r] # "up"

\* Unless a web socket opens or closes, the backend never stays connecting: each
\* connection attempt ends, whatever bleak answers and whoever cancels it, and
\* another can then be made.
AttemptsEnd == connecting ~> changes > 0 \/ (~connecting /\ ~TaskInProgress)
=============================================================================
