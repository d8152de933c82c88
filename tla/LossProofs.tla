----------------------------- MODULE LossProofs -----------------------------
(***************************************************************************)
(* What the backend guarantees as long as no link is lost and no request   *)
(* crosses another: cancellation, at whichever await it strikes, leaves no *)
(* flag set, no link without an owner and nothing of what was cancelled.   *)
(*                                                                         *)
(* The four invariants are kept together, by the same steps:               *)
(*   FifoInv  a disconnection under way is alone with the current client;  *)
(*   MonInv   a task that makes a connection has the current client;       *)
(*   LinkInv  a link that is up is the current client's, or passed over by *)
(*            the end of the program;                                      *)
(*   EndInv   whoever cancelled a task leaves after it, and its client is  *)
(*            then gone.                                                   *)
(***************************************************************************)
EXTENDS WebBackendProofs

-----------------------------------------------------------------------------
(* What the queue says of an await that has ended *)

\* The await of c has given ok, and c is yet to see it.
Has(q, c, ok) == \E i \in DOMAIN q : q[i].of = c /\ q[i].ok = ok

LEMMA HasIn ==
  ASSUME NEW q \in Queue, NEW c
  PROVE  In(q, c) <=> Has(q, c, TRUE) \/ Has(q, c, FALSE)
<1> DEFINE Items == [of : Coroutines, ok : BOOLEAN]
<1>1. q \in Seq(Items) BY DEF Queue
<1> HIDE DEF Items
<1>2. \A i \in DOMAIN q : q[i] \in Items BY <1>1
<1>3. \A i \in DOMAIN q : q[i].ok \in BOOLEAN BY <1>2 DEF Items
<1> QED BY <1>3 DEF In, Has

LEMMA HasTail ==
  ASSUME NEW q \in Queue, q # << >>, Distinct(q), NEW c, NEW ok
  PROVE  /\ Has(Tail(q), c, ok) <=> Has(q, c, ok) /\ c # Head(q).of
         /\ Has(q, c, ok) /\ c = Head(q).of => ok = Head(q).ok
<1>1. /\ Len(q) \in Nat /\ Len(q) > 0
      /\ DOMAIN Tail(q) = 1 .. Len(q) - 1
      /\ \A i \in DOMAIN Tail(q) : Tail(q)[i] = q[i + 1]
      /\ Head(q) = q[1] /\ DOMAIN q = 1 .. Len(q)
  <2> DEFINE Items == [of : Coroutines, ok : BOOLEAN]
  <2>1. q \in Seq(Items) BY DEF Queue
  <2> HIDE DEF Items
  <2>2. Len(q) \in Nat /\ Len(q) > 0 /\ DOMAIN q = 1 .. Len(q) BY <2>1
  <2>3. Tail(q) \in Seq(Items) /\ Len(Tail(q)) = Len(q) - 1 BY <2>1, <2>2
  <2>4. DOMAIN Tail(q) = 1 .. Len(q) - 1 BY <2>3
  <2>5. \A i \in DOMAIN Tail(q) : Tail(q)[i] = q[i + 1] BY <2>1, <2>4
  <2>6. Head(q) = q[1] BY <2>1, <2>2
  <2> QED BY <2>2, <2>4, <2>5, <2>6
<1>2. \A i \in DOMAIN q : q[i].of = Head(q).of => i = 1 BY <1>1 DEF Distinct
<1>3. ASSUME Has(Tail(q), c, ok) PROVE Has(q, c, ok) /\ c # Head(q).of
  <2>1. PICK i \in DOMAIN Tail(q) : Tail(q)[i].of = c /\ Tail(q)[i].ok = ok BY <1>3 DEF Has
  <2>2. i + 1 \in DOMAIN q /\ q[i + 1].of = c /\ q[i + 1].ok = ok /\ i + 1 # 1 BY <1>1, <2>1
  <2> QED BY <1>2, <2>2 DEF Has
<1>4. ASSUME Has(q, c, ok), c # Head(q).of PROVE Has(Tail(q), c, ok)
  <2>1. PICK i \in DOMAIN q : q[i].of = c /\ q[i].ok = ok BY <1>4 DEF Has
  <2>2. i # 1 BY <1>1, <1>4, <2>1
  <2>3. i - 1 \in DOMAIN Tail(q) /\ Tail(q)[i - 1].of = c /\ Tail(q)[i - 1].ok = ok
    BY <1>1, <2>1, <2>2
  <2> QED BY <2>3 DEF Has
<1>5. ASSUME Has(q, c, ok), c = Head(q).of PROVE ok = Head(q).ok
  <2>1. PICK i \in DOMAIN q : q[i].of = c /\ q[i].ok = ok BY <1>5 DEF Has
  <2> QED BY <1>1, <1>2, <1>5, <2>1
<1> QED BY <1>3, <1>4, <1>5

LEMMA HasAppend ==
  ASSUME NEW q \in Queue, NEW c \in Coroutines, NEW ok \in BOOLEAN, NEW d, NEW okd
  PROVE  Has(Append(q, Item(c, ok)), d, okd) <=> Has(q, d, okd) \/ (d = c /\ okd = ok)
<1> DEFINE p == Append(q, Item(c, ok))
<1>1. /\ Len(q) \in Nat /\ DOMAIN q = 1 .. Len(q) /\ DOMAIN p = 1 .. Len(q) + 1
      /\ \A i \in DOMAIN q : p[i] = q[i]
      /\ p[Len(q) + 1].of = c /\ p[Len(q) + 1].ok = ok
  BY DEF Queue, Item
<1> HIDE DEF p
<1>2. ASSUME Has(p, d, okd) PROVE Has(q, d, okd) \/ (d = c /\ okd = ok)
  <2>1. PICK i \in DOMAIN p : p[i].of = d /\ p[i].ok = okd BY <1>2 DEF Has
  <2>2. CASE i \in DOMAIN q BY <1>1, <2>1, <2>2 DEF Has
  <2>3. CASE i \notin DOMAIN q
    <3>1. i = Len(q) + 1 BY <1>1, <2>3
    <3> QED BY <1>1, <2>1, <3>1
  <2> QED BY <2>2, <2>3
<1>3. ASSUME Has(q, d, okd) PROVE Has(p, d, okd)
  <2>1. PICK i \in DOMAIN q : q[i].of = d /\ q[i].ok = okd BY <1>3 DEF Has
  <2>2. i \in DOMAIN p /\ p[i].of = d /\ p[i].ok = okd BY <1>1, <2>1
  <2> QED BY <2>2 DEF Has
<1>4. Len(q) + 1 \in DOMAIN p BY <1>1
<1>5. Has(p, c, ok) BY <1>1, <1>4 DEF Has
<1> QED BY <1>2, <1>3, <1>5 DEF p

LEMMA HasConcat ==
  ASSUME NEW q \in Queue, NEW v \in Queue, NEW d, NEW okd
  PROVE  Has(q \o v, d, okd) <=> Has(q, d, okd) \/ Has(v, d, okd)
<1> DEFINE Items == [of : Coroutines, ok : BOOLEAN]
           p == q \o v
<1>0. q \in Seq(Items) /\ v \in Seq(Items) BY DEF Queue
<1> HIDE DEF Items
<1>1. Len(q) \in Nat /\ Len(v) \in Nat /\ DOMAIN q = 1 .. Len(q) /\ DOMAIN v = 1 .. Len(v)
  BY <1>0
<1>2. p \in Seq(Items) /\ Len(p) = Len(q) + Len(v) BY <1>0
<1>3. \A i \in 1 .. Len(p) : p[i] = IF i <= Len(q) THEN q[i] ELSE v[i - Len(q)]
  BY <1>0, <1>1, <1>2
<1>4. DOMAIN p = 1 .. Len(q) + Len(v) BY <1>2
<1> HIDE DEF p
<1>5. \A i \in DOMAIN q : i \in DOMAIN p /\ p[i] = q[i] BY <1>1, <1>2, <1>3, <1>4
<1>6. \A i \in DOMAIN p : i \notin DOMAIN q => i - Len(q) \in DOMAIN v /\ p[i] = v[i - Len(q)]
  BY <1>1, <1>2, <1>3, <1>4
<1>7. \A i \in DOMAIN v : Len(q) + i \in DOMAIN p /\ p[Len(q) + i] = v[i]
  BY <1>1, <1>2, <1>3, <1>4
<1>8. ASSUME Has(p, d, okd) PROVE Has(q, d, okd) \/ Has(v, d, okd)
  <2>1. PICK i \in DOMAIN p : p[i].of = d /\ p[i].ok = okd BY <1>8 DEF Has
  <2>2. CASE i \in DOMAIN q BY <1>5, <2>1, <2>2 DEF Has
  <2>3. CASE i \notin DOMAIN q BY <1>6, <2>1, <2>3 DEF Has
  <2> QED BY <2>2, <2>3
<1>9. ASSUME Has(q, d, okd) PROVE Has(p, d, okd)
  <2>1. PICK i \in DOMAIN q : q[i].of = d /\ q[i].ok = okd BY <1>9 DEF Has
  <2> QED BY <1>5, <2>1 DEF Has
<1>10. ASSUME Has(v, d, okd) PROVE Has(p, d, okd)
  <2>1. PICK i \in DOMAIN v : v[i].of = d /\ v[i].ok = okd BY <1>10 DEF Has
  <2> QED BY <1>7, <2>1 DEF Has
<1> QED BY <1>8, <1>9, <1>10 DEF p


\* Whom a step makes ready: a new coroutine, those a task wakes, or the task it
\* cancels.
Readied(c) ==
  \/ at'[c] = "new"
  \/ at[c] = "awaiting"
  \/ \E h \in Cancellers : Interrupts(h) /\ c = Task(connection_task) /\ ~In(ready, c)

\* The steps that resume a coroutine.
Resumes ==
  \/ \E r \in Connects : ConnectMoves(r) \/ TaskMoves(r) \/ Creates(r) \/ Ends(r)
  \/ \E r \in Cancellers \cup Disconnects : OtherMoves(r)
  \/ \E r \in Cancellers : Interrupts(r)

\* Only its own resumption takes a coroutine from the queue, and then it is not
\* there until its next await ends.
LEMMA ReadyAfter ==
  ASSUME LoopInv, Resumes
  PROVE  /\ \A c, ok : Has(ready, c, ok) /\ ~Runs(c) => Has(ready', c, ok)
         /\ \A c \in Coroutines, ok \in BOOLEAN : Has(ready', c, ok) =>
              Has(ready, c, ok) \/ (Readied(c) /\ ok = TRUE)
         /\ \A c \in Coroutines : at'[c] # at[c] /\ at'[c] # "new" => ~In(ready', c)
<1> DEFINE Kept == \A c, ok : Has(ready, c, ok) /\ ~Runs(c) => Has(ready', c, ok)
           Came(c, ok) == Has(ready, c, ok) \/ (Readied(c) /\ ok = TRUE)
           Known == \A c \in Coroutines, ok \in BOOLEAN : Has(ready', c, ok) => Came(c, ok)
           Gone == \A c \in Coroutines : at'[c] # at[c] /\ at'[c] # "new" => ~In(ready', c)
<1> SUFFICES Kept /\ Known /\ Gone OBVIOUS
<1>1. ready \in Queue /\ Distinct(ready) BY DEF LoopInv, ReadyOK
<1>2. ASSUME NEW c, Runs(c)
      PROVE  /\ Tail(ready) \in Queue /\ Distinct(Tail(ready)) /\ In(ready, c)
             /\ \A d, ok : Has(Tail(ready), d, ok) <=> Has(ready, d, ok) /\ d # c
             /\ \A d : In(Tail(ready), d) <=> In(ready, d) /\ d # c
             /\ \A d : Runs(d) <=> d = c
  <2>1. ready # << >> /\ Head(ready).of = c BY <1>2 DEF Runs
  <2>2. \A d : Runs(d) <=> d = c BY <2>1 DEF Runs
  <2> QED BY <1>1, <2>1, <2>2, QueueTail, HasTail
<1>3. /\ \A c, ok : Has(ready, c, ok) => Came(c, ok)
      /\ \A c : Readied(c) => Came(c, TRUE)
  BY Zenon
<1> HIDE DEF Came
\* The three ways in which a step leaves the queue.
<1>4. ASSUME NEW c, Runs(c), ready' = Tail(ready) PROVE Kept /\ Known BY <1>2, <1>3, <1>4
<1>5. ASSUME NEW c, NEW d \in Coroutines, Runs(c), Readied(d),
             ready' = Append(Tail(ready), Item(d, TRUE))
      PROVE  Kept /\ Known
  <2>1. \A e, ok : Has(ready', e, ok) <=> Has(Tail(ready), e, ok) \/ (e = d /\ ok = TRUE)
    BY <1>2, <1>5, HasAppend
  <2> QED BY <1>2, <1>3, <1>5, <2>1
\* Where those that are resumed go.
<1>6. ASSUME NEW c \in Coroutines, NEW place, at' = [at EXCEPT ![c] = place],
             ready' = Tail(ready), Runs(c)
      PROVE  Gone
  BY <1>2, <1>6 DEF LoopInv, LoopTypes
<1>7. ASSUME NEW r \in Connects, ConnectMoves(r) PROVE Kept /\ Known /\ Gone
  BY <1>4, <1>6, <1>7, CoroutineNames DEF ConnectMoves, Suspend
<1>8. ASSUME NEW r \in Connects, TaskMoves(r) PROVE Kept /\ Known /\ Gone
  BY <1>4, <1>6, <1>8, CoroutineNames DEF TaskMoves, Suspend
<1>9. ASSUME NEW r \in Cancellers \cup Disconnects, OtherMoves(r) PROVE Kept /\ Known /\ Gone
  BY <1>4, <1>6, <1>9, CoroutineNames DEF OtherMoves, Suspend
<1>10. ASSUME NEW r \in Connects, Creates(r) PROVE Kept /\ Known /\ Gone
  <2>1. /\ Task(r) \in Coroutines /\ Handler(r) \in Coroutines /\ Handler(r) # Task(r)
        /\ Runs(Handler(r))
        /\ ready' = Append(Tail(ready), Item(Task(r), TRUE))
        /\ at' = [at EXCEPT ![Handler(r)] = "awaiting", ![Task(r)] = "new"]
    BY <1>10, CoroutineNames DEF Creates, CreateTask
  <2>2. /\ at'[Task(r)] = "new"
        /\ \A c \in Coroutines : c \notin {Handler(r), Task(r)} => at'[c] = at[c]
    BY <2>1 DEF LoopInv, LoopTypes
  <2>3. Kept /\ Known BY <1>5, <2>1, <2>2 DEF Readied
  <2>4. ~In(ready', Handler(r))
    <3>1. \A e, ok : Has(ready', e, ok) <=>
                       Has(Tail(ready), e, ok) \/ (e = Task(r) /\ ok = TRUE)
      BY <1>2, <2>1, HasAppend
    <3>2. ready' \in Queue
      <4>1. at[Task(r)] = "idle" BY <1>10 DEF Creates, LoopInv, TasksOK
      <4>2. ~In(Tail(ready), Task(r)) BY <1>2, <2>1, <4>1 DEF LoopInv, ReadyOK, InProgress
      <4> QED BY <1>2, <2>1, <4>2, QueueAppend
    <3> QED BY <1>2, <2>1, <3>1, <3>2, HasIn
  <2> QED BY <2>2, <2>3, <2>4
<1>11. ASSUME NEW r \in Connects, Ends(r) PROVE Kept /\ Known /\ Gone
  <2> DEFINE v == [i \in DOMAIN awaiters[r] |-> Item(awaiters[r][i], TRUE)]
  <2>1. /\ Runs(Task(r)) /\ ready' = Tail(ready) \o v
        /\ at' = [at EXCEPT ![Task(r)] = "done"] /\ Task(r) \in Coroutines
    BY <1>11, CoroutineNames DEF Ends, EndTask
  <2>2. ~Done(Task(r)) BY <1>2, <2>1 DEF LoopInv, ReadyOK, InProgress, Done
  <2>3. v \in Queue /\ Distinct(v) /\ \A c : In(v, c) <=> IsAwaiter(c, r)
    BY <2>2, AwaitersOf, QueueOf DEF IsAwaiter
  <2>4. \A c, ok : Has(v, c, ok) => at[c] = "awaiting" /\ ok = TRUE
    <3>1. \A i \in DOMAIN v : v[i].ok = TRUE BY DEF Item
    <3>2. \A c, ok : Has(v, c, ok) => In(v, c) BY DEF Has, In
    <3>3. \A c, ok : Has(v, c, ok) => ok = TRUE BY <3>1 DEF Has
    <3>4. \A c : In(v, c) => at[c] = "awaiting" BY <2>2, <2>3, AwaiterIsSuspended
    <3> QED BY <3>2, <3>3, <3>4
  <2> HIDE DEF v
  <2>5. \A c, ok : Has(ready', c, ok) <=> Has(Tail(ready), c, ok) \/ Has(v, c, ok)
    BY <1>2, <2>1, <2>3, HasConcat
  <2>6. Kept BY <1>2, <2>1, <2>5
  <2>7. Known
    <3> SUFFICES ASSUME NEW c \in Coroutines, NEW ok \in BOOLEAN, Has(ready', c, ok)
                 PROVE  Came(c, ok)
      OBVIOUS
    <3>1. CASE Has(Tail(ready), c, ok) BY <1>2, <1>3, <2>1, <3>1
    <3>2. CASE Has(v, c, ok)
      <4>1. Readied(c) /\ ok = TRUE BY <2>4, <3>2 DEF Readied
      <4> QED BY <1>3, <4>1
    <3> QED BY <2>5, <3>1, <3>2
  <2>8. Gone
    <3>1. \A c \in Coroutines : c # Task(r) => at'[c] = at[c] BY <2>1 DEF LoopInv, LoopTypes
    <3>2. at[Task(r)] # "awaiting" BY DEF LoopInv, PlacesOK
    <3>3. \A c : ~(In(Tail(ready), c) /\ In(v, c)) BY <1>2, <2>1, <2>2, <2>3, AwaiterIsSuspended
    <3>4. \A c : In(ready', c) <=> In(Tail(ready), c) \/ In(v, c)
      BY <1>2, <2>1, <2>3, <3>3, QueueConcat
    <3>5. ~In(v, Task(r)) BY <2>2, <2>3, <3>2, AwaiterIsSuspended
    <3> QED BY <1>2, <2>1, <3>1, <3>4, <3>5
  <2> QED BY <2>6, <2>7, <2>8
<1>12. ASSUME NEW h \in Cancellers, Interrupts(h) PROVE Kept /\ Known /\ Gone
  <2>1. connection_task \in Connects /\ Runs(Handler(h)) /\ Handler(h) \in Coroutines
    BY <1>12, CoroutineNames DEF Interrupts, CancelsTask, TaskInProgress, LoopInv, LoopTypes
  <2>2. Task(connection_task) \in Coroutines /\ Task(connection_task) # Handler(h)
    BY <2>1, CoroutineNames
  <2>3. \/ ready' = Tail(ready)
        \/ /\ ~In(ready, Task(connection_task))
           /\ ready' = Append(Tail(ready), Item(Task(connection_task), TRUE))
    BY <1>12 DEF Interrupts, CancelsTask, Cancel, Queued, In
  <2>4. at' = [at EXCEPT ![Handler(h)] = "awaiting"] BY <1>12 DEF Interrupts, CancelsTask
  <2>5. CASE ready' = Tail(ready) BY <1>4, <1>6, <2>1, <2>4, <2>5
  <2>6. CASE /\ ~In(ready, Task(connection_task))
             /\ ready' = Append(Tail(ready), Item(Task(connection_task), TRUE))
    <3>1. Readied(Task(connection_task)) BY <1>12, <2>6 DEF Readied
    <3>2. Kept /\ Known BY <1>5, <2>1, <2>2, <2>6, <3>1
    <3>3. \A c \in Coroutines : c # Handler(h) => at'[c] = at[c]
      BY <2>1, <2>4 DEF LoopInv, LoopTypes
    <3>4. ~In(Tail(ready), Task(connection_task)) BY <1>2, <2>1, <2>6
    <3>5. ~In(ready', Handler(h)) BY <1>2, <2>1, <2>2, <2>6, <3>4, QueueAppend
    <3> QED BY <3>2, <3>3, <3>5
  <2> QED BY <2>3, <2>5, <2>6
<1> QED BY <1>7, <1>8, <1>9, <1>10, <1>11, <1>12 DEF Resumes

-----------------------------------------------------------------------------
(* What the handlers of cancel requests, disconnect requests and shutdown do *)

Enders == Cancellers \cup Disconnects

Interrupting(h) == h \in Cancellers /\ Interrupts(h) /\ UNCHANGED << target, appVars >>

\* It calls disconnect with a client to close.
Closing(h) ==
  /\ Runs(Handler(h)) /\ at[Handler(h)] \in {"new", "awaiting"}
  /\ at[Handler(h)] = "new" /\ h \in Cancellers => ~TaskInProgress
  /\ client # NoClient
  /\ Suspend(Handler(h), "tearing")
  /\ target' = [target EXCEPT ![Handler(h)] = client]
  /\ UNCHANGED << appVars, must_cancel, waits >>

\* It ends: with nothing to do, with the error of the task it cancelled, or
\* with no client.
Answering(h) ==
  /\ Runs(Handler(h))
  /\ Suspend(Handler(h), "done")
  /\ at[Handler(h)] = "new" /\ h \in Cancellers => ~TaskInProgress
  /\ \/ /\ at[Handler(h)] = "new" /\ h \in Cancellers /\ (h \in Shutdowns => ~connected)
        /\ UNCHANGED appVars
     \/ at[Handler(h)] = "awaiting" /\ outcome[waits[h]] = "error" /\ UNCHANGED appVars
     \/ at[Handler(h)] \in {"new", "awaiting"} /\ client = NoClient /\ HandleDisconnect
     \/ at[Handler(h)] = "tearing" /\ HandleDisconnect
  /\ UNCHANGED << target, must_cancel, waits >>

LEMMA EnderSteps ==
  ASSUME TypeOK, NEW h \in Enders, EndConnection(h)
  PROVE  /\ Interrupting(h) \/ Closing(h) \/ Answering(h)
         /\ spared' = IF h \in Shutdowns /\ at[Handler(h)] = "new" THEN Unaccounted ELSE spared
         /\ UNCHANGED << outcome, connection_task, link, subscribed, losses >>
<1>1. UNCHANGED << outcome, connection_task, link, subscribed, losses >>
  BY DEF EndConnection, webVars, linkVars
<1>2. h \in Cancels => h \notin Shutdowns BY RequestKinds
<1>3. h \in Disconnects => h \notin Shutdowns /\ h \notin Cancellers BY RequestKinds
<1>4. \A place : Resume(Handler(h), place, TRUE) => Runs(Handler(h)) /\ at[Handler(h)] = place
  BY DEF Resume, Runs, Item
<1>5. CASE h \in Shutdowns /\ ShutdownStarts(h)
  <2>1. h \in Cancellers /\ Runs(Handler(h)) /\ at[Handler(h)] = "new" /\ spared' = Unaccounted
    BY <1>4, <1>5, CoroutineNames DEF ShutdownStarts
  <2>2. \/ CancelsTask(h) /\ UNCHANGED << target, appVars >>
        \/ /\ ~TaskInProgress
           /\ \/ connected /\ HandlerDisconnects(h)
              \/ ~connected /\ Suspend(Handler(h), "done") /\ UNCHANGED << target, appVars >>
           /\ UNCHANGED << waits, must_cancel, awaiters >>
    BY <1>5 DEF ShutdownStarts
  <2>3. CASE CancelsTask(h) /\ UNCHANGED << target, appVars >>
    BY <1>1, <1>5, <2>1, <2>3 DEF Interrupting, Interrupts
  <2>4. CASE ~TaskInProgress /\ HandlerDisconnects(h) /\ UNCHANGED << waits, must_cancel >>
    BY <1>1, <1>5, <2>1, <2>4 DEF HandlerDisconnects, CallDisconnect, Closing, Answering
  <2>5. CASE /\ ~TaskInProgress /\ ~connected /\ Suspend(Handler(h), "done")
             /\ UNCHANGED << target, appVars >> /\ UNCHANGED << waits, must_cancel >>
    BY <1>1, <1>5, <2>1, <2>5 DEF Answering
  <2> QED BY <2>2, <2>3, <2>4, <2>5
<1>6. CASE h \in Cancels /\ CancelStarts(h) /\ UNCHANGED spared
  <2>1. h \in Cancellers /\ Runs(Handler(h)) /\ at[Handler(h)] = "new"
    BY <1>4, <1>6, CoroutineNames DEF CancelStarts
  <2>2. CASE CancelsTask(h) /\ UNCHANGED << target, appVars >>
    BY <1>1, <1>2, <1>6, <2>1, <2>2 DEF Interrupting, Interrupts
  <2>3. CASE ~TaskInProgress /\ Suspend(Handler(h), "done")
             /\ UNCHANGED << waits, must_cancel, target, appVars >>
    BY <1>1, <1>2, <1>6, <2>1, <2>3 DEF Answering
  <2> QED BY <1>6, <2>2, <2>3 DEF CancelStarts
<1>7. CASE CancelResumes(h) /\ UNCHANGED spared
  <2>1. Runs(Handler(h)) /\ at[Handler(h)] = "awaiting" BY <1>4, <1>7 DEF CancelResumes
  <2> QED BY <1>1, <1>7, <2>1
     DEF CancelResumes, HandlerDisconnects, CallDisconnect, Closing, Answering
<1>8. CASE h \in Disconnects /\ DisconnectStarts(h) /\ UNCHANGED spared
  <2>1. Runs(Handler(h)) /\ at[Handler(h)] = "new" BY <1>4, <1>8 DEF DisconnectStarts
  <2> QED BY <1>1, <1>3, <1>8, <2>1
     DEF DisconnectStarts, HandlerDisconnects, CallDisconnect, Closing, Answering
<1>9. CASE HandlerTornDown(h) /\ UNCHANGED spared
  <2>1. Runs(Handler(h)) /\ at[Handler(h)] = "tearing" BY <1>4, <1>9 DEF HandlerTornDown
  <2> QED BY <1>1, <1>9, <2>1 DEF HandlerTornDown, Answering
<1> QED BY <1>5, <1>6, <1>7, <1>8, <1>9 DEF EndConnection

-----------------------------------------------------------------------------
(* The invariants *)

\* A canceller that has seen, or is about to see, the end of the task, and
\* whoever closes a client.
Stale(h) ==
  \/ at[Handler(h)] = "tearing"
  \/ h \in Cancellers /\ at[Handler(h)] = "awaiting" /\ Done(Task(waits[h]))

DisconnectsAlone ==
  \A d \in Disconnects, x \in Cancels : ~(Busy(d) /\ Busy(x))

\* A connect request beside such a canceller is over, or starts after it.
StaleGoesFirst ==
  \A r \in Connects, h \in Enders : Busy(r) /\ Stale(h) =>
    \/ Done(Task(r))
    \/ at[Handler(r)] = "new" /\ Precedes(ready, Handler(h), Handler(r))

\* What a handler closes stays the current client until it is closed, by another
\* if it is that of a disconnect request or of a cancel request at the end.
ClosesCurrent ==
  \A h \in Enders : at[Handler(h)] = "tearing" =>
    /\ client \in {NoClient, target[Handler(h)]}
    /\ client = NoClient => \/ In(ready, Handler(h)) \/ h \in Disconnects
                            \/ \E s \in Shutdowns : at[Handler(s)] # "idle"

FifoInv == DisconnectsAlone /\ StaleGoesFirst /\ ClosesCurrent

\* The current client is that of the task that links or subscribes it, and it
\* notifies once start_notify has returned, or the state says so.
MonInv ==
  /\ MonitoringMeansSubscribed
  /\ \A r \in Connects : at[Task(r)] \in {"linking", "subscribing"} => client = r
  /\ \A r \in Connects :
       at[Task(r)] = "subscribing" /\ ~must_cancel[r] /\ Has(ready, Task(r), TRUE) =>
         subscribed[r]

\* A link that is up is the current client's, or passed over by the end of the
\* program.
OwnedOrSpared == \A r \in Connects : link[r] = "up" => client = r \/ r \in spared

\* Only the connection of its task makes a link, and the task is yet to see it.
LinkIsAnswered ==
  \A r \in Connects :
    /\ at[Task(r)] \in {"idle", "new", "scanning"} => link[r] # "up"
    /\ at[Task(r)] = "linking" /\ link[r] = "up" => Has(ready, Task(r), TRUE)

\* A task undoes its connection because it was cancelled, and whoever cancelled a
\* task waits for it.
CancellersWait ==
  \A r \in Connects : at[Task(r)] = "undoing" \/ must_cancel[r] =>
    /\ InProgress(Task(r))
    /\ \E x \in Cancellers : at[Handler(x)] = "awaiting" /\ waits[x] = r

\* bleak has closed the link of whoever is about to see that it has.
ClosedIsDown ==
  /\ \A r \in Connects :
       at[Task(r)] \in TearingPlaces /\ In(ready, Task(r)) /\ ~must_cancel[r] => link[r] # "up"
  /\ \A h \in Enders :
       at[Handler(h)] = "tearing" /\ In(ready, Handler(h)) => link[target[Handler(h)]] # "up"

\* A second cancellation comes from the end of the program.
TwiceIsSpared == \A r \in Connects : at[Task(r)] = "undoing" /\ must_cancel[r] => r \in spared

\* Nothing is passed over before shutdown starts.
SparedAtTheEnd == (\A s \in Shutdowns : at[Handler(s)] \in {"idle", "new"}) => spared = {}

LinkInv ==
  /\ OwnedOrSpared /\ LinkIsAnswered /\ CancellersWait
  /\ ClosedIsDown /\ TwiceIsSpared /\ SparedAtTheEnd

\* A task that failed has no client.
FailedHasNone == \A r \in Connects : Done(Task(r)) /\ outcome[r] = "error" => client # r

\* Who cancelled a task goes on when it is over, and ends with its client gone.
CancelledIsGone ==
  \A x \in Cancellers :
    /\ at[Handler(x)] \in {"idle", "new"} => waits[x] = NoClient
    /\ waits[x] # NoClient /\ at[Handler(x)] \in {"tearing", "done"} => Done(Task(waits[x]))
    /\ waits[x] # NoClient /\ Done(Handler(x)) => client # waits[x]

\* From its first await on shutdown leaves what it passed over and what it
\* cancelled, in the end only what it passed over.
EndsTheRest ==
  \A s \in Shutdowns :
    /\ at[Handler(s)] = "awaiting" =>
         /\ client \in {NoClient, waits[s]}
         /\ \A r \in Connects : Busy(r) => waits[s] = r
    /\ at[Handler(s)] \in {"tearing", "done"} =>
         \A r \in Connects : Busy(r) => r \in spared \/ Done(Task(r))
    /\ Done(Handler(s)) => client \in {NoClient} \cup spared

EndInv == FailedHasNone /\ CancelledIsGone /\ EndsTheRest

\* What holds with or without losses, while no request crosses another.
BaseInv == LoopInv /\ DataOK /\ AloneInv /\ AppInv /\ TaskTargets


-----------------------------------------------------------------------------
(* Who is alone *)

LEMMA EndersAreRequests ==
  /\ Enders \subseteq Requests /\ Cancellers \subseteq Enders /\ Disconnects \subseteq Enders
  /\ Enders = Cancels \cup Shutdowns \cup Disconnects
  /\ \A h \in Enders : Handler(h) \in Coroutines
BY CoroutineNames, RequestKinds DEF Enders

\* A task in progress has its handler waiting for it.
LEMMA TaskIsBusy ==
  ASSUME LoopInv, NEW r \in Connects, InProgress(Task(r))
  PROVE  at[Handler(r)] = "awaiting" /\ Busy(r) /\ ~Done(Task(r)) /\ ~In(ready, Handler(r))
<1>1. at[Handler(r)] = "awaiting" /\ IsAwaiter(Handler(r), r) /\ ~Done(Task(r))
  BY DEF LoopInv, TasksOK, InProgress, Done
<1> QED BY <1>1, AwaiterIsSuspended DEF Busy, InProgress

\* A task that is done stays so.
LEMMA DoneStays ==
  ASSUME LoopInv, LoopKind, NEW r \in Connects, Done(Task(r))
  PROVE  Done(Task(r))'
<1>1. ASSUME NEW q \in Connects, TaskMoves(q) \/ Ends(q) PROVE Done(Task(r))'
  BY <1>1, OtherTasksStay DEF Done, InProgress
<1>2. CASE ~\E q \in Connects : TaskMoves(q) \/ Ends(q)
  BY <1>2, TasksStay DEF LoopKind, Done
<1> QED BY <1>1, <1>2

\* A canceller resumed has seen the end of its task.
LEMMA ResumedIsStale ==
  ASSUME LoopInv, NEW h \in Enders, at[Handler(h)] = "awaiting", In(ready, Handler(h))
  PROVE  h \in Cancellers /\ waits[h] \in Connects /\ Done(Task(waits[h])) /\ Stale(h)
<1>1. h \in Cancellers BY DEF LoopInv, PlacesOK, Enders
<1>2. waits[h] \in Connects /\ (~Done(Task(waits[h])) => IsAwaiter(Handler(h), waits[h]))
  BY <1>1 DEF LoopInv, WaitsOK
<1>3. Done(Task(waits[h])) BY <1>2, AwaiterIsSuspended
<1> QED BY <1>1, <1>2, <1>3 DEF Stale

LEMMA NoTaskBesideStale ==
  ASSUME LoopInv, StaleGoesFirst, NEW h \in Enders, Stale(h), NEW r \in Connects
  PROVE  ~InProgress(Task(r))
BY TaskIsBusy DEF StaleGoesFirst

\* No task is in progress beside a handler that closes a client or ends.
LEMMA NoTaskBesideHandler ==
  ASSUME LoopInv, AloneInv, StaleGoesFirst, NEW h \in Enders, Closing(h) \/ Answering(h),
         NEW r \in Connects
  PROVE  ~InProgress(Task(r))
<1> SUFFICES ASSUME InProgress(Task(r)) PROVE FALSE OBVIOUS
<1>1. Runs(Handler(h)) /\ In(ready, Handler(h)) BY RunsFirst DEF Closing, Answering
<1>2. at[Handler(h)] \in {"new", "awaiting", "tearing"} BY DEF Closing, Answering
<1>3. connection_task = r /\ Busy(r) /\ ~Done(Task(r)) BY TaskIsBusy DEF AloneInv
<1>4. CASE at[Handler(h)] = "new" /\ h \in Cancellers
  <2>1. TaskInProgress BY <1>3, BackendAssumption DEF TaskInProgress, BackendAssumption
  <2> QED BY <1>4, <2>1 DEF Closing, Answering
<1>5. CASE at[Handler(h)] = "new" /\ h \in Disconnects
  BY <1>3, <1>5 DEF AloneInv, Busy, InProgress
<1>6. CASE at[Handler(h)] = "awaiting" BY <1>1, <1>6, ResumedIsStale, NoTaskBesideStale
<1>7. CASE at[Handler(h)] = "tearing" BY <1>7, NoTaskBesideStale DEF Stale
<1> QED BY <1>2, <1>4, <1>5, <1>6, <1>7 DEF Enders

\* Nor beside another task, or a handler, that closes one.
LEMMA ClosesAlone ==
  ASSUME LoopInv, AloneInv, StaleGoesFirst, NEW c \in Coroutines, at[c] \in TearingPlaces,
         NEW r \in Connects, InProgress(Task(r))
  PROVE  c = Task(r)
<1>1. ASSUME NEW h \in Enders, c = Handler(h) PROVE FALSE
  <2>1. at[Handler(h)] = "tearing"
    BY <1>1 DEF LoopInv, PlacesOK, TearingPlaces, Enders
  <2> QED BY <2>1, NoTaskBesideStale DEF Stale
<1>2. ASSUME NEW q \in Connects, c = Handler(q) PROVE FALSE
  BY <1>2 DEF LoopInv, PlacesOK, TearingPlaces
<1>3. ASSUME NEW q \in Connects, c = Task(q) PROVE q = r
  <2>1. InProgress(Task(q)) BY <1>3 DEF TearingPlaces, InProgress
  <2> QED BY <2>1 DEF AloneInv
<1> QED BY <1>1, <1>2, <1>3, CoroutineNames, RequestKinds DEF Enders

\* A task disconnects or subscribes its own client: every other step leaves the
\* targets of tasks alone.
LEMMA NextTaskTargets ==
  ASSUME LoopInv, DataOK, AppInv, TaskTargets, [Next]_vars
  PROVE  TaskTargets'
<1>1. TypeOK BY TypeOKParts
<1>2. target \in [Coroutines -> Connects \cup {NoClient}] BY DEF DataOK, TargetOK
<1>3. ASSUME \A q \in Connects : \/ at'[Task(q)] = at[Task(q)]
                                 \/ at[Task(q)] = "idle" /\ at'[Task(q)] = "new",
             \A q \in Connects : target'[Task(q)] = target[Task(q)]
      PROVE  TaskTargets'
  BY <1>3 DEF TaskTargets
<1>4. CASE UNCHANGED vars BY <1>4 DEF vars, TaskTargets
<1>5. ASSUME NEW r \in Requests, RequestArrives(r) PROVE TaskTargets'
  BY <1>1, <1>3, <1>5, KindsOfSteps, TasksStay DEF RequestArrives
<1>6. CASE Completion \/ ViewersChange \/ \E r \in Connects : LinkLost(r)
  BY <1>6 DEF Completion, DropCompletes, InputCompletes, LinkCompletes, SubscribeCompletes,
     Completes, ViewersChange, LinkLost, TaskTargets
<1>7. ASSUME NEW r \in Connects, Connect(r) PROVE TaskTargets'
  BY <1>1, <1>3, <1>7, KindsOfSteps, TasksStay DEF Connect
<1>8. ASSUME NEW h \in Enders, EndConnection(h) PROVE TaskTargets'
  <2>1. \A q \in Connects : \/ at'[Task(q)] = at[Task(q)]
                            \/ at[Task(q)] = "idle" /\ at'[Task(q)] = "new"
    BY <1>1, <1>8, KindsOfSteps, TasksStay DEF Enders
  <2>2. target' = target \/ target' = [target EXCEPT ![Handler(h)] = client]
    BY <1>1, <1>8, EnderSteps DEF Interrupting, Closing, Answering
  <2>3. \A q \in Connects : target'[Task(q)] = target[Task(q)]
    BY <1>2, <2>2, CoroutineNames, EndersAreRequests
  <2> QED BY <1>3, <2>1, <2>3
<1>9. ASSUME NEW r \in Connects, RunTask(r) PROVE TaskTargets'
  <2>1. TaskMoves(r) \/ Ends(r) BY <1>1, <1>9, KindsOfSteps
  <2>2. \A q \in Connects : q # r => at'[Task(q)] = at[Task(q)] BY <2>1, OtherTasksStay
  <2>3. TaskStep(r) BY <1>9, TaskSteps
  <2>4. /\ \A place : Moves(r, place) => at'[Task(r)] = place
        /\ \A o : EndTask(r, o) => at'[Task(r)] = "done"
    BY TaskStepPlace
  <2>5. \/ target' = target /\ at'[Task(r)] \in {"scanning", "linking", "done"}
        \/ target' = [target EXCEPT ![Task(r)] = r]
    BY <2>3, <2>4 DEF TaskStep, TaskCut, TaskScans, TaskMakes, TaskResets, TaskKeeps,
       TaskSubscribes, TaskUndoes, TaskTearsDown, TaskMonitors, TaskAbandons
  <2>6. CASE target' = target /\ at'[Task(r)] \in {"scanning", "linking", "done"}
    BY <2>2, <2>6 DEF TaskTargets
  <2>7. CASE target' = [target EXCEPT ![Task(r)] = r]
    <3>1. /\ target'[Task(r)] = r
          /\ \A q \in Connects : q # r => target'[Task(q)] = target[Task(q)]
      BY <1>2, <2>7, CoroutineNames
    <3> QED BY <2>2, <3>1 DEF TaskTargets
  <2> QED BY <2>5, <2>6, <2>7
<1> QED BY <1>4, <1>5, <1>6, <1>7, <1>8, <1>9 DEF Next, LoopStep, Enders


\* A task in progress that the backend remembers.
LEMMA RemembersTask ==
  ASSUME LoopInv, TaskInProgress
  PROVE  connection_task \in Connects /\ InProgress(Task(connection_task))
BY DEF LoopInv, LoopTypes, TasksOK, TaskInProgress, InProgress, Done

-----------------------------------------------------------------------------
(* What the steps of handlers and tasks leave alone *)

\* Those that are not resumed stay in the queue, in their order.
LEMMA OrderStays ==
  ASSUME LoopInv, Resumes, NEW c, Runs(c)
  PROVE  /\ \A d : In(ready, d) /\ d # c => In(ready', d)
         /\ \A d, ok : Has(ready, d, ok) /\ d # c => Has(ready', d, ok)
         /\ \A d, e : Precedes(ready, d, e) /\ d # c => Precedes(ready', d, e)
<1>1. \A d : d # c => ~Runs(d) BY DEF Runs
<1>2. ready \in Queue BY DEF LoopInv, ReadyOK
<1>3. \A d, ok : Has(ready, d, ok) /\ d # c => Has(ready', d, ok) BY <1>1, ReadyAfter
<1>4. ASSUME NEW d, In(ready, d), d # c PROVE In(ready', d)
  <2>1. PICK ok : Has(ready, d, ok) BY <1>2, <1>4, HasIn
  <2>2. Has(ready', d, ok) BY <1>3, <1>4, <2>1
  <2> QED BY <2>2 DEF Has, In
<1>5. \A d, e : Precedes(ready, d, e) => In(ready, d) BY DEF Precedes, In
<1>6. LoopKind BY DEF Resumes, LoopKind
<1> QED BY <1>3, <1>4, <1>5, <1>6, OrderKept

LEMMA ConnectFrame ==
  ASSUME LoopInv, DataOK, NEW q \in Connects, Connect(q)
  PROVE  /\ Resumes /\ LaterKind /\ LoopKind /\ Runs(Handler(q))
         /\ \A p \in Requests : /\ Busy(p)' => Busy(p)
                                /\ at'[Handler(p)] = "idle" <=> at[Handler(p)] = "idle"
                                /\ p # q => at'[Handler(p)] = at[Handler(p)]
         /\ \A p \in Connects : \/ at'[Task(p)] = at[Task(p)]
                                \/ at[Task(p)] = "idle" /\ at'[Task(p)] = "new"
         /\ \A p \in Connects : at[Task(p)] \notin {"idle", "new"} =>
              (Has(ready', Task(p), TRUE) <=> Has(ready, Task(p), TRUE))
         /\ \A p \in Connects : at[Task(p)] \notin {"idle", "new"} =>
              (In(ready', Task(p)) => In(ready, Task(p)))
         /\ UNCHANGED << must_cancel, waits, outcome, target, connected, monitoring, client,
                         link, subscribed, losses, spared >>
<1>1. TypeOK BY TypeOKParts
<1>2. ConnectMoves(q) \/ Creates(q) BY <1>1, KindsOfSteps
<1>3. Resumes /\ LoopKind /\ LaterKind /\ Runs(Handler(q))
  BY <1>2 DEF Resumes, LoopKind, LaterKind, ConnectMoves, Creates
<1>4. \A p \in Requests : /\ Busy(p)' => Busy(p)
                          /\ at'[Handler(p)] = "idle" <=> at[Handler(p)] = "idle"
                          /\ p # q => at'[Handler(p)] = at[Handler(p)]
  BY <1>3, HandlersAfter, CoroutineNames DEF Runs
<1>5. \A p \in Connects : \/ at'[Task(p)] = at[Task(p)]
                          \/ at[Task(p)] = "idle" /\ at'[Task(p)] = "new"
  BY <1>2, TasksStay
<1>6. \A h \in Cancellers : ~Interrupts(h)
  <2>1. \A h \in Cancellers : Handler(h) # Handler(q) BY CoroutineNames, RequestKinds
  <2> QED BY <1>3, <2>1 DEF Interrupts, Runs
<1>7. \A p \in Connects, ok \in BOOLEAN :
        at[Task(p)] \notin {"idle", "new"} /\ Has(ready', Task(p), ok) => Has(ready, Task(p), ok)
  <2> SUFFICES ASSUME NEW p \in Connects, at[Task(p)] \notin {"idle", "new"}
               PROVE  ~Readied(Task(p))
    BY <1>3, ReadyAfter, CoroutineNames
  <2>1. at'[Task(p)] # "new" /\ at[Task(p)] # "awaiting"
    BY <1>5 DEF LoopInv, PlacesOK
  <2> QED BY <1>6, <2>1 DEF Readied
<1>8. \A p \in Connects, ok \in BOOLEAN : Has(ready, Task(p), ok) => Has(ready', Task(p), ok)
  BY <1>3, OrderStays, CoroutineNames
<1>9. \A p \in Connects : at[Task(p)] \notin {"idle", "new"} =>
        (In(ready', Task(p)) => In(ready, Task(p)))
  <2>1. ready' \in Queue
    <3>1. LoopInv' BY <1>2, ConnectMovesLoopInv, CreatesLoopInv
    <3> QED BY <3>1 DEF LoopInv, ReadyOK
  <2>2. ready \in Queue BY DEF LoopInv, ReadyOK
  <2> QED BY <1>7, <2>1, <2>2, HasIn
<1> QED BY <1>3, <1>4, <1>5, <1>7, <1>8, <1>9 DEF Connect, appVars, linkVars, histVars

LEMMA TaskFrame ==
  ASSUME LoopInv, DataOK, AloneInv, AppInv, NEW q \in Connects, RunTask(q)
  PROVE  /\ Resumes /\ LaterKind /\ LoopKind /\ Runs(Task(q)) /\ TaskStep(q)
         /\ \A p \in Connects : p # q => ~InProgress(Task(p)) /\ at'[Task(p)] = at[Task(p)]
         /\ \A p \in Requests : at'[Handler(p)] = at[Handler(p)]
         /\ \A p \in Connects : Busy(p) => p = q
         /\ InProgress(Task(q)) /\ Busy(q) /\ client \in {NoClient, q}
         /\ ~In(ready', Task(q)) /\ at'[Task(q)] # "idle"
         /\ \A place : Moves(q, place) => at'[Task(q)] = place
         /\ \A o : EndTask(q, o) => at'[Task(q)] = "done"
         /\ must_cancel' = [must_cancel EXCEPT ![q] = FALSE]
         /\ UNCHANGED << waits, connection_task, link, subscribed, losses, spared >>
<1>1. TypeOK BY TypeOKParts
<1>2. TaskMoves(q) \/ Ends(q) BY <1>1, KindsOfSteps
<1>3. Resumes /\ LoopKind /\ LaterKind /\ Runs(Task(q))
  BY <1>2 DEF Resumes, LoopKind, LaterKind, TaskMoves, Ends
<1>4. /\ \A p \in Connects : p # q => at'[Task(p)] = at[Task(p)]
      /\ \A p \in Requests : at'[Handler(p)] = at[Handler(p)]
      /\ InProgress(Task(q)) /\ Busy(q)
  BY <1>2, OtherTasksStay
<1>5. /\ \A p \in Connects : Busy(p) => p = q
      /\ \A p \in Connects : p # q => ~InProgress(Task(p))
      /\ client \in {NoClient, q}
  BY <1>4 DEF AloneInv, AppInv
<1>6. TaskStep(q) BY TaskSteps
<1>7. /\ \A place : Moves(q, place) => at'[Task(q)] = place
      /\ \A o : EndTask(q, o) => at'[Task(q)] = "done"
  BY TaskStepPlace
<1>8. at'[Task(q)] # at[Task(q)] /\ at'[Task(q)] \notin {"idle", "new"}
  BY <1>4, <1>6, <1>7 DEF TaskStep, TaskCut, TaskScans, TaskMakes, TaskResets, TaskKeeps,
     TaskSubscribes, TaskUndoes, TaskTearsDown, TaskMonitors, TaskAbandons, RunsAt, InProgress
<1>9. ~In(ready', Task(q)) BY <1>3, <1>8, ReadyAfter, CoroutineNames
<1> QED BY <1>3, <1>4, <1>5, <1>6, <1>7, <1>8, <1>9 DEF RunTask, linkVars, histVars, webVars

LEMMA EnderFrame ==
  ASSUME LoopInv, DataOK, NEW q \in Enders, EndConnection(q)
  PROVE  /\ Resumes /\ LaterKind /\ LoopKind /\ Runs(Handler(q)) /\ In(ready, Handler(q))
         /\ Interrupting(q) \/ Closing(q) \/ Answering(q)
         /\ \A p \in Requests : /\ Busy(p)' => Busy(p)
                                /\ at'[Handler(p)] = "idle" <=> at[Handler(p)] = "idle"
                                /\ p # q => at'[Handler(p)] = at[Handler(p)]
         /\ \A h \in Enders : h # q => Handler(h) # Handler(q) /\ at'[Handler(h)] = at[Handler(h)]
         /\ \A p \in Connects : at'[Handler(p)] = at[Handler(p)] /\ (Busy(p)' <=> Busy(p))
         /\ \A p \in Connects : at'[Task(p)] = at[Task(p)]
         /\ \A p \in Connects : Has(ready, Task(p), TRUE) => Has(ready', Task(p), TRUE)
         /\ \A p \in Connects :
              /\ Has(ready', Task(p), TRUE) =>
                   Has(ready, Task(p), TRUE) \/ must_cancel'[p] \/ at[Task(p)] = "new"
              /\ In(ready', Task(p)) =>
                   In(ready, Task(p)) \/ must_cancel'[p] \/ at[Task(p)] = "new"
         /\ \A p \in Connects : must_cancel[p] => must_cancel'[p]
         /\ ~In(ready', Handler(q))
         /\ spared' = IF q \in Shutdowns /\ at[Handler(q)] = "new" THEN Unaccounted ELSE spared
         /\ UNCHANGED << outcome, connection_task, link, subscribed, losses >>
<1>1. TypeOK /\ Handler(q) \in Coroutines BY TypeOKParts, EndersAreRequests
<1>2. OtherMoves(q) \/ (q \in Cancellers /\ Interrupts(q)) BY <1>1, KindsOfSteps DEF Enders
<1>3. Resumes /\ LoopKind /\ LaterKind /\ Runs(Handler(q))
  BY <1>2 DEF Resumes, LoopKind, LaterKind, OtherMoves, Interrupts, Enders
<1>4. /\ Interrupting(q) \/ Closing(q) \/ Answering(q)
      /\ spared' = IF q \in Shutdowns /\ at[Handler(q)] = "new" THEN Unaccounted ELSE spared
      /\ UNCHANGED << outcome, connection_task, link, subscribed, losses >>
  BY <1>1, EnderSteps
<1>5. \A p \in Requests : /\ Busy(p)' => Busy(p)
                          /\ at'[Handler(p)] = "idle" <=> at[Handler(p)] = "idle"
                          /\ p # q => at'[Handler(p)] = at[Handler(p)]
  BY <1>3, HandlersAfter, CoroutineNames, EndersAreRequests DEF Runs
<1>6. \A h \in Enders : h # q => Handler(h) # Handler(q) /\ at'[Handler(h)] = at[Handler(h)]
  BY <1>5, CoroutineNames, EndersAreRequests
<1>7. \A p \in Connects : at'[Handler(p)] = at[Handler(p)] /\ (Busy(p)' <=> Busy(p))
  <2>1. q \notin Connects BY RequestKinds DEF Enders
  <2> QED BY <1>5, <2>1, CoroutineNames DEF Busy, InProgress
<1>8. \A p \in Connects : at'[Task(p)] = at[Task(p)]
  <2>1. PICK place : at' = [at EXCEPT ![Handler(q)] = place]
    BY <1>2 DEF OtherMoves, Suspend, Interrupts, CancelsTask
  <2> QED BY <1>1, <2>1, CoroutineNames, EndersAreRequests DEF LoopInv, LoopTypes
<1>9. \A p \in Connects : \A ok : Has(ready, Task(p), ok) => Has(ready', Task(p), ok)
  BY <1>3, OrderStays, CoroutineNames, EndersAreRequests
<1>10. \A p \in Connects : must_cancel[p] => must_cancel'[p]
  <2>1. must_cancel' = must_cancel \/ \E t : must_cancel' = [must_cancel EXCEPT ![t] = TRUE]
    BY <1>4 DEF Interrupting, Interrupts, CancelsTask, Cancel, Closing, Answering
  <2> QED BY <2>1 DEF DataOK, TaskTypes
<1>11. ASSUME NEW h \in Cancellers, Interrupts(h) PROVE must_cancel'[connection_task]
  <2>1. must_cancel' = [must_cancel EXCEPT ![connection_task] = TRUE] /\ TaskInProgress
    BY <1>11 DEF Interrupts, CancelsTask, Cancel
  <2> QED BY <2>1, RemembersTask DEF DataOK, TaskTypes
<1>12. ASSUME NEW p \in Connects, NEW ok \in BOOLEAN, Has(ready', Task(p), ok)
       PROVE  Has(ready, Task(p), ok) \/ must_cancel'[p] \/ at[Task(p)] = "new"
  <2>1. Has(ready, Task(p), ok) \/ Readied(Task(p)) BY <1>3, <1>12, ReadyAfter, CoroutineNames
  <2>2. at[Task(p)] # "awaiting" BY DEF LoopInv, PlacesOK
  <2>3. ASSUME NEW h \in Cancellers, Interrupts(h), Task(p) = Task(connection_task)
        PROVE  must_cancel'[p]
    <3>1. TaskInProgress BY <2>3 DEF Interrupts, CancelsTask
    <3>2. p = connection_task BY <2>3, <3>1, RemembersTask, CoroutineNames
    <3> QED BY <1>11, <2>3, <3>2
  <2> QED BY <1>8, <2>1, <2>2, <2>3 DEF Readied
<1>13. \A p \in Connects : In(ready', Task(p)) =>
         In(ready, Task(p)) \/ must_cancel'[p] \/ at[Task(p)] = "new"
  <2>1. ready' \in Queue
    <3>1. LoopInv' BY <1>2, OtherMovesLoopInv, InterruptsLoopInv DEF Enders
    <3> QED BY <3>1 DEF LoopInv, ReadyOK
  <2>2. ready \in Queue BY DEF LoopInv, ReadyOK
  <2> QED BY <1>12, <2>1, <2>2, HasIn
<1>14. ~In(ready', Handler(q))
  <2>1. at'[Handler(q)] # at[Handler(q)] /\ at'[Handler(q)] # "new"
    <3>1. \A place : at' = [at EXCEPT ![Handler(q)] = place] => at'[Handler(q)] = place
      BY <1>1 DEF LoopInv, LoopTypes
    <3> QED BY <1>4, <3>1, RunsFirst DEF Interrupting, Interrupts, CancelsTask, Closing,
          Answering, Suspend, LoopInv, ReadyOK, InProgress
  <2> QED BY <1>1, <1>3, <2>1, ReadyAfter
<1>15. In(ready, Handler(q)) BY <1>3, RunsFirst
<1> QED BY <1>3, <1>4, <1>5, <1>6, <1>7, <1>8, <1>9, <1>10, <1>12, <1>13, <1>14, <1>15

-----------------------------------------------------------------------------
(* A disconnection under way is alone with the current client *)

\* Two such handlers at once are those of disconnect requests, or of a request
\* and of shutdown.
LEMMA TwoClosers ==
  ASSUME AloneInv, DisconnectsAlone, NEW g \in Enders, NEW h \in Enders,
         Busy(g), Busy(h), g # h
  PROVE  h \in Disconnects \/ \E s \in Shutdowns : at[Handler(s)] # "idle"
<1>1. CASE g \in Shutdowns \/ h \in Shutdowns BY <1>1 DEF Busy, InProgress
<1>2. CASE g \notin Shutdowns /\ h \notin Shutdowns
  BY <1>2, EndersAreRequests DEF AloneInv, DisconnectsAlone
<1> QED BY <1>1, <1>2

LEMMA NextDisconnectsAlone ==
  ASSUME Uncrossed, LoopInv, DataOK, AloneInv, DisconnectsAlone, [Next]_vars
  PROVE  DisconnectsAlone'
<1>1. TypeOK BY TypeOKParts
<1>2. ASSUME NEW r \in Requests, RequestArrives(r) PROVE DisconnectsAlone'
  <2>1. Arrives(r) /\ ~Crosses(r) BY <1>1, <1>2, KindsOfSteps DEF Uncrossed
  <2>2. \A q \in Requests : q # r => at'[Handler(q)] = at[Handler(q)] BY <2>1, ArrivalEffect
  <2>3. \A q \in Requests : q # r => (Busy(q)' <=> Busy(q)) BY <2>2 DEF Busy, InProgress
  <2>4. CASE r \in Disconnects
    <3>1. \A x \in Cancels : ~Busy(x) /\ x # r
      BY <2>1, <2>4, RequestKinds, EndersAreRequests DEF Crosses, Busy
    <3> QED BY <2>3, <3>1, EndersAreRequests DEF DisconnectsAlone
  <2>5. CASE r \in Cancels
    <3>1. \A d \in Disconnects : ~Busy(d) /\ d # r
      BY <2>1, <2>5, RequestKinds, EndersAreRequests DEF Crosses, Busy
    <3> QED BY <2>3, <3>1, EndersAreRequests DEF DisconnectsAlone
  <2>6. CASE r \notin Cancels \cup Disconnects
    BY <2>3, <2>6, EndersAreRequests DEF DisconnectsAlone
  <2> QED BY <2>4, <2>5, <2>6
<1>3. ASSUME \A r \in Requests : ~RequestArrives(r) PROVE DisconnectsAlone'
  <2>1. \A q \in Requests : Busy(q)' => Busy(q) BY <1>1, <1>3, LaterSteps, HandlersAfter
  <2> QED BY <2>1, EndersAreRequests DEF DisconnectsAlone
<1> QED BY <1>2, <1>3

LEMMA ArrivesFifo ==
  ASSUME Uncrossed, BaseInv, FifoInv, NEW q \in Requests, RequestArrives(q)
  PROVE  StaleGoesFirst' /\ ClosesCurrent'
<1> USE DEF BaseInv, FifoInv
<1>1. TypeOK BY TypeOKParts
<1>2. /\ Arrives(q) /\ ~Crosses(q) /\ \A s \in Shutdowns : at[Handler(s)] = "idle"
      /\ UNCHANGED << waits, client, target >>
  BY <1>1, KindsOfSteps DEF Uncrossed, RequestArrives, appVars
<1>3. /\ at[Handler(q)] = "idle" /\ at'[Handler(q)] = "new"
      /\ \A p \in Requests : p # q => at'[Handler(p)] = at[Handler(p)]
      /\ \A p \in Connects : at'[Task(p)] = at[Task(p)]
      /\ \A c : In(ready', c) <=> In(ready, c) \/ c = Handler(q)
      /\ \A c : In(ready, c) => Precedes(ready', c, Handler(q))
      /\ \A c, d : Precedes(ready, c, d) => Precedes(ready', c, d)
  BY <1>2, ArrivalEffect
<1>4. \A p \in Requests : p # q => (Busy(p)' <=> Busy(p)) BY <1>3 DEF Busy, InProgress
<1>5. ASSUME NEW h \in Enders, Stale(h)' PROVE h # q /\ Stale(h)
  <2>1. h # q BY <1>3, <1>5 DEF Stale
  <2>2. at'[Handler(h)] = at[Handler(h)] BY <1>3, <2>1, EndersAreRequests
  <2>3. h \in Cancellers /\ at[Handler(h)] = "awaiting" => waits[h] \in Connects
    BY DEF LoopInv, WaitsOK
  <2> QED BY <1>2, <1>3, <1>5, <2>1, <2>2, <2>3 DEF Stale, Done
<1>6. ASSUME NEW h \in Enders, Stale(h), q \in Connects PROVE In(ready, Handler(h))
  <2>1. /\ ~connected /\ \A p \in Connects : ~Busy(p)
        /\ \A d \in Disconnects : ~Busy(d)
    BY <1>2, <1>6, CoroutineNames, RequestKinds DEF Crosses, Busy
  <2>2. client = NoClient
    <3> SUFFICES ASSUME client # NoClient PROVE FALSE OBVIOUS
    <3>1. client \in Connects /\ at[Task(client)] \in {"linking", "undoing"}
      BY <2>1 DEF AppInv, DataOK, AppTypes
    <3>2. InProgress(Task(client)) BY <3>1 DEF InProgress
    <3> QED BY <2>1, <3>1, <3>2, TaskIsBusy
  <2>3. CASE at[Handler(h)] = "tearing"
    <3>1. h \notin Disconnects BY <2>1, <2>3 DEF Busy, InProgress
    <3> QED BY <1>2, <2>2, <2>3, <3>1 DEF ClosesCurrent
  <2>4. CASE at[Handler(h)] # "tearing" BY <1>6, <2>4 DEF Stale, LoopInv, WaitsOK
  <2> QED BY <2>3, <2>4
<1>7. StaleGoesFirst'
  <2> SUFFICES ASSUME NEW r \in Connects, NEW h \in Enders, Busy(r)', Stale(h)'
               PROVE  \/ Done(Task(r))'
                      \/ at'[Handler(r)] = "new" /\ Precedes(ready', Handler(h), Handler(r))
    BY DEF StaleGoesFirst
  <2>1. h # q /\ Stale(h) BY <1>5
  <2>2. CASE r = q BY <1>3, <1>6, <2>1, <2>2
  <2>3. CASE r # q
    <3>1. Busy(r) /\ at'[Handler(r)] = at[Handler(r)] BY <1>3, <1>4, <2>3, CoroutineNames
    <3>2. \/ Done(Task(r))
          \/ at[Handler(r)] = "new" /\ Precedes(ready, Handler(h), Handler(r))
      BY <2>1, <3>1 DEF StaleGoesFirst
    <3> QED BY <1>3, <3>1, <3>2 DEF Done
  <2> QED BY <2>2, <2>3
<1>8. ClosesCurrent'
  <2> SUFFICES ASSUME NEW h \in Enders, at'[Handler(h)] = "tearing"
               PROVE  /\ client \in {NoClient, target[Handler(h)]}
                      /\ client = NoClient => In(ready', Handler(h)) \/ h \in Disconnects
    BY <1>2 DEF ClosesCurrent
  <2>1. at[Handler(h)] = "tearing" BY <1>3, EndersAreRequests
  <2> QED BY <1>2, <1>3, <2>1 DEF ClosesCurrent
<1> QED BY <1>7, <1>8


\* Completions, web sockets, and steps that change nothing.
LEMMA OutsideFifo ==
  ASSUME BaseInv, FifoInv, Completion \/ ViewersChange \/ UNCHANGED vars
  PROVE  StaleGoesFirst' /\ ClosesCurrent'
<1> USE DEF BaseInv, FifoInv
<1>1. TypeOK BY TypeOKParts
<1>2. UNCHANGED << at, waits, target >>
  BY DEF Completion, DropCompletes, InputCompletes, LinkCompletes, SubscribeCompletes,
     Completes, ViewersChange, vars
<1>3. (\E c \in Coroutines : Wakes(c)) \/ LoopRests
  BY <1>1, KindsOfSteps DEF LoopRests, vars, webVars
<1>4. /\ \A c : In(ready, c) => In(ready', c)
      /\ \A c, d : Precedes(ready, c, d) => Precedes(ready', c, d)
  <2>1. CASE LoopRests BY <2>1 DEF LoopRests
  <2>2. ASSUME NEW c \in Coroutines, Wakes(c)
        PROVE  /\ \A d : In(ready, d) => In(ready', d)
               /\ \A d, e : Precedes(ready, d, e) => Precedes(ready', d, e)
    BY <2>2, QueueAppend DEF Wakes, LoopInv, ReadyOK
  <2> QED BY <1>3, <2>1, <2>2
<1>5. StaleGoesFirst'
  <2> SUFFICES ASSUME NEW r \in Connects, NEW h \in Enders, Busy(r), Stale(h)
               PROVE  \/ Done(Task(r))
                      \/ at[Handler(r)] = "new" /\ Precedes(ready', Handler(h), Handler(r))
    BY <1>2 DEF StaleGoesFirst, Busy, InProgress, Stale, Done
  <2> QED BY <1>4 DEF StaleGoesFirst
<1>6. ClosesCurrent'
  <2> SUFFICES ASSUME NEW h \in Enders, at[Handler(h)] = "tearing"
               PROVE  /\ client' \in {NoClient, target[Handler(h)]}
                      /\ client' = NoClient => \/ In(ready', Handler(h)) \/ h \in Disconnects
                                               \/ \E s \in Shutdowns : at[Handler(s)] # "idle"
    BY <1>2 DEF ClosesCurrent
  <2>1. CASE client' = client BY <1>4, <2>1 DEF ClosesCurrent
  <2>2. ASSUME NEW c \in Coroutines, DropCompletes(c), client' = NoClient
        PROVE  \/ In(ready', Handler(h)) \/ h \in Disconnects
               \/ \E s \in Shutdowns : at[Handler(s)] # "idle"
    <3>1. at[c] \in TearingPlaces BY <2>2 DEF DropCompletes
    <3>2. CASE c = Handler(h)
      <4>1. Wakes(c) BY <1>1, <2>2, KindsOfSteps DEF DropCompletes
      <4> QED BY <3>2, <4>1, QueueAppend DEF Wakes, LoopInv, ReadyOK
    <3>3. ASSUME NEW r \in Connects, c = Task(r) PROVE FALSE
      BY <3>1, <3>3, NoTaskBesideStale DEF Stale, TearingPlaces, InProgress
    <3>4. ASSUME NEW r \in Connects, c = Handler(r) PROVE FALSE
      BY <3>1, <3>4 DEF LoopInv, PlacesOK, TearingPlaces
    <3>5. ASSUME NEW g \in Enders, c = Handler(g), g # h
          PROVE  h \in Disconnects \/ \E s \in Shutdowns : at[Handler(s)] # "idle"
      <4>1. Busy(g) /\ Busy(h) BY <3>1, <3>5 DEF Busy, InProgress, TearingPlaces
      <4> QED BY <3>5, <4>1, TwoClosers
    <3> QED BY <3>2, <3>3, <3>4, <3>5, CoroutineNames, RequestKinds DEF Enders
  <2>3. client' = client \/ (client' = NoClient /\ \E c \in Coroutines : DropCompletes(c))
    BY DEF Completion, DropCompletes, InputCompletes, LinkCompletes, SubscribeCompletes,
       ViewersChange, vars, appVars, Drop, HandleDisconnect
  <2> QED BY <2>1, <2>2, <2>3
<1> QED BY <1>5, <1>6

LEMMA ConnectFifo ==
  ASSUME BaseInv, FifoInv, NEW q \in Connects, Connect(q)
  PROVE  StaleGoesFirst' /\ ClosesCurrent'
<1> USE DEF BaseInv, FifoInv
<1>1. Resumes /\ LoopKind /\ Runs(Handler(q)) BY ConnectFrame
<1>2. UNCHANGED << waits, client, target >> BY ConnectFrame
<1>3. \A p \in Requests : /\ Busy(p)' => Busy(p)
                          /\ at'[Handler(p)] = "idle" <=> at[Handler(p)] = "idle"
                          /\ p # q => at'[Handler(p)] = at[Handler(p)]
  BY ConnectFrame
<1>4. \A h \in Enders : h # q /\ Handler(h) # Handler(q)
  BY RequestKinds, CoroutineNames, EndersAreRequests DEF Enders
<1>5. \A p \in Connects : \/ at'[Task(p)] = at[Task(p)]
                          \/ at[Task(p)] = "idle" /\ at'[Task(p)] = "new"
  BY ConnectFrame
<1>6. ASSUME NEW h \in Enders, Stale(h)' PROVE Stale(h)
  <2>1. at'[Handler(h)] = at[Handler(h)] BY <1>3, <1>4, EndersAreRequests
  <2>2. h \in Cancellers /\ at[Handler(h)] = "awaiting" => waits[h] \in Connects
    BY DEF LoopInv, WaitsOK
  <2> QED BY <1>2, <1>5, <1>6, <2>1, <2>2 DEF Stale, Done
<1>7. StaleGoesFirst'
  <2> SUFFICES ASSUME NEW r \in Connects, NEW h \in Enders, Busy(r)', Stale(h)'
               PROVE  \/ Done(Task(r))'
                      \/ at'[Handler(r)] = "new" /\ Precedes(ready', Handler(h), Handler(r))
    BY DEF StaleGoesFirst
  <2>1. Busy(r) /\ Stale(h) BY <1>3, <1>6, CoroutineNames
  <2>2. CASE Done(Task(r)) BY <1>1, <2>2, DoneStays
  <2>3. CASE at[Handler(r)] = "new" /\ Precedes(ready, Handler(h), Handler(r))
    <3>1. r # q BY <1>1, <2>3, RunsFirst
    <3> QED BY <1>1, <1>3, <1>4, <2>3, <3>1, OrderStays, CoroutineNames
  <2> QED BY <2>1, <2>2, <2>3 DEF StaleGoesFirst
<1>8. ClosesCurrent'
  <2> SUFFICES ASSUME NEW h \in Enders, at'[Handler(h)] = "tearing"
               PROVE  /\ client \in {NoClient, target[Handler(h)]}
                      /\ client = NoClient => \/ In(ready', Handler(h)) \/ h \in Disconnects
                                              \/ \E s \in Shutdowns : at'[Handler(s)] # "idle"
    BY <1>2 DEF ClosesCurrent
  <2>1. at[Handler(h)] = "tearing" BY <1>3, <1>4, EndersAreRequests
  <2>2. In(ready, Handler(h)) => In(ready', Handler(h)) BY <1>1, <1>4, OrderStays
  <2> QED BY <1>3, <2>1, <2>2, CoroutineNames DEF ClosesCurrent
<1> QED BY <1>7, <1>8

LEMMA TaskFifo ==
  ASSUME BaseInv, FifoInv, NEW q \in Connects, RunTask(q)
  PROVE  StaleGoesFirst' /\ ClosesCurrent'
<1> USE DEF BaseInv, FifoInv
<1>1. /\ \A p \in Connects : p # q => at'[Task(p)] = at[Task(p)]
      /\ \A p \in Requests : at'[Handler(p)] = at[Handler(p)]
      /\ InProgress(Task(q)) /\ Busy(q)
  BY TaskFrame
<1>2. \A h \in Enders : ~Stale(h) BY <1>1, NoTaskBesideStale
<1>3. waits' = waits BY TaskFrame
<1>4. StaleGoesFirst'
  <2> SUFFICES ASSUME NEW r \in Connects, NEW h \in Enders, Busy(r)', Stale(h)'
               PROVE  Done(Task(r))'
    BY DEF StaleGoesFirst
  <2>1. Busy(r) BY <1>1, CoroutineNames DEF Busy, InProgress
  <2>2. r = q BY <1>1, <2>1 DEF AloneInv
  <2>3. at'[Handler(h)] = at[Handler(h)] BY <1>1, EndersAreRequests
  <2>4. h \in Cancellers /\ at[Handler(h)] = "awaiting" /\ at'[Task(waits[h])] = "done"
    BY <1>2, <1>3, <2>3 DEF Stale, Done
  <2>5. waits[h] \in Connects /\ ~Done(Task(waits[h]))
    BY <1>2, <2>4 DEF LoopInv, WaitsOK, Stale
  <2>6. waits[h] = q BY <1>1, <2>4, <2>5 DEF Done
  <2> QED BY <2>2, <2>4, <2>6 DEF Done
<1>5. ClosesCurrent'
  <2>1. \A h \in Enders : at'[Handler(h)] # "tearing" BY <1>1, <1>2, EndersAreRequests DEF Stale
  <2> QED BY <2>1 DEF ClosesCurrent
<1> QED BY <1>4, <1>5


LEMMA EnderFifo ==
  ASSUME BaseInv, FifoInv, NEW q \in Enders, EndConnection(q)
  PROVE  StaleGoesFirst' /\ ClosesCurrent'
<1> USE DEF BaseInv, FifoInv
<1>1. Resumes /\ LoopKind /\ Runs(Handler(q)) /\ Handler(q) \in Coroutines
  BY EnderFrame, EndersAreRequests
<1>2. Interrupting(q) \/ Closing(q) \/ Answering(q) BY EnderFrame
<1>3. \A p \in Requests : /\ Busy(p)' => Busy(p)
                          /\ at'[Handler(p)] = "idle" <=> at[Handler(p)] = "idle"
                          /\ p # q => at'[Handler(p)] = at[Handler(p)]
  BY EnderFrame
<1>4. \A p \in Connects : at'[Task(p)] = at[Task(p)] BY EnderFrame
<1>5. \A h \in Enders : h # q => Handler(h) # Handler(q)
  BY CoroutineNames, EndersAreRequests
<1>6. q \notin Connects BY RequestKinds DEF Enders
<1>7. CASE Interrupting(q)
  <2>1. InProgress(Task(connection_task)) /\ connection_task \in Connects
    BY <1>7, RemembersTask DEF Interrupting, Interrupts, CancelsTask
  <2>2. \A h \in Enders : ~Stale(h) BY <2>1, NoTaskBesideStale
  <2>3. /\ waits' = [waits EXCEPT ![q] = connection_task] /\ q \in Cancellers
        /\ at' = [at EXCEPT ![Handler(q)] = "awaiting"]
    BY <1>7 DEF Interrupting, Interrupts, CancelsTask
  <2>4. at'[Handler(q)] = "awaiting" /\ waits'[q] = connection_task
        /\ \A h \in Cancellers : h # q => waits'[h] = waits[h]
    BY <1>1, <2>3 DEF LoopInv, LoopTypes
  <2>5. ~Stale(q)'
    <3>1. at'[Task(waits'[q])] # "done" BY <1>4, <2>1, <2>4 DEF InProgress
    <3> QED BY <2>4, <3>1 DEF Stale, Done
  <2>6. ASSUME NEW h \in Enders, h # q PROVE ~Stale(h)'
    <3>1. at'[Handler(h)] = at[Handler(h)] BY <1>3, <2>6, EndersAreRequests
    <3>2. ASSUME h \in Cancellers, at[Handler(h)] = "awaiting"
          PROVE  at'[Task(waits'[h])] # "done"
      <4>1. waits[h] \in Connects /\ waits'[h] = waits[h] /\ ~Done(Task(waits[h]))
        BY <2>2, <2>4, <2>6, <3>2 DEF LoopInv, WaitsOK, Stale
      <4> QED BY <1>4, <4>1 DEF Done
    <3> QED BY <2>2, <2>6, <3>1, <3>2 DEF Stale, Done
  <2>7. \A h \in Enders : at'[Handler(h)] # "tearing" BY <2>5, <2>6 DEF Stale
  <2> QED BY <2>5, <2>6, <2>7 DEF StaleGoesFirst, ClosesCurrent
<1>8. ASSUME Closing(q) \/ Answering(q) PROVE StaleGoesFirst'
  <2> SUFFICES ASSUME NEW r \in Connects, NEW h \in Enders, Busy(r)', Stale(h)'
               PROVE  \/ Done(Task(r))'
                      \/ at'[Handler(r)] = "new" /\ Precedes(ready', Handler(h), Handler(r))
    BY DEF StaleGoesFirst
  <2>1. Busy(r) /\ at'[Handler(r)] = at[Handler(r)] BY <1>3, <1>6, CoroutineNames
  <2>2. ~InProgress(Task(r)) BY <1>8, NoTaskBesideHandler
  <2>3. waits' = waits BY <1>8 DEF Closing, Answering
  <2>4. CASE h = q
    <3>1. Closing(q)
      <4>1. at'[Handler(q)] \in {"tearing", "awaiting"} BY <2>4 DEF Stale
      <4>2. ASSUME Answering(q) PROVE at'[Handler(q)] = "done"
        BY <1>1, <4>2 DEF Answering, Suspend, LoopInv, LoopTypes
      <4> QED BY <1>8, <4>1, <4>2
    <3>2. client = r BY <2>1, <3>1 DEF Closing, AppInv
    <3>3. at[Task(r)] = "done"
      BY <2>2, <3>1, <3>2 DEF Closing, AppInv, InProgress
    <3> QED BY <1>4, <3>3 DEF Done
  <2>5. CASE h # q
    <3>1. at'[Handler(h)] = at[Handler(h)] BY <1>3, <2>5, EndersAreRequests
    <3>2. h \in Cancellers /\ at[Handler(h)] = "awaiting" => waits[h] \in Connects
      BY DEF LoopInv, WaitsOK
    <3>3. Stale(h) BY <1>4, <2>3, <3>1, <3>2 DEF Stale, Done
    <3>4. CASE Done(Task(r)) BY <1>4, <3>4 DEF Done
    <3>5. CASE at[Handler(r)] = "new" /\ Precedes(ready, Handler(h), Handler(r))
      BY <1>1, <1>5, <2>1, <2>5, <3>5, OrderStays
    <3> QED BY <2>1, <3>3, <3>4, <3>5 DEF StaleGoesFirst
  <2> QED BY <2>4, <2>5
<1>9. CASE Closing(q)
  <2> SUFFICES ASSUME NEW h \in Enders, at'[Handler(h)] = "tearing"
               PROVE  /\ client \in {NoClient, target'[Handler(h)]}
                      /\ client = NoClient => \/ In(ready', Handler(h)) \/ h \in Disconnects
                                              \/ \E s \in Shutdowns : at'[Handler(s)] # "idle"
    BY <1>8, <1>9 DEF ClosesCurrent, Closing, appVars
  <2>1. target' = [target EXCEPT ![Handler(q)] = client] /\ client # NoClient
    BY <1>9 DEF Closing
  <2>2. CASE h = q BY <1>1, <2>1, <2>2 DEF DataOK, TargetOK
  <2>3. CASE h # q
    <3>1. at[Handler(h)] = "tearing" BY <1>3, <2>3, EndersAreRequests
    <3>2. target'[Handler(h)] = target[Handler(h)]
      BY <1>5, <2>1, <2>3, EndersAreRequests DEF DataOK, TargetOK
    <3> QED BY <2>1, <3>1, <3>2 DEF ClosesCurrent
  <2> QED BY <2>2, <2>3
<1>10. CASE Answering(q)
  <2> SUFFICES ASSUME NEW h \in Enders, at'[Handler(h)] = "tearing"
               PROVE  /\ client' \in {NoClient, target[Handler(h)]}
                      /\ client' = NoClient => \/ In(ready', Handler(h)) \/ h \in Disconnects
                                               \/ \E s \in Shutdowns : at'[Handler(s)] # "idle"
    BY <1>8, <1>10 DEF ClosesCurrent, Answering
  <2>1. h # q BY <1>1, <1>10 DEF Answering, Suspend, LoopInv, LoopTypes
  <2>2. at[Handler(h)] = "tearing" BY <1>3, <2>1, EndersAreRequests
  <2>3. In(ready, Handler(h)) => In(ready', Handler(h)) BY <1>1, <1>5, <2>1, OrderStays
  <2>4. \A s \in Shutdowns : at[Handler(s)] # "idle" => at'[Handler(s)] # "idle"
    BY <1>3, CoroutineNames
  <2>5. CASE client' = client BY <2>2, <2>3, <2>4, <2>5 DEF ClosesCurrent
  <2>6. CASE client' = NoClient /\ at[Handler(q)] = "tearing"
    <3>1. Busy(q) /\ Busy(h) BY <2>2, <2>6 DEF Busy, InProgress
    <3> QED BY <2>1, <2>4, <2>6, <3>1, TwoClosers
  <2>7. client' = client \/ (client' = NoClient /\ at[Handler(q)] = "tearing")
    BY <1>10 DEF Answering, HandleDisconnect, appVars
  <2> QED BY <2>5, <2>6, <2>7
<1> QED BY <1>2, <1>7, <1>8, <1>9, <1>10


-----------------------------------------------------------------------------
(* What requests that arrive and operations that end leave alone *)

LEMMA ArriveFrame ==
  ASSUME LoopInv, DataOK, NEW q \in Requests, RequestArrives(q)
  PROVE  /\ at[Handler(q)] = "idle" /\ at'[Handler(q)] = "new"
         /\ \A p \in Requests : p # q => at'[Handler(p)] = at[Handler(p)]
         /\ \A p \in Connects : at'[Task(p)] = at[Task(p)]
         /\ \A c : In(ready', c) <=> In(ready, c) \/ c = Handler(q)
         /\ \A c, ok : Has(ready', c, ok) <=> Has(ready, c, ok) \/ (c = Handler(q) /\ ok = TRUE)
         /\ \A s \in Shutdowns : at[Handler(s)] = "idle"
         /\ UNCHANGED << must_cancel, waits, outcome, target, connection_task, connected,
                         monitoring, client, link, subscribed, losses, spared >>
<1>1. TypeOK BY TypeOKParts
<1>2. Arrives(q) BY <1>1, KindsOfSteps
<1>3. /\ at[Handler(q)] = "idle" /\ at'[Handler(q)] = "new"
      /\ \A p \in Requests : p # q => at'[Handler(p)] = at[Handler(p)]
      /\ \A p \in Connects : at'[Task(p)] = at[Task(p)]
      /\ \A c : In(ready', c) <=> In(ready, c) \/ c = Handler(q)
  BY <1>2, ArrivalEffect
<1>4. \A c, ok : Has(ready', c, ok) <=> Has(ready, c, ok) \/ (c = Handler(q) /\ ok = TRUE)
  <2>1. /\ ready \in Queue /\ Handler(q) \in Coroutines
        /\ ready' = Append(ready, Item(Handler(q), TRUE))
    BY <1>2, CoroutineNames DEF Arrives, LoopInv, ReadyOK
  <2> QED BY <2>1, HasAppend
<1> QED BY <1>3, <1>4 DEF RequestArrives, webVars, appVars, linkVars, histVars

LEMMA CompletesFrame ==
  ASSUME LoopInv, DataOK, NEW c \in Coroutines, NEW ok \in BOOLEAN, Completes(c, ok)
  PROVE  /\ at[c] \in Awaits /\ ~In(ready, c)
         /\ \A d : In(ready', d) <=> In(ready, d) \/ d = c
         /\ \A d, k : Has(ready', d, k) <=> Has(ready, d, k) \/ (d = c /\ k = ok)
         /\ UNCHANGED << at, must_cancel, waits, outcome, target, connection_task, losses,
                         spared >>
<1>1. /\ at[c] \in Awaits /\ ~In(ready, c) /\ ready' = Append(ready, Item(c, ok))
      /\ UNCHANGED << at, must_cancel, waits, outcome, target, connection_task, losses,
                         spared >>
  BY DEF Completes, Queued, In, webVars, histVars
<1>2. ready \in Queue /\ Distinct(ready) BY DEF LoopInv, ReadyOK
<1>3. \A d : In(ready', d) <=> In(ready, d) \/ d = c BY <1>1, <1>2, QueueAppend
<1>4. \A d, k : Has(ready', d, k) <=> Has(ready, d, k) \/ (d = c /\ k = ok)
  BY <1>1, <1>2, HasAppend
<1> QED BY <1>1, <1>3, <1>4

\* The steps of the backend: a step that loses no link, by whose it is.
LEMMA StepsWithoutLoss ==
  ASSUME DataOK, [Next]_vars, losses' = 0
  PROVE  /\ losses = 0
         /\ \/ \E r \in Requests : RequestArrives(r)
            \/ Completion \/ ViewersChange \/ UNCHANGED vars
            \/ \E r \in Connects : Connect(r) \/ RunTask(r)
            \/ \E h \in Enders : EndConnection(h)
<1>1. ASSUME NEW r \in Connects, LinkLost(r) PROVE FALSE
  BY <1>1 DEF LinkLost, DataOK, HistTypes
<1>2. CASE UNCHANGED vars BY <1>2 DEF vars, histVars
<1>3. CASE Next /\ ~\E r \in Connects : LinkLost(r)
  <2>1. losses' = losses
    BY <1>3 DEF Next, RequestArrives, Completion, DropCompletes, InputCompletes, LinkCompletes,
       SubscribeCompletes, Completes, ViewersChange, LoopStep, Connect, RunTask, EndConnection,
       histVars
  <2> QED BY <1>3, <2>1 DEF Next, LoopStep, Enders
<1> QED BY <1>1, <1>2, <1>3

LEMMA NextFifoInv ==
  ASSUME Uncrossed, BaseInv, FifoInv, [Next]_vars, losses' = 0
  PROVE  FifoInv'
<1>1. DisconnectsAlone' BY NextDisconnectsAlone DEF BaseInv, FifoInv
<1>2. StaleGoesFirst' /\ ClosesCurrent'
  <2>1. DataOK BY DEF BaseInv
  <2> QED BY <2>1, StepsWithoutLoss, ArrivesFifo, OutsideFifo, ConnectFifo, TaskFifo, EnderFifo
<1> QED BY <1>1, <1>2 DEF FifoInv


-----------------------------------------------------------------------------
(* The flag says that notifications are on *)

LEMMA OutsideMonInv ==
  ASSUME BaseInv, FifoInv, MonInv,
         \/ \E r \in Requests : RequestArrives(r)
         \/ Completion \/ ViewersChange \/ UNCHANGED vars
  PROVE  MonInv'
<1> USE DEF BaseInv
<1> DEFINE Waits(r) == at[Task(r)] = "subscribing" /\ ~must_cancel[r]
\* Steps that take no subscription and give no coroutine that waits for one its answer.
<1>1. ASSUME UNCHANGED << must_cancel, monitoring, client >>,
             \A r \in Connects : at'[Task(r)] = at[Task(r)] /\ (subscribed[r] => subscribed'[r]),
             \A r \in Connects : Waits(r) /\ Has(ready', Task(r), TRUE) =>
               Has(ready, Task(r), TRUE) \/ subscribed'[r]
      PROVE  MonInv'
  <2>1. client # NoClient => client \in Connects BY DEF DataOK, AppTypes
  <2>2. MonitoringMeansSubscribed' BY <1>1, <2>1 DEF MonInv, MonitoringMeansSubscribed
  <2>3. \A r \in Connects :
          at'[Task(r)] = "subscribing" /\ ~must_cancel'[r] /\ Has(ready', Task(r), TRUE) =>
            subscribed'[r]
    BY <1>1 DEF MonInv
  <2> QED BY <1>1, <2>2, <2>3 DEF MonInv
<1>2. ASSUME NEW q \in Requests, RequestArrives(q) PROVE MonInv'
  BY <1>1, <1>2, ArriveFrame, CoroutineNames
<1>3. ASSUME NEW c \in Coroutines, DropCompletes(c) PROVE MonInv'
  <2>1. Completes(c, TRUE) /\ at[c] \in TearingPlaces /\ Drop(target[c])
    BY <1>3 DEF DropCompletes
  <2>2. UNCHANGED << at, must_cancel >> BY <2>1, CompletesFrame
  <2>3. \A r \in Connects : at[Task(r)] \notin {"linking", "subscribing"}
    BY <2>1, ClosesAlone DEF FifoInv, TearingPlaces, InProgress
  <2>4. MonitoringMeansSubscribed'
    <3>1. CASE link[target[c]] = "up"
      BY <2>1, <3>1 DEF Drop, HandleDisconnect, MonitoringMeansSubscribed
    <3>2. CASE link[target[c]] # "up"
      <4>1. /\ UNCHANGED << monitoring, client >>
            /\ subscribed' = [subscribed EXCEPT ![target[c]] = FALSE]
        BY <2>1, <3>2 DEF Drop, appVars
      <4>2. client # NoClient => client \in Connects /\ client # target[c]
        BY <2>3, <3>2 DEF AppInv, DataOK, AppTypes
      <4>3. client # NoClient => subscribed'[client] = subscribed[client]
        BY <4>1, <4>2 DEF DataOK, LinkTypes
      <4> QED BY <4>1, <4>3 DEF MonInv, MonitoringMeansSubscribed
    <3> QED BY <3>1, <3>2
  <2> QED BY <2>2, <2>3, <2>4 DEF MonInv
<1>4. ASSUME NEW c \in Coroutines, NEW ok \in BOOLEAN, InputCompletes(c, ok) PROVE MonInv'
  <2>1. Completes(c, ok) /\ at[c] # "subscribing"
        /\ UNCHANGED << monitoring, client, subscribed >>
    BY <1>4 DEF InputCompletes, appVars, linkVars
  <2> QED BY <1>1, <2>1, CompletesFrame
<1>5. ASSUME NEW q \in Connects, NEW ok \in BOOLEAN, LinkCompletes(q, ok) PROVE MonInv'
  <2>1. Completes(Task(q), ok) /\ at[Task(q)] # "subscribing"
        /\ UNCHANGED << monitoring, client, subscribed >>
    BY <1>5 DEF LinkCompletes, appVars
  <2> QED BY <1>1, <2>1, CompletesFrame, CoroutineNames
<1>6. ASSUME NEW q \in Connects, NEW ok \in BOOLEAN, SubscribeCompletes(q, ok) PROVE MonInv'
  <2>1. /\ Completes(Task(q), ok) /\ target[Task(q)] = q
        /\ UNCHANGED << monitoring, client >>
        /\ subscribed' = [subscribed EXCEPT ![q] = @ \/ ok]
    BY <1>6 DEF SubscribeCompletes, TaskTargets, appVars
  <2>2. /\ \A r \in Connects : subscribed[r] => subscribed'[r]
        /\ ok => subscribed'[q]
    BY <2>1 DEF DataOK, LinkTypes
  <2> QED BY <1>1, <2>1, <2>2, CompletesFrame, CoroutineNames
<1>7. CASE ViewersChange \/ UNCHANGED vars
  BY <1>1, <1>7 DEF ViewersChange, vars, appVars, linkVars
<1> QED BY <1>2, <1>3, <1>4, <1>5, <1>6, <1>7 DEF Completion

LEMMA ConnectMonInv ==
  ASSUME BaseInv, MonInv, NEW q \in Connects, Connect(q)
  PROVE  MonInv'
<1> USE DEF BaseInv
<1>1. \A r \in Connects : at'[Task(r)] \in {"linking", "subscribing"} =>
        /\ at[Task(r)] = at'[Task(r)]
        /\ Has(ready', Task(r), TRUE) => Has(ready, Task(r), TRUE)
  BY ConnectFrame
<1>2. UNCHANGED << must_cancel, monitoring, client, subscribed >> BY ConnectFrame
<1> QED BY <1>1, <1>2 DEF MonInv, MonitoringMeansSubscribed

LEMMA TaskMonInv ==
  ASSUME BaseInv, MonInv, NEW q \in Connects, RunTask(q)
  PROVE  MonInv'
<1> USE DEF BaseInv
<1>1. /\ \A r \in Connects : r # q => at'[Task(r)] \notin {"linking", "subscribing"}
      /\ ~In(ready', Task(q)) /\ Runs(Task(q)) /\ TaskStep(q)
      /\ \A place : Moves(q, place) => at'[Task(q)] = place
      /\ \A o : EndTask(q, o) => at'[Task(q)] = "done"
      /\ UNCHANGED subscribed
  BY TaskFrame DEF InProgress
<1>2. at'[Task(q)] \in {"linking", "subscribing"} => client' = q
  BY <1>1 DEF TaskStep, TaskCut, TaskScans, TaskMakes, TaskResets, TaskKeeps,
     TaskSubscribes, TaskUndoes, TaskTearsDown, TaskMonitors, TaskAbandons
<1>3. ~Has(ready', Task(q), TRUE) BY <1>1 DEF Has, In
<1>4. MonitoringMeansSubscribed'
  <2>1. CASE TaskMakes(q) BY <2>1 DEF TaskMakes, MonInv, MonitoringMeansSubscribed
  <2>2. CASE TaskMonitors(q)
    <3>1. at[Task(q)] = "subscribing" /\ ~must_cancel[q] /\ Has(ready, Task(q), TRUE)
      <4>1. 1 \in DOMAIN ready /\ Head(ready) = ready[1]
        <5>1. ready \in Seq([of : Coroutines, ok : BOOLEAN]) /\ ready # << >>
          BY <1>1 DEF LoopInv, ReadyOK, Queue, Runs
        <5> QED BY <5>1
      <4> QED BY <2>2, <4>1 DEF TaskMonitors, RunsAt, Runs, Has
    <3>2. subscribed[q] /\ client = q BY <3>1 DEF MonInv
    <3>3. q # NoClient BY BackendAssumption DEF BackendAssumption
    <3> QED BY <1>1, <2>2, <3>2, <3>3 DEF TaskMonitors, MonitoringMeansSubscribed
  <2>3. CASE TaskResets(q) BY <2>3 DEF TaskResets, HandleDisconnect, MonitoringMeansSubscribed
  <2>4. CASE UNCHANGED << monitoring, client >>
    BY <1>1, <2>4 DEF MonInv, MonitoringMeansSubscribed
  <2> QED BY <1>1, <2>1, <2>2, <2>3, <2>4 DEF TaskStep, TaskCut, TaskScans, TaskKeeps,
        TaskSubscribes, TaskUndoes, TaskTearsDown, TaskAbandons, appVars
<1> QED BY <1>1, <1>2, <1>3, <1>4 DEF MonInv

LEMMA EnderMonInv ==
  ASSUME BaseInv, FifoInv, MonInv, NEW q \in Enders, EndConnection(q)
  PROVE  MonInv'
<1> USE DEF BaseInv
<1>1. /\ \A r \in Connects : at'[Task(r)] = at[Task(r)]
      /\ \A r \in Connects : ~must_cancel'[r] => ~must_cancel[r]
      /\ \A r \in Connects : ~must_cancel'[r] /\ at[Task(r)] # "new" =>
           (Has(ready', Task(r), TRUE) => Has(ready, Task(r), TRUE))
      /\ UNCHANGED subscribed
      /\ Interrupting(q) \/ Closing(q) \/ Answering(q)
  BY EnderFrame
<1>2. CASE UNCHANGED << monitoring, client >>
  BY <1>1, <1>2 DEF MonInv, MonitoringMeansSubscribed
<1>3. CASE ~UNCHANGED << monitoring, client >>
  <2>1. Answering(q) /\ HandleDisconnect
    BY <1>1, <1>3 DEF Interrupting, Closing, Answering, appVars
  <2>2. \A r \in Connects : at'[Task(r)] \notin {"linking", "subscribing"}
    BY <1>1, <2>1, NoTaskBesideHandler DEF FifoInv, InProgress
  <2> QED BY <2>1, <2>2 DEF MonInv, MonitoringMeansSubscribed, HandleDisconnect
<1> QED BY <1>2, <1>3

LEMMA NextMonInv ==
  ASSUME Uncrossed, BaseInv, FifoInv, MonInv, [Next]_vars, losses' = 0
  PROVE  MonInv'
<1>1. DataOK BY DEF BaseInv
<1> QED BY <1>1, StepsWithoutLoss, OutsideMonInv, ConnectMonInv, TaskMonInv, EnderMonInv


-----------------------------------------------------------------------------
(* A link that is up has an owner *)

\* Who is tearing a client down is resumed only by its completion.
LEMMA TearingStays ==
  ASSUME LoopInv, LoopInv', Resumes, NEW h \in Enders,
         at[Handler(h)] = "tearing", at'[Handler(h)] = "tearing", In(ready', Handler(h))
  PROVE  In(ready, Handler(h))
<1>1. ready' \in Queue /\ ready \in Queue BY DEF LoopInv, ReadyOK
<1>2. Handler(h) \in Coroutines /\ h \in Requests BY EndersAreRequests
<1>3. PICK ok \in BOOLEAN : Has(ready', Handler(h), ok) BY <1>1, HasIn
<1>4. ~Readied(Handler(h))
  <2>1. ASSUME NEW x \in Cancellers, Interrupts(x), Handler(h) = Task(connection_task)
        PROVE  FALSE
    <3>1. connection_task \in Connects
      BY <2>1, RemembersTask DEF Interrupts, CancelsTask
    <3> QED BY <1>2, <2>1, <3>1, CoroutineNames
  <2> QED BY <2>1 DEF Readied
<1>5. Has(ready, Handler(h), ok) BY <1>2, <1>3, <1>4, ReadyAfter
<1> QED BY <1>5 DEF Has, In

LEMMA ArrivesLinkInv ==
  ASSUME BaseInv, LinkInv, NEW q \in Requests, RequestArrives(q)
  PROVE  LinkInv'
<1> USE DEF BaseInv, LinkInv
<1>1. /\ at[Handler(q)] = "idle" /\ at'[Handler(q)] = "new"
      /\ \A p \in Requests : p # q => at'[Handler(p)] = at[Handler(p)]
      /\ \A p \in Connects : at'[Task(p)] = at[Task(p)]
      /\ \A c : In(ready', c) <=> In(ready, c) \/ c = Handler(q)
      /\ \A c, ok : Has(ready', c, ok) <=> Has(ready, c, ok) \/ (c = Handler(q) /\ ok = TRUE)
      /\ \A s \in Shutdowns : at[Handler(s)] = "idle"
      /\ UNCHANGED << must_cancel, waits, target, client, link, spared >>
  BY ArriveFrame
<1>2. OwnedOrSpared' BY <1>1 DEF OwnedOrSpared
<1>3. LinkIsAnswered' BY <1>1, CoroutineNames DEF LinkIsAnswered
<1>4. CancellersWait'
  <2> SUFFICES ASSUME NEW r \in Connects, at[Task(r)] = "undoing" \/ must_cancel[r]
               PROVE  /\ InProgress(Task(r))'
                      /\ \E x \in Cancellers : at'[Handler(x)] = "awaiting" /\ waits[x] = r
    BY <1>1 DEF CancellersWait
  <2>1. InProgress(Task(r)) BY DEF CancellersWait
  <2>2. PICK x \in Cancellers : at[Handler(x)] = "awaiting" /\ waits[x] = r BY DEF CancellersWait
  <2>3. at'[Handler(x)] = "awaiting" BY <1>1, <2>2, CoroutineNames
  <2> QED BY <1>1, <2>1, <2>2, <2>3 DEF InProgress
<1>5. ClosedIsDown'
  <2>1. ASSUME NEW h \in Enders, at'[Handler(h)] = "tearing", In(ready', Handler(h))
        PROVE  link[target[Handler(h)]] # "up"
    <3>1. h # q BY <1>1, <2>1
    <3>2. at[Handler(h)] = "tearing" /\ In(ready, Handler(h))
      BY <1>1, <2>1, <3>1, CoroutineNames, EndersAreRequests
    <3> QED BY <3>2 DEF ClosedIsDown
  <2>2. \A r \in Connects : In(ready', Task(r)) => In(ready, Task(r)) BY <1>1, CoroutineNames
  <2> QED BY <1>1, <2>1, <2>2 DEF ClosedIsDown
<1>6. TwiceIsSpared' BY <1>1 DEF TwiceIsSpared
<1>7. SparedAtTheEnd' BY <1>1 DEF SparedAtTheEnd
<1> QED BY <1>2, <1>3, <1>4, <1>5, <1>6, <1>7

LEMMA OutsideLinkInv ==
  ASSUME BaseInv, FifoInv, MonInv, LinkInv, Completion \/ ViewersChange \/ UNCHANGED vars
  PROVE  LinkInv'
<1> USE DEF BaseInv, LinkInv
<1>1. ASSUME UNCHANGED << at, must_cancel, waits, spared >>
      PROVE  CancellersWait' /\ TwiceIsSpared' /\ SparedAtTheEnd'
  BY <1>1 DEF CancellersWait, TwiceIsSpared, SparedAtTheEnd, InProgress
\* Nobody that closes a link is answered, and no link changes.
<1>2. ASSUME UNCHANGED << at, must_cancel, waits, spared, target, client, link >>,
             \A d : In(ready', d) => In(ready, d) \/ at[d] \notin TearingPlaces,
             \A d, k : Has(ready, d, k) => Has(ready', d, k)
      PROVE  LinkInv'
  <2>1. OwnedOrSpared' BY <1>2 DEF OwnedOrSpared
  <2>2. LinkIsAnswered' BY <1>2 DEF LinkIsAnswered
  <2>3. ClosedIsDown' BY <1>2 DEF ClosedIsDown, TearingPlaces
  <2> QED BY <1>1, <1>2, <2>1, <2>2, <2>3
<1>3. ASSUME NEW c \in Coroutines, DropCompletes(c) PROVE LinkInv'
  <2>1. Completes(c, TRUE) /\ at[c] \in TearingPlaces /\ Drop(target[c])
    BY <1>3 DEF DropCompletes
  <2>2. /\ \A d : In(ready', d) <=> In(ready, d) \/ d = c
        /\ \A d, k : Has(ready', d, k) <=> Has(ready, d, k) \/ (d = c /\ k = TRUE)
        /\ UNCHANGED << at, must_cancel, waits, target, spared >>
    BY <2>1, CompletesFrame
  <2>3. /\ target[c] \in Connects /\ link' = [link EXCEPT ![target[c]] = "down"]
        /\ client' = client \/ client' = NoClient
    BY <2>1, BackendAssumption
       DEF Drop, HandleDisconnect, appVars, DataOK, TargetOK, BackendAssumption
  <2>4. /\ link'[target[c]] = "down"
        /\ \A r \in Connects : link'[r] = "up" => link[r] = "up" /\ r # target[c]
    BY <2>3 DEF DataOK, LinkTypes
  <2>5. client \in {NoClient, target[c]}
    <3>1. ASSUME NEW r \in Connects, c = Task(r) PROVE client \in {NoClient, target[c]}
      <4>1. target[c] = r BY <2>1, <3>1 DEF TaskTargets, TearingPlaces
      <4>2. Busy(r) BY <2>1, <3>1, TaskIsBusy DEF TearingPlaces, InProgress
      <4> QED BY <4>1, <4>2 DEF AppInv
    <3>2. ASSUME NEW h \in Enders, c = Handler(h) PROVE client \in {NoClient, target[c]}
      <4>1. at[Handler(h)] = "tearing" BY <2>1, <3>2 DEF LoopInv, PlacesOK, TearingPlaces, Enders
      <4> QED BY <3>2, <4>1 DEF FifoInv, ClosesCurrent
    <3>3. ASSUME NEW r \in Connects, c = Handler(r) PROVE FALSE
      BY <2>1, <3>3 DEF LoopInv, PlacesOK, TearingPlaces
    <3> QED BY <3>1, <3>2, <3>3, CoroutineNames, RequestKinds DEF Enders
  <2>6. OwnedOrSpared'
    <3> SUFFICES ASSUME NEW r \in Connects, link'[r] = "up" PROVE client' = r \/ r \in spared
      BY <2>2 DEF OwnedOrSpared
    <3>1. link[r] = "up" /\ r # target[c] BY <2>4
    <3>2. r # NoClient BY BackendAssumption DEF BackendAssumption
    <3>3. client = r => r = target[c] BY <2>5, <3>2
    <3> QED BY <3>1, <3>3 DEF OwnedOrSpared
  <2>7. LinkIsAnswered' BY <2>2, <2>4 DEF LinkIsAnswered
  <2>8. ClosedIsDown'
    <3>1. ASSUME NEW r \in Connects, at[Task(r)] \in TearingPlaces, In(ready', Task(r)),
                 ~must_cancel[r]
          PROVE  link'[r] # "up"
      <4>1. CASE c = Task(r)
        <5>1. target[c] = r BY <3>1, <4>1 DEF TaskTargets, TearingPlaces
        <5> QED BY <2>4, <5>1
      <4>2. CASE c # Task(r) BY <2>2, <2>4, <3>1, <4>2 DEF ClosedIsDown
      <4> QED BY <4>1, <4>2
    <3>2. ASSUME NEW h \in Enders, at[Handler(h)] = "tearing", In(ready', Handler(h))
          PROVE  link'[target[Handler(h)]] # "up"
      <4>1. CASE c = Handler(h) BY <2>4, <4>1
      <4>2. CASE c # Handler(h)
        <5>1. link[target[Handler(h)]] # "up" BY <2>2, <3>2, <4>2 DEF ClosedIsDown
        <5>2. target[Handler(h)] \in Connects
          BY <3>2, EndersAreRequests DEF DataOK, TargetOK, TearingPlaces
        <5> QED BY <2>4, <5>1, <5>2
      <4> QED BY <4>1, <4>2
    <3> QED BY <2>2, <3>1, <3>2 DEF ClosedIsDown
  <2> QED BY <1>1, <2>2, <2>6, <2>7, <2>8
<1>4. ASSUME NEW c \in Coroutines, NEW ok \in BOOLEAN, InputCompletes(c, ok) PROVE LinkInv'
  <2>1. Completes(c, ok) /\ at[c] \notin TearingPlaces /\ UNCHANGED << client, link >>
    BY <1>4 DEF InputCompletes, appVars, linkVars, TearingPlaces
  <2> QED BY <1>2, <2>1, CompletesFrame
<1>5. ASSUME NEW q \in Connects, NEW ok \in BOOLEAN, LinkCompletes(q, ok) PROVE LinkInv'
  <2>1. /\ Completes(Task(q), ok) /\ at[Task(q)] = "linking" /\ client' = client
        /\ link' = [link EXCEPT ![q] = IF ok THEN "up" ELSE @]
    BY <1>5 DEF LinkCompletes, appVars
  <2>2. /\ \A d : In(ready', d) <=> In(ready, d) \/ d = Task(q)
        /\ \A d, k : Has(ready', d, k) <=> Has(ready, d, k) \/ (d = Task(q) /\ k = ok)
        /\ UNCHANGED << at, must_cancel, waits, target, spared >>
    BY <2>1, CompletesFrame, CoroutineNames
  <2>3. /\ \A r \in Connects : r # q => link'[r] = link[r]
        /\ link'[q] = "up" => ok \/ link[q] = "up"
    BY <2>1 DEF DataOK, LinkTypes
  <2>4. client = q BY <2>1 DEF MonInv
  <2>5. OwnedOrSpared' BY <2>1, <2>2, <2>3, <2>4 DEF OwnedOrSpared
  <2>6. LinkIsAnswered'
    <3>1. link'[q] = "up" => Has(ready', Task(q), TRUE) BY <2>1, <2>2, <2>3 DEF LinkIsAnswered
    <3> QED BY <2>1, <2>2, <2>3, <3>1 DEF LinkIsAnswered
  <2>7. ClosedIsDown'
    <3>1. \A h \in Enders : at[Handler(h)] # "tearing"
      BY <2>1, NoTaskBesideStale DEF FifoInv, Stale, InProgress
    <3>2. ASSUME NEW r \in Connects, at[Task(r)] \in TearingPlaces, In(ready', Task(r)),
                 ~must_cancel[r]
          PROVE  link'[r] # "up"
      <4>1. r # q BY <2>1, <3>2 DEF TearingPlaces
      <4>2. In(ready, Task(r)) BY <2>2, <3>2, <4>1, CoroutineNames
      <4> QED BY <2>3, <3>2, <4>1, <4>2 DEF ClosedIsDown
    <3> QED BY <2>2, <3>1, <3>2 DEF ClosedIsDown
  <2> QED BY <1>1, <2>2, <2>5, <2>6, <2>7
<1>6. ASSUME NEW q \in Connects, NEW ok \in BOOLEAN, SubscribeCompletes(q, ok) PROVE LinkInv'
  <2>1. Completes(Task(q), ok) /\ at[Task(q)] \notin TearingPlaces /\ UNCHANGED << client, link >>
    BY <1>6 DEF SubscribeCompletes, appVars, TearingPlaces
  <2> QED BY <1>2, <2>1, CompletesFrame, CoroutineNames
<1>7. CASE ViewersChange \/ UNCHANGED vars
  BY <1>2, <1>7 DEF ViewersChange, vars, appVars, linkVars, histVars
<1> QED BY <1>3, <1>4, <1>5, <1>6, <1>7 DEF Completion


LEMMA ConnectLinkInv ==
  ASSUME BaseInv, LoopInv', LinkInv, NEW q \in Connects, Connect(q)
  PROVE  LinkInv'
<1> USE DEF BaseInv, LinkInv
<1>1. /\ Resumes
      /\ \A p \in Requests : p # q => at'[Handler(p)] = at[Handler(p)]
      /\ \A p \in Connects : \/ at'[Task(p)] = at[Task(p)]
                             \/ at[Task(p)] = "idle" /\ at'[Task(p)] = "new"
      /\ \A p \in Connects : at[Task(p)] \notin {"idle", "new"} =>
           /\ Has(ready', Task(p), TRUE) <=> Has(ready, Task(p), TRUE)
           /\ In(ready', Task(p)) => In(ready, Task(p))
      /\ UNCHANGED << must_cancel, waits, target, client, link, spared >>
  BY ConnectFrame
<1>2. \A h \in Enders : at'[Handler(h)] = at[Handler(h)]
  BY <1>1, RequestKinds, EndersAreRequests DEF Enders
<1>3. OwnedOrSpared' BY <1>1 DEF OwnedOrSpared
<1>4. LinkIsAnswered' BY <1>1 DEF LinkIsAnswered
<1>5. CancellersWait'
  <2> SUFFICES ASSUME NEW r \in Connects, at'[Task(r)] = "undoing" \/ must_cancel[r]
               PROVE  /\ InProgress(Task(r))'
                      /\ \E x \in Cancellers : at'[Handler(x)] = "awaiting" /\ waits[x] = r
    BY <1>1 DEF CancellersWait
  <2>1. at[Task(r)] = "undoing" \/ must_cancel[r] BY <1>1
  <2>2. InProgress(Task(r)) /\ \E x \in Cancellers : at[Handler(x)] = "awaiting" /\ waits[x] = r
    BY <2>1 DEF CancellersWait
  <2> QED BY <1>1, <1>2, <2>2, EndersAreRequests DEF InProgress
<1>6. ClosedIsDown'
  <2>1. \A h \in Enders : at'[Handler(h)] = "tearing" /\ In(ready', Handler(h)) =>
          link[target[Handler(h)]] # "up"
    BY <1>1, <1>2, TearingStays DEF ClosedIsDown
  <2> QED BY <1>1, <2>1 DEF ClosedIsDown, TearingPlaces
<1>7. TwiceIsSpared' BY <1>1 DEF TwiceIsSpared
<1>8. SparedAtTheEnd'
  <2>1. \A s \in Shutdowns : at'[Handler(s)] = at[Handler(s)]
    BY <1>2, EndersAreRequests, CoroutineNames
  <2> QED BY <1>1, <2>1 DEF SparedAtTheEnd
<1> QED BY <1>3, <1>4, <1>5, <1>6, <1>7, <1>8

LEMMA TaskLinkInv ==
  ASSUME BaseInv, FifoInv, LinkInv, NEW q \in Connects, RunTask(q)
  PROVE  LinkInv'
<1> USE DEF BaseInv, LinkInv
<1>1. /\ Runs(Task(q)) /\ TaskStep(q)
      /\ \A p \in Connects : p # q => ~InProgress(Task(p)) /\ at'[Task(p)] = at[Task(p)]
      /\ \A p \in Requests : at'[Handler(p)] = at[Handler(p)]
      /\ InProgress(Task(q)) /\ client \in {NoClient, q}
      /\ ~In(ready', Task(q)) /\ at'[Task(q)] # "idle"
      /\ \A place : Moves(q, place) => at'[Task(q)] = place
      /\ \A o : EndTask(q, o) => at'[Task(q)] = "done"
      /\ must_cancel' = [must_cancel EXCEPT ![q] = FALSE]
      /\ UNCHANGED << waits, link, spared >>
  BY TaskFrame
<1>2. \A r \in Connects : must_cancel'[r] = FALSE
  <2>1. \A r \in Connects : r # q => ~must_cancel[r] BY <1>1 DEF CancellersWait
  <2> QED BY <1>1, <2>1 DEF DataOK, TaskTypes
<1>3. \A h \in Enders : at'[Handler(h)] = at[Handler(h)] /\ at[Handler(h)] # "tearing"
  BY <1>1, NoTaskBesideStale, EndersAreRequests DEF FifoInv, Stale
<1>4. In(ready, Task(q)) BY <1>1, RunsFirst
<1>5. OwnedOrSpared'
  <2> SUFFICES ASSUME NEW r \in Connects, link[r] = "up" PROVE client' = r \/ r \in spared
    BY <1>1 DEF OwnedOrSpared
  <2>1. client = r \/ r \in spared BY DEF OwnedOrSpared
  <2>2. r # NoClient BY BackendAssumption DEF BackendAssumption
  <2>3. CASE TaskMakes(q) BY <2>1, <2>2, <2>3 DEF TaskMakes
  <2>4. CASE TaskResets(q)
    <3> SUFFICES ASSUME client = r PROVE r \in spared BY <2>1
    <3>1. r = q BY <1>1, <2>2
    <3>2. at[Task(q)] = "undoing" \/ (at[Task(q)] = "tearing" /\ ~must_cancel[q])
      BY <2>2, <2>4, <3>1 DEF TaskResets
    <3>3. must_cancel[q] BY <1>4, <3>1, <3>2 DEF ClosedIsDown, TearingPlaces
    <3> QED BY <3>1, <3>2, <3>3 DEF TwiceIsSpared
  <2>5. CASE client' = client BY <2>1, <2>5
  <2> QED BY <1>1, <2>3, <2>4, <2>5 DEF TaskStep, TaskCut, TaskScans, TaskKeeps,
        TaskSubscribes, TaskUndoes, TaskTearsDown, TaskMonitors, TaskAbandons, appVars
<1>6. LinkIsAnswered'
  <2>1. at'[Task(q)] \in {"new", "scanning", "linking"} => link[q] # "up"
    BY <1>1 DEF TaskStep, TaskCut, TaskScans, TaskMakes, TaskResets, TaskKeeps,
       TaskSubscribes, TaskUndoes, TaskTearsDown, TaskMonitors, TaskAbandons, RunsAt, LinkIsAnswered
  <2>2. \A r \in Connects : r # q => at'[Task(r)] = at[Task(r)] /\ at[Task(r)] # "linking"
    BY <1>1 DEF InProgress
  <2> QED BY <1>1, <2>1, <2>2 DEF LinkIsAnswered
<1>7. CancellersWait'
  <2> SUFFICES ASSUME NEW r \in Connects, at'[Task(r)] = "undoing"
               PROVE  /\ InProgress(Task(r))'
                      /\ \E x \in Cancellers : at'[Handler(x)] = "awaiting" /\ waits[x] = r
    BY <1>1, <1>2 DEF CancellersWait
  <2>1. r = q BY <1>1 DEF InProgress
  <2>2. TaskUndoes(q)
    BY <1>1, <2>1 DEF TaskStep, TaskCut, TaskScans, TaskMakes, TaskResets, TaskKeeps,
       TaskSubscribes, TaskUndoes, TaskTearsDown, TaskMonitors, TaskAbandons
  <2>3. Head(ready).ok = TRUE
    <3>1. Has(ready, Task(q), TRUE) BY <2>2 DEF TaskUndoes, RunsAt, LinkIsAnswered
    <3> QED BY <1>1, <3>1, HasTail DEF LoopInv, ReadyOK, Runs
  <2>4. must_cancel[q] BY <2>2, <2>3 DEF TaskUndoes
  <2>5. PICK x \in Cancellers : at[Handler(x)] = "awaiting" /\ waits[x] = q
    BY <2>4 DEF CancellersWait
  <2>6. at'[Handler(x)] = "awaiting" BY <1>3, <2>5, EndersAreRequests
  <2> QED BY <2>1, <2>5, <2>6 DEF InProgress
<1>8. ClosedIsDown' BY <1>1, <1>3 DEF ClosedIsDown, InProgress, TearingPlaces
<1>9. TwiceIsSpared' BY <1>2 DEF TwiceIsSpared
<1>10. SparedAtTheEnd' BY <1>1, CoroutineNames DEF SparedAtTheEnd
<1> QED BY <1>5, <1>6, <1>7, <1>8, <1>9, <1>10

\* What shutdown passes over it passes over for good.
LEMMA SparedStays ==
  ASSUME BaseInv, SparedAtTheEnd, NEW q \in Enders, EndConnection(q)
  PROVE  spared \subseteq spared'
<1> USE DEF BaseInv
<1>1. spared' = IF q \in Shutdowns /\ at[Handler(q)] = "new" THEN Unaccounted ELSE spared
  BY EnderFrame
<1>2. CASE q \in Shutdowns /\ at[Handler(q)] = "new"
  <2>1. \A s \in Shutdowns : at[Handler(s)] \in {"idle", "new"} BY <1>2 DEF AloneInv
  <2> QED BY <2>1 DEF SparedAtTheEnd
<1> QED BY <1>1, <1>2

LEMMA EnderLinkInv ==
  ASSUME BaseInv, LoopInv', FifoInv, LinkInv, NEW q \in Enders, EndConnection(q)
  PROVE  LinkInv'
<1> USE DEF BaseInv, LinkInv
<1>1. /\ Resumes /\ Runs(Handler(q)) /\ In(ready, Handler(q))
      /\ Interrupting(q) \/ Closing(q) \/ Answering(q)
      /\ \A h \in Enders : h # q => Handler(h) # Handler(q) /\ at'[Handler(h)] = at[Handler(h)]
      /\ \A p \in Connects : at'[Task(p)] = at[Task(p)]
      /\ \A p \in Connects : Has(ready, Task(p), TRUE) => Has(ready', Task(p), TRUE)
      /\ \A p \in Connects : In(ready', Task(p)) =>
           In(ready, Task(p)) \/ must_cancel'[p] \/ at[Task(p)] = "new"
      /\ \A p \in Connects : must_cancel[p] => must_cancel'[p]
      /\ ~In(ready', Handler(q))
      /\ spared' = IF q \in Shutdowns /\ at[Handler(q)] = "new" THEN Unaccounted ELSE spared
      /\ link' = link
  BY EnderFrame
<1>2. spared \subseteq spared' BY SparedStays
<1>3. Handler(q) \in Coroutines BY EndersAreRequests
<1>4. ASSUME Closing(q) \/ Answering(q)
      PROVE  /\ must_cancel' = must_cancel
             /\ \A r \in Connects : ~InProgress(Task(r))
  BY <1>4, NoTaskBesideHandler DEF FifoInv, Closing, Answering
<1>5. ASSUME Interrupting(q)
      PROVE  /\ connection_task \in Connects /\ InProgress(Task(connection_task))
             /\ q \in Cancellers /\ at[Handler(q)] = "new" /\ at'[Handler(q)] = "awaiting"
             /\ must_cancel' = [must_cancel EXCEPT ![connection_task] = TRUE]
             /\ waits'[q] = connection_task
             /\ \A x \in Cancellers : x # q => waits'[x] = waits[x]
             /\ target' = target /\ client' = client
  <2>1. /\ q \in Cancellers /\ at[Handler(q)] = "new" /\ TaskInProgress
        /\ at' = [at EXCEPT ![Handler(q)] = "awaiting"]
        /\ must_cancel' = [must_cancel EXCEPT ![connection_task] = TRUE]
        /\ waits' = [waits EXCEPT ![q] = connection_task]
        /\ target' = target /\ client' = client
    BY <1>5 DEF Interrupting, Interrupts, CancelsTask, Cancel, appVars
  <2> QED BY <1>3, <2>1, RemembersTask DEF LoopInv, LoopTypes
<1>6. OwnedOrSpared'
  <2> SUFFICES ASSUME NEW r \in Connects, link[r] = "up" PROVE client' = r \/ r \in spared'
    BY <1>1 DEF OwnedOrSpared
  <2>1. client = r \/ r \in spared BY DEF OwnedOrSpared
  <2>2. r # NoClient BY BackendAssumption DEF BackendAssumption
  <2>3. CASE client' = client BY <1>2, <2>1, <2>3
  <2>4. CASE client' # client
    <3>1. at[Handler(q)] = "tearing" \/ client = NoClient
      BY <1>1, <1>5, <2>4 DEF Closing, Answering, appVars
    <3>2. ASSUME client = r PROVE FALSE
      <4>1. at[Handler(q)] = "tearing" BY <2>2, <3>1, <3>2
      <4>2. target[Handler(q)] = r BY <2>2, <3>2, <4>1 DEF FifoInv, ClosesCurrent
      <4> QED BY <1>1, <4>1, <4>2 DEF ClosedIsDown
    <3> QED BY <1>2, <2>1, <3>2
  <2> QED BY <2>3, <2>4
<1>7. LinkIsAnswered' BY <1>1 DEF LinkIsAnswered
<1>8. CancellersWait'
  <2>1. CASE Interrupting(q)
    <3> SUFFICES ASSUME NEW r \in Connects, at[Task(r)] = "undoing" \/ must_cancel'[r]
                 PROVE  /\ InProgress(Task(r))
                        /\ \E x \in Cancellers : at'[Handler(x)] = "awaiting" /\ waits'[x] = r
      BY <1>1 DEF CancellersWait, InProgress
    <3>1. CASE r = connection_task BY <1>5, <2>1, <3>1
    <3>2. CASE r # connection_task
      <4>1. must_cancel'[r] = must_cancel[r] BY <1>5, <2>1, <3>2 DEF DataOK, TaskTypes
      <4>2. PICK x \in Cancellers : at[Handler(x)] = "awaiting" /\ waits[x] = r
        BY <4>1 DEF CancellersWait
      <4>3. x # q BY <1>5, <2>1, <4>2
      <4>4. at'[Handler(x)] = "awaiting" /\ waits'[x] = r
        BY <1>1, <1>5, <2>1, <4>2, <4>3, EndersAreRequests
      <4> QED BY <4>1, <4>4 DEF CancellersWait
    <3> QED BY <3>1, <3>2
  <2>2. CASE Closing(q) \/ Answering(q)
    BY <1>1, <1>4, <2>2 DEF CancellersWait
  <2> QED BY <1>1, <2>1, <2>2
<1>9. ClosedIsDown'
  <2>1. ASSUME NEW r \in Connects, at'[Task(r)] \in TearingPlaces, In(ready', Task(r)),
               ~must_cancel'[r]
        PROVE  link'[r] # "up"
    BY <1>1, <2>1 DEF ClosedIsDown, TearingPlaces
  <2>2. ASSUME NEW h \in Enders, at'[Handler(h)] = "tearing", In(ready', Handler(h))
        PROVE  link'[target'[Handler(h)]] # "up"
    <3>1. h # q BY <1>1, <2>2
    <3>2. at[Handler(h)] = "tearing" BY <1>1, <2>2, <3>1
    <3>3. In(ready, Handler(h)) BY <1>1, <2>2, <3>2, TearingStays
    <3>4. target' = target \/ target' = [target EXCEPT ![Handler(q)] = client]
      BY <1>1 DEF Interrupting, Closing, Answering
    <3>5. target'[Handler(h)] = target[Handler(h)]
      BY <1>1, <3>1, <3>4, EndersAreRequests DEF DataOK, TargetOK
    <3> QED BY <1>1, <3>2, <3>3, <3>5 DEF ClosedIsDown
  <2> QED BY <2>1, <2>2 DEF ClosedIsDown
<1>10. TwiceIsSpared'
  <2> SUFFICES ASSUME NEW r \in Connects, at[Task(r)] = "undoing", must_cancel'[r]
               PROVE  r \in spared'
    BY <1>1 DEF TwiceIsSpared
  <2>1. CASE must_cancel[r] BY <1>2, <2>1 DEF TwiceIsSpared
  <2>2. CASE ~must_cancel[r]
    <3>1. Interrupting(q) BY <1>1, <1>4, <2>2
    <3>2. PICK x \in Cancellers : at[Handler(x)] = "awaiting" /\ waits[x] = r
      BY DEF CancellersWait
    <3>3. x # q /\ at[Handler(q)] = "new" /\ q \in Cancellers BY <1>5, <3>1, <3>2
    <3>4. Busy(x) /\ Busy(q) BY <3>2, <3>3 DEF Busy, InProgress
    <3>5. CASE q \in Cancels
      <4>1. x \in Shutdowns BY <3>3, <3>4, <3>5, RequestKinds DEF AloneInv
      <4>2. q \in Requests BY EndersAreRequests
      <4> QED BY <3>2, <3>3, <4>1, <4>2 DEF AloneInv
    <3>6. CASE q \in Shutdowns
      <4>1. x \notin Shutdowns BY <3>2, <3>3, <3>6 DEF AloneInv
      <4>2. x \in Cancels BY <4>1, RequestKinds
      <4>3. r \in Unaccounted BY <3>2, <3>4, <4>2 DEF Unaccounted, Busy
      <4> QED BY <1>1, <3>3, <3>6, <4>3
    <3> QED BY <3>3, <3>5, <3>6, RequestKinds
  <2> QED BY <2>1, <2>2
<1>11. SparedAtTheEnd'
  <2>1. CASE q \in Shutdowns
    <3>1. at'[Handler(q)] \in {"awaiting", "tearing", "done"}
      BY <1>1, <1>3, <1>5 DEF Closing, Answering, Suspend, LoopInv, LoopTypes
    <3> QED BY <2>1, <3>1 DEF SparedAtTheEnd
  <2>2. CASE q \notin Shutdowns
    <3>1. \A s \in Shutdowns : at'[Handler(s)] = at[Handler(s)]
      BY <1>1, <2>2, EndersAreRequests
    <3> QED BY <1>1, <2>2, <3>1 DEF SparedAtTheEnd
  <2> QED BY <2>1, <2>2
<1> QED BY <1>6, <1>7, <1>8, <1>9, <1>10, <1>11

LEMMA NextLinkInv ==
  ASSUME Uncrossed, BaseInv, LoopInv', FifoInv, MonInv, LinkInv, [Next]_vars, losses' = 0
  PROVE  LinkInv'
<1>1. DataOK BY DEF BaseInv
<1> QED BY <1>1, StepsWithoutLoss, ArrivesLinkInv, OutsideLinkInv, ConnectLinkInv, TaskLinkInv,
      EnderLinkInv


-----------------------------------------------------------------------------
(* Whoever cancels leaves nothing of what it cancelled *)

LEMMA ArrivesEndInv ==
  ASSUME BaseInv, EndInv, NEW q \in Requests, RequestArrives(q)
  PROVE  EndInv'
<1> USE DEF BaseInv, EndInv
<1>1. /\ at[Handler(q)] = "idle" /\ at'[Handler(q)] = "new"
      /\ \A p \in Requests : p # q => at'[Handler(p)] = at[Handler(p)]
      /\ \A p \in Connects : at'[Task(p)] = at[Task(p)]
      /\ \A s \in Shutdowns : at[Handler(s)] = "idle"
      /\ UNCHANGED << waits, outcome, client, spared >>
  BY ArriveFrame
<1>2. FailedHasNone' BY <1>1 DEF FailedHasNone, Done
<1>3. CancelledIsGone'
  <2> SUFFICES ASSUME NEW x \in Cancellers
               PROVE  /\ at'[Handler(x)] \in {"idle", "new"} => waits[x] = NoClient
                      /\ waits[x] # NoClient /\ at'[Handler(x)] \in {"tearing", "done"} =>
                           Done(Task(waits[x])) /\ at'[Task(waits[x])] = "done"
                      /\ waits[x] # NoClient /\ at'[Handler(x)] = "done" => client # waits[x]
    BY <1>1 DEF CancelledIsGone, Done
  <2>1. CASE x = q BY <1>1, <2>1 DEF CancelledIsGone
  <2>2. CASE x # q
    <3>1. at'[Handler(x)] = at[Handler(x)] BY <1>1, <2>2, CoroutineNames
    <3>2. waits[x] # NoClient => waits[x] \in Connects BY DEF LoopInv, LoopTypes
    <3> QED BY <1>1, <3>1, <3>2 DEF CancelledIsGone, Done
  <2> QED BY <2>1, <2>2
<1>4. EndsTheRest'
  <2>1. \A s \in Shutdowns : at'[Handler(s)] \in {"idle", "new"} BY <1>1, CoroutineNames
  <2> QED BY <2>1 DEF EndsTheRest, Done
<1> QED BY <1>2, <1>3, <1>4

\* What ends outside the loop at most takes the client away.
LEMMA OutsideEndInv ==
  ASSUME BaseInv, EndInv, Completion \/ ViewersChange \/ UNCHANGED vars
  PROVE  EndInv'
<1> USE DEF BaseInv, EndInv
<1>1. UNCHANGED << at, waits, outcome, spared >>
  BY DEF Completion, DropCompletes, InputCompletes, LinkCompletes, SubscribeCompletes,
     Completes, ViewersChange, vars, histVars
<1>2. client' \in {client, NoClient}
  BY DEF Completion, DropCompletes, Drop, HandleDisconnect, InputCompletes, LinkCompletes,
     SubscribeCompletes, ViewersChange, vars, appVars
<1>3. NoClient \notin Connects BY BackendAssumption DEF BackendAssumption
<1>4. FailedHasNone' BY <1>1, <1>2, <1>3 DEF FailedHasNone, Done
<1>5. CancelledIsGone' BY <1>1, <1>2 DEF CancelledIsGone, Done
<1>6. EndsTheRest' BY <1>1, <1>2 DEF EndsTheRest, Done, Busy, InProgress
<1> QED BY <1>4, <1>5, <1>6

LEMMA ConnectEndInv ==
  ASSUME BaseInv, EndInv, NEW q \in Connects, Connect(q)
  PROVE  EndInv'
<1> USE DEF BaseInv, EndInv
<1>1. /\ \A p \in Requests : Busy(p)' => Busy(p)
      /\ \A p \in Requests : p # q => at'[Handler(p)] = at[Handler(p)]
      /\ \A p \in Connects : \/ at'[Task(p)] = at[Task(p)]
                             \/ at[Task(p)] = "idle" /\ at'[Task(p)] = "new"
      /\ UNCHANGED << waits, outcome, client, spared >>
  BY ConnectFrame
<1>2. \A x \in Cancellers : at'[Handler(x)] = at[Handler(x)]
  BY <1>1, RequestKinds, CoroutineNames
<1>3. \A x \in Cancellers : waits[x] # NoClient => waits[x] \in Connects BY DEF LoopInv, LoopTypes
<1>4. FailedHasNone' BY <1>1 DEF FailedHasNone, Done
<1>5. CancelledIsGone' BY <1>1, <1>2, <1>3 DEF CancelledIsGone, Done
<1>6. EndsTheRest' BY <1>1, <1>2, CoroutineNames DEF EndsTheRest, Done
<1> QED BY <1>4, <1>5, <1>6

LEMMA TaskEndInv ==
  ASSUME BaseInv, FifoInv, EndInv, NEW q \in Connects, RunTask(q)
  PROVE  EndInv'
<1> USE DEF BaseInv, EndInv
<1>1. /\ TaskStep(q)
      /\ \A p \in Connects : p # q => ~InProgress(Task(p)) /\ at'[Task(p)] = at[Task(p)]
      /\ \A p \in Requests : at'[Handler(p)] = at[Handler(p)]
      /\ InProgress(Task(q)) /\ Busy(q) /\ client \in {NoClient, q}
      /\ \A place : Moves(q, place) => at'[Task(q)] = place
      /\ \A o : EndTask(q, o) => at'[Task(q)] = "done"
      /\ UNCHANGED << waits, spared >>
  BY TaskFrame
<1>2. client' \in {NoClient, q}
  BY <1>1 DEF TaskStep, TaskCut, TaskScans, TaskMakes, TaskResets, TaskKeeps, TaskSubscribes,
     TaskUndoes, TaskTearsDown, TaskMonitors, TaskAbandons, HandleDisconnect, appVars
<1>3. q # NoClient /\ ~Done(Task(q))
  BY <1>1, BackendAssumption DEF BackendAssumption, InProgress, Done
<1>4. \A r \in Connects : Done(Task(r)) => r # q /\ at'[Task(r)] = "done"
  BY <1>1, <1>3 DEF Done
<1>5. \A p \in Connects : Busy(p)' <=> Busy(p) BY <1>1, CoroutineNames DEF Busy, InProgress
<1>6. FailedHasNone'
  <2> SUFFICES ASSUME NEW r \in Connects, at'[Task(r)] = "done", outcome'[r] = "error", client' = r
               PROVE  FALSE
    BY DEF FailedHasNone, Done
  <2>1. r = q
    <3>1. r # NoClient BY BackendAssumption DEF BackendAssumption
    <3> QED BY <1>2, <3>1
  <2>2. ~TaskResets(q) BY <1>3, <2>1 DEF TaskResets, HandleDisconnect
  <2>3. EndTask(q, "cancelled") \/ EndTask(q, "ok")
    BY <1>1, <2>1, <2>2 DEF TaskStep, TaskCut, TaskScans, TaskMakes, TaskKeeps, TaskSubscribes,
       TaskUndoes, TaskTearsDown, TaskMonitors, TaskAbandons
  <2>4. outcome'[q] \in {"cancelled", "ok"} BY <2>3 DEF EndTask, DataOK, TaskTypes
  <2> QED BY <2>1, <2>4
<1>7. CancelledIsGone'
  <2>1. \A x \in Cancellers : at'[Handler(x)] = at[Handler(x)] BY <1>1, CoroutineNames
  <2>2. \A x \in Cancellers : waits[x] # NoClient => waits[x] \in Connects
    BY DEF LoopInv, LoopTypes
  <2>3. \A x \in Cancellers :
          waits[x] # NoClient /\ at[Handler(x)] \in {"tearing", "done"} =>
            waits[x] # q /\ at'[Task(waits[x])] = "done"
    BY <1>4, <2>2 DEF CancelledIsGone
  <2> QED BY <1>1, <1>2, <2>1, <2>3 DEF CancelledIsGone, Done
<1>8. EndsTheRest'
  <2> SUFFICES ASSUME NEW s \in Shutdowns
               PROVE  /\ at[Handler(s)] = "awaiting" =>
                           /\ client' \in {NoClient, waits[s]}
                           /\ \A r \in Connects : Busy(r) => waits[s] = r
                      /\ at[Handler(s)] \in {"tearing", "done"} =>
                           \A r \in Connects : Busy(r) => r \in spared \/ at'[Task(r)] = "done"
                      /\ at[Handler(s)] = "done" => client' \in {NoClient} \cup spared
    <3>1. \A s \in Shutdowns : at'[Handler(s)] = at[Handler(s)] BY <1>1, CoroutineNames
    <3> QED BY <1>1, <1>5, <3>1 DEF EndsTheRest, Done
  <2>1. at[Handler(s)] # "tearing"
    BY <1>1, NoTaskBesideStale, CoroutineNames DEF FifoInv, Stale, Enders
  <2>2. at[Handler(s)] = "awaiting" =>
          client' \in {NoClient, waits[s]} /\ \A r \in Connects : Busy(r) => waits[s] = r
    BY <1>1, <1>2 DEF EndsTheRest
  <2>3. at[Handler(s)] = "done" => q \in spared BY <1>1, <1>3 DEF EndsTheRest
  <2>4. at[Handler(s)] = "done" =>
          \A r \in Connects : Busy(r) => r \in spared \/ at'[Task(r)] = "done"
    BY <1>4 DEF EndsTheRest
  <2> QED BY <1>2, <2>1, <2>2, <2>3, <2>4
<1> QED BY <1>6, <1>7, <1>8

LEMMA EnderEndInv ==
  ASSUME BaseInv, FifoInv, SparedAtTheEnd, EndInv, NEW q \in Enders, EndConnection(q)
  PROVE  EndInv'
<1> USE DEF BaseInv, EndInv
<1>1. /\ Runs(Handler(q)) /\ In(ready, Handler(q))
      /\ Interrupting(q) \/ Closing(q) \/ Answering(q)
      /\ \A h \in Enders : h # q => at'[Handler(h)] = at[Handler(h)]
      /\ \A p \in Connects : (Busy(p)' <=> Busy(p)) /\ at'[Task(p)] = at[Task(p)]
      /\ spared' = IF q \in Shutdowns /\ at[Handler(q)] = "new" THEN Unaccounted ELSE spared
      /\ outcome' = outcome
  BY EnderFrame
<1>2. spared \subseteq spared' BY SparedStays
<1>3. client' \in {client, NoClient}
  BY <1>1 DEF Interrupting, Closing, Answering, HandleDisconnect, appVars
<1>4. Handler(q) \in Coroutines /\ NoClient \notin Connects
  BY EndersAreRequests, BackendAssumption DEF BackendAssumption
<1>5. \A x \in Cancellers : waits[x] # NoClient => waits[x] \in Connects
  BY DEF LoopInv, LoopTypes
\* Where the handler goes, and what it then knows.
<1>6. ASSUME Interrupting(q)
      PROVE  /\ connection_task \in Connects /\ InProgress(Task(connection_task))
             /\ at'[Handler(q)] = "awaiting" /\ waits'[q] = connection_task
             /\ \A x \in Cancellers : x # q => waits'[x] = waits[x]
             /\ client' = client
  <2>1. /\ q \in Cancellers /\ TaskInProgress /\ client' = client
        /\ at' = [at EXCEPT ![Handler(q)] = "awaiting"]
        /\ waits' = [waits EXCEPT ![q] = connection_task]
    BY <1>6 DEF Interrupting, Interrupts, CancelsTask, appVars
  <2> QED BY <1>4, <2>1, RemembersTask DEF LoopInv, LoopTypes
<1>7. ASSUME Closing(q) \/ Answering(q)
      PROVE  /\ at'[Handler(q)] \in {"tearing", "done"} /\ waits' = waits
             /\ at'[Handler(q)] = "done" => Answering(q)
             /\ at[Handler(q)] \in {"new", "awaiting", "tearing"}
             /\ \A r \in Connects : ~InProgress(Task(r))
  <2>1. \A r \in Connects : ~InProgress(Task(r)) BY <1>7, NoTaskBesideHandler DEF FifoInv
  <2>2. Closing(q) => at'[Handler(q)] = "tearing"
    BY <1>4 DEF Closing, Suspend, LoopInv, LoopTypes
  <2>3. Answering(q) => at'[Handler(q)] = "done"
    BY <1>4 DEF Answering, Suspend, LoopInv, LoopTypes
  <2> QED BY <1>7, <2>1, <2>2, <2>3 DEF Closing, Answering
<1>8. \A x \in Cancellers : x # q => waits'[x] = waits[x]
  BY <1>1, <1>6, <1>7
<1>9. at[Handler(q)] = "awaiting" =>
        q \in Cancellers /\ waits[q] \in Connects /\ Done(Task(waits[q]))
  BY <1>1, ResumedIsStale
<1>10. FailedHasNone' BY <1>1, <1>3, <1>4 DEF FailedHasNone, Done
<1>11. CancelledIsGone'
  <2> SUFFICES ASSUME NEW x \in Cancellers
               PROVE  /\ at'[Handler(x)] \in {"idle", "new"} => waits'[x] = NoClient
                      /\ waits'[x] # NoClient /\ at'[Handler(x)] \in {"tearing", "done"} =>
                           at'[Task(waits'[x])] = "done"
                      /\ waits'[x] # NoClient /\ at'[Handler(x)] = "done" => client' # waits'[x]
    BY DEF CancelledIsGone, Done
  <2>1. CASE x # q
    <3>1. at'[Handler(x)] = at[Handler(x)] /\ waits'[x] = waits[x]
      BY <1>1, <1>8, <2>1, EndersAreRequests
    <3> QED BY <1>1, <1>3, <1>5, <3>1 DEF CancelledIsGone, Done
  <2>2. CASE x = q /\ Interrupting(q) BY <1>6, <2>2
  <2>3. CASE x = q /\ (Closing(q) \/ Answering(q))
    <3> SUFFICES ASSUME waits[q] # NoClient
                 PROVE  /\ at'[Task(waits[q])] = "done"
                        /\ at'[Handler(q)] = "done" => client' # waits[q]
      BY <1>7, <2>3
    <3>1. at[Handler(q)] \in {"awaiting", "tearing"} BY <1>7, <2>3 DEF CancelledIsGone
    <3>2. waits[q] \in Connects /\ Done(Task(waits[q]))
      BY <1>5, <1>9, <2>3, <3>1 DEF CancelledIsGone
    <3>3. ASSUME at'[Handler(q)] = "done" PROVE client' # waits[q]
      <4>1. Answering(q) BY <1>7, <2>3, <3>3
      <4>2. CASE HandleDisconnect BY <3>2, <1>4, <4>2 DEF HandleDisconnect
      <4>3. CASE outcome[waits[q]] = "error" /\ UNCHANGED appVars
        BY <3>2, <4>3 DEF FailedHasNone, appVars
      <4> QED BY <3>1, <4>1, <4>2, <4>3 DEF Answering
    <3> QED BY <1>1, <3>2, <3>3 DEF Done
  <2> QED BY <1>1, <2>1, <2>2, <2>3
<1>12. EndsTheRest'
  <2> SUFFICES ASSUME NEW s \in Shutdowns
               PROVE  /\ at'[Handler(s)] = "awaiting" =>
                           /\ client' \in {NoClient, waits'[s]}
                           /\ \A r \in Connects : Busy(r) => waits'[s] = r
                      /\ at'[Handler(s)] \in {"tearing", "done"} =>
                           \A r \in Connects : Busy(r) => r \in spared' \/ Done(Task(r))
                      /\ at'[Handler(s)] = "done" => client' \in {NoClient} \cup spared'
    BY <1>1 DEF EndsTheRest, Done
  <2>1. CASE s # q
    <3>1. at'[Handler(s)] = at[Handler(s)] /\ waits'[s] = waits[s]
      BY <1>1, <1>8, <2>1, EndersAreRequests, CoroutineNames
    <3> QED BY <1>2, <1>3, <3>1 DEF EndsTheRest, Done
  <2>2. CASE s = q /\ Interrupting(q)
    <3>1. Busy(connection_task) BY <1>6, <2>2, TaskIsBusy
    <3> QED BY <1>6, <2>2, <3>1 DEF AppInv, AloneInv
  <2>3. CASE s = q /\ (Closing(q) \/ Answering(q))
    <3>1. ASSUME NEW r \in Connects, Busy(r) PROVE r \in spared' \/ Done(Task(r))
      <4>1. at[Task(r)] \in {"idle", "done"} BY <1>7, <2>3, <3>1 DEF InProgress
      <4>2. CASE at[Handler(q)] = "new"
        <5>1. at[Task(r)] = "idle" => r \in Unaccounted
          BY <3>1 DEF LoopInv, PlacesOK, TasksOK, Busy, InProgress, Unaccounted
        <5> QED BY <1>1, <2>3, <4>1, <4>2, <5>1 DEF Done
      <4>3. CASE at[Handler(q)] = "awaiting" BY <1>9, <2>3, <3>1, <4>3 DEF EndsTheRest
      <4>4. CASE at[Handler(q)] = "tearing" BY <1>2, <2>3, <3>1, <4>4 DEF EndsTheRest
      <4> QED BY <1>7, <2>3, <4>2, <4>3, <4>4
    <3>2. ASSUME at'[Handler(q)] = "done" PROVE client' \in {NoClient} \cup spared'
      <4>1. Answering(q) BY <1>7, <2>3, <3>2
      <4>2. CASE HandleDisconnect BY <4>2 DEF HandleDisconnect
      <4>3. CASE at[Handler(q)] = "new" /\ ~connected /\ UNCHANGED appVars
        <5>1. ASSUME client # NoClient PROVE FALSE
          <6>1. client \in Connects BY <5>1 DEF DataOK, AppTypes
          <6> QED BY <1>7, <2>3, <4>3, <5>1, <6>1 DEF AppInv, InProgress
        <5> QED BY <4>3, <5>1 DEF appVars
      <4>4. CASE at[Handler(q)] = "awaiting" /\ outcome[waits[q]] = "error" /\ UNCHANGED appVars
        <5>1. client # waits[q] BY <1>9, <4>4 DEF FailedHasNone
        <5>2. client \in {NoClient, waits[q]} BY <2>3, <4>4 DEF EndsTheRest
        <5> QED BY <4>4, <5>1, <5>2 DEF appVars
      <4> QED BY <2>3, <4>1, <4>2, <4>3, <4>4 DEF Answering
    <3> QED BY <1>7, <2>3, <3>1, <3>2
  <2> QED BY <1>1, <2>1, <2>2, <2>3
<1> QED BY <1>10, <1>11, <1>12

LEMMA NextEndInv ==
  ASSUME Uncrossed, BaseInv, FifoInv, LinkInv, EndInv, [Next]_vars, losses' = 0
  PROVE  EndInv'
<1>1. DataOK /\ SparedAtTheEnd BY DEF BaseInv, LinkInv
<1> QED BY <1>1, StepsWithoutLoss, ArrivesEndInv, OutsideEndInv, ConnectEndInv, TaskEndInv,
      EnderEndInv

-----------------------------------------------------------------------------
(* The theorems *)

LossInv == losses = 0 /\ crossings = 0 => FifoInv /\ MonInv /\ LinkInv /\ EndInv

UncrossedTargets == crossings = 0 => TaskTargets

LEMMA InitLossInv ==
  Init => UncrossedTargets /\ LossInv
<1> SUFFICES ASSUME Init PROVE TaskTargets /\ FifoInv /\ MonInv /\ LinkInv /\ EndInv
  BY DEF UncrossedTargets, LossInv
<1>1. /\ \A c \in Coroutines : at[c] = "idle"
      /\ \A r \in Connects : at[Task(r)] = "idle" /\ ~Busy(r) /\ ~must_cancel[r]
      /\ \A h \in Enders : at[Handler(h)] = "idle" /\ ~Busy(h)
  BY CoroutineNames, EndersAreRequests DEF Init, Busy, InProgress
<1>2. /\ ~monitoring /\ client = NoClient /\ spared = {}
      /\ \A r \in Connects : link[r] # "up"
      /\ \A x \in Cancellers : waits[x] = NoClient
  BY DEF Init
<1>3. TaskTargets BY <1>1 DEF TaskTargets
<1>4. FifoInv
  BY <1>1, EndersAreRequests DEF FifoInv, DisconnectsAlone, StaleGoesFirst, ClosesCurrent
<1>5. MonInv BY <1>1, <1>2 DEF MonInv, MonitoringMeansSubscribed
<1>6. LinkInv
  BY <1>1, <1>2 DEF LinkInv, OwnedOrSpared, LinkIsAnswered, CancellersWait, ClosedIsDown,
     TwiceIsSpared, SparedAtTheEnd, TearingPlaces
<1>7. EndInv
  BY <1>1, <1>2, EndersAreRequests DEF EndInv, FailedHasNone, CancelledIsGone, EndsTheRest,
     Done, Enders, Cancellers
<1> QED BY <1>3, <1>4, <1>5, <1>6, <1>7

LEMMA NextLossInv ==
  ASSUME LoopInv, LoopInv', DataOK, UncrossedAlone, UncrossedApp, UncrossedTargets, LossInv,
         [Next]_vars
  PROVE  UncrossedTargets' /\ LossInv'
<1>1. ASSUME crossings' = 0
      PROVE  crossings = 0 /\ Uncrossed /\ AloneInv /\ AppInv /\ TaskTargets /\ TaskTargets'
  <2>1. crossings = 0 /\ Uncrossed BY <1>1, UncrossedSteps DEF DataOK
  <2>2. AloneInv /\ AppInv /\ TaskTargets
    BY <2>1 DEF UncrossedAlone, UncrossedApp, UncrossedTargets
  <2> QED BY <2>1, <2>2, NextTaskTargets
<1>2. ASSUME losses' = 0, crossings' = 0 PROVE FifoInv' /\ MonInv' /\ LinkInv' /\ EndInv'
  <2>1. losses = 0 BY <1>2, StepsWithoutLoss
  <2>2. BaseInv /\ FifoInv /\ MonInv /\ LinkInv /\ EndInv
    BY <1>1, <1>2, <2>1 DEF BaseInv, LossInv
  <2> QED BY <1>1, <1>2, <2>2, NextFifoInv, NextMonInv, NextLinkInv, NextEndInv
<1> QED BY <1>1, <1>2 DEF UncrossedTargets, LossInv

LEMMA AlwaysLossInv == Spec => []LossInv
<1>1. /\ LoopInv /\ LoopInv' /\ DataOK /\ UncrossedAlone /\ UncrossedApp
      /\ UncrossedTargets /\ LossInv /\ [Next]_vars
      => UncrossedTargets' /\ LossInv'
  BY NextLossInv
<1> QED BY <1>1, InitLossInv, AlwaysLoopInv, AlwaysAloneInv, AlwaysAppInv, PTL DEF Spec

\* As long as no link is lost and no request crosses another, AppState.monitoring
\* is true only while the current client notifies: no await at which a connect request is cancelled or fails
\* leaves the flag for the next one, whose start_monitoring it would skip.
THEOREM CancellationLeavesNoFlag == Spec => []OnlyLossesLeaveMonitoring
<1>1. LossInv => OnlyLossesLeaveMonitoring
  BY DEF LossInv, MonInv, OnlyLossesLeaveMonitoring
<1> QED BY <1>1, AlwaysLossInv, PTL

\* As long as no link is lost, no request crosses another and the program does
\* not end while a connection is made, a link that is up once every request is answered is the current client's
\* and the state says connected, so that the Disconnect button can close it.
THEOREM CancellationOrphansNothing == Spec => []OnlyLossesOrphan
<1>1. DataOK /\ UncrossedApp /\ LossInv => OnlyLossesOrphan
  <2> SUFFICES ASSUME DataOK, AppInv, LossInv, losses = 0, crossings = 0, spared = {}, Idle,
                      NEW r \in Connects, link[r] = "up"
               PROVE  client = r /\ connected
    BY DEF OnlyLossesOrphan, NoOrphanLink, UncrossedApp
  <2>1. client = r BY DEF LossInv, LinkInv, OwnedOrSpared
  <2>2. ~InProgress(Task(r)) BY CoroutineNames DEF Idle
  <2>3. client # NoClient BY <2>1, BackendAssumption DEF BackendAssumption
  <2> QED BY <2>1, <2>2, <2>3 DEF AppInv, InProgress
<1> QED BY <1>1, AlwaysLoopInv, AlwaysAppInv, AlwaysLossInv, PTL

\* As long as no link is lost and no request crosses another, a connect request
\* that a cancel request interrupted leaves no link behind, and the end of the program none but those it passes over.
THEOREM CancelledLeavesNothing == Spec => []NoResidualConnection
<1>1. LossInv => NoResidualConnection
  <2> SUFFICES ASSUME OwnedOrSpared, CancelledIsGone, EndsTheRest
               PROVE  /\ \A x \in Cancels :
                           /\ waits[x] \in Connects \ spared
                           /\ Done(Handler(x)) /\ Done(Handler(waits[x]))
                           => link[waits[x]] # "up"
                      /\ \A s \in Shutdowns : Done(Handler(s)) =>
                           \A r \in Connects \ spared : link[r] # "up"
    BY DEF LossInv, LinkInv, EndInv, NoResidualConnection
  <2>1. NoClient \notin Connects BY BackendAssumption DEF BackendAssumption
  <2>2. \A x \in Cancels : waits[x] \in Connects /\ Done(Handler(x)) => client # waits[x]
    BY <2>1, CoroutineNames DEF CancelledIsGone
  <2>3. \A s \in Shutdowns : Done(Handler(s)) => client \in {NoClient} \cup spared
    BY DEF EndsTheRest
  <2> QED BY <2>1, <2>2, <2>3 DEF OwnedOrSpared
<1> QED BY <1>1, AlwaysLossInv, PTL
=============================================================================
