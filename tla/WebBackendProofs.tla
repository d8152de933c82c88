-------------------------- MODULE WebBackendProofs --------------------------
(***************************************************************************)
(* Theorems about WebBackend.  First those that hold whoever sends the     *)
(* requests: the state is well formed, and only a web socket that comes or *)
(* goes can leave the backend "connecting" with no attempt in progress.    *)
(* Then those that hold as long as no request crosses another, and how far *)
(* the check of connect reaches when they do.                              *)
(*                                                                         *)
(* The argument is about the event loop.  LoopInv says of each coroutine   *)
(* where it can be, that one that waits for a task is in that task's       *)
(* awaiters and is not ready, and that the end of the task makes it ready. *)
(* LoopKinds sorts the steps of the backend by what they do to the loop,   *)
(* and one lemma for each kind shows that it keeps LoopInv.                *)
(***************************************************************************)
EXTENDS WebBackend, TLAPS, FiniteSetTheorems

-----------------------------------------------------------------------------
(* Queues of coroutines to resume *)

Queue == Seq([of : Coroutines, ok : BOOLEAN])
In(q, c) == \E i \in DOMAIN q : q[i].of = c
Distinct(q) == \A i, j \in DOMAIN q : q[i].of = q[j].of => i = j
Precedes(q, c, d) == \E i, j \in DOMAIN q : i < j /\ q[i].of = c /\ q[j].of = d

\* The names of the coroutines are distinct.
LEMMA CoroutineNames ==
  /\ \A r \in Requests : Handler(r) \in Coroutines
  /\ \A r \in Connects : Task(r) \in Coroutines
  /\ \A r, q \in Requests : Handler(r) = Handler(q) => r = q
  /\ \A r, q \in Connects : Task(r) = Task(q) => r = q
  /\ \A r \in Requests, q \in Connects : Handler(r) # Task(q)
  /\ \A c \in Coroutines : (\E r \in Requests : c = Handler(r)) \/ (\E r \in Connects : c = Task(r))
  /\ Connects \subseteq Requests /\ Cancellers \subseteq Requests /\ Disconnects \subseteq Requests
  /\ Cancels \subseteq Cancellers /\ Shutdowns \subseteq Cancellers
BY DEF Handler, Task, Coroutines, Requests, Cancellers

\* No request is of two kinds.
LEMMA RequestKinds ==
  /\ Connects \cap Cancellers = {} /\ Connects \cap Disconnects = {}
  /\ Cancellers \cap Disconnects = {} /\ Cancels \cap Shutdowns = {}
  /\ Requests = Connects \cup Cancellers \cup Disconnects
  /\ Cancellers = Cancels \cup Shutdowns
BY BackendAssumption DEF BackendAssumption, Requests, Cancellers

\* The loop takes the head of the queue: all others stay, in their order.
LEMMA QueueTail ==
  ASSUME NEW q \in Queue, q # << >>, Distinct(q)
  PROVE  /\ Tail(q) \in Queue /\ Distinct(Tail(q))
         /\ Head(q) \in [of : Coroutines, ok : BOOLEAN] /\ In(q, Head(q).of)
         /\ \A c : In(Tail(q), c) <=> In(q, c) /\ c # Head(q).of
         /\ \A c, d : Precedes(q, c, d) /\ c # Head(q).of => Precedes(Tail(q), c, d)
         /\ \A c : ~Precedes(q, c, Head(q).of)
<1>1. /\ Len(q) \in Nat /\ Len(q) > 0
      /\ Tail(q) \in Queue /\ DOMAIN Tail(q) = 1 .. Len(q) - 1
      /\ \A i \in DOMAIN Tail(q) : Tail(q)[i] = q[i + 1]
      /\ Head(q) = q[1] /\ DOMAIN q = 1 .. Len(q)
      /\ q[1] \in [of : Coroutines, ok : BOOLEAN]
  <2> DEFINE Items == [of : Coroutines, ok : BOOLEAN]
  <2>1. q \in Seq(Items) BY DEF Queue
  <2> HIDE DEF Items
  <2>2. Len(q) \in Nat /\ Len(q) > 0 /\ DOMAIN q = 1 .. Len(q) BY <2>1
  <2>3. Tail(q) \in Seq(Items) /\ Len(Tail(q)) = Len(q) - 1 BY <2>1, <2>2
  <2>4. DOMAIN Tail(q) = 1 .. Len(q) - 1 BY <2>3
  <2>5. \A i \in DOMAIN Tail(q) : Tail(q)[i] = q[i + 1] BY <2>1, <2>4
  <2>6. Head(q) = q[1] /\ q[1] \in Items BY <2>1, <2>2
  <2> QED BY <2>2, <2>3, <2>4, <2>5, <2>6 DEF Queue, Items
<1>2. Distinct(Tail(q)) BY <1>1 DEF Distinct
<1>3. In(q, Head(q).of) BY <1>1 DEF In
<1>4. ASSUME NEW c PROVE In(Tail(q), c) <=> In(q, c) /\ c # Head(q).of
  <2>1. ASSUME In(Tail(q), c) PROVE In(q, c) /\ c # Head(q).of
    <3>1. PICK i \in DOMAIN Tail(q) : Tail(q)[i].of = c BY <2>1 DEF In
    <3>2. i + 1 \in DOMAIN q /\ q[i + 1].of = c /\ i + 1 # 1 /\ 1 \in DOMAIN q BY <1>1, <3>1
    <3> QED BY <1>1, <3>2 DEF In, Distinct
  <2>2. ASSUME In(q, c), c # Head(q).of PROVE In(Tail(q), c)
    <3>1. PICK i \in DOMAIN q : q[i].of = c BY <2>2 DEF In
    <3>2. i # 1 BY <1>1, <2>2, <3>1
    <3>3. i - 1 \in DOMAIN Tail(q) /\ Tail(q)[i - 1].of = c BY <1>1, <3>1, <3>2
    <3> QED BY <3>3 DEF In
  <2> QED BY <2>1, <2>2
<1>5. ASSUME NEW c, NEW d, Precedes(q, c, d), c # Head(q).of PROVE Precedes(Tail(q), c, d)
  <2>1. PICK i, j \in DOMAIN q : i < j /\ q[i].of = c /\ q[j].of = d BY <1>5 DEF Precedes
  <2>2. i # 1 BY <1>1, <1>5, <2>1
  <2>3. /\ i - 1 \in DOMAIN Tail(q) /\ j - 1 \in DOMAIN Tail(q) /\ i - 1 < j - 1
        /\ Tail(q)[i - 1].of = c /\ Tail(q)[j - 1].of = d
    BY <1>1, <2>1, <2>2
  <2> QED BY <2>3 DEF Precedes
<1>6. ASSUME NEW c, Precedes(q, c, Head(q).of) PROVE FALSE
  <2>1. PICK i, j \in DOMAIN q : i < j /\ q[i].of = c /\ q[j].of = q[1].of
    BY <1>1, <1>6 DEF Precedes
  <2>2. j = 1 BY <1>1, <2>1 DEF Distinct
  <2> QED BY <1>1, <2>1, <2>2
<1> QED BY <1>1, <1>2, <1>3, <1>4, <1>5, <1>6

\* A coroutine made ready comes after those that are.
LEMMA QueueAppend ==
  ASSUME NEW q \in Queue, Distinct(q), NEW c \in Coroutines, NEW ok \in BOOLEAN, ~In(q, c)
  PROVE  /\ Append(q, Item(c, ok)) \in Queue /\ Distinct(Append(q, Item(c, ok)))
         /\ \A d : In(Append(q, Item(c, ok)), d) <=> In(q, d) \/ d = c
         /\ \A d, e : Precedes(q, d, e) => Precedes(Append(q, Item(c, ok)), d, e)
         /\ \A d : In(q, d) => Precedes(Append(q, Item(c, ok)), d, c)
<1> DEFINE p == Append(q, Item(c, ok))
<1>1. /\ Len(q) \in Nat /\ DOMAIN q = 1 .. Len(q) /\ DOMAIN p = 1 .. Len(q) + 1
      /\ \A i \in DOMAIN q : p[i] = q[i]
      /\ p[Len(q) + 1].of = c
  BY DEF Queue, Item
<1>2. Item(c, ok) \in [of : Coroutines, ok : BOOLEAN] BY DEF Item
<1>3. p \in Queue BY <1>2 DEF Queue
<1> HIDE DEF p
<1>4. Distinct(p)
  <2> SUFFICES ASSUME NEW i \in DOMAIN p, NEW j \in DOMAIN p, p[i].of = p[j].of PROVE i = j
    BY DEF Distinct
  <2>1. CASE i \in DOMAIN q /\ j \in DOMAIN q BY <1>1, <2>1 DEF Distinct
  <2>2. CASE i \in DOMAIN q /\ j \notin DOMAIN q
    <3>1. j = Len(q) + 1 BY <1>1, <2>2
    <3>2. q[i].of = c BY <1>1, <2>2, <3>1
    <3> QED BY <2>2, <3>2 DEF In
  <2>3. CASE i \notin DOMAIN q /\ j \in DOMAIN q
    <3>1. i = Len(q) + 1 BY <1>1, <2>3
    <3>2. q[j].of = c BY <1>1, <2>3, <3>1
    <3> QED BY <2>3, <3>2 DEF In
  <2>4. CASE i \notin DOMAIN q /\ j \notin DOMAIN q BY <1>1, <2>4
  <2> QED BY <2>1, <2>2, <2>3, <2>4
<1>5. ASSUME NEW d PROVE In(p, d) <=> In(q, d) \/ d = c
  <2>1. ASSUME In(p, d) PROVE In(q, d) \/ d = c
    <3>1. PICK i \in DOMAIN p : p[i].of = d BY <2>1 DEF In
    <3>2. CASE i \in DOMAIN q BY <1>1, <3>1, <3>2 DEF In
    <3>3. CASE i \notin DOMAIN q
      <4>1. i = Len(q) + 1 BY <1>1, <3>3
      <4> QED BY <1>1, <3>1, <4>1
    <3> QED BY <3>2, <3>3
  <2>2. ASSUME In(q, d) PROVE In(p, d)
    <3>1. PICK i \in DOMAIN q : q[i].of = d BY <2>2 DEF In
    <3>2. i \in DOMAIN p /\ p[i].of = d BY <1>1, <3>1
    <3> QED BY <3>2 DEF In
  <2>3. Len(q) + 1 \in DOMAIN p BY <1>1
  <2>4. In(p, c) BY <1>1, <2>3 DEF In
  <2> QED BY <2>1, <2>2, <2>4
<1>6. ASSUME NEW d, NEW e, Precedes(q, d, e) PROVE Precedes(p, d, e)
  <2>1. PICK i, j \in DOMAIN q : i < j /\ q[i].of = d /\ q[j].of = e BY <1>6 DEF Precedes
  <2>2. i \in DOMAIN p /\ j \in DOMAIN p /\ p[i].of = d /\ p[j].of = e BY <1>1, <2>1
  <2> QED BY <2>1, <2>2 DEF Precedes
<1>7. ASSUME NEW d, In(q, d) PROVE Precedes(p, d, c)
  <2>1. PICK i \in DOMAIN q : q[i].of = d BY <1>7 DEF In
  <2>2. /\ i \in DOMAIN p /\ Len(q) + 1 \in DOMAIN p /\ i < Len(q) + 1
        /\ p[i].of = d /\ p[Len(q) + 1].of = c
    BY <1>1, <2>1
  <2> QED BY <2>2 DEF Precedes
<1> QED BY <1>3, <1>4, <1>5, <1>6, <1>7 DEF p

\* One queue behind another that has none of its coroutines.
LEMMA QueueConcat ==
  ASSUME NEW q \in Queue, Distinct(q), NEW v \in Queue, Distinct(v),
         \A c : ~(In(q, c) /\ In(v, c))
  PROVE  /\ q \o v \in Queue /\ Distinct(q \o v)
         /\ \A d : In(q \o v, d) <=> In(q, d) \/ In(v, d)
         /\ \A d, e : Precedes(q, d, e) => Precedes(q \o v, d, e)
<1> DEFINE Items == [of : Coroutines, ok : BOOLEAN]
           p == q \o v
<1>0. q \in Seq(Items) /\ v \in Seq(Items) BY DEF Queue
<1> HIDE DEF Items
<1>1. Len(q) \in Nat /\ Len(v) \in Nat /\ DOMAIN q = 1 .. Len(q) /\ DOMAIN v = 1 .. Len(v)
  BY <1>0
<1>2. p \in Seq(Items) /\ Len(p) = Len(q) + Len(v) BY <1>0
<1>3. \A i \in 1 .. Len(p) : p[i] = IF i <= Len(q) THEN q[i] ELSE v[i - Len(q)]
  BY <1>0, <1>1, <1>2
<1>4. DOMAIN p = 1 .. Len(q) + Len(v) BY <1>2
<1> HIDE DEF p
<1>5. \A i \in DOMAIN q : i \in DOMAIN p /\ p[i] = q[i] BY <1>1, <1>2, <1>3, <1>4
<1>6. \A i \in DOMAIN p : i \notin DOMAIN q => i - Len(q) \in DOMAIN v /\ p[i] = v[i - Len(q)]
  BY <1>1, <1>2, <1>3, <1>4
<1>7. \A i \in DOMAIN v : Len(q) + i \in DOMAIN p /\ p[Len(q) + i] = v[i]
  BY <1>1, <1>2, <1>3, <1>4
<1>8. Distinct(p)
  <2> SUFFICES ASSUME NEW i \in DOMAIN p, NEW j \in DOMAIN p, p[i].of = p[j].of PROVE i = j
    BY DEF Distinct
  <2>1. CASE i \in DOMAIN q /\ j \in DOMAIN q BY <1>5, <2>1 DEF Distinct
  <2>2. CASE i \in DOMAIN q /\ j \notin DOMAIN q
    <3>1. In(q, q[i].of) /\ In(v, q[i].of) BY <1>5, <1>6, <2>2 DEF In
    <3> QED BY <3>1
  <2>3. CASE i \notin DOMAIN q /\ j \in DOMAIN q
    <3>1. In(q, q[j].of) /\ In(v, q[j].of) BY <1>5, <1>6, <2>3 DEF In
    <3> QED BY <3>1
  <2>4. CASE i \notin DOMAIN q /\ j \notin DOMAIN q
    <3>1. i - Len(q) = j - Len(q) BY <1>6, <2>4 DEF Distinct
    <3> QED BY <1>1, <1>4, <3>1
  <2> QED BY <2>1, <2>2, <2>3, <2>4
<1>9. ASSUME NEW d PROVE In(p, d) <=> In(q, d) \/ In(v, d)
  <2>1. ASSUME In(p, d) PROVE In(q, d) \/ In(v, d)
    <3>1. PICK i \in DOMAIN p : p[i].of = d BY <2>1 DEF In
    <3>2. CASE i \in DOMAIN q BY <1>5, <3>1, <3>2 DEF In
    <3>3. CASE i \notin DOMAIN q BY <1>6, <3>1, <3>3 DEF In
    <3> QED BY <3>2, <3>3
  <2>2. ASSUME In(q, d) PROVE In(p, d)
    <3>1. PICK i \in DOMAIN q : q[i].of = d BY <2>2 DEF In
    <3> QED BY <1>5, <3>1 DEF In
  <2>3. ASSUME In(v, d) PROVE In(p, d)
    <3>1. PICK i \in DOMAIN v : v[i].of = d BY <2>3 DEF In
    <3> QED BY <1>7, <3>1 DEF In
  <2> QED BY <2>1, <2>2, <2>3
<1>10. ASSUME NEW d, NEW e, Precedes(q, d, e) PROVE Precedes(p, d, e)
  <2>1. PICK i, j \in DOMAIN q : i < j /\ q[i].of = d /\ q[j].of = e BY <1>10 DEF Precedes
  <2>2. i \in DOMAIN p /\ j \in DOMAIN p /\ p[i].of = d /\ p[j].of = e BY <1>5, <2>1
  <2> QED BY <2>1, <2>2 DEF Precedes
<1>11. p \in Queue BY <1>2 DEF Queue, Items
<1> QED BY <1>8, <1>9, <1>10, <1>11 DEF p

\* The items that resume the coroutines w, in order.
LEMMA QueueOf ==
  ASSUME NEW w \in Seq(Coroutines), \A i, j \in DOMAIN w : w[i] = w[j] => i = j
  PROVE  /\ [i \in DOMAIN w |-> Item(w[i], TRUE)] \in Queue
         /\ Distinct([i \in DOMAIN w |-> Item(w[i], TRUE)])
         /\ \A c : In([i \in DOMAIN w |-> Item(w[i], TRUE)], c) <=> \E i \in DOMAIN w : w[i] = c
<1> DEFINE Items == [of : Coroutines, ok : BOOLEAN]
           v == [i \in DOMAIN w |-> Item(w[i], TRUE)]
<1>1. Len(w) \in Nat /\ DOMAIN w = 1 .. Len(w) /\ \A i \in DOMAIN w : w[i] \in Coroutines
  OBVIOUS
<1>2. \A i \in DOMAIN w : Item(w[i], TRUE) \in Items /\ Item(w[i], TRUE).of = w[i]
  BY <1>1 DEF Item
<1> HIDE DEF Items
<1>3. v \in [1 .. Len(w) -> Items] BY <1>1, <1>2
<1>4. DOMAIN v = DOMAIN w /\ \A i \in DOMAIN w : v[i].of = w[i] BY <1>2
<1> HIDE DEF v
<1>5. v \in Seq(Items) BY <1>1, <1>3
<1>6. v \in Queue BY <1>5 DEF Queue, Items
<1>7. Distinct(v) BY <1>4 DEF Distinct
<1>8. \A c : In(v, c) <=> \E i \in DOMAIN w : w[i] = c BY <1>4 DEF In
<1> QED BY <1>6, <1>7, <1>8 DEF v

-----------------------------------------------------------------------------
(* The invariant of the event loop *)

\* Where each coroutine can be.
PlacesOK ==
  /\ \A r \in Connects :
       /\ at[Handler(r)] \in {"idle", "new", "body", "broadcasting", "awaiting", "done"}
       /\ at[Task(r)] \in {"idle", "new", "scanning", "linking", "undoing", "subscribing",
                            "tearing", "done"}
  /\ \A r \in Cancellers : at[Handler(r)] \in {"idle", "new", "awaiting", "tearing", "done"}
  /\ \A r \in Disconnects : at[Handler(r)] \in {"idle", "new", "tearing", "done"}

\* The queue has each coroutine once, and every one that has yet to start.
ReadyOK ==
  /\ ready \in Queue /\ Distinct(ready)
  /\ \A c \in Coroutines : In(ready, c) => InProgress(c)
  /\ \A c \in Coroutines : at[c] = "new" => In(ready, c)

\* Those a task will wake are its handler and its cancellers, each once, and
\* each is suspended.
AwaitersOK ==
  \A r \in Connects : ~Done(Task(r)) =>
    /\ \A i \in DOMAIN awaiters[r] :
         /\ at[awaiters[r][i]] = "awaiting" /\ ~In(ready, awaiters[r][i])
         /\ \/ awaiters[r][i] = Handler(r)
            \/ \E x \in Cancellers : awaiters[r][i] = Handler(x) /\ waits[x] = r
    /\ \A i, j \in DOMAIN awaiters[r] : awaiters[r][i] = awaiters[r][j] => i = j
    /\ at[Task(r)] = "idle" => awaiters[r] = << >>

IsAwaiter(c, r) == \E i \in DOMAIN awaiters[r] : awaiters[r][i] = c

\* A task exists from its handler's await on, and ends before it.
TasksOK ==
  /\ \A r \in Connects :
       /\ at[Handler(r)] \in {"idle", "new", "body", "broadcasting"} => at[Task(r)] = "idle"
       /\ InProgress(Task(r)) => at[Handler(r)] = "awaiting" /\ IsAwaiter(Handler(r), r)
       /\ at[Handler(r)] = "awaiting" => at[Task(r)] # "idle"
  /\ connection_task # NoClient => at[Task(connection_task)] # "idle"

\* A canceller waits for the task it cancelled until the task wakes it.
WaitsOK ==
  \A x \in Cancellers :
    at[Handler(x)] = "awaiting" =>
      /\ waits[x] \in Connects /\ at[Task(waits[x])] # "idle"
      /\ ~Done(Task(waits[x])) => IsAwaiter(Handler(x), waits[x])
      /\ Done(Task(waits[x])) => In(ready, Handler(x))

\* The types of what the loop's steps change.
LoopTypes ==
  /\ at \in [Coroutines -> Places]
  /\ awaiters \in [Connects -> Seq(Coroutines)]
  /\ waits \in [Cancellers -> Connects \cup {NoClient}]
  /\ connection_task \in Connects \cup {NoClient}

LoopInv == LoopTypes /\ PlacesOK /\ ReadyOK /\ AwaitersOK /\ TasksOK /\ WaitsOK

-----------------------------------------------------------------------------
(* What a step does to the loop *)

\* The loop resumes c.
Runs(c) == ready # << >> /\ Head(ready).of = c

Forgets == connection_task' \in {connection_task, NoClient}

Arrives(r) ==
  /\ at[Handler(r)] = "idle"
  /\ at' = [at EXCEPT ![Handler(r)] = "new"]
  /\ ready' = Append(ready, Item(Handler(r), TRUE))
  /\ UNCHANGED << awaiters, waits, connection_task >>

Wakes(c) ==
  /\ at[c] \in Awaits /\ ~In(ready, c)
  /\ \E ok \in BOOLEAN : ready' = Append(ready, Item(c, ok))
  /\ UNCHANGED << at, awaiters, waits, connection_task >>

\* From where the handler of a connect request goes where, short of creating
\* its task.
ConnectGoes(from, to) ==
  \/ from = "new" /\ to \in {"body", "done"}
  \/ from = "body" /\ to = "broadcasting"
  \/ from \in {"broadcasting", "awaiting"} /\ to = "done"

ConnectMoves(r) ==
  /\ Runs(Handler(r))
  /\ \E place \in Places : Suspend(Handler(r), place) /\ ConnectGoes(at[Handler(r)], place)
  /\ Forgets /\ UNCHANGED << awaiters, waits >>

OtherMoves(r) ==
  /\ Runs(Handler(r))
  /\ at[Handler(r)] \in {"new", "awaiting", "tearing"}
  /\ \E place \in {"tearing", "done"} : Suspend(Handler(r), place)
  /\ UNCHANGED << awaiters, waits, connection_task >>

TaskMoves(r) ==
  /\ Runs(Task(r))
  /\ \E place \in {"scanning", "linking", "undoing", "subscribing", "tearing"} :
       Suspend(Task(r), place)
  /\ UNCHANGED << awaiters, waits, connection_task >>

Creates(r) ==
  /\ Runs(Handler(r)) /\ at[Handler(r)] \in {"body", "broadcasting"}
  /\ CreateTask(r)
  /\ UNCHANGED waits

Ends(r) ==
  /\ Runs(Task(r))
  /\ \E o \in Outcomes : EndTask(r, o)
  /\ UNCHANGED << awaiters, waits, connection_task >>

Interrupts(r) ==
  /\ Runs(Handler(r)) /\ at[Handler(r)] = "new"
  /\ CancelsTask(r)
  /\ UNCHANGED connection_task

LoopRests == UNCHANGED << ready, at, awaiters, waits, connection_task >>

LoopKind ==
  \/ \E r \in Requests : Arrives(r)
  \/ \E c \in Coroutines : Wakes(c)
  \/ \E r \in Connects : ConnectMoves(r) \/ TaskMoves(r) \/ Creates(r) \/ Ends(r)
  \/ \E r \in Cancellers \cup Disconnects : OtherMoves(r)
  \/ \E r \in Cancellers : Interrupts(r)
  \/ LoopRests

\* A suspended call of bleak is about a client, and what a task raises is
\* one of its outcomes.
LEMMA RaisedIsOutcome ==
  \A r, ok : Raised(r, ok) \in Outcomes
BY DEF Raised, Outcomes

\* The kinds of the steps of each action.
LEMMA KindsOfSteps ==
  ASSUME TypeOK
  PROVE  /\ \A r \in Requests : RequestArrives(r) => Arrives(r)
         /\ Completion => \E c \in Coroutines : Wakes(c)
         /\ \A c \in Coroutines, ok \in BOOLEAN : Completes(c, ok) => Wakes(c)
         /\ \A r \in Connects : LinkLost(r) => LoopRests
         /\ ViewersChange => LoopRests
         /\ \A r \in Connects : Connect(r) => ConnectMoves(r) \/ Creates(r)
         /\ \A r \in Connects : RunTask(r) => TaskMoves(r) \/ Ends(r)
         /\ \A r \in Cancellers \cup Disconnects :
              EndConnection(r) => OtherMoves(r) \/ (r \in Cancellers /\ Interrupts(r))
<1>1. ASSUME NEW r \in Requests, RequestArrives(r) PROVE Arrives(r)
  BY <1>1 DEF RequestArrives, Arrives, webVars
<1>2. ASSUME NEW c \in Coroutines, NEW ok \in BOOLEAN, Completes(c, ok) PROVE Wakes(c)
  BY <1>2 DEF Completes, Wakes, Queued, In, webVars
<1>3. ASSUME Completion PROVE \E c \in Coroutines : Wakes(c)
  <2>1. \A c \in Coroutines : DropCompletes(c) => Completes(c, TRUE) BY DEF DropCompletes
  <2>2. \A c \in Coroutines, ok \in BOOLEAN : InputCompletes(c, ok) => Completes(c, ok)
    BY DEF InputCompletes
  <2>3. \A r \in Connects, ok \in BOOLEAN :
          LinkCompletes(r, ok) \/ SubscribeCompletes(r, ok) => Completes(Task(r), ok)
    BY DEF LinkCompletes, SubscribeCompletes
  <2>4. PICK c \in Coroutines, ok \in BOOLEAN : Completes(c, ok)
    BY <1>3, <2>1, <2>2, <2>3, CoroutineNames DEF Completion
  <2> QED BY <1>2, <2>4
<1>4. \A r \in Connects : LinkLost(r) => LoopRests BY DEF LinkLost, LoopRests, webVars
<1>5. ViewersChange => LoopRests BY DEF ViewersChange, LoopRests
<1>6. ASSUME NEW r \in Connects, Connect(r) PROVE ConnectMoves(r) \/ Creates(r)
  <2>1. CASE ConnectStarts(r)
    <3>1. Suspend(Handler(r), "body") \/ Suspend(Handler(r), "done") BY <2>1 DEF ConnectStarts
    <3> QED BY <1>6, <2>1, <3>1 DEF ConnectStarts, Connect, ConnectMoves, Resume, Item, Runs,
          ConnectGoes, Forgets, webVars, Places, Awaits
  <2>2. CASE ConnectReadsBody(r)
    BY <1>6, <2>2 DEF ConnectReadsBody, Connect, ConnectMoves, Creates, Resume, Item, Runs,
       ConnectGoes, Forgets, Places, Awaits
  <2>3. CASE ConnectBroadcasts(r)
    BY <1>6, <2>3 DEF ConnectBroadcasts, Connect, ConnectMoves, Creates, Resume, Item, Runs,
       ConnectGoes, Forgets, Places, Awaits
  <2>4. CASE ConnectReturns(r)
    BY <1>6, <2>4 DEF ConnectReturns, Connect, ConnectMoves, Resume, Item, Runs,
       ConnectGoes, Forgets, Places, Awaits
  <2> QED BY <1>6, <2>1, <2>2, <2>3, <2>4 DEF Connect
<1>7. ASSUME NEW r \in Connects, RunTask(r) PROVE TaskMoves(r) \/ Ends(r)
  <2>1. UNCHANGED << awaiters, waits, connection_task >> BY <1>7 DEF RunTask, webVars
  <2>2. Runs(Task(r)) BY <1>7 DEF RunTask, TaskStarts, TaskUndone, TaskTornDown, TaskScanned,
          TaskLinked, TaskSubscribed, Resume, Item, Runs
  <2> DEFINE Moved == \E place \in {"scanning", "linking", "undoing", "subscribing", "tearing"} :
                        Suspend(Task(r), place)
             Ended == \E o \in Outcomes : EndTask(r, o)
  <2>3. SUFFICES Moved \/ Ended BY <2>1, <2>2 DEF TaskMoves, Ends
  <2>4. outcome[r] \in Outcomes BY DEF TypeOK
  <2>5. \A o \in Outcomes : TaskFails(r, o) => Moved \/ Ended
    BY DEF TaskFails, CallDisconnect
  <2>6. \A o \in Outcomes : ConnectFails(r, o) => Moved \/ Ended
    BY <2>5 DEF ConnectFails
  <2>7. {"ok", "error", "cancelled"} \subseteq Outcomes BY DEF Outcomes
  <2>8. CASE TaskStarts(r) BY <2>7, <2>8 DEF TaskStarts, NewClient
  <2>9. ASSUME NEW ok \in BOOLEAN, TaskScanned(r, ok) PROVE Moved \/ Ended
    <3>1. NewClient(r) \/ TaskFails(r, Raised(r, ok)) BY <2>9 DEF TaskScanned
    <3>2. NewClient(r) => Moved BY DEF NewClient
    <3> QED BY <2>5, <3>1, <3>2, RaisedIsOutcome
  <2>10. ASSUME NEW ok \in BOOLEAN, TaskLinked(r, ok) PROVE Moved \/ Ended
    <3>1. PICK raised \in Outcomes : StartMonitoring(r) \/ Suspend(Task(r), "undoing")
            \/ ConnectFails(r, raised)
      BY <2>7, <2>10, RaisedIsOutcome DEF TaskLinked
    <3>2. StartMonitoring(r) => Moved \/ Ended BY <2>7 DEF StartMonitoring
    <3> QED BY <2>6, <3>1, <3>2
  <2>11. ASSUME NEW ok \in BOOLEAN, TaskSubscribed(r, ok) PROVE Moved \/ Ended
    <3>1. EndTask(r, "ok") \/ TaskFails(r, Raised(r, ok)) BY <2>11 DEF TaskSubscribed
    <3> QED BY <2>5, <2>7, <3>1, RaisedIsOutcome
  <2>12. CASE TaskUndone(r) BY <2>4, <2>6, <2>7, <2>12 DEF TaskUndone
  <2>13. CASE TaskTornDown(r) BY <2>4, <2>7, <2>13 DEF TaskTornDown
  <2> QED BY <1>7, <2>8, <2>9, <2>10, <2>11, <2>12, <2>13 DEF RunTask
<1>8. ASSUME NEW r \in Cancellers \cup Disconnects, EndConnection(r)
      PROVE  OtherMoves(r) \/ (r \in Cancellers /\ Interrupts(r))
  <2>1. UNCHANGED connection_task BY <1>8 DEF EndConnection, webVars
  <2>2. HandlerDisconnects(r) =>
          \E place \in {"tearing", "done"} : Suspend(Handler(r), place)
    BY DEF HandlerDisconnects, CallDisconnect
  <2>3. CASE r \in Shutdowns /\ ShutdownStarts(r)
    BY <2>1, <2>2, <2>3, CoroutineNames
    DEF ShutdownStarts, OtherMoves, Interrupts, Resume, Item, Runs
  <2>4. CASE r \in Cancels /\ CancelStarts(r)
    BY <2>1, <2>2, <2>4, CoroutineNames
    DEF CancelStarts, OtherMoves, Interrupts, Resume, Item, Runs
  <2>5. CASE r \in Cancellers /\ CancelResumes(r)
    BY <2>1, <2>2, <2>5 DEF CancelResumes, OtherMoves, Resume, Item, Runs
  <2>6. CASE r \in Disconnects /\ DisconnectStarts(r)
    BY <2>1, <2>2, <2>6 DEF DisconnectStarts, OtherMoves, Resume, Item, Runs
  <2>7. CASE HandlerTornDown(r)
    BY <2>1, <2>7 DEF HandlerTornDown, OtherMoves, Resume, Item, Runs
  <2> QED BY <1>8, <2>3, <2>4, <2>5, <2>6, <2>7 DEF EndConnection
<1> QED BY <1>1, <1>2, <1>3, <1>4, <1>5, <1>6, <1>7, <1>8

\* Every step is of one of these kinds.
LEMMA LoopKinds ==
  ASSUME TypeOK, Next
  PROVE  LoopKind
BY KindsOfSteps DEF Next, LoopStep, LoopKind

-----------------------------------------------------------------------------
(* Each kind of step keeps the invariant of the loop *)

\* A coroutine goes from where it is to place: the others stay where they are.
LEMMA OneGoes ==
  ASSUME LoopTypes, NEW c \in Coroutines, NEW place \in Places,
         at' = [at EXCEPT ![c] = place]
  PROVE  /\ at' \in [Coroutines -> Places]
         /\ at'[c] = place
         /\ \A d \in Coroutines : d # c => at'[d] = at[d]
BY DEF LoopTypes

\* What the loop's invariant says of a coroutine that waits for a task.
LEMMA AwaiterIsSuspended ==
  ASSUME LoopInv, NEW r \in Connects, ~Done(Task(r)), NEW c, IsAwaiter(c, r)
  PROVE  at[c] = "awaiting" /\ ~In(ready, c)
BY DEF LoopInv, AwaitersOK, IsAwaiter

LEMMA ArrivesLoopInv ==
  ASSUME LoopInv, NEW r \in Requests, Arrives(r)
  PROVE  LoopInv'
<1> USE DEF Arrives
<1> DEFINE h == Handler(r)
<1>1. h \in Coroutines /\ at[h] = "idle" BY CoroutineNames
<1>2. ready \in Queue /\ Distinct(ready) /\ ~In(ready, h)
  BY <1>1 DEF LoopInv, ReadyOK, InProgress
<1>3. /\ ready' \in Queue /\ Distinct(ready')
      /\ \A d : In(ready', d) <=> In(ready, d) \/ d = h
  BY <1>1, <1>2, QueueAppend
<1>4. /\ at' \in [Coroutines -> Places] /\ at'[h] = "new"
      /\ \A d \in Coroutines : d # h => at'[d] = at[d]
  BY <1>1, OneGoes DEF LoopInv, Places
<1>5. LoopTypes' BY <1>4 DEF LoopInv, LoopTypes
<1> HIDE DEF h
<1>6. \A q \in Connects : at'[Task(q)] = at[Task(q)] BY <1>4, CoroutineNames DEF h
<1>7. \A q \in Requests : q # r => at'[Handler(q)] = at[Handler(q)]
  BY <1>4, CoroutineNames DEF h
<1>8. at'[Handler(r)] = "new" BY <1>4 DEF h
<1>9. PlacesOK' BY <1>6, <1>7, <1>8, CoroutineNames DEF LoopInv, PlacesOK
<1>10. ReadyOK' BY <1>1, <1>3, <1>4 DEF LoopInv, ReadyOK, InProgress
<1>11. ASSUME NEW q \in Connects, NEW c, IsAwaiter(c, q), ~Done(Task(q))
       PROVE  at'[c] = "awaiting" /\ ~In(ready', c)
  <2>1. at[c] = "awaiting" /\ ~In(ready, c) BY <1>11, AwaiterIsSuspended
  <2>2. c \in Coroutines BY <1>11 DEF LoopInv, LoopTypes, IsAwaiter
  <2> QED BY <1>1, <1>3, <1>4, <2>1, <2>2
<1>12. AwaitersOK'
  <2>1. UNCHANGED << awaiters, waits >> OBVIOUS
  <2>2. \A q \in Connects : at'[Task(q)] = at[Task(q)] BY <1>6
  <2>3. AwaitersOK BY DEF LoopInv
  <2>4. \A q \in Connects : Done(Task(q))' <=> Done(Task(q)) BY <2>2 DEF Done
  <2>5. ASSUME NEW q \in Connects, ~Done(Task(q)), NEW i \in DOMAIN awaiters[q]
        PROVE  at'[awaiters[q][i]] = "awaiting" /\ ~In(ready', awaiters[q][i])
    BY <1>11, <2>5 DEF IsAwaiter
  <2> HIDE DEF Arrives
  <2> QED BY <2>1, <2>2, <2>3, <2>4, <2>5 DEF AwaitersOK
<1>13. TasksOK'
  BY <1>1, <1>6, <1>7, <1>8, CoroutineNames
  DEF LoopInv, LoopTypes, TasksOK, IsAwaiter, InProgress, h
<1>14. WaitsOK'
  BY <1>3, <1>6, <1>7, <1>8, CoroutineNames DEF LoopInv, WaitsOK, IsAwaiter, Done
<1> QED BY <1>5, <1>9, <1>10, <1>12, <1>13, <1>14 DEF LoopInv

LEMMA WakesLoopInv ==
  ASSUME LoopInv, NEW c \in Coroutines, Wakes(c)
  PROVE  LoopInv'
<1> USE DEF Wakes
<1>1. at[c] \notin {"idle", "new", "awaiting", "done"} BY DEF Awaits, TearingPlaces
<1>2. ready \in Queue /\ Distinct(ready) /\ ~In(ready, c) BY DEF LoopInv, ReadyOK
<1>3. /\ ready' \in Queue /\ Distinct(ready')
      /\ \A d : In(ready', d) <=> In(ready, d) \/ d = c
  BY <1>2, QueueAppend
<1>4. LoopTypes' BY DEF LoopInv, LoopTypes
<1>5. PlacesOK' BY DEF LoopInv, PlacesOK
<1>6. ReadyOK' BY <1>1, <1>3 DEF LoopInv, ReadyOK, InProgress
<1>7. AwaitersOK' BY <1>1, <1>3 DEF LoopInv, AwaitersOK, Done
<1>8. TasksOK' BY DEF LoopInv, TasksOK, IsAwaiter, InProgress
<1>9. WaitsOK' BY <1>3 DEF LoopInv, WaitsOK, IsAwaiter, Done
<1> QED BY <1>4, <1>5, <1>6, <1>7, <1>8, <1>9 DEF LoopInv

\* The loop resumes c, which ends or suspends again and wakes nothing.
LEMMA Resumed ==
  ASSUME LoopInv, NEW c \in Coroutines, Runs(c), NEW place \in Places, Suspend(c, place),
         place \notin {"idle", "new"}
  PROVE  /\ InProgress(c) /\ In(ready, c)
         /\ \A r \in Connects : ~Done(Task(r)) => ~IsAwaiter(c, r)
         /\ at' \in [Coroutines -> Places] /\ at'[c] = place
         /\ \A d \in Coroutines : d # c => at'[d] = at[d]
         /\ \A d : In(ready', d) <=> In(ready, d) /\ d # c
         /\ ReadyOK'
<1>1. ready \in Queue /\ Distinct(ready) /\ ready # << >> /\ Head(ready).of = c
  BY DEF LoopInv, ReadyOK, Runs
<1>2. /\ ready' \in Queue /\ Distinct(ready') /\ In(ready, c)
      /\ \A d : In(ready', d) <=> In(ready, d) /\ d # c
  BY <1>1, QueueTail DEF Suspend
<1>3. InProgress(c) BY <1>2 DEF LoopInv, ReadyOK
<1>4. \A r \in Connects : ~Done(Task(r)) => ~IsAwaiter(c, r) BY <1>2, AwaiterIsSuspended
<1>5. /\ at' \in [Coroutines -> Places] /\ at'[c] = place
      /\ \A d \in Coroutines : d # c => at'[d] = at[d]
  BY OneGoes DEF LoopInv, Suspend
<1>6. ReadyOK'
  BY <1>2, <1>5 DEF LoopInv, ReadyOK, InProgress
<1> QED BY <1>2, <1>3, <1>4, <1>5, <1>6

LEMMA ConnectMovesLoopInv ==
  ASSUME LoopInv, NEW r \in Connects, ConnectMoves(r)
  PROVE  LoopInv'
<1>1. PICK place \in Places :
        Suspend(Handler(r), place) /\ ConnectGoes(at[Handler(r)], place)
  BY DEF ConnectMoves
<1>2. /\ Handler(r) \in Coroutines /\ Runs(Handler(r)) /\ Forgets
      /\ UNCHANGED << awaiters, waits >>
  BY CoroutineNames DEF ConnectMoves
<1>3. place \in {"body", "broadcasting", "done"} BY <1>1 DEF ConnectGoes
<1>4. /\ InProgress(Handler(r)) /\ In(ready, Handler(r))
      /\ \A q \in Connects : ~Done(Task(q)) => ~IsAwaiter(Handler(r), q)
      /\ at' \in [Coroutines -> Places] /\ at'[Handler(r)] = place
      /\ \A d \in Coroutines : d # Handler(r) => at'[d] = at[d]
      /\ \A d : In(ready', d) <=> In(ready, d) /\ d # Handler(r)
      /\ ReadyOK'
  BY <1>1, <1>2, <1>3, Resumed
<1>5. \A q \in Connects : at'[Task(q)] = at[Task(q)] BY <1>4, CoroutineNames
<1>6. \A q \in Requests : q # r => at'[Handler(q)] = at[Handler(q)]
  BY <1>4, CoroutineNames
<1>7. LoopTypes' BY <1>2, <1>4 DEF LoopInv, LoopTypes, Forgets
<1>8. PlacesOK'
  BY <1>3, <1>4, <1>5, <1>6, CoroutineNames, RequestKinds DEF LoopInv, PlacesOK
<1>9. ASSUME NEW q \in Connects, NEW c, IsAwaiter(c, q), ~Done(Task(q))
      PROVE  at'[c] = "awaiting" /\ ~In(ready', c)
  <2>1. at[c] = "awaiting" /\ ~In(ready, c) BY <1>9, AwaiterIsSuspended
  <2>2. c \in Coroutines BY <1>9 DEF LoopInv, LoopTypes, IsAwaiter
  <2> QED BY <1>4, <2>1, <2>2
<1>10. AwaitersOK' BY <1>2, <1>5, <1>9 DEF LoopInv, AwaitersOK, IsAwaiter, Done
<1>11. ASSUME at[Handler(r)] \in {"new", "body", "broadcasting"} PROVE at[Task(r)] = "idle"
  BY <1>11 DEF LoopInv, TasksOK
<1>12. ~InProgress(Task(r))
  BY <1>4 DEF LoopInv, TasksOK, InProgress, Done
<1>13. place \in {"body", "broadcasting"} => at[Task(r)] = "idle"
  BY <1>1, <1>11 DEF ConnectGoes
<1>14. TasksOK'
  <2>1. ASSUME NEW q \in Connects
        PROVE  /\ at'[Handler(q)] \in {"idle", "new", "body", "broadcasting"}
                    => at'[Task(q)] = "idle"
               /\ InProgress(Task(q))' => at'[Handler(q)] = "awaiting" /\ IsAwaiter(Handler(q), q)'
               /\ at'[Handler(q)] = "awaiting" => at'[Task(q)] # "idle"
    <3>1. CASE q = r
      BY <1>3, <1>4, <1>5, <1>12, <1>13, <3>1 DEF InProgress
    <3>2. CASE q # r
      <4>1. at'[Handler(q)] = at[Handler(q)] /\ at'[Task(q)] = at[Task(q)]
        BY <1>5, <1>6, <3>2, CoroutineNames
      <4> QED BY <1>2, <4>1 DEF LoopInv, TasksOK, InProgress, IsAwaiter
    <3> QED BY <3>1, <3>2
  <2>2. (connection_task # NoClient => at[Task(connection_task)] # "idle")'
    BY <1>2, <1>5 DEF LoopInv, LoopTypes, TasksOK, Forgets
  <2> QED BY <2>1, <2>2 DEF TasksOK
<1>15. WaitsOK'
  BY <1>2, <1>4, <1>5, <1>6, CoroutineNames, RequestKinds
  DEF LoopInv, WaitsOK, IsAwaiter, Done
<1> QED BY <1>4, <1>7, <1>8, <1>10, <1>14, <1>15 DEF LoopInv

LEMMA OtherMovesLoopInv ==
  ASSUME LoopInv, NEW r \in Cancellers \cup Disconnects, OtherMoves(r)
  PROVE  LoopInv'
<1>1. PICK place \in {"tearing", "done"} : Suspend(Handler(r), place) BY DEF OtherMoves
<1>2. /\ Handler(r) \in Coroutines /\ Runs(Handler(r)) /\ place \in Places
      /\ UNCHANGED << awaiters, waits, connection_task >>
  BY CoroutineNames DEF OtherMoves, Places, Awaits, TearingPlaces
<1>3. /\ InProgress(Handler(r)) /\ In(ready, Handler(r))
      /\ \A q \in Connects : ~Done(Task(q)) => ~IsAwaiter(Handler(r), q)
      /\ at' \in [Coroutines -> Places] /\ at'[Handler(r)] = place
      /\ \A d \in Coroutines : d # Handler(r) => at'[d] = at[d]
      /\ \A d : In(ready', d) <=> In(ready, d) /\ d # Handler(r)
      /\ ReadyOK'
  BY <1>1, <1>2, Resumed
<1>4. \A q \in Connects : at'[Task(q)] = at[Task(q)] BY <1>3, CoroutineNames
<1>5. \A q \in Requests : q # r => at'[Handler(q)] = at[Handler(q)]
  BY <1>3, CoroutineNames
<1>6. LoopTypes' BY <1>2, <1>3 DEF LoopInv, LoopTypes
<1>7. PlacesOK'
  BY <1>1, <1>3, <1>4, <1>5, CoroutineNames, RequestKinds DEF LoopInv, PlacesOK
<1>8. ASSUME NEW q \in Connects, NEW c, IsAwaiter(c, q), ~Done(Task(q))
      PROVE  at'[c] = "awaiting" /\ ~In(ready', c)
  <2>1. at[c] = "awaiting" /\ ~In(ready, c) BY <1>8, AwaiterIsSuspended
  <2>2. c \in Coroutines BY <1>8 DEF LoopInv, LoopTypes, IsAwaiter
  <2> QED BY <1>3, <2>1, <2>2
<1>9. AwaitersOK' BY <1>2, <1>4, <1>8 DEF LoopInv, AwaitersOK, IsAwaiter, Done
<1>10. \A q \in Connects : at'[Handler(q)] = at[Handler(q)]
  BY <1>5, CoroutineNames, RequestKinds
<1>11. TasksOK'
  BY <1>2, <1>4, <1>10 DEF LoopInv, LoopTypes, TasksOK, InProgress, IsAwaiter
<1>12. WaitsOK'
  BY <1>1, <1>2, <1>3, <1>4, <1>5, CoroutineNames
  DEF LoopInv, WaitsOK, IsAwaiter, Done
<1> QED BY <1>3, <1>6, <1>7, <1>9, <1>11, <1>12 DEF LoopInv

LEMMA TaskMovesLoopInv ==
  ASSUME LoopInv, NEW r \in Connects, TaskMoves(r)
  PROVE  LoopInv'
<1>1. PICK place \in {"scanning", "linking", "undoing", "subscribing", "tearing"} :
        Suspend(Task(r), place)
  BY DEF TaskMoves
<1>2. /\ Task(r) \in Coroutines /\ Runs(Task(r)) /\ place \in Places
      /\ UNCHANGED << awaiters, waits, connection_task >>
  BY CoroutineNames DEF TaskMoves, Places, Awaits, TearingPlaces
<1>3. /\ InProgress(Task(r)) /\ In(ready, Task(r))
      /\ at' \in [Coroutines -> Places] /\ at'[Task(r)] = place
      /\ \A d \in Coroutines : d # Task(r) => at'[d] = at[d]
      /\ \A d : In(ready', d) <=> In(ready, d) /\ d # Task(r)
      /\ ReadyOK'
  BY <1>1, <1>2, Resumed
<1>4. \A q \in Connects : q # r => at'[Task(q)] = at[Task(q)] BY <1>3, CoroutineNames
<1>5. \A q \in Requests : at'[Handler(q)] = at[Handler(q)] BY <1>3, CoroutineNames
<1>6. LoopTypes' BY <1>2, <1>3 DEF LoopInv, LoopTypes
<1>7. PlacesOK' BY <1>1, <1>3, <1>4, <1>5, CoroutineNames DEF LoopInv, PlacesOK
<1>8. \A q \in Connects : Done(Task(q))' <=> Done(Task(q))
  BY <1>1, <1>3, <1>4 DEF InProgress, Done
<1>9. \A q \in Connects : at'[Task(q)] = "idle" <=> at[Task(q)] = "idle"
  BY <1>1, <1>3, <1>4 DEF InProgress
<1>10. ASSUME NEW q \in Connects, NEW c, IsAwaiter(c, q), ~Done(Task(q))
       PROVE  at'[c] = "awaiting" /\ ~In(ready', c)
  <2>1. at[c] = "awaiting" /\ ~In(ready, c) BY <1>10, AwaiterIsSuspended
  <2>2. c \in Coroutines /\ c # Task(r)
    BY <1>3, <1>10, <2>1 DEF LoopInv, LoopTypes, IsAwaiter
  <2> QED BY <1>3, <2>1, <2>2
<1>11. AwaitersOK' BY <1>2, <1>8, <1>9, <1>10 DEF LoopInv, AwaitersOK, IsAwaiter
<1>12. TasksOK'
  <2>1. \A q \in Connects : InProgress(Task(q))' <=> InProgress(Task(q))
    BY <1>8, <1>9 DEF InProgress, Done
  <2>2. \A q \in Connects : at'[Handler(q)] = at[Handler(q)] BY <1>5, CoroutineNames
  <2> QED BY <1>2, <1>9, <2>1, <2>2 DEF LoopInv, LoopTypes, TasksOK, IsAwaiter
<1>13. WaitsOK'
  <2>1. \A x \in Cancellers :
          /\ at'[Handler(x)] = at[Handler(x)]
          /\ In(ready', Handler(x)) <=> In(ready, Handler(x))
    BY <1>3, <1>5, CoroutineNames
  <2> QED BY <1>2, <1>8, <1>9, <2>1 DEF LoopInv, WaitsOK, IsAwaiter
<1> QED BY <1>3, <1>6, <1>7, <1>11, <1>12, <1>13 DEF LoopInv

LEMMA CreatesLoopInv ==
  ASSUME LoopInv, NEW r \in Connects, Creates(r)
  PROVE  LoopInv'
<1>1. /\ Runs(Handler(r)) /\ at[Handler(r)] \in {"body", "broadcasting"}
      /\ connection_task' = r
      /\ at' = [at EXCEPT ![Handler(r)] = "awaiting", ![Task(r)] = "new"]
      /\ awaiters' = [awaiters EXCEPT ![r] = Append(@, Handler(r))]
      /\ ready' = Append(Tail(ready), Item(Task(r), TRUE))
      /\ waits' = waits
  BY DEF Creates, CreateTask
<1>2. /\ Handler(r) \in Coroutines /\ Task(r) \in Coroutines /\ Handler(r) # Task(r)
  BY CoroutineNames
<1>3. at[Task(r)] = "idle" /\ awaiters[r] = << >>
  BY <1>1 DEF LoopInv, TasksOK, AwaitersOK, Done
<1>4. /\ at' \in [Coroutines -> Places] /\ at'[Handler(r)] = "awaiting" /\ at'[Task(r)] = "new"
      /\ \A d \in Coroutines : d # Handler(r) /\ d # Task(r) => at'[d] = at[d]
  BY <1>1, <1>2 DEF LoopInv, LoopTypes, Places
<1>5. ready \in Queue /\ Distinct(ready) /\ ready # << >> /\ ~In(ready, Task(r))
      /\ Head(ready).of = Handler(r)
  BY <1>1, <1>2, <1>3 DEF LoopInv, ReadyOK, InProgress, Runs
<1>6. /\ Tail(ready) \in Queue /\ Distinct(Tail(ready)) /\ ~In(Tail(ready), Task(r))
      /\ \A d : In(Tail(ready), d) <=> In(ready, d) /\ d # Handler(r)
      /\ In(ready, Handler(r))
  BY <1>5, QueueTail
<1>7. /\ ready' \in Queue /\ Distinct(ready')
      /\ \A d : In(ready', d) <=> (In(ready, d) /\ d # Handler(r)) \/ d = Task(r)
  BY <1>1, <1>2, <1>6, QueueAppend
<1>8. /\ awaiters' \in [Connects -> Seq(Coroutines)]
      /\ awaiters'[r] = << Handler(r) >>
      /\ \A q \in Connects : q # r => awaiters'[q] = awaiters[q]
  BY <1>1, <1>2, <1>3 DEF LoopInv, LoopTypes
<1>9. LoopTypes' BY <1>1, <1>4, <1>8 DEF LoopInv, LoopTypes
<1>10. \A q \in Connects : q # r => at'[Task(q)] = at[Task(q)] BY <1>4, CoroutineNames
<1>11. \A q \in Requests : q # r => at'[Handler(q)] = at[Handler(q)] BY <1>4, CoroutineNames
<1>12. PlacesOK'
  BY <1>4, <1>10, <1>11, CoroutineNames, RequestKinds DEF LoopInv, PlacesOK
<1>13. ReadyOK' BY <1>2, <1>4, <1>7 DEF LoopInv, ReadyOK, InProgress
<1>14. ASSUME NEW q \in Connects, q # r, NEW c, IsAwaiter(c, q), ~Done(Task(q))
       PROVE  at'[c] = "awaiting" /\ ~In(ready', c)
  <2>1. at[c] = "awaiting" /\ ~In(ready, c) BY <1>14, AwaiterIsSuspended
  <2>2. c \in Coroutines /\ c # Task(r)
    BY <1>3, <1>14, <2>1 DEF LoopInv, LoopTypes, IsAwaiter
  <2> QED BY <1>1, <1>4, <1>7, <2>1, <2>2
<1>15. AwaitersOK'
  <2> SUFFICES ASSUME NEW q \in Connects, ~Done(Task(q))'
               PROVE  /\ \A i \in DOMAIN awaiters'[q] :
                           /\ at'[awaiters'[q][i]] = "awaiting" /\ ~In(ready', awaiters'[q][i])
                           /\ \/ awaiters'[q][i] = Handler(q)
                              \/ \E x \in Cancellers :
                                   awaiters'[q][i] = Handler(x) /\ waits'[x] = q
                      /\ \A i, j \in DOMAIN awaiters'[q] :
                           awaiters'[q][i] = awaiters'[q][j] => i = j
                      /\ at'[Task(q)] = "idle" => awaiters'[q] = << >>
    BY DEF AwaitersOK
  <2>1. CASE q = r
    <3>1. DOMAIN << Handler(r) >> = {1} /\ << Handler(r) >>[1] = Handler(r) OBVIOUS
    <3>2. ~In(ready', Handler(r)) BY <1>2, <1>7
    <3> QED BY <1>4, <1>8, <2>1, <3>1, <3>2
  <2>2. CASE q # r
    <3>1. ~Done(Task(q)) /\ awaiters'[q] = awaiters[q] /\ at'[Task(q)] = at[Task(q)]
      BY <1>8, <1>10, <2>2 DEF Done
    <3>2. \A i \in DOMAIN awaiters[q] :
            at'[awaiters[q][i]] = "awaiting" /\ ~In(ready', awaiters[q][i])
      BY <1>14, <2>2, <3>1 DEF IsAwaiter
    <3>3. /\ \A i \in DOMAIN awaiters[q] :
               \/ awaiters[q][i] = Handler(q)
               \/ \E x \in Cancellers : awaiters[q][i] = Handler(x) /\ waits[x] = q
          /\ \A i, j \in DOMAIN awaiters[q] : awaiters[q][i] = awaiters[q][j] => i = j
          /\ at[Task(q)] = "idle" => awaiters[q] = << >>
      BY <3>1 DEF LoopInv, AwaitersOK
    <3>4. waits' = waits BY <1>1
    <3> QED BY <3>1, <3>2, <3>3, <3>4
  <2> QED BY <2>1, <2>2
<1>16. TasksOK'
  <2>1. IsAwaiter(Handler(r), r)'
    <3>1. 1 \in DOMAIN << Handler(r) >> /\ << Handler(r) >>[1] = Handler(r) OBVIOUS
    <3> QED BY <1>8, <3>1 DEF IsAwaiter
  <2>2. ASSUME NEW q \in Connects
        PROVE  /\ at'[Handler(q)] \in {"idle", "new", "body", "broadcasting"}
                    => at'[Task(q)] = "idle"
               /\ InProgress(Task(q))' => at'[Handler(q)] = "awaiting" /\ IsAwaiter(Handler(q), q)'
               /\ at'[Handler(q)] = "awaiting" => at'[Task(q)] # "idle"
    <3>1. CASE q = r BY <1>4, <2>1, <3>1
    <3>2. CASE q # r
      <4>1. /\ at'[Handler(q)] = at[Handler(q)] /\ at'[Task(q)] = at[Task(q)]
            /\ awaiters'[q] = awaiters[q]
        BY <1>8, <1>10, <1>11, <3>2, CoroutineNames
      <4> QED BY <4>1 DEF LoopInv, TasksOK, InProgress, IsAwaiter
    <3> QED BY <3>1, <3>2
  <2>3. (connection_task # NoClient => at[Task(connection_task)] # "idle")' BY <1>1, <1>4
  <2> QED BY <2>2, <2>3 DEF TasksOK
<1>17. WaitsOK'
  <2> SUFFICES ASSUME NEW x \in Cancellers, at'[Handler(x)] = "awaiting"
               PROVE  /\ waits[x] \in Connects /\ at'[Task(waits[x])] # "idle"
                      /\ at'[Task(waits[x])] # "done" =>
                           \E i \in DOMAIN awaiters'[waits[x]] :
                             awaiters'[waits[x]][i] = Handler(x)
                      /\ at'[Task(waits[x])] = "done" => In(ready', Handler(x))
    BY <1>1 DEF WaitsOK, IsAwaiter, Done
  <2>1. /\ at[Handler(x)] = "awaiting" /\ Handler(x) # Handler(r) /\ Handler(x) # Task(r)
    BY <1>11, CoroutineNames, RequestKinds
  <2>2. waits[x] \in Connects /\ at[Task(waits[x])] # "idle" BY <2>1 DEF LoopInv, WaitsOK
  <2>3. waits[x] # r BY <1>3, <2>2
  <2>4. at'[Task(waits[x])] = at[Task(waits[x])] /\ awaiters'[waits[x]] = awaiters[waits[x]]
    BY <1>8, <1>10, <2>2, <2>3
  <2> QED BY <1>1, <1>7, <2>1, <2>2, <2>4 DEF LoopInv, WaitsOK, IsAwaiter, Done
<1> QED BY <1>9, <1>12, <1>13, <1>15, <1>16, <1>17 DEF LoopInv

\* What the invariant says of those that wait for a task not done.
LEMMA AwaitersOf ==
  ASSUME LoopInv, NEW r \in Connects, ~Done(Task(r))
  PROVE  /\ awaiters[r] \in Seq(Coroutines)
         /\ \A i \in DOMAIN awaiters[r] :
              /\ at[awaiters[r][i]] = "awaiting" /\ ~In(ready, awaiters[r][i])
              /\ awaiters[r][i] \in Coroutines
              /\ \/ awaiters[r][i] = Handler(r)
                 \/ \E x \in Cancellers : awaiters[r][i] = Handler(x) /\ waits[x] = r
         /\ \A i, j \in DOMAIN awaiters[r] : awaiters[r][i] = awaiters[r][j] => i = j
<1>1. awaiters[r] \in Seq(Coroutines) BY DEF LoopInv, LoopTypes
<1>2. \A i \in DOMAIN awaiters[r] : awaiters[r][i] \in Coroutines BY <1>1
<1> QED BY <1>1, <1>2 DEF LoopInv, AwaitersOK

\* Nobody waits for two tasks.
LEMMA OneTaskEach ==
  ASSUME LoopInv, NEW r \in Connects, NEW q \in Connects, ~Done(Task(r)), ~Done(Task(q)),
         NEW c, IsAwaiter(c, r), IsAwaiter(c, q)
  PROVE  r = q
<1>1. c = Handler(r) \/ \E x \in Cancellers : c = Handler(x) /\ waits[x] = r
  BY AwaitersOf DEF IsAwaiter
<1>2. c = Handler(q) \/ \E x \in Cancellers : c = Handler(x) /\ waits[x] = q
  BY AwaitersOf DEF IsAwaiter
<1> QED BY <1>1, <1>2, CoroutineNames, RequestKinds

LEMMA EndsLoopInv ==
  ASSUME LoopInv, NEW r \in Connects, Ends(r)
  PROVE  LoopInv'
<1>1. /\ Runs(Task(r)) /\ at' = [at EXCEPT ![Task(r)] = "done"]
      /\ ready' = Tail(ready) \o [i \in DOMAIN awaiters[r] |-> Item(awaiters[r][i], TRUE)]
      /\ UNCHANGED << awaiters, waits, connection_task >>
  BY DEF Ends, EndTask
<1>2. Task(r) \in Coroutines BY CoroutineNames
<1>3. ready \in Queue /\ Distinct(ready) /\ ready # << >> /\ Head(ready).of = Task(r)
  BY <1>1 DEF LoopInv, ReadyOK, Runs
<1>4. /\ Tail(ready) \in Queue /\ Distinct(Tail(ready)) /\ In(ready, Task(r))
      /\ \A d : In(Tail(ready), d) <=> In(ready, d) /\ d # Task(r)
  BY <1>3, QueueTail
<1>5. InProgress(Task(r)) BY <1>2, <1>4 DEF LoopInv, ReadyOK
<1>6. ~Done(Task(r)) /\ at[Task(r)] # "awaiting"
  BY <1>5 DEF InProgress, Done, LoopInv, PlacesOK
<1> DEFINE v == [i \in DOMAIN awaiters[r] |-> Item(awaiters[r][i], TRUE)]
<1>7. /\ v \in Queue /\ Distinct(v) /\ \A c : In(v, c) <=> IsAwaiter(c, r)
  BY <1>6, AwaitersOf, QueueOf DEF IsAwaiter
<1>8. ready' = Tail(ready) \o v BY <1>1
<1> HIDE DEF v
<1>9. \A c : ~(In(Tail(ready), c) /\ In(v, c))
  BY <1>4, <1>6, <1>7, AwaiterIsSuspended
<1>10. /\ ready' \in Queue /\ Distinct(ready')
       /\ \A d : In(ready', d) <=> (In(ready, d) /\ d # Task(r)) \/ IsAwaiter(d, r)
  BY <1>4, <1>7, <1>8, <1>9, QueueConcat
<1>11. /\ at' \in [Coroutines -> Places] /\ at'[Task(r)] = "done"
       /\ \A d \in Coroutines : d # Task(r) => at'[d] = at[d]
  BY <1>1, <1>2, OneGoes DEF LoopInv, Places
<1>12. LoopTypes' BY <1>1, <1>11 DEF LoopInv, LoopTypes
<1>13. \A q \in Connects : q # r => at'[Task(q)] = at[Task(q)] BY <1>11, CoroutineNames
<1>14. \A q \in Requests : at'[Handler(q)] = at[Handler(q)] BY <1>11, CoroutineNames
<1>15. PlacesOK' BY <1>11, <1>13, <1>14, CoroutineNames DEF LoopInv, PlacesOK
<1>16. \A c : IsAwaiter(c, r) => c \in Coroutines /\ at[c] = "awaiting" /\ c # Task(r)
  BY <1>6, AwaitersOf DEF IsAwaiter
<1>17. ReadyOK'
  <2>1. \A c \in Coroutines : In(ready', c) => InProgress(c)'
    BY <1>10, <1>11, <1>16 DEF LoopInv, ReadyOK, InProgress
  <2>2. \A c \in Coroutines : at'[c] = "new" => In(ready', c)
    BY <1>10, <1>11 DEF LoopInv, ReadyOK
  <2> QED BY <1>10, <2>1, <2>2 DEF ReadyOK
<1>18. AwaitersOK'
  <2>1. AwaitersOK BY DEF LoopInv
  <2>2. ASSUME NEW q \in Connects, ~Done(Task(q))' PROVE q # r /\ ~Done(Task(q))
    BY <1>11, <1>13, <2>2 DEF Done
  <2>3. ASSUME NEW q \in Connects, q # r, ~Done(Task(q)), NEW i \in DOMAIN awaiters[q]
        PROVE  at'[awaiters[q][i]] = "awaiting" /\ ~In(ready', awaiters[q][i])
    <3>1. IsAwaiter(awaiters[q][i], q) BY DEF IsAwaiter
    <3>2. ~IsAwaiter(awaiters[q][i], r) BY <1>6, <2>3, <3>1, OneTaskEach
    <3>3. /\ at[awaiters[q][i]] = "awaiting" /\ ~In(ready, awaiters[q][i])
          /\ awaiters[q][i] \in Coroutines
      BY <2>3, AwaitersOf
    <3> QED BY <1>6, <1>10, <1>11, <3>2, <3>3
  <2>4. \A q \in Connects : q # r => at'[Task(q)] = at[Task(q)] BY <1>13
  <2>5. awaiters' = awaiters /\ waits' = waits BY <1>1
  <2> SUFFICES ASSUME NEW q \in Connects, ~Done(Task(q))'
               PROVE  /\ \A i \in DOMAIN awaiters[q] :
                           /\ at'[awaiters[q][i]] = "awaiting" /\ ~In(ready', awaiters[q][i])
                           /\ \/ awaiters[q][i] = Handler(q)
                              \/ \E x \in Cancellers : awaiters[q][i] = Handler(x) /\ waits[x] = q
                      /\ \A i, j \in DOMAIN awaiters[q] : awaiters[q][i] = awaiters[q][j] => i = j
                      /\ at'[Task(q)] = "idle" => awaiters[q] = << >>
    BY <2>5 DEF AwaitersOK
  <2>6. q # r /\ ~Done(Task(q)) BY <2>2
  <2> QED BY <2>1, <2>3, <2>4, <2>6 DEF AwaitersOK
<1>19. TasksOK'
  <2>1. at[Task(r)] # "idle" BY <1>5 DEF InProgress
  <2>2. \A q \in Connects :
          /\ at'[Handler(q)] = at[Handler(q)]
          /\ at'[Task(q)] = "idle" <=> at[Task(q)] = "idle"
          /\ InProgress(Task(q))' => InProgress(Task(q))
    BY <1>11, <1>13, <1>14, <2>1, CoroutineNames DEF InProgress
  <2> QED BY <1>1, <2>2 DEF LoopInv, LoopTypes, TasksOK, IsAwaiter
<1>20. WaitsOK'
  <2> SUFFICES ASSUME NEW x \in Cancellers, at[Handler(x)] = "awaiting"
               PROVE  /\ waits[x] \in Connects /\ at'[Task(waits[x])] # "idle"
                      /\ at'[Task(waits[x])] # "done" => IsAwaiter(Handler(x), waits[x])
                      /\ at'[Task(waits[x])] = "done" => In(ready', Handler(x))
    BY <1>1, <1>14, CoroutineNames DEF WaitsOK, IsAwaiter, Done
  <2>1. /\ waits[x] \in Connects /\ at[Task(waits[x])] # "idle"
        /\ ~Done(Task(waits[x])) => IsAwaiter(Handler(x), waits[x])
        /\ Done(Task(waits[x])) => In(ready, Handler(x))
    BY DEF LoopInv, WaitsOK
  <2>2. CASE waits[x] = r BY <1>6, <1>10, <1>11, <2>1, <2>2
  <2>3. CASE waits[x] # r
    <3>1. at'[Task(waits[x])] = at[Task(waits[x])] BY <1>13, <2>1, <2>3
    <3>2. Handler(x) # Task(r) BY CoroutineNames
    <3> QED BY <1>10, <2>1, <3>1, <3>2 DEF Done
  <2> QED BY <2>2, <2>3
<1> QED BY <1>12, <1>15, <1>17, <1>18, <1>19, <1>20 DEF LoopInv

LEMMA InterruptsLoopInv ==
  ASSUME LoopInv, NEW r \in Cancellers, Interrupts(r)
  PROVE  LoopInv'
<1> DEFINE h == Handler(r)
<1>1. PICK t : t = connection_task OBVIOUS
<1>2. /\ Runs(h) /\ at[h] = "new" /\ t # NoClient /\ ~Done(Task(t))
      /\ ready' = IF In(ready, Task(t)) THEN Tail(ready)
                  ELSE Append(Tail(ready), Item(Task(t), TRUE))
      /\ waits' = [waits EXCEPT ![r] = t]
      /\ awaiters' = [awaiters EXCEPT ![t] = Append(@, h)]
      /\ at' = [at EXCEPT ![h] = "awaiting"]
      /\ connection_task' = connection_task
  BY <1>1 DEF Interrupts, CancelsTask, TaskInProgress, Cancel, Queued, In
<1>3. t \in Connects /\ at[Task(t)] # "idle" /\ InProgress(Task(t))
  BY <1>1, <1>2 DEF LoopInv, LoopTypes, TasksOK, InProgress, Done
<1>4. h \in Coroutines /\ Task(t) \in Coroutines /\ h # Task(t)
  BY <1>3, CoroutineNames
<1>5. ready \in Queue /\ Distinct(ready) /\ ready # << >> /\ Head(ready).of = h
  BY <1>2 DEF LoopInv, ReadyOK, Runs
<1>6. /\ Tail(ready) \in Queue /\ Distinct(Tail(ready)) /\ In(ready, h)
      /\ \A d : In(Tail(ready), d) <=> In(ready, d) /\ d # h
  BY <1>5, QueueTail
<1>7. /\ ready' \in Queue /\ Distinct(ready')
      /\ \A d : In(ready', d) <=> (In(ready, d) /\ d # h) \/ d = Task(t)
  <2>1. CASE In(ready, Task(t)) BY <1>2, <1>4, <1>6, <2>1
  <2>2. CASE ~In(ready, Task(t))
    <3>1. ~In(Tail(ready), Task(t)) BY <1>6, <2>2
    <3>2. ready' = Append(Tail(ready), Item(Task(t), TRUE)) BY <1>2, <2>2
    <3> QED BY <1>4, <1>6, <3>1, <3>2, QueueAppend
  <2> QED BY <2>1, <2>2
<1>8. \A q \in Connects : ~Done(Task(q)) => ~IsAwaiter(h, q) BY <1>6, AwaiterIsSuspended
<1>9. /\ at' \in [Coroutines -> Places] /\ at'[h] = "awaiting"
      /\ \A d \in Coroutines : d # h => at'[d] = at[d]
  BY <1>2, <1>4, OneGoes DEF LoopInv, Places
<1>10. /\ waits' \in [Cancellers -> Connects \cup {NoClient}]
       /\ waits'[r] = t /\ \A x \in Cancellers : x # r => waits'[x] = waits[x]
  BY <1>2, <1>3 DEF LoopInv, LoopTypes
<1>11. awaiters[t] \in Seq(Coroutines) BY <1>3 DEF LoopInv, LoopTypes
<1>12. /\ awaiters' \in [Connects -> Seq(Coroutines)]
       /\ awaiters'[t] = Append(awaiters[t], h)
       /\ \A q \in Connects : q # t => awaiters'[q] = awaiters[q]
  BY <1>2, <1>3, <1>4, <1>11 DEF LoopInv, LoopTypes
<1>13. LoopTypes' BY <1>2, <1>9, <1>10, <1>12 DEF LoopInv, LoopTypes
<1> HIDE DEF h
<1>14. \A q \in Connects : at'[Task(q)] = at[Task(q)] BY <1>9, CoroutineNames DEF h
<1>15. \A q \in Requests : q # r => at'[Handler(q)] = at[Handler(q)]
  BY <1>9, CoroutineNames DEF h
<1>16. PlacesOK'
  <2>1. at'[Handler(r)] = "awaiting" BY <1>9 DEF h
  <2> QED BY <1>14, <1>15, <2>1, CoroutineNames, RequestKinds DEF LoopInv, PlacesOK
<1>17. ReadyOK'
  BY <1>3, <1>4, <1>7, <1>9 DEF LoopInv, ReadyOK, InProgress
\* Those that waited still do.
<1>18. ASSUME NEW q \in Connects, ~Done(Task(q)), NEW i \in DOMAIN awaiters[q]
       PROVE  /\ at'[awaiters[q][i]] = "awaiting" /\ ~In(ready', awaiters[q][i])
              /\ awaiters[q][i] # h
              /\ \/ awaiters[q][i] = Handler(q)
                 \/ \E x \in Cancellers : awaiters[q][i] = Handler(x) /\ waits'[x] = q
  <2>1. /\ at[awaiters[q][i]] = "awaiting" /\ ~In(ready, awaiters[q][i])
        /\ awaiters[q][i] \in Coroutines
        /\ \/ awaiters[q][i] = Handler(q)
           \/ \E x \in Cancellers : awaiters[q][i] = Handler(x) /\ waits[x] = q
    BY <1>18, AwaitersOf
  <2>2. awaiters[q][i] # h BY <1>8, <1>18 DEF IsAwaiter
  <2>3. awaiters[q][i] # Task(t) BY <1>3, <2>1 DEF LoopInv, PlacesOK
  <2> QED BY <1>7, <1>9, <1>10, <2>1, <2>2, <2>3 DEF h
<1>19. DOMAIN awaiters'[t] = 1 .. Len(awaiters[t]) + 1
       /\ DOMAIN awaiters[t] = 1 .. Len(awaiters[t]) /\ Len(awaiters[t]) \in Nat
       /\ awaiters'[t][Len(awaiters[t]) + 1] = h
       /\ \A i \in DOMAIN awaiters[t] : awaiters'[t][i] = awaiters[t][i]
  BY <1>4, <1>11, <1>12
<1>20. AwaitersOK'
  <2> SUFFICES ASSUME NEW q \in Connects, ~Done(Task(q))'
               PROVE  /\ \A i \in DOMAIN awaiters'[q] :
                           /\ at'[awaiters'[q][i]] = "awaiting" /\ ~In(ready', awaiters'[q][i])
                           /\ \/ awaiters'[q][i] = Handler(q)
                              \/ \E x \in Cancellers :
                                   awaiters'[q][i] = Handler(x) /\ waits'[x] = q
                      /\ \A i, j \in DOMAIN awaiters'[q] :
                           awaiters'[q][i] = awaiters'[q][j] => i = j
                      /\ at'[Task(q)] = "idle" => awaiters'[q] = << >>
    BY DEF AwaitersOK
  <2>1. ~Done(Task(q)) BY <1>14 DEF Done
  <2>2. /\ \A i, j \in DOMAIN awaiters[q] : awaiters[q][i] = awaiters[q][j] => i = j
        /\ at[Task(q)] = "idle" => awaiters[q] = << >>
    BY <2>1 DEF LoopInv, AwaitersOK
  <2>3. CASE q = t
    <3>1. ASSUME NEW i \in DOMAIN awaiters'[t], i \notin DOMAIN awaiters[t]
          PROVE  i = Len(awaiters[t]) + 1 /\ awaiters'[t][i] = h
      BY <1>19, <3>1
    <3>2. ~In(ready', h) /\ at'[h] = "awaiting" BY <1>4, <1>7, <1>9
    <3>3. \A i \in DOMAIN awaiters'[t] :
            /\ at'[awaiters'[t][i]] = "awaiting" /\ ~In(ready', awaiters'[t][i])
            /\ \/ awaiters'[t][i] = Handler(t)
               \/ \E x \in Cancellers : awaiters'[t][i] = Handler(x) /\ waits'[x] = t
      <4> SUFFICES ASSUME NEW i \in DOMAIN awaiters'[t]
                   PROVE  /\ at'[awaiters'[t][i]] = "awaiting" /\ ~In(ready', awaiters'[t][i])
                          /\ \/ awaiters'[t][i] = Handler(t)
                             \/ \E x \in Cancellers :
                                  awaiters'[t][i] = Handler(x) /\ waits'[x] = t
        OBVIOUS
      <4>1. CASE i \in DOMAIN awaiters[t] BY <1>18, <1>19, <2>1, <2>3, <4>1
      <4>2. CASE i \notin DOMAIN awaiters[t] BY <1>10, <3>1, <3>2, <4>2 DEF h
      <4> QED BY <4>1, <4>2
    <3>4. \A i, j \in DOMAIN awaiters'[t] : awaiters'[t][i] = awaiters'[t][j] => i = j
      <4> SUFFICES ASSUME NEW i \in DOMAIN awaiters'[t], NEW j \in DOMAIN awaiters'[t],
                          awaiters'[t][i] = awaiters'[t][j]
                   PROVE  i = j
        OBVIOUS
      <4>1. \A k \in DOMAIN awaiters[t] : awaiters'[t][k] = awaiters[t][k] /\ awaiters[t][k] # h
        BY <1>18, <1>19, <2>1, <2>3
      <4> QED BY <2>2, <2>3, <3>1, <4>1
    <3> QED BY <1>3, <1>14, <2>3, <3>3, <3>4
  <2>4. CASE q # t
    <3>1. awaiters'[q] = awaiters[q] /\ at'[Task(q)] = at[Task(q)] BY <1>12, <1>14, <2>4
    <3> QED BY <1>18, <2>1, <2>2, <3>1
  <2> QED BY <2>3, <2>4
<1>21. \A c, q : q \in Connects /\ IsAwaiter(c, q) => IsAwaiter(c, q)'
  <2> SUFFICES ASSUME NEW c, NEW q \in Connects, IsAwaiter(c, q)
               PROVE  \E i \in DOMAIN awaiters'[q] : awaiters'[q][i] = c
    BY DEF IsAwaiter
  <2>1. PICK i \in DOMAIN awaiters[q] : awaiters[q][i] = c BY DEF IsAwaiter
  <2>2. CASE q = t BY <1>19, <2>1, <2>2
  <2>3. CASE q # t BY <1>12, <2>1, <2>3
  <2> QED BY <2>2, <2>3
<1>22. IsAwaiter(h, t)'
  <2>1. Len(awaiters[t]) + 1 \in DOMAIN awaiters'[t] BY <1>19
  <2> QED BY <1>19, <2>1 DEF IsAwaiter
<1>23. \A q \in Connects : at'[Handler(q)] = at[Handler(q)]
  BY <1>15, CoroutineNames, RequestKinds
<1>24. TasksOK'
  <2>1. \A q \in Connects : InProgress(Task(q))' <=> InProgress(Task(q))
    BY <1>14 DEF InProgress
  <2> QED BY <1>1, <1>2, <1>3, <1>14, <1>21, <1>23, <2>1 DEF LoopInv, TasksOK
<1>25. WaitsOK'
  <2> SUFFICES ASSUME NEW x \in Cancellers, at'[Handler(x)] = "awaiting"
               PROVE  /\ waits'[x] \in Connects /\ at'[Task(waits'[x])] # "idle"
                      /\ at'[Task(waits'[x])] # "done" =>
                           \E i \in DOMAIN awaiters'[waits'[x]] :
                             awaiters'[waits'[x]][i] = Handler(x)
                      /\ at'[Task(waits'[x])] = "done" => In(ready', Handler(x))
    BY DEF WaitsOK, IsAwaiter, Done
  <2>1. CASE x = r
    <3>1. at'[Task(t)] = at[Task(t)] BY <1>3, <1>14
    <3> QED BY <1>2, <1>3, <1>10, <1>22, <2>1, <3>1 DEF IsAwaiter, Done, h
  <2>2. CASE x # r
    <3>1. /\ at[Handler(x)] = "awaiting" /\ waits'[x] = waits[x] /\ Handler(x) # h
      BY <1>10, <1>15, <2>2, CoroutineNames DEF h
    <3>2. /\ waits[x] \in Connects /\ at[Task(waits[x])] # "idle"
          /\ ~Done(Task(waits[x])) => IsAwaiter(Handler(x), waits[x])
          /\ Done(Task(waits[x])) => In(ready, Handler(x))
      BY <3>1 DEF LoopInv, WaitsOK
    <3>3. at'[Task(waits[x])] = at[Task(waits[x])] BY <1>14, <3>2
    <3>4. IsAwaiter(Handler(x), waits[x]) =>
            \E i \in DOMAIN awaiters'[waits[x]] : awaiters'[waits[x]][i] = Handler(x)
      BY <1>21, <3>2 DEF IsAwaiter
    <3> QED BY <1>7, <3>1, <3>2, <3>3, <3>4 DEF Done
  <2> QED BY <2>1, <2>2
<1> QED BY <1>13, <1>16, <1>17, <1>20, <1>24, <1>25 DEF LoopInv

LEMMA RestsLoopInv ==
  ASSUME LoopInv, LoopRests
  PROVE  LoopInv'
<1> USE DEF LoopRests
<1>1. LoopTypes' BY DEF LoopInv, LoopTypes
<1>2. PlacesOK' BY DEF LoopInv, PlacesOK
<1>3. ReadyOK' BY DEF LoopInv, ReadyOK, InProgress
<1>4. AwaitersOK' BY DEF LoopInv, AwaitersOK, Done
<1>5. TasksOK' BY DEF LoopInv, TasksOK, IsAwaiter, InProgress
<1>6. WaitsOK' BY DEF LoopInv, WaitsOK, IsAwaiter, Done
<1> QED BY <1>1, <1>2, <1>3, <1>4, <1>5, <1>6 DEF LoopInv

LEMMA InitLoopInv == Init => LoopInv
<1> SUFFICES ASSUME Init PROVE LoopInv OBVIOUS
<1> USE DEF Init
<1>1. \A c \in Coroutines : at[c] = "idle" OBVIOUS
<1>2. \A r \in Requests : at[Handler(r)] = "idle" BY <1>1, CoroutineNames
<1>3. \A r \in Connects : at[Task(r)] = "idle" BY <1>1, CoroutineNames
<1>4. \A c : ~In(ready, c) BY DEF In
<1>5. LoopTypes BY DEF LoopTypes, Places
<1>6. PlacesOK BY <1>2, <1>3, CoroutineNames DEF PlacesOK
<1>7. ReadyOK BY <1>1, <1>4 DEF ReadyOK, Queue, Distinct
<1>8. AwaitersOK BY DEF AwaitersOK
<1>9. TasksOK BY <1>2, <1>3, CoroutineNames DEF TasksOK, InProgress
<1>10. WaitsOK BY <1>2, CoroutineNames DEF WaitsOK
<1> QED BY <1>5, <1>6, <1>7, <1>8, <1>9, <1>10 DEF LoopInv

LEMMA NextLoopInv == TypeOK /\ LoopInv /\ [Next]_vars => LoopInv'
<1> SUFFICES ASSUME TypeOK, LoopInv, [Next]_vars PROVE LoopInv' OBVIOUS
<1>1. CASE UNCHANGED vars BY <1>1, RestsLoopInv DEF vars, webVars, LoopRests
<1>2. CASE Next
  <2>1. LoopKind BY <1>2, LoopKinds
  <2> QED BY <2>1, ArrivesLoopInv, WakesLoopInv, ConnectMovesLoopInv, TaskMovesLoopInv,
        CreatesLoopInv, EndsLoopInv, OtherMovesLoopInv, InterruptsLoopInv, RestsLoopInv
     DEF LoopKind
<1> QED BY <1>1, <1>2

-----------------------------------------------------------------------------
(* Type correctness *)

TaskTypes == must_cancel \in [Connects -> BOOLEAN] /\ outcome \in [Connects -> Outcomes]
TargetOK ==
  /\ target \in [Coroutines -> Connects \cup {NoClient}]
  /\ \A c \in Coroutines : at[c] \in TearingPlaces \cup {"subscribing"} => target[c] # NoClient
WebTypes ==
  connecting \in BOOLEAN /\ viewers \in 0 .. MaxViewers /\ seen \in [Connects -> 0 .. MaxViewers]
AppTypes ==
  connected \in BOOLEAN /\ monitoring \in BOOLEAN /\ client \in Connects \cup {NoClient}
LinkTypes ==
  link \in [Connects -> {"none", "up", "down"}] /\ subscribed \in [Connects -> BOOLEAN]
HistTypes ==
  /\ changes \in 0 .. MaxChanges /\ losses \in 0 .. MaxLosses
  /\ crossings \in 0 .. MaxCrossings /\ spared \subseteq Connects
DataOK == TaskTypes /\ TargetOK /\ WebTypes /\ AppTypes /\ LinkTypes /\ HistTypes

\* TypeOK is the invariant of the loop and the types of the rest.
LEMMA TypeOKParts ==
  /\ LoopInv /\ DataOK => TypeOK
  /\ TypeOK => DataOK
<1>1. ASSUME LoopInv, DataOK PROVE TypeOK
  <2>1. \A i \in DOMAIN ready : ready[i].of \in Coroutines /\ In(ready, ready[i].of)
    <3>1. \A i \in DOMAIN ready : ready[i] \in [of : Coroutines, ok : BOOLEAN]
      <4> DEFINE Items == [of : Coroutines, ok : BOOLEAN]
      <4>1. ready \in Seq(Items) BY <1>1 DEF LoopInv, ReadyOK, Queue
      <4> HIDE DEF Items
      <4>2. \A i \in DOMAIN ready : ready[i] \in Items BY <4>1
      <4> QED BY <4>2 DEF Items
    <3> QED BY <3>1 DEF In
  <2>2. \A i \in DOMAIN ready : InProgress(ready[i].of) BY <1>1, <2>1 DEF LoopInv, ReadyOK
  <2>3. \A r \in Cancellers : at[Handler(r)] = "awaiting" => waits[r] # NoClient
    BY <1>1, BackendAssumption DEF LoopInv, WaitsOK, BackendAssumption
  <2> QED BY <1>1, <2>2, <2>3 DEF TypeOK, LoopInv, LoopTypes, ReadyOK, Queue, Distinct, DataOK,
        TaskTypes, TargetOK, WebTypes, AppTypes, LinkTypes, HistTypes
<1>2. ASSUME TypeOK PROVE DataOK
  BY <1>2 DEF TypeOK, DataOK, TaskTypes, TargetOK, WebTypes, AppTypes, LinkTypes, HistTypes
<1> QED BY <1>1, <1>2

\* Whoever goes where no client is needed keeps the targets.
LEMMA TargetKept ==
  ASSUME TargetOK, LoopTypes, NEW c \in Coroutines, NEW place \in Places,
         place \notin TearingPlaces \cup {"subscribing"},
         at' = [at EXCEPT ![c] = place], target' = target
  PROVE  TargetOK'
BY DEF TargetOK, LoopTypes

\* Whoever suspends to disconnect or subscribe a client has it as its target.
LEMMA TargetSet ==
  ASSUME TargetOK, LoopTypes, NEW c \in Coroutines, NEW place \in Places, NEW t \in Connects,
         at' = [at EXCEPT ![c] = place], target' = [target EXCEPT ![c] = t]
  PROVE  TargetOK'
BY BackendAssumption DEF TargetOK, LoopTypes, BackendAssumption

LEMMA HandleDisconnectTypes == HandleDisconnect => AppTypes'
BY DEF HandleDisconnect, AppTypes

LEMMA DropTypes ==
  ASSUME AppTypes, LinkTypes, NEW r \in Connects, Drop(r)
  PROVE  AppTypes' /\ LinkTypes'
<1>1. AppTypes' BY HandleDisconnectTypes DEF Drop, AppTypes, appVars
<1>2. LinkTypes' BY DEF Drop, LinkTypes
<1> QED BY <1>1, <1>2

LEMMA CallDisconnectTypes ==
  ASSUME TargetOK, AppTypes, LoopTypes, NEW c \in Coroutines, CallDisconnect(c)
  PROVE  TargetOK' /\ AppTypes'
<1>1. client \in Connects BY DEF CallDisconnect, AppTypes
<1>2. "tearing" \in Places BY DEF Places, Awaits, TearingPlaces
<1>3. TargetOK' BY <1>1, <1>2, TargetSet DEF CallDisconnect, Suspend
<1>4. AppTypes' BY DEF CallDisconnect, AppTypes, appVars
<1> QED BY <1>3, <1>4

\* The steps that are not the loop's.
LEMMA OutsideData ==
  ASSUME DataOK, LoopTypes,
         \/ \E r \in Requests : RequestArrives(r)
         \/ Completion
         \/ \E r \in Connects : LinkLost(r)
         \/ ViewersChange
  PROVE  DataOK'
<1> USE DEF DataOK
<1>1. ASSUME NEW r \in Requests, RequestArrives(r) PROVE DataOK'
  <2>1. Handler(r) \in Coroutines /\ at' = [at EXCEPT ![Handler(r)] = "new"] /\ target' = target
    BY <1>1, CoroutineNames DEF RequestArrives
  <2>2. TargetOK' BY <2>1, TargetKept DEF Places, TearingPlaces
  <2>3. HistTypes' BY <1>1, BackendAssumption DEF RequestArrives, HistTypes, BackendAssumption
  <2> QED BY <1>1, <2>2, <2>3 DEF RequestArrives, TaskTypes, WebTypes, AppTypes, LinkTypes,
        webVars, appVars, linkVars
<1>2. ASSUME NEW c \in Coroutines, NEW ok \in BOOLEAN, Completes(c, ok)
      PROVE  TaskTypes' /\ TargetOK' /\ WebTypes' /\ HistTypes'
  BY <1>2 DEF Completes, TaskTypes, TargetOK, WebTypes, HistTypes, webVars, histVars
<1>3. ASSUME NEW c \in Coroutines, DropCompletes(c) PROVE DataOK'
  <2>1. target[c] \in Connects BY <1>3 DEF DropCompletes, TargetOK
  <2> QED BY <1>2, <1>3, <2>1, DropTypes DEF DropCompletes
<1>4. ASSUME NEW c \in Coroutines, NEW ok \in BOOLEAN, InputCompletes(c, ok) PROVE DataOK'
  <2>1. AppTypes' /\ LinkTypes'
    BY <1>4 DEF InputCompletes, AppTypes, LinkTypes, appVars, linkVars
  <2> QED BY <1>2, <1>4, <2>1 DEF InputCompletes
<1>5. ASSUME NEW r \in Connects, NEW ok \in BOOLEAN, LinkCompletes(r, ok) PROVE DataOK'
  <2>1. AppTypes' /\ LinkTypes' BY <1>5 DEF LinkCompletes, AppTypes, LinkTypes, appVars
  <2> QED BY <1>2, <1>5, <2>1, CoroutineNames DEF LinkCompletes
<1>6. ASSUME NEW r \in Connects, NEW ok \in BOOLEAN, SubscribeCompletes(r, ok) PROVE DataOK'
  <2>1. AppTypes' BY <1>6 DEF SubscribeCompletes, AppTypes, appVars
  <2>2. Task(r) \in Coroutines BY CoroutineNames
  <2>3. target[Task(r)] \in Connects BY <1>6, <2>2 DEF SubscribeCompletes, TargetOK
  <2>4. (subscribed[target[Task(r)]] \/ ok) \in BOOLEAN BY <2>3 DEF LinkTypes
  <2>5. LinkTypes' BY <1>6, <2>3, <2>4 DEF SubscribeCompletes, LinkTypes
  <2> QED BY <1>2, <1>6, <2>1, <2>2, <2>5 DEF SubscribeCompletes
<1>7. ASSUME NEW r \in Connects, LinkLost(r) PROVE DataOK'
  <2>1. AppTypes' /\ LinkTypes' BY <1>7, DropTypes DEF LinkLost
  <2>2. HistTypes' BY <1>7, BackendAssumption DEF LinkLost, HistTypes, BackendAssumption
  <2> QED BY <1>7, <2>1, <2>2 DEF LinkLost, TaskTypes, TargetOK, WebTypes, webVars
<1>8. CASE ViewersChange
  <2>1. HistTypes' BY <1>8, BackendAssumption DEF ViewersChange, HistTypes, BackendAssumption
  <2> QED BY <1>8, <2>1 DEF ViewersChange, TaskTypes, TargetOK, WebTypes, AppTypes, LinkTypes,
        appVars, linkVars
<1> QED BY <1>1, <1>3, <1>4, <1>5, <1>6, <1>7, <1>8 DEF Completion

\* The steps of the handler of a connect request.
LEMMA ConnectData ==
  ASSUME DataOK, LoopTypes, NEW r \in Connects, Connect(r)
  PROVE  DataOK'
<1> USE DEF DataOK
<1>1. /\ UNCHANGED << must_cancel, waits, outcome, target, appVars, linkVars, histVars >>
      /\ ConnectStarts(r) \/ ConnectReadsBody(r) \/ ConnectBroadcasts(r) \/ ConnectReturns(r)
  BY DEF Connect
<1>2. TaskTypes' /\ AppTypes' /\ LinkTypes' /\ HistTypes'
  BY <1>1 DEF TaskTypes, AppTypes, LinkTypes, HistTypes, appVars, linkVars, histVars
<1>3. WebTypes'
  BY <1>1 DEF ConnectStarts, ConnectReadsBody, ConnectBroadcasts, ConnectReturns, WebTypes, webVars
<1>4. Handler(r) \in Coroutines /\ Task(r) \in Coroutines BY CoroutineNames
<1>5. ASSUME NEW place \in {"body", "broadcasting", "done"}, Suspend(Handler(r), place)
      PROVE  TargetOK'
  BY <1>1, <1>4, <1>5, TargetKept DEF Suspend, Places, Awaits, TearingPlaces
<1>6. ASSUME CreateTask(r) PROVE TargetOK'
  BY <1>1, <1>4, <1>6 DEF CreateTask, TargetOK, LoopTypes, TearingPlaces
<1>7. TargetOK'
  BY <1>1, <1>5, <1>6 DEF ConnectStarts, ConnectReadsBody, ConnectBroadcasts, ConnectReturns
<1> QED BY <1>2, <1>3, <1>7

\* The steps of the task.
LEMMA TaskData ==
  ASSUME DataOK, LoopTypes, NEW r \in Connects, RunTask(r)
  PROVE  DataOK'
<1> USE DEF DataOK
<1>1. /\ must_cancel' = [must_cancel EXCEPT ![r] = FALSE]
      /\ UNCHANGED << awaiters, waits, webVars, linkVars, histVars >>
  BY DEF RunTask
<1>2. WebTypes' /\ LinkTypes' /\ HistTypes'
  BY <1>1 DEF WebTypes, LinkTypes, HistTypes, webVars, linkVars, histVars
<1>3. Task(r) \in Coroutines BY CoroutineNames
<1> DEFINE Typed == outcome' \in [Connects -> Outcomes] /\ TargetOK' /\ AppTypes'
<1>4. Typed => DataOK' BY <1>1, <1>2 DEF TaskTypes
<1>5. /\ outcome \in [Connects -> Outcomes] /\ TargetOK /\ AppTypes
      /\ {"ok", "error", "cancelled"} \subseteq Outcomes
  BY DEF TaskTypes, Outcomes
<1>6. ASSUME NEW o \in Outcomes, EndTask(r, o), target' = target
      PROVE  outcome' \in [Connects -> Outcomes] /\ TargetOK'
  BY <1>3, <1>5, <1>6, TargetKept DEF EndTask, Places, TearingPlaces
<1>7. ASSUME NEW o \in Outcomes, TaskFails(r, o) PROVE Typed
  <2>1. CASE CallDisconnect(Task(r)) /\ outcome' = [outcome EXCEPT ![r] = o]
    BY <1>3, <1>5, <2>1, CallDisconnectTypes
  <2>2. CASE client = NoClient /\ HandleDisconnect /\ EndTask(r, o) /\ UNCHANGED target
    BY <1>6, <2>2, HandleDisconnectTypes
  <2> QED BY <1>7, <2>1, <2>2 DEF TaskFails
<1>8. ASSUME NEW o \in Outcomes, ConnectFails(r, o) PROVE Typed
  <2>1. CASE HandleDisconnect /\ EndTask(r, o) /\ UNCHANGED target
    BY <1>6, <2>1, HandleDisconnectTypes
  <2> QED BY <1>7, <1>8, <2>1 DEF ConnectFails
<1>9. ASSUME NEW place \in {"scanning", "linking"}, Suspend(Task(r), place),
             UNCHANGED << outcome, target >>
      PROVE  outcome' \in [Connects -> Outcomes] /\ TargetOK'
  BY <1>3, <1>5, <1>9, TargetKept DEF Suspend, Places, Awaits, TearingPlaces
<1>10. ASSUME NewClient(r) PROVE Typed BY <1>9, <1>10 DEF NewClient, AppTypes
<1>11. CASE TaskStarts(r)
  <2>1. CASE EndTask(r, "cancelled") /\ UNCHANGED << target, appVars >>
    BY <1>4, <1>5, <1>6, <2>1 DEF AppTypes, appVars
  <2>2. CASE Suspend(Task(r), "scanning") /\ UNCHANGED << outcome, target, appVars >>
    BY <1>4, <1>9, <2>2 DEF AppTypes, appVars
  <2> QED BY <1>4, <1>10, <1>11, <2>1, <2>2 DEF TaskStarts
<1>12. ASSUME NEW ok \in BOOLEAN, TaskScanned(r, ok) PROVE DataOK'
  <2>1. NewClient(r) \/ TaskFails(r, Raised(r, ok)) BY <1>12 DEF TaskScanned
  <2> QED BY <1>4, <1>7, <1>10, <2>1, RaisedIsOutcome
<1>13. ASSUME NEW place \in {"undoing", "subscribing", "tearing"}, Suspend(Task(r), place),
              NEW t \in Connects, target' = [target EXCEPT ![Task(r)] = t]
       PROVE  TargetOK'
  BY <1>3, <1>13, TargetSet DEF Suspend, Places, Awaits, TearingPlaces
<1>14. ASSUME StartMonitoring(r) PROVE Typed
  <2>1. CASE monitoring /\ EndTask(r, "ok") /\ connected' = TRUE
             /\ UNCHANGED << monitoring, client, target >>
    BY <1>5, <1>6, <2>1 DEF AppTypes
  <2>2. CASE HandleDisconnect /\ EndTask(r, "error") /\ UNCHANGED target
    BY <1>5, <1>6, <2>2, HandleDisconnectTypes
  <2>3. ASSUME client # NoClient, connected' = TRUE,
               target' = [target EXCEPT ![Task(r)] = client], UNCHANGED << monitoring, client >>,
               \/ Suspend(Task(r), "subscribing") /\ UNCHANGED outcome
               \/ Suspend(Task(r), "tearing") /\ outcome' = [outcome EXCEPT ![r] = "error"]
        PROVE  Typed
    <3>1. client \in Connects /\ AppTypes' BY <2>3 DEF AppTypes
    <3>2. TargetOK' BY <1>13, <2>3, <3>1
    <3> QED BY <1>5, <2>3, <3>1, <3>2
  <2> QED BY <1>14, <2>1, <2>2, <2>3 DEF StartMonitoring
<1>15. ASSUME NEW ok \in BOOLEAN, TaskLinked(r, ok) PROVE DataOK'
  <2>1. PICK raised \in Outcomes :
          \/ StartMonitoring(r)
          \/ /\ Suspend(Task(r), "undoing")
             /\ target' = [target EXCEPT ![Task(r)] = r]
             /\ outcome' = [outcome EXCEPT ![r] = raised]
             /\ UNCHANGED appVars
          \/ ConnectFails(r, raised)
    BY <1>5, <1>15, RaisedIsOutcome DEF TaskLinked
  <2>2. CASE /\ Suspend(Task(r), "undoing")
             /\ target' = [target EXCEPT ![Task(r)] = r]
             /\ outcome' = [outcome EXCEPT ![r] = raised]
             /\ UNCHANGED appVars
    <3>1. TargetOK' BY <1>13, <2>2
    <3>2. AppTypes' BY <2>2 DEF AppTypes, appVars
    <3> QED BY <1>4, <1>5, <2>2, <3>1, <3>2
  <2> QED BY <1>4, <1>8, <1>14, <2>1, <2>2
<1>16. ASSUME NEW ok \in BOOLEAN, TaskSubscribed(r, ok) PROVE DataOK'
  <2>1. CASE EndTask(r, "ok") /\ monitoring' = TRUE /\ UNCHANGED << connected, client, target >>
    BY <1>4, <1>5, <1>6, <2>1 DEF AppTypes
  <2> QED BY <1>4, <1>7, <1>16, <2>1, RaisedIsOutcome DEF TaskSubscribed
<1>17. outcome[r] \in Outcomes BY <1>5
<1>18. CASE TaskUndone(r) BY <1>4, <1>5, <1>8, <1>17, <1>18 DEF TaskUndone
<1>19. CASE TaskTornDown(r)
  BY <1>4, <1>5, <1>6, <1>17, <1>19, HandleDisconnectTypes DEF TaskTornDown, AppTypes, appVars
<1> QED BY <1>11, <1>12, <1>15, <1>16, <1>18, <1>19 DEF RunTask

\* The steps of those that cancel or disconnect.
LEMMA EndConnectionData ==
  ASSUME DataOK, LoopTypes, NEW r \in Cancellers \cup Disconnects, EndConnection(r)
  PROVE  DataOK'
<1> USE DEF DataOK
<1>1. UNCHANGED << outcome, webVars, linkVars, changes, losses, crossings >> BY DEF EndConnection
<1>2. WebTypes' /\ LinkTypes' BY <1>1 DEF WebTypes, LinkTypes, webVars, linkVars
<1>3. HistTypes'
  BY <1>1 DEF HistTypes, EndConnection, ShutdownStarts, Unaccounted
<1>4. Handler(r) \in Coroutines BY CoroutineNames
<1> DEFINE Typed == must_cancel' \in [Connects -> BOOLEAN] /\ TargetOK' /\ AppTypes'
<1>5. Typed => DataOK' BY <1>1, <1>2, <1>3 DEF TaskTypes
<1>6. ASSUME Suspend(Handler(r), "done"), UNCHANGED target PROVE TargetOK'
  BY <1>4, <1>6, TargetKept DEF Suspend, Places, TearingPlaces
<1>7. ASSUME HandlerDisconnects(r) PROVE TargetOK' /\ AppTypes'
  BY <1>4, <1>6, <1>7, CallDisconnectTypes, HandleDisconnectTypes DEF HandlerDisconnects
<1>8. ASSUME CancelsTask(r), UNCHANGED << target, appVars >> PROVE Typed
  <2>1. TargetOK' BY <1>4, <1>8, TargetKept DEF CancelsTask, Places, TearingPlaces
  <2> QED BY <1>8, <2>1 DEF CancelsTask, Cancel, TaskTypes, AppTypes, appVars
<1>9. ASSUME UNCHANGED must_cancel PROVE must_cancel' \in [Connects -> BOOLEAN]
  BY <1>9 DEF TaskTypes
<1>10. UNCHANGED appVars => AppTypes' BY DEF AppTypes, appVars
<1>11. CASE ShutdownStarts(r)
  <2>1. CASE CancelsTask(r) /\ UNCHANGED << target, appVars >> BY <1>5, <1>8, <2>1
  <2>2. CASE HandlerDisconnects(r) /\ UNCHANGED must_cancel BY <1>5, <1>7, <1>9, <2>2
  <2>3. CASE Suspend(Handler(r), "done") /\ UNCHANGED << target, appVars, must_cancel >>
    BY <1>5, <1>6, <1>9, <1>10, <2>3
  <2> QED BY <1>11, <2>1, <2>2, <2>3 DEF ShutdownStarts
<1>12. CASE CancelStarts(r) BY <1>5, <1>6, <1>8, <1>9, <1>10, <1>12 DEF CancelStarts
<1>13. CASE CancelResumes(r) BY <1>5, <1>6, <1>7, <1>9, <1>10, <1>13 DEF CancelResumes
<1>14. CASE DisconnectStarts(r) BY <1>5, <1>7, <1>9, <1>14 DEF DisconnectStarts
<1>15. CASE HandlerTornDown(r)
  BY <1>5, <1>6, <1>9, <1>15, HandleDisconnectTypes DEF HandlerTornDown
<1> QED BY <1>11, <1>12, <1>13, <1>14, <1>15 DEF EndConnection

LEMMA NextDataOK == DataOK /\ LoopInv /\ [Next]_vars => DataOK'
<1> SUFFICES ASSUME DataOK, LoopInv, [Next]_vars PROVE DataOK' OBVIOUS
<1>1. LoopTypes BY DEF LoopInv
<1>2. CASE UNCHANGED vars
  BY <1>2 DEF vars, webVars, appVars, linkVars, histVars, DataOK, TaskTypes, TargetOK, WebTypes,
     AppTypes, LinkTypes, HistTypes
<1>3. CASE Next BY <1>1, <1>3, OutsideData, ConnectData, TaskData, EndConnectionData
  DEF Next, LoopStep
<1> QED BY <1>2, <1>3

LEMMA InitDataOK == Init => DataOK
<1> SUFFICES ASSUME Init PROVE DataOK OBVIOUS
<1> USE DEF Init
<1>1. TaskTypes BY DEF TaskTypes, Outcomes
<1>2. TargetOK BY DEF TargetOK, TearingPlaces
<1>3. WebTypes
  <2>1. 0 \in 0 .. MaxViewers BY BackendAssumption DEF BackendAssumption
  <2>2. seen \in [Connects -> 0 .. MaxViewers] BY <2>1
  <2>3. viewers \in 0 .. MaxViewers /\ connecting \in BOOLEAN OBVIOUS
  <2> QED BY <2>2, <2>3 DEF WebTypes
<1>4. AppTypes /\ LinkTypes BY DEF AppTypes, LinkTypes
<1>5. HistTypes BY BackendAssumption DEF HistTypes, BackendAssumption
<1> QED BY <1>1, <1>2, <1>3, <1>4, <1>5 DEF DataOK

\* The loop's invariant and the types hold from the start on.
LEMMA AlwaysLoopInv == Spec => [](LoopInv /\ DataOK)
<1>1. Init => LoopInv /\ DataOK BY InitLoopInv, InitDataOK
<1>2. LoopInv /\ DataOK /\ [Next]_vars => LoopInv' /\ DataOK'
  BY NextLoopInv, NextDataOK, TypeOKParts
<1> QED BY <1>1, <1>2, PTL DEF Spec

\* Whatever the requests and their order, no coroutine is made ready twice, or
\* after it has ended, and none waits for a task or a client that does not exist.
THEOREM LoopIsWellFormed == Spec => []TypeOK
BY AlwaysLoopInv, TypeOKParts, PTL

-----------------------------------------------------------------------------
(* The flag "connecting" *)

\* While no web socket comes or goes, the flag is up only when the handler that
\* raised it is where its finally clause still clears it, and no broadcast on
\* the way there finds the set of web sockets changed.
FlagInv ==
  changes = 0 =>
    /\ connecting => \E r \in Connects : at[Handler(r)] \in {"broadcasting", "awaiting"}
    /\ \A r \in Connects : at[Handler(r)] = "broadcasting" => seen[r] = viewers

\* Of the steps that do not run the handler of a connect request, none moves one
\* that broadcasts or awaits its task.
LEMMA HandlersStay ==
  ASSUME LoopInv,
         \/ \E r \in Requests : Arrives(r)
         \/ \E c \in Coroutines : Wakes(c)
         \/ \E r \in Connects : TaskMoves(r) \/ Ends(r)
         \/ \E r \in Cancellers \cup Disconnects : OtherMoves(r)
         \/ \E r \in Cancellers : Interrupts(r)
         \/ LoopRests
  PROVE  \A q \in Connects : \/ at'[Handler(q)] = at[Handler(q)]
                             \/ at[Handler(q)] = "idle" /\ at'[Handler(q)] = "new"
<1>1. ASSUME NEW c \in Coroutines, NEW place, at' = [at EXCEPT ![c] = place],
             c \notin { Handler(q) : q \in Connects }
      PROVE  \A q \in Connects : at'[Handler(q)] = at[Handler(q)]
  BY <1>1, CoroutineNames DEF LoopInv, LoopTypes
<1>2. \A r \in Connects : Task(r) \in Coroutines /\ Task(r) \notin { Handler(q) : q \in Connects }
  BY CoroutineNames
<1>3. \A r \in Cancellers \cup Disconnects :
        Handler(r) \in Coroutines /\ Handler(r) \notin { Handler(q) : q \in Connects }
  BY CoroutineNames, RequestKinds
<1>4. CASE \E r \in Requests : Arrives(r)
  BY <1>4, CoroutineNames DEF Arrives, LoopInv, LoopTypes
<1>5. CASE \E c \in Coroutines : Wakes(c) BY <1>5 DEF Wakes
<1>6. CASE \E r \in Connects : TaskMoves(r) \/ Ends(r)
  BY <1>1, <1>2, <1>6 DEF TaskMoves, Ends, Suspend, EndTask
<1>7. CASE \E r \in Cancellers \cup Disconnects : OtherMoves(r)
  BY <1>1, <1>3, <1>7 DEF OtherMoves, Suspend
<1>8. CASE \E r \in Cancellers : Interrupts(r)
  BY <1>1, <1>3, <1>8 DEF Interrupts, CancelsTask
<1>9. CASE LoopRests BY <1>9 DEF LoopRests
<1> QED BY <1>4, <1>5, <1>6, <1>7, <1>8, <1>9

LEMMA NextFlagInv == LoopInv /\ DataOK /\ FlagInv /\ [Next]_vars => FlagInv'
<1> SUFFICES ASSUME LoopInv, DataOK, FlagInv, [Next]_vars PROVE FlagInv' OBVIOUS
<1>1. TypeOK BY TypeOKParts
\* The steps of the others.
<1>2. ASSUME \A q \in Connects : \/ at'[Handler(q)] = at[Handler(q)]
                                 \/ at[Handler(q)] = "idle" /\ at'[Handler(q)] = "new",
             UNCHANGED << connecting, seen, viewers, changes >>
      PROVE  FlagInv'
  BY <1>2 DEF FlagInv
<1>3. CASE UNCHANGED vars BY <1>2, <1>3 DEF vars, webVars, histVars
<1>4. ASSUME NEW r \in Requests, RequestArrives(r) PROVE FlagInv'
  BY <1>1, <1>2, <1>4, KindsOfSteps, HandlersStay DEF RequestArrives, webVars, histVars
<1>5. CASE Completion
  <2>1. UNCHANGED << connecting, seen, viewers, changes >>
    BY <1>5 DEF Completion, DropCompletes, InputCompletes, LinkCompletes, SubscribeCompletes,
       Completes, webVars, histVars
  <2> QED BY <1>1, <1>2, <1>5, <2>1, KindsOfSteps, HandlersStay
<1>6. ASSUME NEW r \in Connects, LinkLost(r) PROVE FlagInv'
  <2>1. UNCHANGED << connecting, seen, viewers, changes >> BY <1>6 DEF LinkLost, webVars
  <2> QED BY <1>1, <1>2, <1>6, <2>1, KindsOfSteps, HandlersStay
<1>7. CASE ViewersChange
  <2>1. changes' # 0 BY <1>7 DEF ViewersChange, DataOK, HistTypes
  <2> QED BY <2>1 DEF FlagInv
<1>8. ASSUME NEW r \in Connects, RunTask(r) PROVE FlagInv'
  <2>1. UNCHANGED << connecting, seen, viewers, changes >> BY <1>8 DEF RunTask, webVars, histVars
  <2> QED BY <1>1, <1>2, <1>8, <2>1, KindsOfSteps, HandlersStay
<1>9. ASSUME NEW r \in Cancellers \cup Disconnects, EndConnection(r) PROVE FlagInv'
  <2>1. UNCHANGED << connecting, seen, viewers, changes >> BY <1>9 DEF EndConnection, webVars
  <2> QED BY <1>1, <1>2, <1>9, <2>1, KindsOfSteps, HandlersStay
\* The steps of the handler of a connect request.
<1>10. ASSUME NEW r \in Connects, Connect(r) PROVE FlagInv'
  <2> SUFFICES ASSUME changes = 0
               PROVE  /\ connecting' =>
                           \E q \in Connects : at'[Handler(q)] \in {"broadcasting", "awaiting"}
                      /\ \A q \in Connects :
                           at'[Handler(q)] = "broadcasting" => seen'[q] = viewers'
    BY <1>10 DEF FlagInv, Connect, histVars
  <2>1. /\ connecting => \E q \in Connects : at[Handler(q)] \in {"broadcasting", "awaiting"}
        /\ \A q \in Connects : at[Handler(q)] = "broadcasting" => seen[q] = viewers
    BY DEF FlagInv
  <2>2. /\ Handler(r) \in Coroutines /\ Task(r) \in Coroutines
        /\ \A q \in Connects : Handler(q) \in Coroutines /\ Handler(q) # Task(r)
        /\ \A q \in Connects : Handler(q) = Handler(r) => q = r
    BY CoroutineNames
  <2>3. at \in [Coroutines -> Places] /\ seen \in [Connects -> 0 .. MaxViewers]
    BY DEF LoopInv, LoopTypes, DataOK, WebTypes
  <2>4. ASSUME NEW place, Suspend(Handler(r), place)
        PROVE  /\ at'[Handler(r)] = place
               /\ \A q \in Connects : q # r => at'[Handler(q)] = at[Handler(q)]
    BY <2>2, <2>3, <2>4 DEF Suspend
  <2>5. ASSUME CreateTask(r)
        PROVE  /\ at'[Handler(r)] = "awaiting"
               /\ \A q \in Connects : q # r => at'[Handler(q)] = at[Handler(q)]
    BY <2>2, <2>3, <2>5 DEF CreateTask
  <2>6. CASE ConnectStarts(r)
    <3>1. PICK place \in {"done", "body"} : Suspend(Handler(r), place) BY <2>6 DEF ConnectStarts
    <3>2. at[Handler(r)] = "new" /\ UNCHANGED << connecting, seen, viewers >>
      BY <2>6 DEF ConnectStarts, Resume, webVars
    <3> QED BY <2>1, <2>4, <3>1, <3>2
  <2>7. CASE ConnectReadsBody(r)
    <3>1. viewers' = viewers BY <2>7 DEF ConnectReadsBody
    <3>2. CASE CreateTask(r) /\ UNCHANGED seen BY <2>1, <2>5, <3>1, <3>2
    <3>3. CASE Suspend(Handler(r), "broadcasting") /\ seen' = [seen EXCEPT ![r] = viewers]
      BY <2>1, <2>3, <2>4, <3>1, <3>3
    <3> QED BY <2>7, <3>2, <3>3 DEF ConnectReadsBody
  <2>8. CASE ConnectBroadcasts(r)
    <3>1. viewers = seen[r] BY <2>1, <2>8 DEF ConnectBroadcasts, Resume
    <3>2. CreateTask(r) /\ UNCHANGED << connecting, viewers, seen >>
      BY <2>8, <3>1 DEF ConnectBroadcasts
    <3> QED BY <2>1, <2>5, <3>2
  <2>9. CASE ConnectReturns(r)
    <3>1. /\ connecting' = FALSE /\ Suspend(Handler(r), "done") /\ UNCHANGED << viewers, seen >>
      BY <2>9 DEF ConnectReturns
    <3> QED BY <2>1, <2>4, <3>1
  <2> QED BY <1>10, <2>6, <2>7, <2>8, <2>9 DEF Connect
<1> QED BY <1>3, <1>4, <1>5, <1>6, <1>7, <1>8, <1>9, <1>10 DEF Next, LoopStep

LEMMA AlwaysFlagInv == Spec => []FlagInv
<1>1. Init => FlagInv
  <2> SUFFICES ASSUME Init PROVE FlagInv OBVIOUS
  <2>1. \A r \in Connects : at[Handler(r)] = "idle" BY CoroutineNames DEF Init
  <2> QED BY <2>1 DEF Init, FlagInv
<1> QED BY <1>1, AlwaysLoopInv, NextFlagInv, PTL DEF Spec

\* As long as no web socket comes or goes, the page shows "Connecting..." only
\* while a connect request is in progress, however many pages send requests,
\* whatever bleak answers and at whichever await the task is cancelled.
THEOREM OnlyViewersKeepConnecting == Spec => []OnlyViewersLeaveConnecting
<1>1. LoopInv /\ FlagInv => OnlyViewersLeaveConnecting
  BY DEF FlagInv, OnlyViewersLeaveConnecting, ConnectingIsTrue, InProgress
<1> QED BY <1>1, AlwaysLoopInv, AlwaysFlagInv, PTL
-----------------------------------------------------------------------------
(***************************************************************************)
(* What needs that no request crosses another: a second connect request is *)
(* answered 409 from when the task of the first exists, and nothing keeps  *)
(* apart those that come before that, nor the other handlers, as the run   *)
(* two_connects shows.                                                     *)
(*                                                                         *)
(* AloneInv says which coroutines are then in progress together, AppInv    *)
(* what AppState and the current client have to do with each other, for    *)
(* any number of requests.  LossProofs goes on with what needs that no     *)
(* link is lost either.                                                    *)
(***************************************************************************)

Busy(r) == InProgress(Handler(r))

\* One connect request, one cancel request and one shutdown at a time, and no
\* disconnect request beside a connect request.  The task in progress is the one
\* the backend remembers, and what arrived before the shutdown runs before it.
AloneInv ==
  /\ \A r, q \in Connects : Busy(r) /\ Busy(q) => r = q
  /\ \A r, q \in Cancels : Busy(r) /\ Busy(q) => r = q
  /\ \A d \in Disconnects, r \in Connects : ~(Busy(d) /\ Busy(r))
  /\ \A r \in Connects : InProgress(Task(r)) => connection_task = r
  /\ \A s, t \in Shutdowns : at[Handler(s)] # "idle" /\ at[Handler(t)] # "idle" => s = t
  /\ \A s \in Shutdowns, r \in Requests :
       at[Handler(r)] = "new" =>
         /\ at[Handler(s)] \in {"idle", "new"}
         /\ at[Handler(s)] = "new" /\ r # s => Precedes(ready, Handler(r), Handler(s))

-----------------------------------------------------------------------------
(* What the kinds of steps do to the handlers and the queue *)

\* Nothing but the resumption of a coroutine takes it from before another.
LEMMA OrderKept ==
  ASSUME LoopInv, LoopKind
  PROVE  \A c, d : Precedes(ready, c, d) => Precedes(ready', c, d) \/ ~In(ready', c)
<1>1. ready \in Queue /\ Distinct(ready) BY DEF LoopInv, ReadyOK
<1>2. ASSUME NEW c, Runs(c)
      PROVE  /\ Tail(ready) \in Queue /\ Distinct(Tail(ready)) /\ In(ready, c)
             /\ \A d : In(Tail(ready), d) <=> In(ready, d) /\ d # c
             /\ \A d, e : Precedes(ready, d, e) /\ d # c => Precedes(Tail(ready), d, e)
  <2>1. ready # << >> /\ Head(ready).of = c BY <1>2 DEF Runs
  <2> QED BY <1>1, <2>1, QueueTail
<1>3. ASSUME NEW c, Runs(c), ready' = Tail(ready)
      PROVE  \A d, e : Precedes(ready, d, e) => Precedes(ready', d, e) \/ ~In(ready', d)
  BY <1>2, <1>3
<1>4. ASSUME NEW c, NEW d \in Coroutines, Runs(c), d # c, ~In(ready, d),
             ready' = Append(Tail(ready), Item(d, TRUE))
      PROVE  \A e, f : Precedes(ready, e, f) => Precedes(ready', e, f) \/ ~In(ready', e)
  <2>1. ~In(Tail(ready), d) BY <1>2, <1>4
  <2>2. /\ \A e : In(ready', e) <=> In(Tail(ready), e) \/ e = d
        /\ \A e, f : Precedes(Tail(ready), e, f) => Precedes(ready', e, f)
    BY <1>2, <1>4, <2>1, QueueAppend
  <2> QED BY <1>2, <1>4, <2>2
<1>5. ASSUME NEW c \in Coroutines, NEW ok \in BOOLEAN, ~In(ready, c),
             ready' = Append(ready, Item(c, ok))
      PROVE  \A d, e : Precedes(ready, d, e) => Precedes(ready', d, e)
  BY <1>1, <1>5, QueueAppend
<1>6. ASSUME NEW r \in Requests, Arrives(r)
      PROVE  \A d, e : Precedes(ready, d, e) => Precedes(ready', d, e)
  <2>1. Handler(r) \in Coroutines /\ at[Handler(r)] = "idle"
    BY <1>6, CoroutineNames DEF Arrives
  <2>2. ~In(ready, Handler(r)) BY <2>1 DEF LoopInv, ReadyOK, InProgress
  <2> QED BY <1>5, <1>6, <2>1, <2>2 DEF Arrives
<1>7. ASSUME NEW c \in Coroutines, Wakes(c)
      PROVE  \A d, e : Precedes(ready, d, e) => Precedes(ready', d, e)
  BY <1>5, <1>7 DEF Wakes
<1>8. ASSUME NEW r \in Connects, ConnectMoves(r) \/ TaskMoves(r)
      PROVE  \A d, e : Precedes(ready, d, e) => Precedes(ready', d, e) \/ ~In(ready', d)
  BY <1>3, <1>8 DEF ConnectMoves, TaskMoves, Suspend
<1>9. ASSUME NEW r \in Cancellers \cup Disconnects, OtherMoves(r)
      PROVE  \A d, e : Precedes(ready, d, e) => Precedes(ready', d, e) \/ ~In(ready', d)
  BY <1>3, <1>9 DEF OtherMoves, Suspend
<1>10. ASSUME NEW r \in Connects, Creates(r)
       PROVE  \A d, e : Precedes(ready, d, e) => Precedes(ready', d, e) \/ ~In(ready', d)
  <2>1. /\ Task(r) \in Coroutines /\ Handler(r) # Task(r) /\ Runs(Handler(r))
        /\ ready' = Append(Tail(ready), Item(Task(r), TRUE))
        /\ at[Task(r)] = "idle"
    BY <1>10, CoroutineNames DEF Creates, CreateTask, LoopInv, TasksOK
  <2>2. ~In(ready, Task(r)) BY <2>1 DEF LoopInv, ReadyOK, InProgress
  <2> QED BY <1>4, <2>1, <2>2
<1>11. ASSUME NEW r \in Connects, Ends(r)
       PROVE  \A d, e : Precedes(ready, d, e) => Precedes(ready', d, e) \/ ~In(ready', d)
  <2> DEFINE v == [i \in DOMAIN awaiters[r] |-> Item(awaiters[r][i], TRUE)]
  <2>1. Runs(Task(r)) /\ ready' = Tail(ready) \o v BY <1>11 DEF Ends, EndTask
  <2>2. In(ready, Task(r)) /\ Task(r) \in Coroutines BY <1>2, <2>1, CoroutineNames
  <2>3. ~Done(Task(r)) BY <2>2 DEF LoopInv, ReadyOK, InProgress, Done
  <2>4. v \in Queue /\ Distinct(v) /\ \A c : In(v, c) <=> IsAwaiter(c, r)
    BY <2>3, AwaitersOf, QueueOf DEF IsAwaiter
  <2> HIDE DEF v
  <2>5. \A c : ~(In(Tail(ready), c) /\ In(v, c)) /\ ~In(v, Task(r))
    BY <1>2, <2>1, <2>2, <2>3, <2>4, AwaiterIsSuspended
  <2>6. /\ \A c : In(ready', c) <=> In(Tail(ready), c) \/ In(v, c)
        /\ \A d, e : Precedes(Tail(ready), d, e) => Precedes(ready', d, e)
    BY <1>2, <2>1, <2>4, <2>5, QueueConcat
  <2> QED BY <1>2, <2>1, <2>5, <2>6
<1>12. ASSUME NEW r \in Cancellers, Interrupts(r)
       PROVE  \A d, e : Precedes(ready, d, e) => Precedes(ready', d, e) \/ ~In(ready', d)
  <2>1. connection_task \in Connects /\ Runs(Handler(r))
    BY <1>12 DEF Interrupts, CancelsTask, TaskInProgress, LoopInv, LoopTypes
  <2>2. Task(connection_task) \in Coroutines /\ Task(connection_task) # Handler(r)
    BY <2>1, CoroutineNames
  <2>3. \/ ready' = Tail(ready)
        \/ /\ ~In(ready, Task(connection_task))
           /\ ready' = Append(Tail(ready), Item(Task(connection_task), TRUE))
    BY <1>12 DEF Interrupts, CancelsTask, Cancel, Queued, In
  <2> QED BY <1>3, <1>4, <2>1, <2>2, <2>3
<1>13. CASE LoopRests BY <1>13 DEF LoopRests
<1> QED BY <1>6, <1>7, <1>8, <1>9, <1>10, <1>11, <1>12, <1>13 DEF LoopKind

\* The coroutine that runs is preceded by none.
LEMMA RunsFirst ==
  ASSUME LoopInv, NEW c, Runs(c)
  PROVE  In(ready, c) /\ \A d : ~Precedes(ready, d, c)
BY QueueTail DEF LoopInv, ReadyOK, Runs

\* The kinds of steps but the arrival of a request.
LaterKind ==
  \/ \E c \in Coroutines : Wakes(c)
  \/ \E r \in Connects : ConnectMoves(r) \/ TaskMoves(r) \/ Creates(r) \/ Ends(r)
  \/ \E r \in Cancellers \cup Disconnects : OtherMoves(r)
  \/ \E r \in Cancellers : Interrupts(r)
  \/ LoopRests

\* Only by its arrival is a request in progress; it starts once.
LEMMA HandlersAfter ==
  ASSUME LoopInv, LaterKind
  PROVE  \A q \in Requests :
           /\ Busy(q)' => Busy(q)
           /\ at'[Handler(q)] = "idle" <=> at[Handler(q)] = "idle"
           /\ at'[Handler(q)] = "new" => at[Handler(q)] = "new"
           /\ at'[Handler(q)] # at[Handler(q)] => Runs(Handler(q))
<1> DEFINE Kept(h) == /\ InProgress(h)' => InProgress(h)
                      /\ at'[h] = "idle" <=> at[h] = "idle"
                      /\ at'[h] = "new" => at[h] = "new"
                      /\ at'[h] # at[h] => Runs(h)
<1>1. SUFFICES \A q \in Requests : Kept(Handler(q)) BY DEF Busy
<1>2. \A c : Runs(c) => In(ready, c) BY RunsFirst
<1>3. \A c \in Coroutines : Runs(c) => at[c] \notin {"idle", "done"}
  BY <1>2 DEF LoopInv, ReadyOK, InProgress
<1>4. ASSUME NEW c \in Coroutines, NEW place \in Places, Runs(c),
             place \notin {"idle", "new"}, at' = [at EXCEPT ![c] = place]
      PROVE  \A q \in Requests : Kept(Handler(q))
  <2>1. at'[c] = place /\ \A d \in Coroutines : d # c => at'[d] = at[d]
    BY <1>4 DEF LoopInv, LoopTypes
  <2>2. Kept(c) BY <1>3, <1>4, <2>1 DEF InProgress
  <2>3. \A d \in Coroutines : d # c => Kept(d) BY <2>1 DEF InProgress
  <2> QED BY <2>2, <2>3, CoroutineNames
<1>5. ASSUME at' = at PROVE \A q \in Requests : Kept(Handler(q)) BY <1>5 DEF InProgress
<1>6. {"awaiting", "done", "scanning", "linking", "undoing", "subscribing", "tearing",
        "body", "broadcasting"} \subseteq Places
  BY DEF Places, Awaits, TearingPlaces
<1> HIDE DEF Kept
<1>7. CASE \E c \in Coroutines : Wakes(c) BY <1>5, <1>7 DEF Wakes
<1>8. ASSUME NEW r \in Connects, ConnectMoves(r) PROVE \A q \in Requests : Kept(Handler(q))
  <2>1. PICK place \in Places : Suspend(Handler(r), place) /\ ConnectGoes(at[Handler(r)], place)
    BY <1>8 DEF ConnectMoves
  <2>2. place \notin {"idle", "new"} BY <2>1 DEF ConnectGoes
  <2> QED BY <1>4, <1>8, <2>1, <2>2, CoroutineNames DEF ConnectMoves, Suspend
<1>9. ASSUME NEW r \in Connects, TaskMoves(r) PROVE \A q \in Requests : Kept(Handler(q))
  BY <1>4, <1>6, <1>9, CoroutineNames DEF TaskMoves, Suspend
<1>10. ASSUME NEW r \in Connects, Ends(r) PROVE \A q \in Requests : Kept(Handler(q))
  BY <1>4, <1>6, <1>10, CoroutineNames DEF Ends, EndTask
<1>11. ASSUME NEW r \in Cancellers \cup Disconnects, OtherMoves(r)
       PROVE  \A q \in Requests : Kept(Handler(q))
  BY <1>4, <1>6, <1>11, CoroutineNames DEF OtherMoves, Suspend
<1>12. ASSUME NEW r \in Cancellers, Interrupts(r) PROVE \A q \in Requests : Kept(Handler(q))
  BY <1>4, <1>6, <1>12, CoroutineNames DEF Interrupts, CancelsTask
<1>13. ASSUME NEW r \in Connects, Creates(r) PROVE \A q \in Requests : Kept(Handler(q))
  <2>1. /\ Runs(Handler(r)) /\ Handler(r) \in Coroutines
        /\ at' = [at EXCEPT ![Handler(r)] = "awaiting", ![Task(r)] = "new"]
    BY <1>13, CoroutineNames DEF Creates, CreateTask
  <2>2. /\ at'[Handler(r)] = "awaiting"
        /\ \A q \in Requests : q # r => at'[Handler(q)] = at[Handler(q)]
    BY <2>1, CoroutineNames DEF LoopInv, LoopTypes
  <2>3. Kept(Handler(r)) BY <1>3, <2>1, <2>2 DEF InProgress, Kept
  <2>4. \A q \in Requests : q # r => Kept(Handler(q)) BY <2>2 DEF InProgress, Kept
  <2> QED BY <2>3, <2>4
<1>14. CASE LoopRests BY <1>5, <1>14 DEF LoopRests
<1> QED BY <1>7, <1>8, <1>9, <1>10, <1>11, <1>12, <1>13, <1>14 DEF LaterKind

\* A request that arrives comes after all that is ready.
LEMMA ArrivalEffect ==
  ASSUME LoopInv, NEW r \in Requests, Arrives(r)
  PROVE  /\ at[Handler(r)] = "idle" /\ at'[Handler(r)] = "new" /\ ~In(ready, Handler(r))
         /\ \A q \in Requests : q # r => at'[Handler(q)] = at[Handler(q)]
         /\ \A q \in Connects : at'[Task(q)] = at[Task(q)]
         /\ \A c : In(ready', c) <=> In(ready, c) \/ c = Handler(r)
         /\ \A c : In(ready, c) => Precedes(ready', c, Handler(r))
         /\ \A c, d : Precedes(ready, c, d) => Precedes(ready', c, d)
<1>1. /\ Handler(r) \in Coroutines /\ at[Handler(r)] = "idle"
      /\ ready' = Append(ready, Item(Handler(r), TRUE))
      /\ at' = [at EXCEPT ![Handler(r)] = "new"]
  BY CoroutineNames DEF Arrives
<1>2. ready \in Queue /\ Distinct(ready) /\ ~In(ready, Handler(r))
  BY <1>1 DEF LoopInv, ReadyOK, InProgress
<1>3. /\ \A c : In(ready', c) <=> In(ready, c) \/ c = Handler(r)
      /\ \A c : In(ready, c) => Precedes(ready', c, Handler(r))
      /\ \A c, d : Precedes(ready, c, d) => Precedes(ready', c, d)
  BY <1>1, <1>2, QueueAppend
<1>4. at'[Handler(r)] = "new" /\ \A c \in Coroutines : c # Handler(r) => at'[c] = at[c]
  BY <1>1 DEF LoopInv, LoopTypes
<1>5. \A q \in Requests : q # r => at'[Handler(q)] = at[Handler(q)] BY <1>4, CoroutineNames
<1>6. \A q \in Connects : at'[Task(q)] = at[Task(q)] BY <1>4, CoroutineNames
<1> QED BY <1>1, <1>2, <1>3, <1>4, <1>5, <1>6

-----------------------------------------------------------------------------
(* Who is alone while no request crosses another *)

\* No request that arrives crosses another.
Uncrossed == \A r \in Requests : RequestArrives(r) => ~Crosses(r)

LEMMA UncrossedSteps ==
  ASSUME HistTypes, [Next]_vars, crossings' = 0
  PROVE  crossings = 0 /\ Uncrossed
<1>1. ASSUME NEW r \in Requests, RequestArrives(r) PROVE crossings = 0 /\ ~Crosses(r)
  BY <1>1 DEF RequestArrives, HistTypes
<1>2. CASE UNCHANGED vars BY <1>1, <1>2 DEF vars, histVars, Uncrossed
<1>3. CASE Next
  BY <1>1, <1>3 DEF Next, Completion, DropCompletes, InputCompletes, LinkCompletes,
     SubscribeCompletes, Completes, LinkLost, ViewersChange, LoopStep, Connect, RunTask,
     EndConnection, histVars, Uncrossed
<1> QED BY <1>2, <1>3

\* The handler of a connect request runs only while no task is in progress.
LEMMA NoTaskWhileRunning ==
  ASSUME LoopInv, AloneInv, NEW r \in Connects, Runs(Handler(r)), NEW q \in Connects
  PROVE  ~InProgress(Task(q))
<1> SUFFICES ASSUME InProgress(Task(q)) PROVE FALSE OBVIOUS
<1>1. at[Handler(q)] = "awaiting" /\ IsAwaiter(Handler(q), q) BY DEF LoopInv, TasksOK
<1>2. ~Done(Task(q)) BY DEF InProgress, Done
<1>3. ~In(ready, Handler(q)) BY <1>1, <1>2, AwaiterIsSuspended
<1>4. In(ready, Handler(r)) /\ Handler(r) \in Coroutines BY RunsFirst, CoroutineNames
<1>5. Busy(r) /\ Busy(q) BY <1>1, <1>4 DEF LoopInv, ReadyOK, Busy, InProgress
<1>6. r = q BY <1>5 DEF AloneInv
<1> QED BY <1>3, <1>4, <1>6

LEMMA ArrivesAloneInv ==
  ASSUME TypeOK, LoopInv, AloneInv, NEW r \in Requests, RequestArrives(r), ~Crosses(r)
  PROVE  AloneInv'
<1>1. Arrives(r) BY KindsOfSteps
<1>2. ~Crosses(r) /\ \A s \in Shutdowns : at[Handler(s)] = "idle"
  BY DEF RequestArrives
<1>3. /\ at[Handler(r)] = "idle" /\ at'[Handler(r)] = "new"
      /\ \A q \in Requests : q # r => at'[Handler(q)] = at[Handler(q)]
      /\ \A q \in Connects : at'[Task(q)] = at[Task(q)]
      /\ \A c : In(ready, c) => Precedes(ready', c, Handler(r))
      /\ connection_task' = connection_task
  BY <1>1, ArrivalEffect DEF Arrives
<1>4. \A q \in Requests : q # r => (Busy(q)' <=> Busy(q)) BY <1>3 DEF Busy, InProgress
<1>5. (\A q, p \in Connects : Busy(q) /\ Busy(p) => q = p)'
  <2>1. CASE r \in Connects
    <3>1. \A q \in Connects : ~Busy(q)
      BY <1>2, <2>1, CoroutineNames, RequestKinds DEF Crosses, Busy
    <3> QED BY <1>4, <3>1, CoroutineNames
  <2>2. CASE r \notin Connects BY <1>4, <2>2, CoroutineNames DEF AloneInv
  <2> QED BY <2>1, <2>2
<1>6. (\A q, p \in Cancels : Busy(q) /\ Busy(p) => q = p)'
  <2>1. CASE r \in Cancels
    <3>1. \A q \in Cancels : ~Busy(q) BY <1>2, <2>1 DEF Crosses, Busy
    <3> QED BY <1>4, <3>1, CoroutineNames
  <2>2. CASE r \notin Cancels BY <1>4, <2>2, CoroutineNames DEF AloneInv
  <2> QED BY <2>1, <2>2
<1>7. (\A d \in Disconnects, q \in Connects : ~(Busy(d) /\ Busy(q)))'
  <2>1. CASE r \in Connects
    <3>1. \A d \in Disconnects : ~Busy(d) /\ d # r
      BY <1>2, <2>1, CoroutineNames, RequestKinds DEF Crosses, Busy
    <3> QED BY <1>4, <3>1, CoroutineNames
  <2>2. CASE r \in Disconnects
    <3>1. \A q \in Connects : ~Busy(q) /\ q # r
      BY <1>2, <2>2, CoroutineNames, RequestKinds DEF Crosses, Busy
    <3> QED BY <1>4, <3>1, CoroutineNames
  <2>3. CASE r \notin Connects \cup Disconnects
    BY <1>4, <2>3, CoroutineNames DEF AloneInv
  <2> QED BY <2>1, <2>2, <2>3
<1>8. (\A q \in Connects : InProgress(Task(q)) => connection_task = q)'
  BY <1>3 DEF AloneInv, InProgress
<1>9. (\A s, t \in Shutdowns : at[Handler(s)] # "idle" /\ at[Handler(t)] # "idle" => s = t)'
  BY <1>2, <1>3, CoroutineNames
<1>10. ASSUME NEW s \in Shutdowns, NEW q \in Requests, at'[Handler(q)] = "new"
       PROVE  /\ at'[Handler(s)] \in {"idle", "new"}
              /\ at'[Handler(s)] = "new" /\ q # s => Precedes(ready', Handler(q), Handler(s))
  <2>1. CASE s = r
    <3>1. ASSUME q # r PROVE In(ready, Handler(q))
      BY <1>3, <1>10, <3>1, CoroutineNames DEF LoopInv, ReadyOK
    <3> QED BY <1>3, <2>1, <3>1
  <2>2. CASE s # r BY <1>2, <1>3, <2>2, CoroutineNames
  <2> QED BY <2>1, <2>2
<1> QED BY <1>5, <1>6, <1>7, <1>8, <1>9, <1>10 DEF AloneInv

LEMMA LaterAloneInv ==
  ASSUME LoopInv, LoopInv', AloneInv, LaterKind
  PROVE  AloneInv'
<1>1. \A q \in Requests :
        /\ Busy(q)' => Busy(q)
        /\ at'[Handler(q)] = "idle" <=> at[Handler(q)] = "idle"
        /\ at'[Handler(q)] = "new" => at[Handler(q)] = "new"
        /\ at'[Handler(q)] # at[Handler(q)] => Runs(Handler(q))
  BY HandlersAfter
<1>2. (\A r, q \in Connects : Busy(r) /\ Busy(q) => r = q)'
  BY <1>1, CoroutineNames DEF AloneInv
<1>3. (\A r, q \in Cancels : Busy(r) /\ Busy(q) => r = q)'
  BY <1>1, CoroutineNames DEF AloneInv
<1>4. (\A d \in Disconnects, r \in Connects : ~(Busy(d) /\ Busy(r)))'
  BY <1>1, CoroutineNames DEF AloneInv
<1>5. (\A s, t \in Shutdowns : at[Handler(s)] # "idle" /\ at[Handler(t)] # "idle" => s = t)'
  BY <1>1, CoroutineNames DEF AloneInv
<1>6. ASSUME NEW s \in Shutdowns, NEW r \in Requests, at'[Handler(r)] = "new"
      PROVE  /\ at'[Handler(s)] \in {"idle", "new"}
             /\ at'[Handler(s)] = "new" /\ r # s => Precedes(ready', Handler(r), Handler(s))
  <2>1. at[Handler(r)] = "new" /\ s \in Requests BY <1>1, <1>6, CoroutineNames
  <2>2. /\ at[Handler(s)] \in {"idle", "new"}
        /\ at[Handler(s)] = "new" /\ r # s => Precedes(ready, Handler(r), Handler(s))
    BY <2>1 DEF AloneInv
  <2>3. In(ready', Handler(r)) BY <1>6, CoroutineNames DEF LoopInv, ReadyOK
  <2>4. LoopKind BY DEF LoopKind, LaterKind
  <2>5. Precedes(ready, Handler(r), Handler(s)) => Precedes(ready', Handler(r), Handler(s))
    BY <2>3, <2>4, OrderKept
  <2>6. ASSUME at[Handler(s)] = "new", at'[Handler(s)] # "new" PROVE FALSE
    <3>1. Runs(Handler(s)) BY <1>1, <2>1, <2>6
    <3>2. r = s BY <2>2, <2>6, <3>1, RunsFirst
    <3> QED BY <1>6, <2>6, <3>2
  <2> QED BY <1>1, <2>1, <2>2, <2>5, <2>6
<1>7. (\A r \in Connects : InProgress(Task(r)) => connection_task = r)'
  <2> SUFFICES ASSUME NEW q \in Connects, InProgress(Task(q))'
               PROVE  connection_task' = q
    OBVIOUS
  <2>1. Task(q) \in Coroutines BY CoroutineNames
  <2>2. ASSUME InProgress(Task(q)), connection_task' = connection_task
        PROVE  connection_task' = q
    BY <2>2 DEF AloneInv
  <2>3. ASSUME NEW c \in Coroutines, Runs(c), NEW place, at' = [at EXCEPT ![c] = place],
               connection_task' = connection_task
        PROVE  connection_task' = q
    <3>1. InProgress(c) BY <2>3, RunsFirst DEF LoopInv, ReadyOK
    <3>2. CASE c = Task(q) BY <2>2, <2>3, <3>1, <3>2
    <3>3. CASE c # Task(q)
      <4>1. at'[Task(q)] = at[Task(q)] BY <2>1, <2>3, <3>3 DEF LoopInv, LoopTypes
      <4> QED BY <2>2, <2>3, <4>1 DEF InProgress
    <3> QED BY <3>2, <3>3
  <2>4. CASE \E c \in Coroutines : Wakes(c) BY <2>2, <2>4 DEF Wakes, InProgress
  <2>5. ASSUME NEW r \in Connects, ConnectMoves(r) PROVE FALSE
    <3>1. PICK place \in Places : at' = [at EXCEPT ![Handler(r)] = place]
      BY <2>5 DEF ConnectMoves, Suspend
    <3>2. at'[Task(q)] = at[Task(q)] BY <2>1, <3>1, CoroutineNames DEF LoopInv, LoopTypes
    <3>3. InProgress(Task(q)) BY <3>2 DEF InProgress
    <3> QED BY <2>5, <3>3, NoTaskWhileRunning DEF ConnectMoves
  <2>6. ASSUME NEW r \in Connects, Creates(r) PROVE connection_task' = q
    <3>1. /\ connection_task' = r
          /\ at' = [at EXCEPT ![Handler(r)] = "awaiting", ![Task(r)] = "new"]
      BY <2>6 DEF Creates, CreateTask
    <3>2. CASE q # r
      <4>1. at'[Task(q)] = at[Task(q)] BY <2>1, <3>1, <3>2, CoroutineNames DEF LoopInv, LoopTypes
      <4>2. InProgress(Task(q)) BY <4>1 DEF InProgress
      <4> QED BY <2>6, <4>2, NoTaskWhileRunning DEF Creates
    <3> QED BY <3>1, <3>2
  <2>7. ASSUME NEW r \in Connects, TaskMoves(r) \/ Ends(r) PROVE connection_task' = q
    BY <2>3, <2>7, CoroutineNames DEF TaskMoves, Ends, Suspend, EndTask
  <2>8. ASSUME NEW r \in Cancellers \cup Disconnects, OtherMoves(r)
        PROVE  connection_task' = q
    BY <2>3, <2>8, CoroutineNames DEF OtherMoves, Suspend
  <2>9. ASSUME NEW r \in Cancellers, Interrupts(r) PROVE connection_task' = q
    BY <2>3, <2>9, CoroutineNames DEF Interrupts, CancelsTask
  <2>10. CASE LoopRests BY <2>2, <2>10 DEF LoopRests, InProgress
  <2> QED BY <2>4, <2>5, <2>6, <2>7, <2>8, <2>9, <2>10 DEF LaterKind
<1> QED BY <1>2, <1>3, <1>4, <1>5, <1>6, <1>7 DEF AloneInv

\* A step of Next that is not the arrival of a request is of a later kind.
LEMMA LaterSteps ==
  ASSUME TypeOK, [Next]_vars, \A r \in Requests : ~RequestArrives(r)
  PROVE  LaterKind
<1>1. CASE UNCHANGED vars BY <1>1 DEF vars, webVars, LaterKind, LoopRests
<1>2. CASE Next BY <1>2, KindsOfSteps DEF Next, LoopStep, LaterKind
<1> QED BY <1>1, <1>2

UncrossedAlone == crossings = 0 => AloneInv

LEMMA AlwaysAloneInv == Spec => []UncrossedAlone
<1>1. Init => UncrossedAlone
  <2> SUFFICES ASSUME Init PROVE AloneInv BY DEF UncrossedAlone
  <2>1. /\ \A r \in Requests : at[Handler(r)] = "idle"
        /\ \A r \in Connects : at[Task(r)] = "idle"
    BY CoroutineNames DEF Init
  <2> QED BY <2>1, CoroutineNames DEF AloneInv, Busy, InProgress
<1>2. LoopInv /\ DataOK /\ LoopInv' /\ UncrossedAlone /\ [Next]_vars => UncrossedAlone'
  <2> SUFFICES ASSUME LoopInv, DataOK, LoopInv', UncrossedAlone, [Next]_vars, crossings' = 0
               PROVE  AloneInv'
    BY DEF UncrossedAlone
  <2>1. TypeOK BY TypeOKParts
  <2>2. AloneInv /\ Uncrossed BY UncrossedSteps DEF UncrossedAlone, DataOK
  <2> QED BY <2>1, <2>2, ArrivesAloneInv, LaterAloneInv, LaterSteps DEF Uncrossed
<1> QED BY <1>1, <1>2, AlwaysLoopInv, PTL DEF Spec

-----------------------------------------------------------------------------
(* AppState and the current client *)

\* The current client has a link, unless its task has yet to see it made, and the
\* state says connected, unless its task has yet to see it made or is undoing it.
\* A connect request in progress is alone with its own client, and makes its link
\* with notifications off unless it has the client to turn them off again.
AppInv ==
  /\ connected => client # NoClient
  /\ client # NoClient =>
       /\ connected \/ at[Task(client)] \in {"linking", "undoing"}
       /\ at[Task(client)] \in {"linking", "undoing", "subscribing", "tearing", "done"}
       /\ at[Task(client)] # "linking" => link[client] = "up"
  /\ \A r \in Connects : Busy(r) => client \in {NoClient, r}
  /\ \A r \in Connects : at[Task(r)] = "linking" => client = r \/ ~monitoring

\* A task disconnects or subscribes its own client.
TaskTargets ==
  \A r \in Connects : at[Task(r)] \in {"undoing", "subscribing", "tearing"} => target[Task(r)] = r

\* The steps of other coroutines leave a task where it is, or create it.
LEMMA TasksStay ==
  ASSUME LoopInv,
         \/ \E r \in Requests : Arrives(r)
         \/ \E c \in Coroutines : Wakes(c)
         \/ \E r \in Connects : ConnectMoves(r) \/ Creates(r)
         \/ \E r \in Cancellers \cup Disconnects : OtherMoves(r)
         \/ \E r \in Cancellers : Interrupts(r)
         \/ LoopRests
  PROVE  \A q \in Connects : \/ at'[Task(q)] = at[Task(q)]
                             \/ at[Task(q)] = "idle" /\ at'[Task(q)] = "new"
<1>1. ASSUME NEW r \in Requests, NEW place, at' = [at EXCEPT ![Handler(r)] = place]
      PROVE  \A q \in Connects : at'[Task(q)] = at[Task(q)]
  BY <1>1, CoroutineNames DEF LoopInv, LoopTypes
<1>2. CASE \E r \in Requests : Arrives(r) BY <1>1, <1>2 DEF Arrives
<1>3. CASE \E c \in Coroutines : Wakes(c) BY <1>3 DEF Wakes
<1>4. ASSUME NEW r \in Connects, ConnectMoves(r)
      PROVE  \A q \in Connects : at'[Task(q)] = at[Task(q)]
  BY <1>1, <1>4, CoroutineNames DEF ConnectMoves, Suspend
<1>5. ASSUME NEW r \in Connects, Creates(r)
      PROVE  \A q \in Connects : \/ at'[Task(q)] = at[Task(q)]
                                 \/ at[Task(q)] = "idle" /\ at'[Task(q)] = "new"
  <2>1. /\ at' = [at EXCEPT ![Handler(r)] = "awaiting", ![Task(r)] = "new"]
        /\ at[Task(r)] = "idle"
    BY <1>5 DEF Creates, CreateTask, LoopInv, TasksOK
  <2> QED BY <2>1, CoroutineNames DEF LoopInv, LoopTypes
<1>6. CASE \E r \in Cancellers \cup Disconnects : OtherMoves(r)
  BY <1>1, <1>6, CoroutineNames DEF OtherMoves, Suspend
<1>7. CASE \E r \in Cancellers : Interrupts(r)
  BY <1>1, <1>7, CoroutineNames DEF Interrupts, CancelsTask
<1>8. CASE LoopRests BY <1>8 DEF LoopRests
<1> QED BY <1>2, <1>3, <1>4, <1>5, <1>6, <1>7, <1>8

\* The step of a task moves it alone.
LEMMA OtherTasksStay ==
  ASSUME LoopInv, NEW r \in Connects, TaskMoves(r) \/ Ends(r)
  PROVE  /\ \A q \in Connects : q # r => at'[Task(q)] = at[Task(q)]
         /\ \A q \in Requests : at'[Handler(q)] = at[Handler(q)]
         /\ Runs(Task(r)) /\ InProgress(Task(r)) /\ Busy(r)
<1>1. PICK place : at' = [at EXCEPT ![Task(r)] = place]
  BY DEF TaskMoves, Ends, Suspend, EndTask
<1>2. Runs(Task(r)) /\ Task(r) \in Coroutines BY CoroutineNames DEF TaskMoves, Ends
<1>3. InProgress(Task(r)) BY <1>2, RunsFirst DEF LoopInv, ReadyOK
<1>4. at[Handler(r)] = "awaiting" BY <1>3 DEF LoopInv, TasksOK
<1>5. Busy(r) BY <1>4 DEF Busy, InProgress
<1>6. \A c \in Coroutines : c # Task(r) => at'[c] = at[c]
  BY <1>1, <1>2 DEF LoopInv, LoopTypes
<1>7. \A q \in Connects : q # r => at'[Task(q)] = at[Task(q)] BY <1>6, CoroutineNames
<1>8. \A q \in Requests : at'[Handler(q)] = at[Handler(q)] BY <1>6, CoroutineNames
<1> QED BY <1>2, <1>3, <1>5, <1>7, <1>8

\* The end of a disconnection resets everything AppInv is about.
LEMMA ResetAppInv == HandleDisconnect => AppInv'
BY DEF HandleDisconnect, AppInv

\* Steps that leave the state, the client and its link alone.
LEMMA SameAppInv ==
  ASSUME AppInv, AppTypes, UNCHANGED appVars,
         client # NoClient /\ link[client] = "up" => link'[client] = "up",
         \A q \in Connects : \/ at'[Task(q)] = at[Task(q)]
                             \/ at[Task(q)] = "idle" /\ at'[Task(q)] = "new",
         \A q \in Connects : Busy(q)' => Busy(q)
  PROVE  AppInv'
<1>1. connected' = connected /\ monitoring' = monitoring /\ client' = client BY DEF appVars
<1>2. ASSUME client # NoClient
      PROVE  /\ connected \/ at'[Task(client)] \in {"linking", "undoing"}
             /\ at'[Task(client)] \in {"linking", "undoing", "subscribing", "tearing", "done"}
             /\ at'[Task(client)] # "linking" => link'[client] = "up"
  BY <1>2 DEF AppInv, AppTypes
<1> QED BY <1>1, <1>2 DEF AppInv

\* bleak closes a link, or loses it.
LEMMA DropAppInv ==
  ASSUME AppInv, AppTypes, LinkTypes, NEW r \in Connects, Drop(r), UNCHANGED at
  PROVE  AppInv'
<1>1. CASE link[r] = "up" BY <1>1, ResetAppInv DEF Drop
<1>2. CASE link[r] # "up"
  <2>1. UNCHANGED appVars BY <1>2 DEF Drop
  <2>2. client # NoClient /\ link[client] = "up" => link'[client] = "up"
    BY <1>2 DEF Drop, LinkTypes
  <2>3. \A q \in Connects : Busy(q)' => Busy(q) BY DEF Busy, InProgress
  <2> QED BY <2>1, <2>2, <2>3, SameAppInv
<1> QED BY <1>1, <1>2

\* A client whose task has not made it is not the current one.
LEMMA NoClientYet ==
  ASSUME LoopInv, AppTypes, AppInv, NEW r \in Connects, Busy(r),
         at[Task(r)] \notin {"linking", "undoing", "subscribing", "tearing", "done"}
  PROVE  client = NoClient
BY DEF AppInv

LEMMA OutsideAppInv ==
  ASSUME Uncrossed, LoopInv, DataOK, AloneInv, AppInv,
         \/ \E r \in Requests : RequestArrives(r)
         \/ Completion
         \/ \E r \in Connects : LinkLost(r)
         \/ ViewersChange
  PROVE  AppInv'
<1> USE DEF DataOK
<1>1. TypeOK BY TypeOKParts
<1>2. UNCHANGED at => \A q \in Connects : Busy(q)' => Busy(q) BY DEF Busy, InProgress
<1>3. ASSUME NEW r \in Requests, RequestArrives(r) PROVE AppInv'
  <2>1. Arrives(r) /\ UNCHANGED << appVars, linkVars >>
    BY <1>1, <1>3, KindsOfSteps DEF RequestArrives
  <2>2. /\ \A q \in Connects : at'[Task(q)] = at[Task(q)]
        /\ \A q \in Requests : q # r => at'[Handler(q)] = at[Handler(q)]
    BY <2>1, ArrivalEffect
  <2>3. \A q \in Requests : q # r => (Busy(q)' <=> Busy(q)) BY <2>2 DEF Busy, InProgress
  <2>4. CASE r \notin Connects
    BY <2>1, <2>2, <2>3, <2>4, CoroutineNames, SameAppInv DEF linkVars
  <2>5. CASE r \in Connects
    <3>1. ~connected /\ \A q \in Connects : ~Busy(q)
      BY <1>3, <2>5, CoroutineNames, RequestKinds DEF Uncrossed, Crosses, Busy
    <3>2. ASSUME client # NoClient PROVE FALSE
      <4>1. client \in Connects /\ at[Task(client)] \in {"linking", "undoing"}
        BY <3>1, <3>2 DEF AppInv, AppTypes
      <4>2. at[Handler(client)] = "awaiting" BY <4>1 DEF LoopInv, TasksOK, InProgress
      <4> QED BY <3>1, <4>1, <4>2 DEF Busy, InProgress
    <3> QED BY <2>1, <2>2, <3>1, <3>2 DEF AppInv, appVars
  <2> QED BY <2>4, <2>5
<1>4. ASSUME NEW c \in Coroutines, DropCompletes(c) PROVE AppInv'
  <2>1. target[c] \in Connects /\ UNCHANGED at /\ Drop(target[c])
    BY <1>4 DEF DropCompletes, Completes, TargetOK
  <2> QED BY <2>1, DropAppInv
<1>5. ASSUME NEW c \in Coroutines, NEW ok \in BOOLEAN, InputCompletes(c, ok) PROVE AppInv'
  BY <1>2, <1>5, SameAppInv DEF InputCompletes, Completes, linkVars
<1>6. ASSUME NEW r \in Connects, NEW ok \in BOOLEAN, LinkCompletes(r, ok) PROVE AppInv'
  <2>1. /\ UNCHANGED at /\ UNCHANGED appVars
        /\ link' = [link EXCEPT ![r] = IF ok THEN "up" ELSE @]
    BY <1>6 DEF LinkCompletes, Completes
  <2>2. client # NoClient /\ link[client] = "up" => link'[client] = "up"
    BY <2>1 DEF LinkTypes, AppTypes
  <2> QED BY <1>2, <2>1, <2>2, SameAppInv
<1>7. ASSUME NEW r \in Connects, NEW ok \in BOOLEAN, SubscribeCompletes(r, ok) PROVE AppInv'
  BY <1>2, <1>7, SameAppInv DEF SubscribeCompletes, Completes
<1>8. ASSUME NEW r \in Connects, LinkLost(r) PROVE AppInv' BY <1>8, DropAppInv DEF LinkLost
<1>9. CASE ViewersChange BY <1>2, <1>9, SameAppInv DEF ViewersChange, linkVars
<1> QED BY <1>3, <1>4, <1>5, <1>6, <1>7, <1>8, <1>9 DEF Completion

\* The handlers of requests.
LEMMA HandlerAppInv ==
  ASSUME LoopInv, DataOK, AppInv,
         \/ \E r \in Connects : Connect(r)
         \/ \E r \in Cancellers \cup Disconnects : EndConnection(r)
  PROVE  AppInv'
<1> USE DEF DataOK
<1>1. TypeOK BY TypeOKParts
<1>2. /\ \A q \in Connects : \/ at'[Task(q)] = at[Task(q)]
                             \/ at[Task(q)] = "idle" /\ at'[Task(q)] = "new"
      /\ \A q \in Connects : Busy(q)' => Busy(q)
  <2>1. \/ \E r \in Connects : ConnectMoves(r) \/ Creates(r)
        \/ \E r \in Cancellers \cup Disconnects : OtherMoves(r)
        \/ \E r \in Cancellers : Interrupts(r)
    BY <1>1, KindsOfSteps
  <2>2. LaterKind BY <2>1 DEF LaterKind
  <2> QED BY <2>1, <2>2, TasksStay, HandlersAfter, CoroutineNames
<1>3. ASSUME UNCHANGED << appVars, linkVars >> PROVE AppInv'
  BY <1>2, <1>3, SameAppInv DEF linkVars
<1>4. ASSUME NEW r \in Connects, Connect(r) PROVE AppInv' BY <1>3, <1>4 DEF Connect
<1>5. ASSUME NEW r \in Cancellers \cup Disconnects, EndConnection(r) PROVE AppInv'
  <2>1. UNCHANGED linkVars BY <1>5 DEF EndConnection
  <2>2. UNCHANGED appVars \/ HandleDisconnect
    BY <1>5 DEF EndConnection, ShutdownStarts, CancelStarts, CancelResumes, DisconnectStarts,
       HandlerTornDown, HandlerDisconnects, CallDisconnect
  <2> QED BY <1>3, <2>1, <2>2, ResetAppInv
<1> QED BY <1>4, <1>5

-----------------------------------------------------------------------------
(* What a step of a task does, when it is alone *)

RunsAt(r, place) == Runs(Task(r)) /\ at[Task(r)] = place
Moves(r, place) == at' = [at EXCEPT ![Task(r)] = place] /\ ready' = Tail(ready)

\* Cancelled before it started.
TaskCut(r) ==
  RunsAt(r, "new") /\ EndTask(r, "cancelled") /\ UNCHANGED << appVars, target >>

TaskScans(r) ==
  RunsAt(r, "new") /\ Moves(r, "scanning") /\ UNCHANGED << appVars, target, outcome >>

\* Its client becomes the current one.
TaskMakes(r) ==
  /\ RunsAt(r, "new") \/ RunsAt(r, "scanning")
  /\ Moves(r, "linking")
  /\ client = NoClient /\ client' = r
  /\ UNCHANGED << connected, monitoring, target, outcome >>

\* It ends and leaves the state as it is with no client.
TaskResets(r) ==
  /\ Runs(Task(r)) /\ at[Task(r)] # "new"
  /\ \/ client = NoClient \/ link[r] # "up" \/ at[Task(r)] = "undoing"
     \/ at[Task(r)] = "tearing" /\ ~must_cancel[r]
  /\ HandleDisconnect
  /\ \E o \in Outcomes : EndTask(r, o)
  /\ UNCHANGED target

\* The state says that notifications are on.
TaskKeeps(r) ==
  /\ RunsAt(r, "linking") /\ link[r] = "up" /\ client = r /\ monitoring
  /\ EndTask(r, "ok") /\ connected' = TRUE
  /\ UNCHANGED << monitoring, client, target >>

TaskSubscribes(r) ==
  /\ RunsAt(r, "linking") /\ link[r] = "up" /\ client = r /\ ~monitoring
  /\ Moves(r, "subscribing") /\ connected' = TRUE
  /\ target' = [target EXCEPT ![Task(r)] = r]
  /\ UNCHANGED << monitoring, client, outcome >>

\* It failed or was cancelled with a link that is up.
TaskUndoes(r) ==
  /\ RunsAt(r, "linking") /\ link[r] = "up"
  /\ must_cancel[r] \/ Head(ready).ok = FALSE
  /\ Moves(r, "undoing")
  /\ target' = [target EXCEPT ![Task(r)] = r]
  /\ \E o \in Outcomes : outcome' = [outcome EXCEPT ![r] = o]
  /\ UNCHANGED appVars

TaskTearsDown(r) ==
  /\ RunsAt(r, "subscribing") /\ client = r
  /\ Moves(r, "tearing")
  /\ target' = [target EXCEPT ![Task(r)] = r]
  /\ \E o \in Outcomes : outcome' = [outcome EXCEPT ![r] = o]
  /\ UNCHANGED appVars

TaskMonitors(r) ==
  /\ RunsAt(r, "subscribing") /\ ~must_cancel[r] /\ Head(ready).ok = TRUE
  /\ EndTask(r, "ok") /\ monitoring' = TRUE
  /\ UNCHANGED << connected, client, target >>

\* Cancelled while it disconnects.
TaskAbandons(r) ==
  /\ RunsAt(r, "tearing") /\ must_cancel[r]
  /\ EndTask(r, "cancelled")
  /\ UNCHANGED << appVars, target >>

TaskStep(r) ==
  \/ TaskCut(r) \/ TaskScans(r) \/ TaskMakes(r) \/ TaskResets(r) \/ TaskKeeps(r)
  \/ TaskSubscribes(r) \/ TaskUndoes(r) \/ TaskTearsDown(r) \/ TaskMonitors(r) \/ TaskAbandons(r)

LEMMA TaskSteps ==
  ASSUME LoopInv, DataOK, AppInv, NEW r \in Connects, RunTask(r)
  PROVE  TaskStep(r)
<1> USE DEF TaskStep
<1>1. TypeOK BY TypeOKParts
<1>2. TaskMoves(r) \/ Ends(r) BY <1>1, KindsOfSteps
<1>3. Runs(Task(r)) /\ Busy(r) BY <1>2, OtherTasksStay
<1>4. client \in {NoClient, r} BY <1>3 DEF AppInv
<1>5. \A place, ok : Resume(Task(r), place, ok) =>
        at[Task(r)] = place /\ Head(ready).ok = ok
  BY DEF Resume, Item
<1>6. r # NoClient BY BackendAssumption DEF BackendAssumption
<1>7. AppTypes BY DEF DataOK
<1>8. ASSUME at[Task(r)] \in {"new", "scanning"} PROVE client = NoClient
  BY <1>3, <1>7, <1>8, NoClientYet
<1>9. outcome[r] \in Outcomes /\ {"ok", "error", "cancelled"} \subseteq Outcomes
  BY DEF DataOK, TaskTypes, Outcomes
<1>10. \A place : Suspend(Task(r), place) => Moves(r, place) BY DEF Suspend, Moves
<1>11. NewClient(r) /\ at[Task(r)] \in {"new", "scanning"} => TaskMakes(r)
  BY <1>3, <1>8, <1>10 DEF NewClient, TaskMakes, RunsAt
<1>12. ASSUME NEW o \in Outcomes, ConnectFails(r, o), at[Task(r)] # "new",
              link[r] # "up" \/ at[Task(r)] = "undoing"
       PROVE  TaskResets(r)
  BY <1>3, <1>4, <1>12 DEF ConnectFails, TaskResets
<1>13. CASE TaskStarts(r)
  <2>1. at[Task(r)] = "new" BY <1>5, <1>13 DEF TaskStarts
  <2> QED BY <1>3, <1>10, <1>11, <1>13, <2>1 DEF TaskStarts, TaskCut, TaskScans, RunsAt, Suspend
<1>14. ASSUME NEW ok \in BOOLEAN, TaskScanned(r, ok) PROVE TaskStep(r)
  <2>1. at[Task(r)] = "scanning" BY <1>5, <1>14 DEF TaskScanned
  <2>2. NewClient(r) \/ TaskFails(r, Raised(r, ok)) BY <1>14 DEF TaskScanned
  <2>3. TaskFails(r, Raised(r, ok)) => TaskResets(r)
    BY <1>3, <1>8, <2>1, RaisedIsOutcome DEF TaskFails, CallDisconnect, TaskResets
  <2> QED BY <1>11, <2>1, <2>2, <2>3
<1>15. ASSUME NEW ok \in BOOLEAN, TaskLinked(r, ok) PROVE TaskStep(r)
  <2>1. at[Task(r)] = "linking" /\ Head(ready).ok = ok BY <1>5, <1>15 DEF TaskLinked
  <2> DEFINE raised == IF link[r] # "up" /\ Raised(r, ok) = "none" THEN "error" ELSE Raised(r, ok)
  <2>2. raised \in Outcomes BY <1>9, RaisedIsOutcome
  <2>3. \/ raised = "none" /\ StartMonitoring(r)
        \/ /\ raised # "none" /\ link[r] = "up"
           /\ Suspend(Task(r), "undoing")
           /\ target' = [target EXCEPT ![Task(r)] = r]
           /\ outcome' = [outcome EXCEPT ![r] = raised]
           /\ UNCHANGED appVars
        \/ raised # "none" /\ link[r] # "up" /\ ConnectFails(r, raised)
    BY <1>15 DEF TaskLinked
  <2>4. CASE raised = "none" /\ StartMonitoring(r)
    <3>1. link[r] = "up" BY <2>4
    <3>2. client = r \/ ~monitoring BY <2>1 DEF AppInv
    <3>3. CASE monitoring /\ EndTask(r, "ok") /\ connected' = TRUE
               /\ UNCHANGED << monitoring, client, target >>
      BY <1>3, <2>1, <3>1, <3>2, <3>3 DEF TaskKeeps, RunsAt
    <3>4. CASE client = NoClient /\ HandleDisconnect /\ EndTask(r, "error") /\ UNCHANGED target
      BY <1>3, <1>9, <2>1, <3>4 DEF TaskResets
    <3>5. CASE /\ ~monitoring /\ client # NoClient
               /\ connected' = TRUE
               /\ target' = [target EXCEPT ![Task(r)] = client]
               /\ \/ link[client] = "up" /\ Suspend(Task(r), "subscribing") /\ UNCHANGED outcome
                  \/ /\ link[client] # "up"
                     /\ Suspend(Task(r), "tearing")
                     /\ outcome' = [outcome EXCEPT ![r] = "error"]
               /\ UNCHANGED << monitoring, client >>
      <4>1. client = r BY <1>4, <3>5
      <4> QED BY <1>3, <1>10, <2>1, <3>1, <3>5, <4>1 DEF TaskSubscribes, RunsAt
    <3> QED BY <2>4, <3>3, <3>4, <3>5 DEF StartMonitoring
  <2>5. CASE /\ raised # "none" /\ link[r] = "up"
             /\ Suspend(Task(r), "undoing")
             /\ target' = [target EXCEPT ![Task(r)] = r]
             /\ outcome' = [outcome EXCEPT ![r] = raised]
             /\ UNCHANGED appVars
    <3>1. must_cancel[r] \/ ok = FALSE BY <2>5 DEF Raised
    <3> QED BY <1>3, <1>10, <2>1, <2>2, <2>5, <3>1 DEF TaskUndoes, RunsAt
  <2>6. CASE raised # "none" /\ link[r] # "up" /\ ConnectFails(r, raised)
    BY <1>12, <2>1, <2>2, <2>6
  <2> QED BY <2>3, <2>4, <2>5, <2>6
<1>16. ASSUME NEW ok \in BOOLEAN, TaskSubscribed(r, ok) PROVE TaskStep(r)
  <2>1. at[Task(r)] = "subscribing" /\ Head(ready).ok = ok BY <1>5, <1>16 DEF TaskSubscribed
  <2>2. CASE Raised(r, ok) = "none" /\ monitoring' = TRUE /\ EndTask(r, "ok")
             /\ UNCHANGED << connected, client, target >>
    <3>1. ~must_cancel[r] /\ ok = TRUE BY <2>2, <1>16 DEF Raised
    <3> QED BY <1>3, <2>1, <2>2, <3>1 DEF TaskMonitors, RunsAt
  <2>3. CASE TaskFails(r, Raised(r, ok))
    <3>1. CASE client = NoClient /\ HandleDisconnect /\ EndTask(r, Raised(r, ok))
               /\ UNCHANGED target
      BY <1>3, <2>1, <3>1, RaisedIsOutcome DEF TaskResets
    <3>2. CASE CallDisconnect(Task(r)) /\ outcome' = [outcome EXCEPT ![r] = Raised(r, ok)]
      BY <1>3, <1>4, <1>10, <2>1, <3>2, RaisedIsOutcome DEF CallDisconnect, TaskTearsDown, RunsAt
    <3> QED BY <2>3, <3>1, <3>2 DEF TaskFails
  <2> QED BY <1>16, <2>2, <2>3 DEF TaskSubscribed
<1>17. CASE TaskUndone(r)
  <2>1. at[Task(r)] = "undoing" BY <1>5, <1>17 DEF TaskUndone
  <2>2. (IF must_cancel[r] THEN "cancelled" ELSE outcome[r]) \in Outcomes BY <1>9
  <2> QED BY <1>12, <1>17, <2>1, <2>2 DEF TaskUndone
<1>18. CASE TaskTornDown(r)
  <2>1. at[Task(r)] = "tearing" BY <1>5, <1>18 DEF TaskTornDown
  <2>2. CASE must_cancel[r] /\ EndTask(r, "cancelled") /\ UNCHANGED appVars /\ UNCHANGED target
    BY <1>3, <2>1, <2>2 DEF TaskAbandons, RunsAt
  <2>3. CASE ~must_cancel[r] /\ EndTask(r, outcome[r]) /\ HandleDisconnect /\ UNCHANGED target
    BY <1>3, <1>9, <2>1, <2>3 DEF TaskResets
  <2> QED BY <1>18, <2>2, <2>3 DEF TaskTornDown
<1> QED BY <1>13, <1>14, <1>15, <1>16, <1>17, <1>18 DEF RunTask

\* Where such a step leaves its task.
LEMMA TaskStepPlace ==
  ASSUME LoopInv, NEW r \in Connects, NEW place
  PROVE  /\ Moves(r, place) => at'[Task(r)] = place
         /\ \A o : EndTask(r, o) => at'[Task(r)] = "done"
BY CoroutineNames DEF LoopInv, LoopTypes, Moves, EndTask

LEMMA TaskAppInv ==
  ASSUME LoopInv, DataOK, AloneInv, AppInv, NEW r \in Connects, RunTask(r)
  PROVE  AppInv'
<1> USE DEF DataOK
<1>1. TypeOK BY TypeOKParts
<1>2. TaskMoves(r) \/ Ends(r) BY <1>1, KindsOfSteps
<1>3. /\ \A q \in Connects : q # r => at'[Task(q)] = at[Task(q)]
      /\ \A q \in Connects : Busy(q)' <=> Busy(q)
      /\ InProgress(Task(r)) /\ Busy(r)
  BY <1>2, OtherTasksStay, CoroutineNames DEF Busy, InProgress
<1>4. client \in {NoClient, r} /\ r # NoClient
  BY <1>3, BackendAssumption DEF AppInv, BackendAssumption
<1>5. ASSUME NEW q \in Connects, q # r PROVE at[Task(q)] # "linking" /\ ~Busy(q)
  BY <1>3, <1>5 DEF AloneInv, InProgress
<1>6. link' = link BY DEF RunTask, linkVars
<1>7. TaskStep(r) BY TaskSteps
<1>8. /\ \A place : Moves(r, place) => at'[Task(r)] = place
      /\ \A o : EndTask(r, o) => at'[Task(r)] = "done"
  BY TaskStepPlace
\* It keeps the client, if it has one, and goes where it has a link.
<1>9. ASSUME client' = client, connected' \/ connected' = connected,
             monitoring' = monitoring \/ at[Task(r)] # "linking",
             client = r => at'[Task(r)] \in {"undoing", "subscribing", "tearing", "done"},
             client = r => link[r] = "up",
             client = r => connected' \/ at'[Task(r)] = "undoing",
             at'[Task(r)] # "linking", connected' => client # NoClient
      PROVE  AppInv'
  BY <1>3, <1>4, <1>5, <1>6, <1>9 DEF AppInv
<1>10. at[Task(r)] \in {"new", "scanning"} => client = NoClient /\ ~connected
  BY <1>3, NoClientYet DEF AppInv
<1>11. client = r => (connected \/ at[Task(r)] \in {"linking", "undoing"})
                     /\ (at[Task(r)] # "linking" => link[r] = "up")
  BY <1>4 DEF AppInv
<1>12. CASE TaskCut(r) BY <1>8, <1>9, <1>10, <1>12, <1>4 DEF TaskCut, RunsAt, appVars
<1>13. CASE TaskScans(r) BY <1>8, <1>9, <1>10, <1>13, <1>4 DEF TaskScans, RunsAt, appVars
<1>14. CASE TaskMakes(r)
  <2>1. at'[Task(r)] = "linking" /\ ~connected BY <1>8, <1>10, <1>14 DEF TaskMakes, RunsAt
  <2> QED BY <1>3, <1>4, <1>5, <1>14, <2>1 DEF TaskMakes, AppInv
<1>15. CASE TaskResets(r) BY <1>15, ResetAppInv DEF TaskResets
<1>16. CASE TaskKeeps(r) BY <1>4, <1>8, <1>9, <1>16 DEF TaskKeeps, RunsAt
<1>17. CASE TaskSubscribes(r) BY <1>4, <1>8, <1>9, <1>17 DEF TaskSubscribes, RunsAt
<1>18. CASE TaskUndoes(r)
  <2>1. at'[Task(r)] = "undoing" BY <1>8, <1>18 DEF TaskUndoes
  <2>2. connected => client # NoClient BY DEF AppInv
  <2> QED BY <1>9, <1>18, <2>1, <2>2 DEF TaskUndoes, RunsAt, appVars
<1>19. CASE TaskTearsDown(r)
  <2>1. at'[Task(r)] = "tearing" BY <1>8, <1>19 DEF TaskTearsDown
  <2>2. connected /\ client # NoClient BY <1>4, <1>11, <1>19 DEF TaskTearsDown, RunsAt
  <2> QED BY <1>9, <1>11, <1>19, <2>1, <2>2 DEF TaskTearsDown, RunsAt, appVars
<1>20. CASE TaskMonitors(r)
  <2>1. at'[Task(r)] = "done" BY <1>8, <1>20 DEF TaskMonitors
  <2>2. connected => client # NoClient BY DEF AppInv
  <2> QED BY <1>9, <1>11, <1>20, <2>1, <2>2 DEF TaskMonitors, RunsAt
<1>21. CASE TaskAbandons(r)
  <2>1. at'[Task(r)] = "done" BY <1>8, <1>21 DEF TaskAbandons
  <2>2. connected => client # NoClient BY DEF AppInv
  <2> QED BY <1>9, <1>11, <1>21, <2>1, <2>2 DEF TaskAbandons, RunsAt, appVars
<1> QED BY <1>7, <1>12, <1>13, <1>14, <1>15, <1>16, <1>17, <1>18, <1>19, <1>20, <1>21
   DEF TaskStep

LEMMA NextAppInv ==
  ASSUME Uncrossed, LoopInv, DataOK, AloneInv, AppInv, [Next]_vars
  PROVE  AppInv'
<1>1. CASE UNCHANGED vars
  BY <1>1 DEF vars, appVars, linkVars, AppInv, Busy, InProgress
<1>2. CASE Next BY <1>2, OutsideAppInv, HandlerAppInv, TaskAppInv DEF Next, LoopStep
<1> QED BY <1>1, <1>2

UncrossedApp == crossings = 0 => AppInv

LEMMA AlwaysAppInv == Spec => []UncrossedApp
<1>1. Init => UncrossedApp
  <2> SUFFICES ASSUME Init PROVE AppInv BY DEF UncrossedApp
  <2>1. \A r \in Connects : at[Task(r)] = "idle" BY CoroutineNames DEF Init
  <2> QED BY <2>1 DEF Init, AppInv
<1>2. LoopInv /\ DataOK /\ UncrossedAlone /\ UncrossedApp /\ [Next]_vars => UncrossedApp'
  <2> SUFFICES ASSUME LoopInv, DataOK, UncrossedAlone, UncrossedApp, [Next]_vars, crossings' = 0
               PROVE  AppInv'
    BY DEF UncrossedApp
  <2>1. AloneInv /\ AppInv /\ Uncrossed
    BY UncrossedSteps DEF UncrossedAlone, UncrossedApp, DataOK
  <2> QED BY <2>1, NextAppInv
<1> QED BY <1>1, <1>2, AlwaysLoopInv, AlwaysAloneInv, PTL DEF Spec

\* Once every request is answered, AppState.connected is whether the current
\* client has a link, as long as no request crosses another: whatever links are
\* lost, whatever bleak answers and at whichever await a task is cancelled.
THEOREM ConnectedFollowsLink == Spec => []ConnectedIsTrue
<1>1. AppTypes /\ UncrossedApp => ConnectedIsTrue
  <2> SUFFICES ASSUME AppTypes, AppInv, Idle
               PROVE  connected <=> client # NoClient /\ link[client] = "up"
    BY DEF ConnectedIsTrue, UncrossedApp
  <2>1. ASSUME client # NoClient PROVE at[Task(client)] \notin {"linking", "undoing"}
    <3>1. client \in Connects BY <2>1 DEF AppTypes
    <3>2. Task(client) \in Coroutines BY <3>1, CoroutineNames
    <3> QED BY <3>2 DEF Idle, InProgress
  <2> QED BY <2>1 DEF AppInv
<1>2. DataOK => AppTypes BY DEF DataOK
<1> QED BY <1>1, <1>2, AlwaysLoopInv, AlwaysAppInv, PTL
-----------------------------------------------------------------------------
(* How far WebBackend.connect's check reaches, whatever requests cross *)

\* Past the check (web_api.py:335), its task not yet created (web_api.py:342).
Entering(r) == at[Handler(r)] \in {"body", "broadcasting"}
OneEntering == \A r, q \in Connects : Entering(r) /\ Entering(q) => r = q

\* The task in progress is the one the backend remembers, and nobody is past the
\* check beside it.
CheckInv ==
  /\ \A r \in Connects : InProgress(Task(r)) => connection_task = r
  /\ \A r, q \in Connects : Entering(r) => ~InProgress(Task(q))

\* The steps of those who neither pass the check nor create a task.
LEMMA SameCheckInv ==
  ASSUME LoopInv, CheckInv, NEW c \in Coroutines, NEW place,
         at' = [at EXCEPT ![c] = place], connection_task' = connection_task,
         \A r \in Connects : c = Task(r) => InProgress(c),
         \A r \in Connects : c = Handler(r) =>
           place \notin {"body", "broadcasting"} \/ Entering(r)
  PROVE  CheckInv'
<1>1. at'[c] = place /\ \A d \in Coroutines : d # c => at'[d] = at[d] BY DEF LoopInv, LoopTypes
<1>2. ASSUME NEW r \in Connects, InProgress(Task(r))' PROVE InProgress(Task(r))
  BY <1>1, <1>2, CoroutineNames DEF InProgress
<1>3. ASSUME NEW r \in Connects, Entering(r)' PROVE Entering(r)
  BY <1>1, <1>3, CoroutineNames DEF Entering
<1> QED BY <1>2, <1>3 DEF CheckInv

LEMMA ConnectCheckInv ==
  ASSUME LoopInv, CheckInv, OneEntering, NEW r \in Connects, Connect(r)
  PROVE  CheckInv'
<1>1. Handler(r) \in Coroutines /\ \A q \in Connects : Handler(r) # Task(q) BY CoroutineNames
<1>2. ASSUME NEW place, Suspend(Handler(r), place), connection_task' = connection_task,
             place \notin {"body", "broadcasting"} \/ Entering(r)
      PROVE  CheckInv'
  <2>1. \A q \in Connects : Handler(r) = Handler(q) => q = r BY CoroutineNames
  <2> QED BY <1>1, <1>2, <2>1, SameCheckInv DEF Suspend
<1>3. ASSUME CreateTask(r), Entering(r) PROVE CheckInv'
  <2>1. /\ connection_task' = r
        /\ at' = [at EXCEPT ![Handler(r)] = "awaiting", ![Task(r)] = "new"]
    BY <1>3 DEF CreateTask
  <2>2. /\ at'[Handler(r)] = "awaiting"
        /\ \A q \in Connects : q # r => /\ at'[Handler(q)] = at[Handler(q)]
                                        /\ at'[Task(q)] = at[Task(q)]
    BY <2>1, CoroutineNames DEF LoopInv, LoopTypes
  <2>3. \A q \in Connects : ~InProgress(Task(q)) BY <1>3 DEF CheckInv
  <2>4. \A q \in Connects : ~Entering(q)' BY <1>3, <2>2 DEF Entering, OneEntering
  <2>5. \A q \in Connects : InProgress(Task(q))' => q = r BY <2>2, <2>3 DEF InProgress
  <2> QED BY <2>1, <2>4, <2>5 DEF CheckInv
<1>4. CASE ConnectStarts(r)
  <2>1. CASE TaskInProgress BY <1>2, <1>4, <2>1 DEF ConnectStarts, webVars
  <2>2. CASE ~TaskInProgress
    <3>1. \A q \in Connects : ~InProgress(Task(q))
      BY <2>2, BackendAssumption DEF CheckInv, TaskInProgress, InProgress, Done, BackendAssumption
    <3>2. at' = [at EXCEPT ![Handler(r)] = "body"] BY <1>4, <2>2 DEF ConnectStarts, Suspend
    <3>3. \A q \in Connects : at'[Task(q)] = at[Task(q)]
      BY <1>1, <3>2, CoroutineNames DEF LoopInv, LoopTypes
    <3>4. \A q \in Connects : ~InProgress(Task(q))' BY <3>1, <3>3 DEF InProgress
    <3> QED BY <3>4 DEF CheckInv
  <2> QED BY <2>1, <2>2
<1>5. CASE ConnectReadsBody(r)
  BY <1>2, <1>3, <1>5 DEF ConnectReadsBody, Resume, Entering
<1>6. CASE ConnectBroadcasts(r)
  BY <1>2, <1>3, <1>6 DEF ConnectBroadcasts, Resume, Entering
<1>7. CASE ConnectReturns(r)
  <2>1. /\ connection_task' = IF connection_task = r THEN NoClient ELSE connection_task
        /\ at' = [at EXCEPT ![Handler(r)] = "done"]
        /\ Runs(Handler(r))
    BY <1>7 DEF ConnectReturns, Suspend, Resume, Runs, Item
  <2>2. ~InProgress(Task(r))
    <3> SUFFICES ASSUME InProgress(Task(r)) PROVE FALSE OBVIOUS
    <3>1. IsAwaiter(Handler(r), r) /\ ~Done(Task(r)) BY DEF LoopInv, TasksOK, InProgress, Done
    <3> QED BY <2>1, <3>1, AwaiterIsSuspended, RunsFirst
  <2>3. /\ at'[Handler(r)] = "done"
        /\ \A q \in Connects : at'[Task(q)] = at[Task(q)]
        /\ \A q \in Connects : q # r => at'[Handler(q)] = at[Handler(q)]
    BY <1>1, <2>1, CoroutineNames DEF LoopInv, LoopTypes
  <2>4. \A q \in Connects : InProgress(Task(q))' => InProgress(Task(q)) /\ q # r
    BY <2>2, <2>3 DEF InProgress
  <2>5. \A q \in Connects : Entering(q)' => Entering(q) BY <2>3 DEF Entering
  <2> QED BY <2>1, <2>4, <2>5 DEF CheckInv
<1> QED BY <1>4, <1>5, <1>6, <1>7 DEF Connect

LEMMA NextCheckInv ==
  LoopInv /\ DataOK /\ CheckInv /\ OneEntering /\ [Next]_vars => CheckInv'
<1> SUFFICES ASSUME LoopInv, DataOK, CheckInv, OneEntering, [Next]_vars PROVE CheckInv' OBVIOUS
<1>1. TypeOK BY TypeOKParts
<1>2. CASE LoopRests
  BY <1>2 DEF LoopRests, CheckInv, Entering, InProgress
<1>3. CASE \E c \in Coroutines : Wakes(c)
  BY <1>3 DEF Wakes, CheckInv, Entering, InProgress
<1>4. ASSUME NEW r \in Requests, Arrives(r) PROVE CheckInv'
  <2>1. /\ Handler(r) \in Coroutines /\ \A q \in Connects : Handler(r) # Task(q)
        /\ at' = [at EXCEPT ![Handler(r)] = "new"] /\ connection_task' = connection_task
    BY <1>4, CoroutineNames DEF Arrives
  <2>2. \A q \in Connects : Handler(r) = Handler(q) =>
          "new" \notin {"body", "broadcasting"} \/ Entering(q)
    OBVIOUS
  <2> QED BY <2>1, <2>2, SameCheckInv
<1>5. ASSUME NEW r \in Connects, TaskMoves(r) \/ Ends(r) PROVE CheckInv'
  <2>1. InProgress(Task(r)) /\ Task(r) \in Coroutines
    BY <1>5, OtherTasksStay, CoroutineNames
  <2>2. connection_task' = connection_task /\ \E place : at' = [at EXCEPT ![Task(r)] = place]
    BY <1>5 DEF TaskMoves, Ends, Suspend, EndTask
  <2>3. \A q \in Connects : Task(r) # Handler(q) BY CoroutineNames
  <2> QED BY <2>1, <2>2, <2>3, SameCheckInv
<1>6. ASSUME NEW h \in Cancellers \cup Disconnects,
             OtherMoves(h) \/ (h \in Cancellers /\ Interrupts(h))
      PROVE  CheckInv'
  BY <1>6, SameCheckInv, CoroutineNames DEF OtherMoves, Interrupts, CancelsTask, Suspend
<1>7. CASE UNCHANGED vars BY <1>2, <1>7 DEF vars, webVars, LoopRests
<1>8. CASE Next
  <2>1. CASE \E r \in Connects : Connect(r) BY <2>1, ConnectCheckInv
  <2> QED BY <1>1, <1>2, <1>3, <1>4, <1>5, <1>6, <1>8, <2>1, KindsOfSteps DEF Next, LoopStep
<1> QED BY <1>7, <1>8

\* Two connection tasks are in progress together only if two connect requests
\* were once past the check of connect together, neither having created its task:
\* whatever is sent, cancelled or lost at any other time, the check suffices.
THEOREM TwoTasksOnlyIfTwoEnter == Spec /\ []OneEntering => []OneConnectTask
<1>1. Init => CheckInv
  <2> SUFFICES ASSUME Init PROVE CheckInv OBVIOUS
  <2>1. \A r \in Connects : at[Task(r)] = "idle" BY CoroutineNames DEF Init
  <2> QED BY <2>1 DEF CheckInv, InProgress
<1>2. CheckInv => OneConnectTask
  <2> SUFFICES ASSUME CheckInv PROVE OneConnectTask OBVIOUS
  <2> DEFINE running == { r \in Connects : InProgress(Task(r)) }
  <2>1. \A r, q \in running : r = q BY DEF CheckInv
  <2>2. CASE running = {}
    <3>1. Cardinality(running) = 0 BY <2>2, FS_EmptySet
    <3> QED BY <3>1 DEF OneConnectTask
  <2>3. ASSUME NEW r \in running PROVE OneConnectTask
    <3>1. running = {r} BY <2>1, <2>3
    <3>2. Cardinality(running) = 1 BY <3>1, FS_Singleton
    <3> QED BY <3>2 DEF OneConnectTask
  <2> QED BY <2>2, <2>3
<1> QED BY <1>1, <1>2, NextCheckInv, AlwaysLoopInv, PTL DEF Spec
=============================================================================
