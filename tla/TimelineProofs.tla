--------------------------- MODULE TimelineProofs ---------------------------
(***************************************************************************)
(* Theorems about Timeline: when a sample is read as taken, when the page  *)
(* shows it, and which frames the PC gives up, for every batch size,       *)
(* interval, delay and modulus, and however long the device has been on.   *)
(* The loops over a frame and over the batch buffers are recursive         *)
(* functions: what they compute is shown by induction over sets of         *)
(* numbers (AllNumbers).                                                   *)
(***************************************************************************)
EXTENDS Timeline, TLAPS, WellFoundedInduction

(* Numbers *)

\* A set of naturals that is not empty has a least element.
LEMMA LeastNumber ==
  ASSUME NEW T \in SUBSET Nat, T # {}
  PROVE  \E x \in T : \A y \in T : x <= y
PROOF
  <1> DEFINE R == {p \in Nat \X Nat : p[1] < p[2]}
  <1>1. IsWellFoundedOn(R, Nat)
    BY NatLessThanWellFounded DEF OpToRel
  <1>2. \A x, y \in Nat : y < x => <<y, x>> \in R
    <2>1. \A x, y \in Nat : <<y, x>> \in Nat \X Nat /\ <<y, x>>[1] = y /\ <<y, x>>[2] = x
      OBVIOUS
    <2> QED
      BY <2>1
  <1> HIDE DEF R
  <1>3. PICK x \in T : \A y \in T : <<y, x>> \notin R
    BY <1>1, WFMin
  <1>4. ASSUME NEW y \in T
        PROVE  x <= y
    <2>1. ~(y < x)
      BY <1>2, <1>3, Zenon
    <2> QED
      BY <2>1
  <1> QED
    BY <1>4

\* Induction, for the members of a set.
LEMMA AllNumbers ==
  ASSUME NEW S, 0 \in S, \A n \in Nat : n \in S => n + 1 \in S
  PROVE  Nat \subseteq S
PROOF
  <1> DEFINE T == Nat \ S
  <1>1. ASSUME T # {}
        PROVE  FALSE
    <2>1. PICK x \in T : \A y \in T : x <= y
      BY <1>1, LeastNumber
    <2>2. x # 0 /\ x - 1 \in Nat
      BY DEF T
    <2>3. x - 1 \in S
      BY <2>1, <2>2
    <2> QED
      BY <2>2, <2>3
  <1> QED
    BY <1>1

\* Quotient and remainder.
LEMMA Division ==
  ASSUME NEW a \in Int, NEW m \in Nat \ {0}
  PROVE  /\ a \div m \in Int /\ a % m \in 0 .. m - 1
         /\ a = (a \div m) * m + (a % m)
PROOF
  OBVIOUS

\* Of a number that is shifted by multiples of the modulus, no more is left than it was.
LEMMA ShiftedRemainder ==
  ASSUME NEW d \in Nat, NEW k \in Int, NEW m \in Nat \ {0}
  PROVE  (d - k * m) % m \in 0 .. d
PROOF
  <1> DEFINE q == (d - k * m) \div m
             r == (d - k * m) % m
  <1>1. k * m \in Int
    OBVIOUS
  <1>2. q \in Int /\ r \in 0 .. m - 1 /\ d - k * m = q * m + r
    BY <1>1, Division
  <1> HIDE DEF q, r
  <1>3. (q + k) * m = q * m + k * m /\ q * m \in Int
    BY <1>2
  <1>4. d = (q + k) * m + r
    BY <1>1, <1>2, <1>3
  <1>5. q + k >= 0
    <2>1. ASSUME q + k <= -1
          PROVE  FALSE
      <3>1. (q + k) * m <= -m
        BY <1>2, <2>1
      <3>2. (q + k) * m \in Int
        BY <1>2
      <3> QED
        BY <1>2, <1>4, <3>1, <3>2
    <2> QED
      BY <1>2, <2>1
  <1>6. (q + k) * m \in Nat
    BY <1>2, <1>5
  <1>7. r <= d
    BY <1>2, <1>4, <1>6
  <1> QED
    BY <1>2, <1>7 DEF r

-----------------------------------------------------------------------------
(* What the definitions of Timeline compute *)

\* The largest batch bounds each.
LEMMA HoldBounds ==
  /\ MaxHold \in Nat
  /\ \A s \in BatchedStreams : MaxBatch[s] * FlushDelay <= MaxHold
PROOF
  <1> DEFINE S == {1} \cup {MaxBatch[s] : s \in BatchedStreams}
             Bounded == {n \in Nat : n <= Len(Batched) =>
                           \E m \in S : 1 <= m /\ \A i \in 1 .. n : MaxBatch[Batched[i]] <= m}
  <1>1. /\ S \subseteq Nat /\ Len(Batched) \in Nat
        /\ \A i \in 1 .. Len(Batched) : Batched[i] \in BatchedStreams
        /\ \A s \in BatchedStreams : \E i \in 1 .. Len(Batched) : s = Batched[i]
        /\ \A s \in BatchedStreams : MaxBatch[s] \in Nat /\ MaxBatch[s] \in S
    BY TimelineAssumption DEF BatchedStreams
  <1>2. 0 \in Bounded
    <2>1. 1 \in S
      OBVIOUS
    <2> QED
      BY <2>1
  <1>3. ASSUME NEW n \in Nat, n \in Bounded
        PROVE  n + 1 \in Bounded
    <2> SUFFICES ASSUME n + 1 <= Len(Batched)
                 PROVE  \E m \in S : 1 <= m /\ \A i \in 1 .. n + 1 : MaxBatch[Batched[i]] <= m
      OBVIOUS
    <2> HIDE DEF S
    <2>1. PICK m \in S : 1 <= m /\ \A i \in 1 .. n : MaxBatch[Batched[i]] <= m
      BY <1>1, <1>3
    <2> DEFINE b == MaxBatch[Batched[n + 1]]
    <2>2. b \in S /\ b \in Nat /\ m \in Nat
      BY <1>1
    <2>3. CASE b <= m
      <3>1. \A i \in 1 .. n + 1 : MaxBatch[Batched[i]] <= m
        BY <2>1, <2>3
      <3> QED
        BY <2>1, <3>1
    <2>4. CASE m < b
      <3>1. \A i \in 1 .. n + 1 : MaxBatch[Batched[i]] <= b
        <4>1. ASSUME NEW i \in 1 .. n
              PROVE  MaxBatch[Batched[i]] <= b
          <5>1. MaxBatch[Batched[i]] <= m /\ MaxBatch[Batched[i]] \in Nat
            BY <1>1, <2>1
          <5> QED
            BY <2>2, <2>4, <5>1
        <4> QED
          BY <2>2, <4>1
      <3>2. 1 <= b
        BY <2>1, <2>2, <2>4
      <3> QED
        BY <2>2, <3>1, <3>2
    <2> QED
      BY <2>2, <2>3, <2>4
  <1>4. Len(Batched) \in Bounded
    <2> HIDE DEF Bounded
    <2> QED
      BY <1>1, <1>2, <1>3, AllNumbers
  <1>5. \E m \in S : \A y \in S : m >= y
    <2>1. PICK m \in S : 1 <= m /\ \A i \in 1 .. Len(Batched) : MaxBatch[Batched[i]] <= m
      BY <1>1, <1>4
    <2>2. ASSUME NEW y \in S
          PROVE  m >= y
      BY <1>1, <2>1
    <2> QED
      BY <2>2
  <1> HIDE DEF S
  <1>6. Max(S) \in S /\ \A y \in S : Max(S) >= y
    BY <1>5 DEF Max
  <1>7. MaxHold = FlushDelay * Max(S) /\ FlushDelay \in Nat
    BY TimelineAssumption DEF MaxHold, S
  <1>8. ASSUME NEW s \in BatchedStreams
        PROVE  MaxBatch[s] * FlushDelay <= MaxHold
    <2>1. Max(S) \in Nat /\ MaxBatch[s] \in Nat /\ MaxBatch[s] <= Max(S)
      BY <1>1, <1>6
    <2> HIDE DEF S
    <2> QED
      BY <1>7, <2>1
  <1>9. MaxHold \in Nat
    <2>1. Max(S) \in Nat
      BY <1>1, <1>6
    <2> QED
      BY <1>7, <2>1
  <1> QED
    BY <1>8, <1>9

\* What is flushed is sent: frames of buffers that held something, and no other.
LEMMA FramesAreOfBuffers ==
  ASSUME NEW buffers, NEW flushed
  PROVE  FramesOf(buffers, flushed) \in
           Seq({FrameOf(buffers[s]) : s \in {x \in flushed \cap BatchedStreams : buffers[x] # <<>>}})
PROOF
  <1> DEFINE Frames == {FrameOf(buffers[s]) : s \in {x \in flushed \cap BatchedStreams : buffers[x] # <<>>}}
             n == Len(Batched)
             Holds(i) == Batched[i] \in flushed /\ buffers[Batched[i]] # <<>>
             Step(before, i) ==
               IF Holds(i) THEN Append(before, FrameOf(buffers[Batched[i]])) ELSE before
  <1>1. n \in Nat /\ \A i \in 1 .. n : Batched[i] \in BatchedStreams
    BY TimelineAssumption
  <1>2. PICK frames : /\ frames = [i \in 0 .. n |->
                           IF i = 0 THEN <<>> ELSE Step(frames[i - 1], i)]
                      /\ FramesOf(buffers, flushed) = frames[n]
    <2> DEFINE chosen == CHOOSE frames :
                      frames = [i \in 0 .. n |-> IF i = 0 THEN <<>> ELSE Step(frames[i - 1], i)]
    <2>0. FramesOf(buffers, flushed) = chosen[n]
      BY DEF FramesOf
    <2> HIDE DEF Step, n
    <2>1. \E frames : frames = [i \in 0 .. n |-> IF i = 0 THEN <<>> ELSE Step(frames[i - 1], i)]
      <3> DEFINE S == {m \in Nat : \E frames :
                         frames = [i \in 0 .. m |-> IF i = 0 THEN <<>> ELSE Step(frames[i - 1], i)]}
      <3>1. 0 \in S
        <4> DEFINE g == [i \in 0 .. 0 |-> <<>>]
        <4>1. g = [i \in 0 .. 0 |-> IF i = 0 THEN <<>> ELSE Step(g[i - 1], i)]
          OBVIOUS
        <4> HIDE DEF g
        <4> QED
          BY <4>1
      <3>2. ASSUME NEW m \in Nat, m \in S
            PROVE  m + 1 \in S
        <4>1. PICK f : f = [i \in 0 .. m |-> IF i = 0 THEN <<>> ELSE Step(f[i - 1], i)]
          BY <3>2
        <4> DEFINE g == [i \in 0 .. m + 1 |-> IF i <= m THEN f[i] ELSE Step(f[m], m + 1)]
        <4>2. ASSUME NEW i \in 0 .. m + 1
              PROVE  g[i] = IF i = 0 THEN <<>> ELSE Step(g[i - 1], i)
          BY <4>1
        <4>3. g = [i \in 0 .. m + 1 |-> IF i = 0 THEN <<>> ELSE Step(g[i - 1], i)]
          BY <4>2
        <4> HIDE DEF g
        <4> QED
          BY <4>3
      <3> HIDE DEF S
      <3>3. n \in S
        BY <1>1, <3>1, <3>2, AllNumbers
      <3> QED
        BY <3>3 DEF S
    <2>2. chosen = [i \in 0 .. n |-> IF i = 0 THEN <<>> ELSE Step(chosen[i - 1], i)]
      BY <2>1, Zenon
    <2> HIDE DEF chosen
    <2> QED
      BY <2>0, <2>2
  <1>3. ASSUME NEW i \in 1 .. n, Holds(i)
        PROVE  FrameOf(buffers[Batched[i]]) \in Frames
    BY <1>1, <1>3
  <1> DEFINE S == {i \in Nat : i <= n => frames[i] \in Seq(Frames)}
  <1> HIDE DEF Frames, Holds, n
  <1>4. 0 \in S
    BY <1>1, <1>2
  <1>5. ASSUME NEW i \in Nat, i \in S
        PROVE  i + 1 \in S
    <2> SUFFICES ASSUME i + 1 <= n
                 PROVE  frames[i + 1] \in Seq(Frames)
      OBVIOUS
    <2>1. frames[i] \in Seq(Frames)
      BY <1>1, <1>5
    <2>2. frames[i + 1] = Step(frames[i], i + 1)
      <3> HIDE DEF Step
      <3> QED
        BY <1>1, <1>2
    <2> QED
      BY <1>1, <1>3, <2>1, <2>2
  <1>6. n \in S
    <2> HIDE DEF S
    <2> QED
      BY <1>1, <1>4, <1>5, AllNumbers
  <1> QED
    BY <1>1, <1>2, <1>6 DEF Frames

\* When the i-th sample of a frame is read as taken.
LEMMA ReadTimes ==
  ASSUME NEW frame, frame.timestamp \in Int
  PROVE  /\ ReadTime(frame, 1) = frame.timestamp
         /\ \A i \in Nat : ReadTime(frame, i) \in Int
         /\ \A i \in Nat : ReadTime(frame, i) <= ReadTime(frame, i + 1)
PROOF
  <1> DEFINE ts == frame.timestamp
  <1>1. SampleInterval \in Nat /\ ts \in Int
    BY TimelineAssumption
  <1>2. \A i \in Nat : ReadTime(frame, i) = ts + (i - 1) * SampleInterval
    BY DEF ReadTime
  <1>3. ReadTime(frame, 1) = ts + (1 - 1) * SampleInterval
    BY DEF ReadTime
  <1> HIDE DEF ts
  <1>4. ASSUME NEW i \in Nat
        PROVE  /\ (i - 1) * SampleInterval \in Int
               /\ ((i + 1) - 1) * SampleInterval = (i - 1) * SampleInterval + SampleInterval
    BY <1>1
  <1>5. ASSUME NEW i \in Nat
        PROVE  ReadTime(frame, i) \in Int /\ ReadTime(frame, i) <= ReadTime(frame, i + 1)
    <2>1. ReadTime(frame, i + 1) = ts + ((i + 1) - 1) * SampleInterval
      BY <1>2
    <2> QED
      BY <1>1, <1>2, <1>4, <2>1
  <1> QED
    BY <1>1, <1>3, <1>5 DEF ts

\* What a frame leaves and shows: its first sample may take a new offset, and the others,
\* never older than the one before, keep it.
LEMMA FrameIsShown ==
  ASSUME NEW frame, frame.timestamp \in Int, Len(frame.taken) \in Nat \ {0}, now \in Int,
         last \in Int \cup {None}, offset \in Int \cup {None}, (offset = None) = (last = None)
  PROVE  LET anew == Older(last, frame.timestamp) \/ offset = None
             off  == IF anew THEN now - frame.timestamp ELSE offset
             anch == IF anew THEN Wraps(Head(frame.taken)) ELSE anchor
             pc   == AfterFrame(frame)
         IN  /\ pc.offset = off /\ pc.anchor = anch
             /\ pc.last = ReadTime(frame, Len(frame.taken))
             /\ pc.shown = [i \in 1 .. Len(frame.taken) |->
                  [taken |-> frame.taken[i], read |-> ReadTime(frame, i),
                   plot |-> ReadTime(frame, i) + off, place |-> i,
                   wraps |-> Wraps(Head(frame.taken)), anchor |-> anch]]
PROOF
  <1> DEFINE anew == Older(last, frame.timestamp) \/ offset = None
             off  == IF anew THEN now - frame.timestamp ELSE offset
             anch == IF anew THEN Wraps(Head(frame.taken)) ELSE anchor
             before == [offset |-> offset, last |-> last, anchor |-> anchor, shown |-> <<>>]
             n == Len(frame.taken)
             line(i) == [taken |-> frame.taken[i], read |-> ReadTime(frame, i),
                         plot |-> ReadTime(frame, i) + off, place |-> i,
                         wraps |-> Wraps(Head(frame.taken)), anchor |-> anch]
             lines(m) == [i \in 1 .. m |-> line(i)]
             is(p, m) == /\ p.offset = off /\ p.anchor = anch
                         /\ p.last = ReadTime(frame, m)
                         /\ p.shown = lines(m)
  <1>1. n \in Nat /\ None \notin Int
    BY TimelineAssumption
  <1>2. PICK pc : /\ pc = [i \in 0 .. n |-> IF i = 0 THEN before ELSE Show(pc[i - 1], frame, i)]
                  /\ AfterFrame(frame) = pc[n]
    <2> DEFINE chosen == CHOOSE pc :
                      pc = [i \in 0 .. n |-> IF i = 0 THEN before ELSE Show(pc[i - 1], frame, i)]
    <2>0. AfterFrame(frame) = chosen[n]
      BY DEF AfterFrame
    <2> HIDE DEF before, n
    <2>1. \E pc : pc = [i \in 0 .. n |-> IF i = 0 THEN before ELSE Show(pc[i - 1], frame, i)]
      <3> DEFINE S == {m \in Nat : \E pc :
                         pc = [i \in 0 .. m |-> IF i = 0 THEN before ELSE Show(pc[i - 1], frame, i)]}
      <3>1. 0 \in S
        <4> DEFINE g == [i \in 0 .. 0 |-> before]
        <4>1. g = [i \in 0 .. 0 |-> IF i = 0 THEN before ELSE Show(g[i - 1], frame, i)]
          OBVIOUS
        <4> HIDE DEF g
        <4> QED
          BY <4>1
      <3>2. ASSUME NEW m \in Nat, m \in S
            PROVE  m + 1 \in S
        <4>1. PICK f : f = [i \in 0 .. m |-> IF i = 0 THEN before ELSE Show(f[i - 1], frame, i)]
          BY <3>2
        <4> DEFINE g == [i \in 0 .. m + 1 |-> IF i <= m THEN f[i] ELSE Show(f[m], frame, m + 1)]
        <4>2. ASSUME NEW i \in 0 .. m + 1
              PROVE  g[i] = IF i = 0 THEN before ELSE Show(g[i - 1], frame, i)
          <5>1. CASE i <= m
            BY <4>1, <5>1
          <5>2. CASE i = m + 1
            BY <5>2
          <5> QED
            BY <5>1, <5>2
        <4>3. g = [i \in 0 .. m + 1 |-> IF i = 0 THEN before ELSE Show(g[i - 1], frame, i)]
          BY <4>2
        <4> HIDE DEF g
        <4> QED
          BY <4>3
      <3> HIDE DEF S
      <3>3. n \in S
        BY <1>1, <3>1, <3>2, AllNumbers
      <3> QED
        BY <3>3 DEF S
    <2>2. chosen = [i \in 0 .. n |-> IF i = 0 THEN before ELSE Show(chosen[i - 1], frame, i)]
      BY <2>1, Zenon
    <2> HIDE DEF chosen
    <2> QED
      BY <2>0, <2>2
  <1> DEFINE S == {m \in Nat : m + 1 <= n => is(pc[m + 1], m + 1)}
  <1>3. 0 \in S
    <2>1. pc[0] = before /\ pc[1] = Show(before, frame, 1)
      <3> HIDE DEF before
      <3>1. 0 \in 0 .. n /\ 1 \in 0 .. n
        OBVIOUS
      <3> HIDE DEF n
      <3> QED
        BY <1>2, <3>1
    <2>2. is(Show(before, frame, 1), 1)
      <3>1. ReadTime(frame, 1) = frame.timestamp
        BY ReadTimes
      <3>2. Append(<<>>, line(1)) = lines(1)
        <4> HIDE DEF line
        <4> QED
          OBVIOUS
      <3>3. Show(before, frame, 1) =
              [offset |-> off, last |-> frame.timestamp, anchor |-> anch,
               shown |-> Append(<<>>, line(1))]
        BY <3>1 DEF Show
      <3> HIDE DEF line, lines, off, anch
      <3> QED
        BY <3>1, <3>2, <3>3
    <2> HIDE DEF is, n
    <2> QED
      BY <2>1, <2>2
  <1>4. ASSUME NEW m \in Nat, m \in S
        PROVE  m + 1 \in S
    <2> SUFFICES ASSUME m + 2 <= n
                 PROVE  is(pc[m + 2], m + 2)
      OBVIOUS
    <2> DEFINE k == m + 1
    <2>1. k \in Nat /\ k >= 1 /\ k + 1 = m + 2 /\ is(pc[k], k)
      BY <1>1, <1>4
    <2>2. pc[k + 1] = Show(pc[k], frame, k + 1)
      <3>1. k + 1 \in 0 .. n /\ k + 1 # 0 /\ (k + 1) - 1 = k
        BY <1>1, <2>1
      <3> HIDE DEF before, n, k
      <3> QED
        BY <1>2, <3>1
    <2>3. ~(Older(pc[k].last, ReadTime(frame, k + 1)) \/ pc[k].offset = None)
      <3>1. ReadTime(frame, k) <= ReadTime(frame, k + 1) /\ ReadTime(frame, k) \in Int
            /\ ReadTime(frame, k + 1) \in Int
        BY <2>1, ReadTimes
      <3>2. off \in Int
        <4>1. frame.timestamp \in Int
          OBVIOUS
        <4> QED
          BY <4>1
      <3>3. pc[k].last = ReadTime(frame, k) /\ pc[k].offset = off
        BY <2>1
      <3> HIDE DEF off
      <3> QED
        BY <1>1, <3>1, <3>2, <3>3 DEF Older
    <2> HIDE DEF k
    <2>4. is(Show(pc[k], frame, k + 1), k + 1)
      <3>1. pc[k].shown = lines(k) /\ pc[k].offset = off /\ pc[k].anchor = anch
        BY <2>1
      <3>2. Append(lines(k), line(k + 1)) = lines(k + 1)
        <4> HIDE DEF line
        <4> QED
          BY <2>1
      <3>3. Show(pc[k], frame, k + 1) =
              [offset |-> off, last |-> ReadTime(frame, k + 1), anchor |-> anch,
               shown |-> Append(pc[k].shown, line(k + 1))]
        BY <2>3, <3>1 DEF Show
      <3> HIDE DEF line, lines, off, anch
      <3> QED
        BY <3>1, <3>2, <3>3
    <2> QED
      BY <2>1, <2>2, <2>4
  <1>5. is(pc[n], n)
    <2>1. n - 1 \in Nat /\ n = (n - 1) + 1
      OBVIOUS
    <2>2. n - 1 \in S
      <3> HIDE DEF S
      <3> QED
        BY <2>1, <1>3, <1>4, AllNumbers
    <2>3. is(pc[(n - 1) + 1], (n - 1) + 1)
      <3> HIDE DEF is, n
      <3> QED
        BY <2>1, <2>2
    <2> HIDE DEF is, n
    <2> QED
      BY <2>1, <2>3
  <1> QED
    BY <1>2, <1>5

-----------------------------------------------------------------------------
(* The times in a buffer and in a frame *)

\* The readings of a batch are at least a sample interval apart, and at most a flush delay.
Spaced(taken) ==
  /\ \A i \in DOMAIN taken :
       taken[i] - taken[1] \in (i - 1) * SampleInterval .. (i - 1) * FlushDelay
  /\ \A i \in DOMAIN taken : taken[i] <= Last(taken)

\* The intervals as numbers.
LEMMA ConstantTypes ==
  /\ SampleInterval \in Nat /\ SingleInterval \in Nat /\ FlushDelay \in Nat
  /\ SampleInterval < FlushDelay /\ SampleInterval > 0 /\ SingleInterval > 0
  /\ TimeModulus \in Nat \ {0} /\ MaxDelay \in Nat /\ Horizon \in Nat /\ Horizon < TimeModulus
  /\ \A b \in Boots \cup Times : b \in Int /\ b <= Horizon
  /\ \A n \in Int : n # None
  /\ \A s \in BatchedStreams : MaxBatch[s] \in Nat \ {0}
PROOF
  BY TimelineAssumption DEF Times

\* Products.
LEMMA Products ==
  ASSUME NEW k \in Nat, NEW a \in Nat, NEW b \in Nat
  PROVE  k * a \in Nat /\ k * b \in Nat /\ k * (b - a) = k * b - k * a
PROOF
  OBVIOUS

\* A sequence over a set is one over a larger set.
LEMMA SeqOfMore ==
  ASSUME NEW S, NEW T, S \subseteq T
  PROVE  Seq(S) \subseteq Seq(T)
PROOF
  OBVIOUS

\* A product with one less.
LEMMA OneLess ==
  ASSUME NEW n \in Nat \ {0}, NEW a \in Nat
  PROVE  (n - 1) * a \in Nat /\ n * a \in Nat /\ n * a = (n - 1) * a + a
PROOF
  OBVIOUS

\* A sequence that is not empty.
LEMMA NotEmpty ==
  ASSUME NEW S, NEW s \in Seq(S), s # <<>>
  PROVE  /\ Len(s) \in Nat \ {0} /\ DOMAIN s = 1 .. Len(s)
         /\ s[1] \in S /\ Head(s) = s[1] /\ s[Len(s)] \in S /\ Last(s) = s[Len(s)]
PROOF
  BY DEF Last

\* A buffer of no or one reading.
LEMMA FewAreSpaced ==
  /\ Spaced(<<>>)
  /\ \A t \in Int : Spaced(<<t>>)
PROOF
  BY ConstantTypes DEF Spaced, Last

\* One more reading, taken before the flush.
LEMMA AppendIsSpaced ==
  ASSUME NEW taken \in Seq(Int), Spaced(taken), NEW t \in Int,
         taken # <<>> => t - Last(taken) \in SampleInterval .. FlushDelay
  PROVE  Spaced(Append(taken, t))
PROOF
  <1> DEFINE n == Len(taken)
             more == Append(taken, t)
  <1>1. CASE taken = <<>>
    <2>1. more = <<t>>
      BY <1>1
    <2> QED
      BY <2>1, FewAreSpaced
  <1>2. CASE taken # <<>>
    <2>1. /\ n \in Nat \ {0} /\ DOMAIN taken = 1 .. n /\ taken[n] \in Int /\ Last(taken) = taken[n]
          /\ DOMAIN more = 1 .. n + 1 /\ Len(more) = n + 1 /\ more[n + 1] = t
          /\ \A i \in 1 .. n : more[i] = taken[i] /\ taken[i] \in Int
          /\ more[1] = taken[1] /\ taken[1] \in Int
      BY <1>2 DEF Last
    <2>2. t - taken[n] >= SampleInterval /\ t - taken[n] <= FlushDelay
      BY <1>2, <2>1, ConstantTypes
    <2>3. taken[n] - taken[1] \in (n - 1) * SampleInterval .. (n - 1) * FlushDelay
      BY <2>1 DEF Spaced
    <2>4. /\ ((n + 1) - 1) * SampleInterval = (n - 1) * SampleInterval + SampleInterval
          /\ ((n + 1) - 1) * FlushDelay = (n - 1) * FlushDelay + FlushDelay
          /\ (n - 1) * SampleInterval \in Int /\ (n - 1) * FlushDelay \in Int
      BY <2>1, ConstantTypes
    <2> HIDE DEF n, more
    <2>5. t - taken[1] \in ((n + 1) - 1) * SampleInterval .. ((n + 1) - 1) * FlushDelay
      <3> DEFINE x == (n - 1) * SampleInterval
                 y == (n - 1) * FlushDelay
      <3>1. taken[n] - taken[1] >= x /\ taken[n] - taken[1] <= y
        BY <2>1, <2>3, <2>4
      <3>2. x \in Int /\ y \in Int /\ ((n + 1) - 1) * SampleInterval = x + SampleInterval
            /\ ((n + 1) - 1) * FlushDelay = y + FlushDelay
        BY <2>4
      <3> HIDE DEF x, y
      <3>3. t - taken[1] >= x + SampleInterval /\ t - taken[1] <= y + FlushDelay
        BY <2>1, <2>2, <3>1, <3>2, ConstantTypes
      <3>4. t - taken[1] \in x + SampleInterval .. y + FlushDelay
        BY <2>1, <3>2, <3>3, ConstantTypes
      <3> QED
        BY <3>2, <3>4
    <2>6. ASSUME NEW i \in 1 .. n + 1
          PROVE  /\ more[i] - more[1] \in (i - 1) * SampleInterval .. (i - 1) * FlushDelay
                 /\ more[i] <= more[n + 1]
      <3>1. CASE i = n + 1
        BY <2>1, <2>5, <3>1
      <3>2. CASE i \in 1 .. n
        <4>1. taken[i] - taken[1] \in (i - 1) * SampleInterval .. (i - 1) * FlushDelay
              /\ taken[i] <= taken[n]
          BY <2>1, <3>2 DEF Spaced
        <4>2. taken[i] \in Int /\ taken[n] \in Int
          BY <2>1, <3>2
        <4> QED
          BY <2>1, <2>2, <3>2, <4>1, <4>2, ConstantTypes
      <3> QED
        BY <2>1, <3>1, <3>2
    <2> QED
      BY <2>1, <2>6 DEF Spaced, Last, more
  <1> QED
    BY <1>1, <1>2

\* The uptime at a time, and how often it had wrapped.
LEMMA UptimeIs ==
  ASSUME boot \in Int, NEW t \in Int
  PROVE  /\ Uptime(t) \in 0 .. TimeModulus - 1 /\ Wraps(t) \in Int
         /\ Wraps(t) * TimeModulus \in Int
         /\ Uptime(t) = (t - boot) - Wraps(t) * TimeModulus
PROOF
  <1>1. t - boot \in Int
    OBVIOUS
  <1>2. /\ Wraps(t) \in Int /\ Uptime(t) \in 0 .. TimeModulus - 1
        /\ t - boot = Wraps(t) * TimeModulus + Uptime(t)
    BY <1>1, ConstantTypes, Division DEF Uptime, Wraps
  <1>3. Wraps(t) * TimeModulus \in Int
    BY <1>2, ConstantTypes
  <1> QED
    BY <1>2, <1>3, ConstantTypes

\* A frame as the device builds it: of readings well spaced, with the uptime of the first,
\* sent before the first has waited for a full batch.
GoodFrame(frame) ==
  /\ frame.taken # <<>> /\ Spaced(frame.taken)
  /\ frame.timestamp = Uptime(Head(frame.taken))
  /\ frame.sent - frame.taken[1] \in 0 .. MaxHold

FramesSent ==
  {frame \in [timestamp : Int, taken : Seq(Times), sent : Times] : GoodFrame(frame)}

\* What a buffer that is flushed now becomes.
LEMMA BuiltFrame ==
  ASSUME boot \in Int, now \in Times, NEW taken \in Seq(0 .. now), taken # <<>>, Spaced(taken),
         now - taken[1] <= MaxHold
  PROVE  FrameOf(taken) \in FramesSent /\ FrameOf(taken).sent = now
PROOF
  <1>1. taken[1] \in 0 .. now /\ Head(taken) = taken[1]
    BY NotEmpty
  <1>2. now \in Nat /\ 0 .. now \subseteq Times
    BY ConstantTypes DEF Times
  <1>3. taken \in Seq(Times)
    BY <1>2
  <1>4. Uptime(Head(taken)) \in Int
    <2>1. Uptime(taken[1]) \in 0 .. TimeModulus - 1
      <3>1. taken[1] \in Int
        BY <1>1, <1>2
      <3> QED
        BY <3>1, UptimeIs
    <2> QED
      BY <1>1, <2>1, ConstantTypes
  <1>5. now - taken[1] \in 0 .. MaxHold
    BY <1>1, <1>2, HoldBounds
  <1> QED
    BY <1>3, <1>4, <1>5 DEF FrameOf, FramesSent, GoodFrame

\* When the samples of a frame are read as taken.
LEMMA FrameTimes ==
  ASSUME boot \in Int, NEW frame \in FramesSent
  PROVE  /\ frame.timestamp \in 0 .. TimeModulus - 1 /\ frame.sent \in Int
         /\ Len(frame.taken) \in Nat \ {0} /\ DOMAIN frame.taken = 1 .. Len(frame.taken)
         /\ Head(frame.taken) = frame.taken[1] /\ frame.taken[1] \in Times
         /\ frame.sent - frame.taken[1] \in 0 .. MaxHold
         /\ \A i \in DOMAIN frame.taken :
              /\ frame.taken[i] \in Times /\ (i - 1) * SampleInterval \in Nat
              /\ frame.taken[i] <= Last(frame.taken)
              /\ frame.taken[i] - (frame.taken[1] + (i - 1) * SampleInterval)
                   \in 0 .. (i - 1) * (FlushDelay - SampleInterval)
              /\ ReadTime(frame, i) = (frame.taken[1] - boot)
                   - Wraps(frame.taken[1]) * TimeModulus + (i - 1) * SampleInterval
PROOF
  <1> DEFINE t1 == frame.taken[1]
             wrapped == Wraps(frame.taken[1]) * TimeModulus
  <1>1. /\ frame.taken \in Seq(Times) /\ frame.taken # <<>> /\ frame.sent \in Int
        /\ Spaced(frame.taken) /\ frame.timestamp = Uptime(Head(frame.taken))
        /\ frame.sent - frame.taken[1] \in 0 .. MaxHold
    BY ConstantTypes DEF FramesSent, GoodFrame, Times
  <1>2. /\ Len(frame.taken) \in Nat \ {0} /\ DOMAIN frame.taken = 1 .. Len(frame.taken)
        /\ Head(frame.taken) = t1 /\ t1 \in Times
        /\ \A i \in DOMAIN frame.taken : frame.taken[i] \in Times
    BY <1>1
  <1>3. /\ frame.timestamp \in 0 .. TimeModulus - 1 /\ wrapped \in Int
        /\ frame.timestamp = (t1 - boot) - wrapped
    BY <1>1, <1>2, UptimeIs, ConstantTypes
  <1>4. ASSUME NEW i \in DOMAIN frame.taken
        PROVE  /\ (i - 1) * SampleInterval \in Nat
               /\ frame.taken[i] <= Last(frame.taken)
               /\ frame.taken[i] - (t1 + (i - 1) * SampleInterval)
                    \in 0 .. (i - 1) * (FlushDelay - SampleInterval)
               /\ ReadTime(frame, i) = (t1 - boot) - wrapped + (i - 1) * SampleInterval
    <2> DEFINE x == (i - 1) * SampleInterval
               y == (i - 1) * FlushDelay
    <2>1. /\ x \in Nat /\ y \in Nat /\ (i - 1) * (FlushDelay - SampleInterval) = y - x
      <3>1. i - 1 \in Nat
        BY <1>2
      <3> QED
        BY <3>1, Products, ConstantTypes
    <2>2. frame.taken[i] - t1 \in x .. y /\ frame.taken[i] <= Last(frame.taken)
      BY <1>1 DEF Spaced
    <2>3. ReadTime(frame, i) = frame.timestamp + x
      BY DEF ReadTime
    <2>4. frame.taken[i] \in Int /\ t1 \in Int
      BY <1>2, ConstantTypes
    <2> HIDE DEF x, y, t1, wrapped
    <2>5. frame.taken[i] - (t1 + x) \in 0 .. y - x
      BY <2>1, <2>2, <2>4
    <2> QED
      BY <1>3, <2>1, <2>2, <2>3, <2>5 DEF x
  <1> QED
    BY <1>1, <1>2, <1>3, <1>4

-----------------------------------------------------------------------------
(* The invariant *)

ClockInv ==
  /\ now \in Times /\ boot \in Boots \cup Times /\ boot <= now
  /\ connected \in BOOLEAN /\ losses \in 0..MaxLosses /\ starts \in 0..MaxStarts

\* A stream that holds readings has a flush due, before the last has waited for longer than
\* the flush delay, and the next reading comes an interval after the last at the earliest.
Waits(s) ==
  /\ due["lsm6dsl"] # None /\ Last(held[s]) + SampleInterval <= due["lsm6dsl"]
  /\ due["flush"] # None /\ due["flush"] <= Last(held[s]) + FlushDelay

DeviceInv ==
  /\ due \in [Works -> (now..now + FlushDelay + SampleInterval + SingleInterval) \cup {None}]
  /\ \A s \in BatchedStreams :
       /\ held[s] \in Seq(0..now) /\ Len(held[s]) < MaxBatch[s] /\ Spaced(held[s])
       /\ held[s] # <<>> => Waits(s)
  /\ ~connected => \A w \in Works : due[w] = None

AirInv ==
  /\ air \in Seq(FramesSent)
  /\ \A i, j \in DOMAIN air : i <= j => air[i].sent <= air[j].sent
  /\ \A i \in DOMAIN air : air[i].sent <= now /\ now <= air[i].sent + MaxDelay
  /\ ~connected => air = <<>>

\* The offset is the one of a frame built in the wrap `anchor`, but for its delay, and the
\* last timestamp, placed in that wrap, is of no moment before the time began.
PageInv ==
  /\ last \in (0..TimeModulus - 1) \cup {None} /\ offset \in Int \cup {None}
  /\ (offset = None) = (last = None)
  /\ ~connected => last = None
  /\ anchor \in Int
  /\ offset # None =>
       /\ last + boot + anchor * TimeModulus >= 0
       /\ offset - boot - anchor * TimeModulus \in 0..MaxHold + MaxDelay

TimelineInv == ClockInv /\ DeviceInv /\ AirInv /\ PageInv

\* The invariant gives the types.
LEMMA InvTypes == TimelineInv => TypeOK
PROOF
  <1> SUFFICES ASSUME TimelineInv
               PROVE  TypeOK
    OBVIOUS
  <1>1. boot \in Int /\ now \in Int
    BY ConstantTypes DEF TimelineInv, ClockInv
  <1>2. ASSUME NEW f \in ToSet(air)
        PROVE  f.timestamp \in 0..TimeModulus - 1 /\ now - f.sent \in 0..MaxDelay
    <2>1. PICK i \in DOMAIN air : f = air[i]
      BY DEF ToSet
    <2>2. f \in FramesSent /\ f.sent <= now /\ now <= f.sent + MaxDelay
      BY <2>1 DEF TimelineInv, AirInv
    <2>3. f.timestamp \in 0..TimeModulus - 1 /\ f.sent \in Int
      BY <1>1, <2>2, FrameTimes
    <2> QED
      BY <1>1, <2>2, <2>3, ConstantTypes
  <1>3. ~connected => air = <<>> /\ last = None
    BY DEF TimelineInv, AirInv, PageInv
  <1> QED
    BY <1>2, <1>3 DEF TimelineInv, ClockInv, DeviceInv, PageInv, TypeOK

\* The numbers of a state.
LEMMA StateTypes ==
  ASSUME TimelineInv
  PROVE  /\ now \in Nat /\ boot \in Int /\ now <= Horizon /\ now # None
         /\ 0 .. now \subseteq Times
         /\ \A w \in Works : due[w] # None => due[w] \in Int /\ due[w] >= now /\ connected
         /\ \A s \in BatchedStreams : held[s] # <<>> =>
              /\ Last(held[s]) \in 0 .. now /\ connected
              /\ due["lsm6dsl"] \in Int /\ due["lsm6dsl"] >= Last(held[s]) + SampleInterval
              /\ now - Last(held[s]) \in 0 .. FlushDelay
PROOF
  <1>1. /\ now \in Nat /\ boot \in Int /\ now <= Horizon /\ now # None
        /\ 0 .. now \subseteq Times
    BY ConstantTypes DEF TimelineInv, ClockInv, Times
  <1>2. ASSUME NEW w \in Works, due[w] # None
        PROVE  due[w] \in Int /\ due[w] >= now /\ connected
    <2>1. due[w] \in now..now + FlushDelay + SampleInterval + SingleInterval /\ connected
      BY <1>2 DEF TimelineInv, DeviceInv
    <2> QED
      BY <1>1, <2>1, ConstantTypes
  <1>3. ASSUME NEW s \in BatchedStreams, held[s] # <<>>
        PROVE  /\ Last(held[s]) \in 0 .. now /\ connected
               /\ due["lsm6dsl"] \in Int /\ due["lsm6dsl"] >= Last(held[s]) + SampleInterval
               /\ now - Last(held[s]) \in 0 .. FlushDelay
    <2>1. held[s] \in Seq(0 .. now) /\ Waits(s)
      BY <1>3 DEF TimelineInv, DeviceInv
    <2>2. Last(held[s]) \in 0 .. now
      BY <1>3, <2>1, NotEmpty
    <2>3. "lsm6dsl" \in Works /\ "flush" \in Works
      BY DEF Works
    <2>4. /\ due["lsm6dsl"] \in Int /\ due["lsm6dsl"] >= Last(held[s]) + SampleInterval
          /\ due["flush"] \in Int /\ due["flush"] >= now /\ connected
          /\ due["flush"] <= Last(held[s]) + FlushDelay
      BY <1>1, <1>2, <2>1, <2>2, <2>3, ConstantTypes DEF Waits
    <2>5. now - Last(held[s]) \in 0 .. FlushDelay
      BY <1>1, <2>2, <2>4, ConstantTypes
    <2> QED
      BY <2>2, <2>4, <2>5
  <1> QED
    BY <1>1, <1>2, <1>3

\* The initial states satisfy it.
LEMMA InvAtStart == Init => TimelineInv
PROOF
  <1> SUFFICES ASSUME Init
               PROVE  TimelineInv
    OBVIOUS
  <1>1. ClockInv
    <2>1. Horizon \in Nat /\ MaxLosses \in Nat /\ MaxStarts \in Nat /\ \A b \in Boots : b <= 0
      BY TimelineAssumption
    <2>2. /\ now = 0 /\ boot \in Boots /\ connected = FALSE /\ losses = 0 /\ starts = 0
      BY DEF Init
    <2>3. now \in Times /\ losses \in 0..MaxLosses /\ starts \in 0..MaxStarts
      BY <2>1, <2>2 DEF Times
    <2> QED
      BY <2>1, <2>2, <2>3, Zenon DEF ClockInv
  <1>2. DeviceInv
    BY ConstantTypes, FewAreSpaced DEF Init, DeviceInv
  <1>3. AirInv
    BY DEF Init, AirInv
  <1>4. PageInv
    BY ConstantTypes DEF Init, PageInv
  <1> QED
    BY <1>1, <1>2, <1>3, <1>4 DEF TimelineInv

-----------------------------------------------------------------------------
(* What the steps of the device do to it *)

\* A frame depends on the time the device was switched on, and on nothing else that changes.
LEMMA SameFrames == boot' = boot => FramesSent' = FramesSent
PROOF
  BY DEF FramesSent, GoodFrame, Uptime

\* Sending frames of this moment keeps the air in the order of the sending.
LEMMA SendingKeepsAir ==
  ASSUME TimelineInv, connected,
         NEW frames \in Seq({f \in FramesSent : f.sent = now}), Notify(frames),
         now' = now, boot' = boot, connected' = connected
  PROVE  AirInv'
PROOF
  <1> DEFINE m == Len(air)
             n == Len(frames)
  <1>1. now \in Nat /\ boot \in Int
    BY StateTypes
  <1>2. /\ air \in Seq(FramesSent) /\ frames \in Seq(FramesSent) /\ air' = air \o frames
        /\ m \in Nat /\ n \in Nat /\ DOMAIN air = 1 .. m
        /\ \A i \in 1 .. n : frames[i] \in FramesSent /\ frames[i].sent = now
    BY DEF TimelineInv, AirInv, Notify
  <1>3. air' \in Seq(FramesSent')
    BY <1>2, SameFrames
  <1>4. DOMAIN air' = 1 .. m + n
    BY <1>2
  <1>5. ASSUME NEW i \in 1 .. m + n
        PROVE  \/ i <= m /\ air'[i] = air[i] /\ air[i].sent \in Int /\ air[i].sent <= now
                  /\ now <= air[i].sent + MaxDelay
               \/ i > m /\ air'[i].sent = now
    <2>1. CASE i <= m
      <3>1. air'[i] = air[i] /\ air[i] \in FramesSent
        BY <1>2, <2>1
      <3>2. air[i].sent \in Int
        BY <1>1, <3>1, FrameTimes
      <3> QED
        BY <1>2, <2>1, <3>1, <3>2 DEF TimelineInv, AirInv
    <2>2. CASE i > m
      <3>1. air'[i] = frames[i - m] /\ i - m \in 1 .. n
        BY <1>2, <2>2
      <3> QED
        BY <1>2, <2>2, <3>1
    <2> QED
      BY <1>2, <2>1, <2>2
  <1>6. ASSUME NEW i \in 1 .. m + n, NEW j \in 1 .. m + n, i <= j
        PROVE  air'[i].sent <= air'[j].sent
    <2>1. CASE j <= m
      <3>1. i \in DOMAIN air /\ j \in DOMAIN air
        BY <1>2, <1>6, <2>1
      <3>2. air[i].sent <= air[j].sent
        BY <1>6, <3>1 DEF TimelineInv, AirInv
      <3>3. air'[i] = air[i] /\ air'[j] = air[j]
        BY <1>2, <1>5, <1>6, <2>1
      <3> QED
        BY <3>2, <3>3
    <2>2. CASE j > m
      <3>1. air'[j].sent = now
        BY <1>2, <1>5, <2>2
      <3>2. air'[i].sent <= now
        BY <1>1, <1>5
      <3> QED
        BY <3>1, <3>2
    <2> QED
      BY <1>2, <2>1, <2>2
  <1>7. \A i \in 1 .. m + n : air'[i].sent <= now /\ now <= air'[i].sent + MaxDelay
    BY <1>1, <1>5, ConstantTypes
  <1> QED
    BY <1>3, <1>4, <1>6, <1>7 DEF AirInv

\* Flushing buffers of well spaced readings sends good frames.
LEMMA FlushingKeepsAir ==
  ASSUME TimelineInv, connected, NEW buffers, NEW flushed,
         \A s \in BatchedStreams :
           /\ buffers[s] \in Seq(0 .. now) /\ Spaced(buffers[s]) /\ Len(buffers[s]) <= MaxBatch[s]
           /\ buffers[s] # <<>> => now - Last(buffers[s]) \in 0 .. FlushDelay,
         Flush(buffers, flushed), now' = now, boot' = boot, connected' = connected
  PROVE  AirInv'
PROOF
  <1> DEFINE Built == {f \in FramesSent : f.sent = now}
  <1>1. ASSUME NEW s \in BatchedStreams, buffers[s] # <<>>
        PROVE  FrameOf(buffers[s]) \in Built
    <2> DEFINE t == buffers[s]
               n == Len(buffers[s])
    <2>1. /\ n \in Nat \ {0} /\ DOMAIN t = 1 .. n /\ t[1] \in 0 .. now /\ t[n] \in 0 .. now
          /\ Last(t) = t[n]
      BY <1>1, NotEmpty
    <2>2. t[n] - t[1] \in (n - 1) * SampleInterval .. (n - 1) * FlushDelay
      BY <2>1 DEF Spaced
    <2>3. now - t[n] \in 0 .. FlushDelay
      BY <1>1, <2>1
    <2>4. n <= MaxBatch[s] /\ MaxBatch[s] * FlushDelay <= MaxHold /\ MaxHold \in Nat
          /\ MaxBatch[s] \in Nat
      BY HoldBounds, ConstantTypes
    <2> HIDE DEF t, n
    <2>5. now - t[1] <= MaxHold
      <3> DEFINE b == MaxBatch[s]
      <3>1. /\ (n - 1) * FlushDelay \in Nat /\ n * FlushDelay = (n - 1) * FlushDelay + FlushDelay
            /\ n * FlushDelay \in Nat
        BY <2>1, OneLess, ConstantTypes
      <3>2. b \in Nat /\ n <= b /\ b * FlushDelay <= MaxHold
        BY <2>4
      <3> HIDE DEF b
      <3>3. n * FlushDelay <= b * FlushDelay /\ b * FlushDelay \in Nat
        <4>1. b - n \in Nat /\ b * FlushDelay = n * FlushDelay + (b - n) * FlushDelay
          BY <2>1, <3>2, ConstantTypes
        <4>2. (b - n) * FlushDelay \in Nat /\ b * FlushDelay \in Nat
          BY <3>2, <4>1, ConstantTypes
        <4> QED
          BY <3>1, <4>1, <4>2
      <3>4. t[n] - t[1] <= (n - 1) * FlushDelay /\ now - t[n] <= FlushDelay
        BY <2>1, <2>2, <2>3, <3>1, ConstantTypes
      <3>5. now - t[1] <= n * FlushDelay
        <4> DEFINE x == (n - 1) * FlushDelay
        <4>1. x \in Nat /\ n * FlushDelay = x + FlushDelay /\ t[n] - t[1] <= x
          BY <3>1, <3>4
        <4> HIDE DEF x
        <4>2. now \in Nat /\ t[1] \in Int /\ t[n] \in Int
          BY <2>1, StateTypes
        <4> QED
          BY <3>4, <4>1, <4>2, ConstantTypes
      <3> QED
        BY <2>1, <2>4, <3>1, <3>2, <3>3, <3>5, StateTypes
    <2>6. boot \in Int /\ now \in Times
      BY StateTypes DEF TimelineInv, ClockInv
    <2> QED
      BY <1>1, <2>5, <2>6, BuiltFrame DEF t
  <1>2. FramesOf(buffers, flushed) \in
          Seq({FrameOf(buffers[s]) : s \in {x \in flushed \cap BatchedStreams : buffers[x] # <<>>}})
    BY FramesAreOfBuffers
  <1>3. {FrameOf(buffers[s]) : s \in {x \in flushed \cap BatchedStreams : buffers[x] # <<>>}}
          \subseteq Built
    BY <1>1
  <1> HIDE DEF Built
  <1>4. FramesOf(buffers, flushed) \in Seq(Built)
    BY <1>2, <1>3
  <1> QED
    BY <1>4, SendingKeepsAir DEF Flush, Built

\* Tick: no frame is overdue, as the first one of the air is not.
LEMMA TickKeeps ==
  ASSUME TimelineInv, Tick
  PROVE  TimelineInv'
PROOF
  <1>1. /\ now' = now + 1 /\ now < Horizon /\ boot' = boot /\ connected' = connected
        /\ due' = due /\ held' = held /\ air' = air /\ losses' = losses /\ starts' = starts
        /\ offset' = offset /\ last' = last /\ anchor' = anchor
    BY DEF Tick, device, page
  <1>2. ClockInv'
    <2>1. now' \in Times
      BY <1>1, StateTypes, ConstantTypes DEF Times
    <2>2. boot' <= now'
      BY <1>1, StateTypes DEF TimelineInv, ClockInv
    <2> QED
      BY <1>1, <2>1, <2>2 DEF TimelineInv, ClockInv
  <1>3. DeviceInv'
    <2> DEFINE late == FlushDelay + SampleInterval + SingleInterval
    <2>1. \A w \in Works : due[w] \in (now' .. now' + FlushDelay + SampleInterval + SingleInterval) \cup {None}
      <3>1. SUFFICES ASSUME NEW w \in Works, due[w] # None
                     PROVE  due[w] \in now' .. now' + FlushDelay + SampleInterval + SingleInterval
        OBVIOUS
      <3>2. due[w] \in now .. now + FlushDelay + SampleInterval + SingleInterval /\ due[w] # now
        BY <3>1 DEF TimelineInv, DeviceInv, Tick
      <3> QED
        BY <1>1, <3>2, StateTypes, ConstantTypes
    <2>2. 0 .. now \subseteq 0 .. now'
      BY <1>1, StateTypes
    <2>3. \A s \in BatchedStreams : held[s] \in Seq(0 .. now')
      <3>1. \A s \in BatchedStreams : held[s] \in Seq(0 .. now)
        BY DEF TimelineInv, DeviceInv
      <3> QED
        BY <2>2, <3>1, SeqOfMore, Zenon
    <2>4. \A s \in BatchedStreams : held[s] # <<>> => Waits(s)'
      BY <1>1 DEF TimelineInv, DeviceInv, Waits
    <2> QED
      BY <1>1, <2>1, <2>3, <2>4 DEF TimelineInv, DeviceInv
  <1>4. AirInv'
    <2>1. ASSUME NEW i \in DOMAIN air
          PROVE  air[i].sent <= now' /\ now' <= air[i].sent + MaxDelay
      <3>1. air # <<>> /\ air \in Seq(FramesSent) /\ air[i] \in FramesSent
        BY DEF TimelineInv, AirInv
      <3>2. Head(air) = air[1] /\ air[1] \in FramesSent /\ 1 \in DOMAIN air /\ 1 <= i
        BY <3>1, NotEmpty
      <3>3. air[1].sent <= air[i].sent /\ air[i].sent <= now
        BY <3>2 DEF TimelineInv, AirInv
      <3>4. now < air[1].sent + MaxDelay
        BY <3>1, <3>2 DEF Tick
      <3>5. air[1].sent \in Int /\ air[i].sent \in Int
        BY <3>1, <3>2, FrameTimes, StateTypes
      <3> QED
        BY <1>1, <3>3, <3>4, <3>5, StateTypes, ConstantTypes
    <2> QED
      BY <1>1, <2>1, SameFrames DEF TimelineInv, AirInv
  <1>5. PageInv'
    BY <1>1 DEF TimelineInv, PageInv
  <1> QED
    BY <1>2, <1>3, <1>4, <1>5 DEF TimelineInv

\* A step of the device that keeps the connection leaves the clock and the page alone.
LEMMA DeviceStepKeeps ==
  ASSUME TimelineInv, UNCHANGED <<now, boot, connected, losses, page>>,
         starts' \in 0 .. MaxStarts
  PROVE  ClockInv' /\ PageInv'
PROOF
  BY DEF TimelineInv, ClockInv, PageInv, page

\* What is held can be flushed.
LEMMA FlushingHeldKeepsAir ==
  ASSUME TimelineInv, connected, Flush(held, BatchedStreams),
         UNCHANGED <<now, boot, connected>>
  PROVE  /\ AirInv'
         /\ \A s \in BatchedStreams :
              /\ held'[s] = <<>> /\ held'[s] \in Seq(0 .. now') /\ Len(held'[s]) < MaxBatch[s]
              /\ Spaced(held'[s])
PROOF
  <1>1. ASSUME NEW s \in BatchedStreams
        PROVE  /\ held[s] \in Seq(0 .. now) /\ Spaced(held[s]) /\ Len(held[s]) <= MaxBatch[s]
               /\ held[s] # <<>> => now - Last(held[s]) \in 0 .. FlushDelay
    <2>1. held[s] \in Seq(0 .. now) /\ Spaced(held[s]) /\ Len(held[s]) < MaxBatch[s]
      BY DEF TimelineInv, DeviceInv
    <2> QED
      BY <2>1, StateTypes, ConstantTypes
  <1>2. ASSUME NEW s \in BatchedStreams
        PROVE  /\ held'[s] = <<>> /\ held'[s] \in Seq(0 .. now') /\ Len(held'[s]) < MaxBatch[s]
               /\ Spaced(held'[s])
    <2>1. held'[s] = <<>>
      BY DEF Flush
    <2> QED
      BY <2>1, FewAreSpaced, ConstantTypes
  <1> QED
    BY <1>1, <1>2, FlushingKeepsAir

\* Lsm6dslSample: the new reading comes an interval after the last at the earliest, and
\* before the flush that the last one put off.
LEMMA Lsm6dslSampleKeeps ==
  ASSUME TimelineInv, Lsm6dslSample
  PROVE  TimelineInv'
PROOF
  <1>1. /\ due["lsm6dsl"] = now /\ UNCHANGED <<now, boot, connected, losses, starts, page>>
        /\ "lsm6dsl" \in Works /\ "flush" \in Works /\ connected
    BY StateTypes DEF Lsm6dslSample, Works
  <1>2. ClockInv' /\ PageInv'
    BY <1>1, DeviceStepKeeps DEF TimelineInv, ClockInv
  <1> DEFINE next == now + SampleInterval
             flush == now + FlushDelay
  <1>3. /\ next \in now .. now + FlushDelay + SampleInterval + SingleInterval
        /\ flush \in now .. now + FlushDelay + SampleInterval + SingleInterval
        /\ next # None /\ flush # None
    BY StateTypes, ConstantTypes
  <1>4. due \in [Works -> (now..now + FlushDelay + SampleInterval + SingleInterval) \cup {None}]
    BY DEF TimelineInv, DeviceInv
  <1>5. ASSUME NEW buffers, buffers = [s \in BatchedStreams |-> Append(held[s], now)],
               NEW flushed, flushed = {s \in BatchedStreams : Len(buffers[s]) >= MaxBatch[s]},
               Flush(buffers, flushed),
               due' = [due EXCEPT !["lsm6dsl"] = next, !["flush"] = flush]
        PROVE  DeviceInv' /\ AirInv'
    <2>1. ASSUME NEW s \in BatchedStreams
          PROVE  /\ buffers[s] \in Seq(0 .. now) /\ Spaced(buffers[s])
                 /\ Len(buffers[s]) \in Nat /\ Len(buffers[s]) <= MaxBatch[s]
                 /\ Last(buffers[s]) = now /\ now - Last(buffers[s]) \in 0 .. FlushDelay
      <3>1. /\ held[s] \in Seq(0 .. now) /\ Spaced(held[s]) /\ Len(held[s]) < MaxBatch[s]
            /\ Len(held[s]) \in Nat
        BY DEF TimelineInv, DeviceInv
      <3>2. buffers[s] = Append(held[s], now) /\ now \in 0 .. now /\ now \in Int
        BY <1>5, StateTypes
      <3>3. held[s] # <<>> => now - Last(held[s]) \in SampleInterval .. FlushDelay
        BY <1>1, StateTypes, ConstantTypes
      <3>4. held[s] \in Seq(Int)
        <4>1. 0 .. now \subseteq Int
          BY <3>2
        <4> QED
          BY <3>1, <4>1, SeqOfMore, Zenon
      <3>5. Spaced(buffers[s])
        BY <3>1, <3>2, <3>3, <3>4, AppendIsSpaced
      <3>6. /\ buffers[s] \in Seq(0 .. now) /\ Len(buffers[s]) = Len(held[s]) + 1
            /\ buffers[s][Len(held[s]) + 1] = now
        BY <3>1, <3>2
      <3>7. Last(buffers[s]) = now
        BY <3>6 DEF Last
      <3> QED
        BY <3>1, <3>2, <3>5, <3>6, <3>7, ConstantTypes
    <2>2. AirInv'
      BY <1>1, <1>5, <2>1, FlushingKeepsAir
    <2>3. /\ due' \in [Works -> (now..now + FlushDelay + SampleInterval + SingleInterval) \cup {None}]
          /\ due'["lsm6dsl"] = next /\ due'["flush"] = flush
      <3> HIDE DEF next, flush
      <3> QED
        BY <1>1, <1>3, <1>4, <1>5
    <2>4. ASSUME NEW s \in BatchedStreams
          PROVE  /\ held'[s] \in Seq(0 .. now) /\ Len(held'[s]) < MaxBatch[s] /\ Spaced(held'[s])
                 /\ held'[s] # <<>> => Waits(s)'
      <3>1. CASE s \in flushed
        <4>1. held'[s] = <<>>
          BY <1>5, <3>1 DEF Flush
        <4> QED
          BY <4>1, FewAreSpaced, ConstantTypes
      <3>2. CASE s \notin flushed
        <4>1. held'[s] = buffers[s] /\ ~(Len(buffers[s]) >= MaxBatch[s])
          BY <1>5, <3>2 DEF Flush
        <4>2. Waits(s)'
          <5>1. Last(held'[s]) = now
            BY <2>1, <4>1
          <5> QED
            BY <1>3, <2>3, <5>1, StateTypes, ConstantTypes DEF Waits
        <4> QED
          BY <2>1, <4>1, <4>2, ConstantTypes
      <3> QED
        BY <3>1, <3>2
    <2> QED
      BY <1>1, <2>2, <2>3, <2>4 DEF DeviceInv
  <1>6. ASSUME due' = [due EXCEPT !["lsm6dsl"] = next], UNCHANGED <<held, air>>
        PROVE  DeviceInv' /\ AirInv'
    <2>1. /\ due' \in [Works -> (now..now + FlushDelay + SampleInterval + SingleInterval) \cup {None}]
          /\ due'["lsm6dsl"] = next /\ due'["flush"] = due["flush"]
      <3> HIDE DEF next
      <3> QED
        BY <1>1, <1>3, <1>4, <1>6
    <2>2. ASSUME NEW s \in BatchedStreams, held[s] # <<>>
          PROVE  Waits(s)'
      <3>1. Last(held[s]) \in 0 .. now /\ Waits(s)
        BY <2>2, StateTypes DEF TimelineInv, DeviceInv
      <3>2. Last(held[s]) + SampleInterval <= next
        BY <3>1, StateTypes, ConstantTypes
      <3> QED
        BY <1>3, <1>6, <2>1, <3>1, <3>2 DEF Waits
    <2>3. DeviceInv'
      BY <1>1, <1>6, <2>1, <2>2 DEF TimelineInv, DeviceInv
    <2> QED
      BY <1>1, <1>6, <2>3, SameFrames DEF TimelineInv, AirInv
  <1> HIDE DEF next, flush
  <1>7. DeviceInv' /\ AirInv'
    BY <1>5, <1>6 DEF Lsm6dslSample, Rescheduled, next, flush
  <1> QED
    BY <1>2, <1>7 DEF TimelineInv

\* A single reading is a frame of its own.
LEMMA SingleSampleKeeps ==
  ASSUME TimelineInv, SingleSample
  PROVE  TimelineInv'
PROOF
  <1>1. /\ due["single"] = now /\ UNCHANGED <<now, boot, connected, held, losses, starts, page>>
        /\ "single" \in Works /\ connected /\ due' = [due EXCEPT !["single"] = now + SingleInterval]
        /\ Notify(<<FrameOf(<<now>>)>>)
    BY StateTypes DEF SingleSample, Works
  <1>2. ClockInv' /\ PageInv'
    BY <1>1, DeviceStepKeeps DEF TimelineInv, ClockInv
  <1>3. DeviceInv'
    <2> DEFINE next == now + SingleInterval
    <2>1. next \in now .. now + FlushDelay + SampleInterval + SingleInterval
      BY StateTypes, ConstantTypes
    <2> HIDE DEF next
    <2>2. /\ due' \in [Works -> (now..now + FlushDelay + SampleInterval + SingleInterval) \cup {None}]
          /\ due'["lsm6dsl"] = due["lsm6dsl"] /\ due'["flush"] = due["flush"]
      BY <1>1, <2>1 DEF TimelineInv, DeviceInv, Works, next
    <2>3. \A s \in BatchedStreams : held[s] # <<>> => Waits(s)'
      BY <1>1, <2>2 DEF TimelineInv, DeviceInv, Waits
    <2> QED
      BY <1>1, <2>2, <2>3 DEF TimelineInv, DeviceInv
  <1>4. AirInv'
    <2> DEFINE one == <<now>>
    <2>1. one \in Seq(0 .. now) /\ one # <<>> /\ one[1] = now
      BY StateTypes
    <2>2. Spaced(one) /\ now - one[1] <= MaxHold
      BY <2>1, FewAreSpaced, HoldBounds, StateTypes
    <2> HIDE DEF one
    <2>3. FrameOf(one) \in FramesSent /\ FrameOf(one).sent = now
      BY <2>1, <2>2, BuiltFrame, StateTypes DEF TimelineInv, ClockInv
    <2>4. <<FrameOf(one)>> \in Seq({f \in FramesSent : f.sent = now})
      BY <2>3
    <2> QED
      BY <1>1, <2>4, SendingKeepsAir DEF one
  <1> QED
    BY <1>2, <1>3, <1>4 DEF TimelineInv

\* Works that are due no more, or due now, are due as they may be.
LEMMA BatchFlushWorkKeeps ==
  ASSUME TimelineInv, BatchFlushWork
  PROVE  TimelineInv'
PROOF
  <1>1. /\ due["flush"] = now /\ UNCHANGED <<now, boot, connected, losses, starts, page>>
        /\ "flush" \in Works /\ connected /\ due' = [due EXCEPT !["flush"] = None]
        /\ Flush(held, BatchedStreams)
    BY StateTypes DEF BatchFlushWork, Works
  <1>2. ClockInv' /\ PageInv'
    BY <1>1, DeviceStepKeeps DEF TimelineInv, ClockInv
  <1>3. /\ AirInv'
        /\ \A s \in BatchedStreams :
             /\ held'[s] = <<>> /\ held'[s] \in Seq(0 .. now') /\ Len(held'[s]) < MaxBatch[s]
             /\ Spaced(held'[s])
    BY <1>1, FlushingHeldKeepsAir
  <1>4. DeviceInv'
    <2>1. due' \in [Works -> (now..now + FlushDelay + SampleInterval + SingleInterval) \cup {None}]
      BY <1>1 DEF TimelineInv, DeviceInv
    <2> QED
      BY <1>1, <1>3, <2>1 DEF DeviceInv
  <1> QED
    BY <1>2, <1>3, <1>4 DEF TimelineInv

\* Nothing is held while the sensors do not run.
LEMMA StartKeeps ==
  ASSUME TimelineInv, Start
  PROVE  TimelineInv'
PROOF
  <1>1. /\ due["lsm6dsl"] = None /\ UNCHANGED <<now, boot, connected, held, air, losses, page>>
        /\ connected /\ due' = [due EXCEPT !["lsm6dsl"] = now, !["single"] = now]
        /\ starts < MaxStarts /\ starts' = starts + 1
    BY DEF Start
  <1>2. ClockInv' /\ PageInv'
    <2>1. starts' \in 0 .. MaxStarts
      BY <1>1, TimelineAssumption DEF TimelineInv, ClockInv
    <2> QED
      BY <1>1, <2>1, DeviceStepKeeps
  <1>3. DeviceInv'
    <2>1. now \in now .. now + FlushDelay + SampleInterval + SingleInterval
      BY StateTypes, ConstantTypes
    <2>2. due' \in [Works -> (now..now + FlushDelay + SampleInterval + SingleInterval) \cup {None}]
      BY <1>1, <2>1 DEF TimelineInv, DeviceInv
    <2>3. \A s \in BatchedStreams : held[s] = <<>>
      BY <1>1 DEF TimelineInv, DeviceInv, Waits
    <2> QED
      BY <1>1, <2>2, <2>3 DEF TimelineInv, DeviceInv
  <1>4. AirInv'
    BY <1>1, SameFrames DEF TimelineInv, AirInv
  <1> QED
    BY <1>2, <1>3, <1>4 DEF TimelineInv

\* Stopping sends what is held.
LEMMA StopKeeps ==
  ASSUME TimelineInv, Stop
  PROVE  TimelineInv'
PROOF
  <1>1. /\ UNCHANGED <<now, boot, connected, losses, starts, page>>
        /\ connected /\ due' = [w \in Works |-> None]
        /\ Flush(held, BatchedStreams)
    BY DEF Stop
  <1>2. ClockInv' /\ PageInv'
    BY <1>1, DeviceStepKeeps DEF TimelineInv, ClockInv
  <1>3. /\ AirInv'
        /\ \A s \in BatchedStreams :
             /\ held'[s] = <<>> /\ held'[s] \in Seq(0 .. now') /\ Len(held'[s]) < MaxBatch[s]
             /\ Spaced(held'[s])
    BY <1>1, FlushingHeldKeepsAir
  <1>4. DeviceInv'
    BY <1>1, <1>3 DEF DeviceInv
  <1> QED
    BY <1>2, <1>3, <1>4 DEF TimelineInv

\* With the connection goes all that is held, in the air and remembered, whether the device
\* goes on or starts again.
LEMMA DisconnectionKeeps ==
  ASSUME TimelineInv, LinkLost \/ Reboot
  PROVE  TimelineInv'
PROOF
  <1>1. /\ connected' = FALSE /\ losses' = losses + 1 /\ losses < MaxLosses
        /\ due' = [w \in Works |-> None] /\ held' = [s \in BatchedStreams |-> <<>>]
        /\ air' = <<>> /\ offset' = None /\ last' = None /\ anchor' = anchor
        /\ now' = now /\ starts' = starts /\ boot' \in {boot, now}
    BY DEF LinkLost, Reboot, Disconnected, OnDisconnect
  <1>2. ClockInv'
    <2>1. losses' \in 0 .. MaxLosses
      BY <1>1, TimelineAssumption DEF TimelineInv, ClockInv
    <2>2. boot' \in Boots \cup Times /\ boot' <= now'
      BY <1>1, StateTypes DEF TimelineInv, ClockInv
    <2> QED
      BY <1>1, <2>1, <2>2 DEF TimelineInv, ClockInv
  <1>3. DeviceInv'
    BY <1>1, FewAreSpaced, ConstantTypes DEF DeviceInv
  <1>4. AirInv'
    BY <1>1 DEF AirInv
  <1>5. PageInv'
    BY <1>1, ConstantTypes DEF TimelineInv, PageInv
  <1> QED
    BY <1>2, <1>3, <1>4, <1>5 DEF TimelineInv

\* A new connection finds nothing in the air.
LEMMA ReconnectKeeps ==
  ASSUME TimelineInv, Reconnect
  PROVE  TimelineInv'
PROOF
  <1>1. /\ ~connected /\ connected' = TRUE
        /\ UNCHANGED <<now, boot, due, held, air, losses, starts, page>>
    BY DEF Reconnect
  <1>2. ClockInv' /\ PageInv'
    BY <1>1 DEF TimelineInv, ClockInv, PageInv, page
  <1>3. DeviceInv'
    BY <1>1 DEF TimelineInv, DeviceInv, Waits
  <1>4. AirInv'
    BY <1>1, SameFrames DEF TimelineInv, AirInv
  <1> QED
    BY <1>2, <1>3, <1>4 DEF TimelineInv

-----------------------------------------------------------------------------
(* What the PC makes of a frame *)

\* The frame received next, and what the page knew before.
LEMMA ReceivedFrame ==
  ASSUME TimelineInv, air # <<>>
  PROVE  /\ connected /\ Head(air) \in FramesSent
         /\ Head(air).sent <= now /\ now <= Head(air).sent + MaxDelay
         /\ now - Head(air).taken[1] \in 0 .. MaxHold + MaxDelay
PROOF
  <1>1. /\ air \in Seq(FramesSent) /\ Head(air) = air[1] /\ 1 \in DOMAIN air
        /\ Head(air) \in FramesSent /\ connected
    BY NotEmpty DEF TimelineInv, AirInv
  <1>2. Head(air).sent <= now /\ now <= Head(air).sent + MaxDelay
    BY <1>1 DEF TimelineInv, AirInv
  <1>3. /\ Head(air).sent \in Int /\ Head(air).taken[1] \in Int
        /\ Head(air).sent - Head(air).taken[1] \in 0 .. MaxHold
    BY <1>1, FrameTimes, StateTypes, ConstantTypes
  <1>4. now - Head(air).taken[1] \in 0 .. MaxHold + MaxDelay
    <2> DEFINE sent == Head(air).sent
               first == Head(air).taken[1]
    <2>1. MaxHold \in Nat /\ MaxDelay \in Nat /\ now \in Nat
      BY StateTypes, ConstantTypes, HoldBounds
    <2>2. /\ sent \in Int /\ first \in Int /\ sent - first \in 0 .. MaxHold
          /\ sent <= now /\ now <= sent + MaxDelay
      BY <1>2, <1>3
    <2> HIDE DEF sent, first
    <2>3. now - first \in 0 .. MaxHold + MaxDelay
      BY <2>1, <2>2
    <2> QED
      BY <2>3 DEF first
  <1> QED
    BY <1>1, <1>2, <1>4

\* Of a frame of a later wrap than the offset's, the first timestamp is older than the last.
LEMMA LaterWrapIsOlder ==
  ASSUME TimelineInv, NEW frame \in FramesSent, offset # None,
         Wraps(frame.taken[1]) > anchor
  PROVE  Older(last, frame.timestamp)
PROOF
  <1> DEFINE w == Wraps(frame.taken[1])
             t1 == frame.taken[1]
  <1>1. /\ boot \in Int /\ t1 \in Int /\ t1 <= Horizon /\ Horizon < TimeModulus
        /\ TimeModulus \in Nat /\ Horizon \in Nat
        /\ frame.timestamp = Uptime(t1)
    <2>1. boot \in Int
      BY StateTypes
    <2>2. t1 \in Times
      BY <2>1, FrameTimes
    <2>3. frame.timestamp = Uptime(t1)
      BY <2>1, FrameTimes DEF FramesSent, GoodFrame
    <2> QED
      BY <2>1, <2>2, <2>3, ConstantTypes DEF Times
  <1>2. w \in Int /\ w * TimeModulus \in Int /\ Uptime(t1) = (t1 - boot) - w * TimeModulus
    BY <1>1, UptimeIs
  <1>3. /\ last \in Int /\ last # None /\ anchor \in Int
        /\ last + boot + anchor * TimeModulus >= 0
    BY ConstantTypes DEF TimelineInv, PageInv
  <1>4. w * TimeModulus >= anchor * TimeModulus + TimeModulus /\ anchor * TimeModulus \in Int
    <2> HIDE DEF w
    <2>1. w - (anchor + 1) \in Nat
      BY <1>2, <1>3 DEF w
    <2>2. (w - (anchor + 1)) * TimeModulus \in Nat
      BY <1>1, <2>1
    <2>3. (w - (anchor + 1)) * TimeModulus = w * TimeModulus - (anchor * TimeModulus + TimeModulus)
      BY <1>1, <1>2, <1>3
    <2>4. anchor * TimeModulus \in Int
      BY <1>1, <1>3
    <2> QED
      BY <1>1, <1>2, <2>2, <2>3, <2>4
  <1>5. (t1 - boot) - w * TimeModulus < last
    <2> DEFINE x == w * TimeModulus
               y == anchor * TimeModulus
    <2>1. x \in Int /\ y \in Int /\ x >= y + TimeModulus /\ last + boot + y >= 0
      BY <1>2, <1>3, <1>4
    <2> HIDE DEF x, y, t1
    <2>2. (t1 - boot) - x < last
      BY <1>1, <1>3, <2>1
    <2> QED
      BY <2>2 DEF x, t1
  <1> QED
    BY <1>1, <1>2, <1>3, <1>5 DEF Older

\* A sample is read close to when it was taken, and shown close to it.
LEMMA SampleIsClose ==
  ASSUME TimelineInv, NEW frame \in FramesSent, NEW i \in DOMAIN frame.taken,
         NEW off \in Int, NEW anch \in Int,
         off - boot - anch * TimeModulus \in 0 .. MaxHold + MaxDelay
  PROVE  LET drift == (i - 1) * (FlushDelay - SampleInterval)
         IN  /\ (Uptime(frame.taken[i]) - ReadTime(frame, i)) % TimeModulus <= drift
             /\ Wraps(frame.taken[1]) = anch =>
                  (ReadTime(frame, i) + off) - frame.taken[i] \in -drift .. MaxHold + MaxDelay
PROOF
  <1> DEFINE t1 == frame.taken[1]
             ti == frame.taken[i]
             w == Wraps(t1) * TimeModulus
             wi == Wraps(ti) * TimeModulus
             x == (i - 1) * SampleInterval
             drift == (i - 1) * (FlushDelay - SampleInterval)
             a == anch * TimeModulus
             hold == MaxHold + MaxDelay
  <1>1. boot \in Int
    BY StateTypes
  <1>2. /\ t1 \in Int /\ ti \in Int /\ x \in Nat /\ ti - (t1 + x) \in 0 .. drift
        /\ ReadTime(frame, i) = (t1 - boot) - w + x
    BY <1>1, FrameTimes, ConstantTypes
  <1>3. /\ w \in Int /\ wi \in Int /\ Wraps(t1) \in Int /\ Wraps(ti) \in Int
        /\ Uptime(ti) = (ti - boot) - wi
    BY <1>1, <1>2, UptimeIs
  <1>4. drift \in Nat
    <2>1. i - 1 \in Nat
      BY <1>1, FrameTimes
    <2> QED
      BY <2>1, Products, ConstantTypes
  <1>5. wi - w = (Wraps(ti) - Wraps(t1)) * TimeModulus
    BY <1>3, ConstantTypes
  <1>6. a \in Int /\ off - boot - a \in 0 .. hold /\ hold \in Nat
    BY ConstantTypes, HoldBounds
  <1>7. (Uptime(ti) - ReadTime(frame, i)) % TimeModulus <= drift
    <2> DEFINE d == ti - (t1 + x)
               k == Wraps(ti) - Wraps(t1)
    <2>1. d \in Nat /\ d <= drift /\ k \in Int
      BY <1>2, <1>3, <1>4
    <2>2. Uptime(ti) - ReadTime(frame, i) = d - k * TimeModulus
      <3>1. k * TimeModulus = wi - w
        BY <1>5
      <3> HIDE DEF w, wi, x, t1, ti, k
      <3> QED
        BY <1>1, <1>2, <1>3, <3>1
    <2> HIDE DEF d, k, drift
    <2>3. (d - k * TimeModulus) % TimeModulus \in 0 .. d
      BY <2>1, ShiftedRemainder, ConstantTypes
    <2> QED
      BY <1>4, <2>1, <2>2, <2>3
  <1>8. ASSUME Wraps(t1) = anch
        PROVE  (ReadTime(frame, i) + off) - ti \in -drift .. hold
    <2>1. w = a
      BY <1>8
    <2> HIDE DEF w, wi, x, t1, ti, a, drift, hold
    <2> QED
      BY <1>1, <1>2, <1>3, <1>4, <1>6, <2>1
  <1> QED
    BY <1>7, <1>8

\* Receiving keeps what the page knows of the offset, and shows each sample close.
LEMMA ReceiveKeeps ==
  ASSUME TimelineInv, Receive
  PROVE  TimelineInv' /\ ReadTimeIsClose' /\ PlotTimeIsClose'
PROOF
  <1> DEFINE frame == Head(air)
             t1 == frame.taken[1]
             n == Len(frame.taken)
             w == Wraps(t1)
             anew == Older(last, frame.timestamp) \/ offset = None
             off  == IF anew THEN now - frame.timestamp ELSE offset
             anch == IF anew THEN w ELSE anchor
             line(i) == [taken |-> frame.taken[i], read |-> ReadTime(frame, i),
                         plot |-> ReadTime(frame, i) + off, place |-> i,
                         wraps |-> w, anchor |-> anch]
             hold == MaxHold + MaxDelay
  <1>1. /\ UNCHANGED <<now, boot, connected, due, held, losses, starts>>
        /\ air # <<>> /\ air' = Tail(air)
    BY DEF Receive, device
  <1>2. frame \in FramesSent /\ connected /\ now - t1 \in 0 .. hold
    BY <1>1, ReceivedFrame
  <1>3. /\ now \in Int /\ boot \in Int /\ TimeModulus \in Nat /\ Horizon \in Nat /\ hold \in Nat
        /\ Horizon < TimeModulus
    BY StateTypes, ConstantTypes, HoldBounds
  <1>4. /\ frame.timestamp \in 0 .. TimeModulus - 1 /\ n \in Nat \ {0} /\ Head(frame.taken) = t1
        /\ DOMAIN frame.taken = 1 .. n /\ t1 \in Int /\ t1 >= 0
    <2>1. /\ frame.timestamp \in 0 .. TimeModulus - 1 /\ n \in Nat \ {0} /\ Head(frame.taken) = t1
          /\ DOMAIN frame.taken = 1 .. n /\ t1 \in Times
      BY <1>2, <1>3, FrameTimes
    <2> QED
      BY <1>3, <2>1 DEF Times
  <1>5. /\ w \in Int /\ w * TimeModulus \in Int
        /\ frame.timestamp = (t1 - boot) - w * TimeModulus
    <2>1. frame.timestamp = Uptime(t1)
      BY <1>2, <1>4 DEF FramesSent, GoodFrame
    <2> QED
      BY <1>3, <1>4, <2>1, UptimeIs
  <1>6. /\ last \in Int \cup {None} /\ offset \in Int \cup {None} /\ (offset = None) = (last = None)
        /\ anchor \in Int /\ anchor * TimeModulus \in Int
        /\ offset # None =>
             /\ last \in Int /\ last + boot + anchor * TimeModulus >= 0
             /\ offset \in Int /\ offset - boot - anchor * TimeModulus \in 0 .. hold
    <2>1. /\ last \in (0 .. TimeModulus - 1) \cup {None} /\ offset \in Int \cup {None}
          /\ (offset = None) = (last = None) /\ anchor \in Int
          /\ offset # None =>
               /\ last + boot + anchor * TimeModulus >= 0
               /\ offset - boot - anchor * TimeModulus \in 0 .. hold
      BY DEF TimelineInv, PageInv
    <2> QED
      BY <1>3, <2>1
  <1>7. /\ AfterFrame(frame).offset = off /\ AfterFrame(frame).anchor = anch
        /\ AfterFrame(frame).last = ReadTime(frame, n)
        /\ AfterFrame(frame).shown = [i \in 1 .. n |-> line(i)]
    <2>1. frame.timestamp \in Int
      BY <1>3, <1>4
    <2> QED
      BY <1>3, <1>4, <1>6, <2>1, FrameIsShown
  <1> HIDE DEF frame
  <1>8. /\ anch \in Int /\ off \in Int /\ off - boot - anch * TimeModulus \in 0 .. hold
        /\ frame.timestamp + boot + anch * TimeModulus >= 0
    <2>1. CASE anew
      <3>1. off = now - frame.timestamp /\ anch = w
        BY <2>1
      <3> DEFINE x == w * TimeModulus
      <3>2. x \in Int /\ frame.timestamp = (t1 - boot) - x /\ anch * TimeModulus = x /\ anch \in Int
        BY <1>5, <3>1
      <3> HIDE DEF x, w, t1, hold, anew, off, anch
      <3> QED
        BY <1>2, <1>3, <1>4, <3>1, <3>2
    <2>2. CASE ~anew
      <3>1. off = offset /\ anch = anchor /\ offset # None /\ ~Older(last, frame.timestamp)
        BY <2>2
      <3>2. /\ last \in Int /\ last + boot + anchor * TimeModulus >= 0
            /\ offset \in Int /\ offset - boot - anchor * TimeModulus \in 0 .. hold
        BY <1>6, <3>1
      <3>3. frame.timestamp >= last
        BY <1>3, <1>4, <1>6, <3>1, <3>2 DEF Older
      <3> DEFINE y == anchor * TimeModulus
      <3>4. y \in Int /\ last + boot + y >= 0
        BY <1>6, <3>2
      <3> HIDE DEF y, hold
      <3>5. frame.timestamp + boot + y >= 0
        <4>1. boot \in Int /\ frame.timestamp \in Int
          BY <1>3, <1>4
        <4> QED
          BY <3>2, <3>3, <3>4, <4>1
      <3> QED
        BY <1>6, <3>1, <3>2, <3>5 DEF y
    <2> QED
      BY <2>1, <2>2
  <1>9. ASSUME w > anch
        PROVE  FALSE
    <2>1. CASE anew
      BY <1>5, <1>9, <2>1
    <2>2. CASE ~anew
      <3>1. anch = anchor /\ offset # None /\ ~Older(last, frame.timestamp)
        BY <2>2
      <3> QED
        BY <1>2, <1>9, <3>1, LaterWrapIsOlder
    <2> QED
      BY <2>1, <2>2
  <1> HIDE DEF off, anch, anew
  <1>10. ASSUME NEW i \in 1 .. n
         PROVE  LET drift == (i - 1) * (FlushDelay - SampleInterval)
                IN  /\ (Uptime(frame.taken[i]) - ReadTime(frame, i)) % TimeModulus <= drift
                    /\ w >= anch =>
                         (ReadTime(frame, i) + off) - frame.taken[i] \in -drift .. hold
    <2>1. i \in DOMAIN frame.taken
      BY <1>4
    <2>2. w >= anch => w = anch
      BY <1>5, <1>8, <1>9
    <2> HIDE DEF t1
    <2> QED
      BY <1>2, <1>8, <2>1, <2>2, SampleIsClose DEF t1
  <1>11. ClockInv' /\ DeviceInv'
    BY <1>1 DEF TimelineInv, ClockInv, DeviceInv, Waits
  <1>12. AirInv'
    <2> DEFINE m == Len(air)
    <2>1. /\ air \in Seq(FramesSent) /\ m \in Nat \ {0} /\ DOMAIN air = 1 .. m
      BY <1>1, NotEmpty DEF TimelineInv, AirInv
    <2>2. /\ air' \in Seq(FramesSent) /\ DOMAIN air' = 1 .. m - 1
          /\ \A i \in 1 .. m - 1 : air'[i] = air[i + 1] /\ i + 1 \in DOMAIN air
      BY <1>1, <2>1
    <2>3. \A i, j \in DOMAIN air' : i <= j => air'[i].sent <= air'[j].sent
      <3>1. ASSUME NEW i \in 1 .. m - 1, NEW j \in 1 .. m - 1, i <= j
            PROVE  air'[i].sent <= air'[j].sent
        <4>1. i + 1 \in DOMAIN air /\ j + 1 \in DOMAIN air /\ i + 1 <= j + 1
          BY <2>2, <3>1
        <4> QED
          BY <2>2, <4>1 DEF TimelineInv, AirInv
      <3> QED
        BY <2>2, <3>1
    <2>4. \A i \in DOMAIN air' : air'[i].sent <= now /\ now <= air'[i].sent + MaxDelay
      BY <2>2 DEF TimelineInv, AirInv
    <2> QED
      BY <1>1, <1>2, <2>2, <2>3, <2>4, SameFrames DEF AirInv
  <1>13. CASE Readable(frame)
    <2>1. /\ offset' = off /\ anchor' = anch /\ last' = ReadTime(frame, n)
          /\ shown' = [i \in 1 .. n |-> line(i)]
      BY <1>7, <1>13 DEF Receive, frame
    <2>2. last' \in 0 .. TimeModulus - 1 /\ last' >= frame.timestamp
      <3> DEFINE x == (n - 1) * SampleInterval
      <3>1. ReadTime(frame, n) = frame.timestamp + x /\ x \in Nat
        <4>1. n \in DOMAIN frame.taken
          BY <1>4
        <4> QED
          BY <1>2, <1>3, <4>1, FrameTimes DEF ReadTime
      <3>2. n > 1 => ReadTime(frame, n) < TimeModulus
        BY <1>4, <1>13 DEF Readable
      <3>3. n = 1 => ReadTime(frame, n) = frame.timestamp
        <4>1. frame.timestamp \in Int
          BY <1>3, <1>4
        <4> QED
          BY <4>1, ReadTimes
      <3> HIDE DEF x, n
      <3> QED
        BY <1>3, <1>4, <2>1, <3>1, <3>2, <3>3
    <2>3. PageInv'
      <3> DEFINE y == anch * TimeModulus
      <3>1. last' + boot + y >= 0
        <4>1. y \in Int
          BY <1>3, <1>8
        <4>2. frame.timestamp + boot + y >= 0 /\ last' >= frame.timestamp
          BY <1>8, <2>2
        <4>3. boot \in Int /\ frame.timestamp \in Int /\ last' \in Int
          BY <1>3, <1>4, <2>2
        <4> DEFINE read == last'
                   first == frame.timestamp
        <4>4. /\ y \in Int /\ read \in Int /\ first \in Int /\ boot \in Int
              /\ first + boot + y >= 0 /\ read >= first
          BY <4>1, <4>2, <4>3
        <4> HIDE DEF y, read, first
        <4>5. read + boot + y >= 0
          BY <4>4
        <4> QED
          BY <4>5 DEF read
      <3>2. last' # None /\ offset' # None
        BY <1>3, <1>8, <2>1, <2>2, ConstantTypes
      <3> QED
        BY <1>1, <1>2, <1>8, <2>1, <2>2, <3>1, <3>2 DEF PageInv
    <2>4. ASSUME NEW sample \in ToSet(shown')
          PROVE  \E i \in 1 .. n : sample = line(i)
      BY <2>1, <2>4 DEF ToSet
    <2>5. ASSUME NEW sample \in ToSet(shown')
          PROVE  /\ (Uptime(sample.taken) - sample.read) % TimeModulus <= Drift(sample)
                 /\ sample.wraps >= sample.anchor =>
                      sample.plot - sample.taken \in -Drift(sample) .. MaxHold + MaxDelay
      <3>1. PICK i \in 1 .. n : sample = line(i)
        BY <2>4, <2>5
      <3>2. /\ sample.taken = frame.taken[i] /\ sample.read = ReadTime(frame, i)
            /\ sample.plot = ReadTime(frame, i) + off /\ sample.place = i
            /\ sample.wraps = w /\ sample.anchor = anch
        BY <3>1
      <3> QED
        BY <1>10, <3>2 DEF Drift
    <2>6. ReadTimeIsClose' /\ PlotTimeIsClose'
      BY <1>1, <2>5 DEF ReadTimeIsClose, PlotTimeIsClose, Uptime, Drift
    <2> QED
      BY <1>11, <1>12, <2>3, <2>6 DEF TimelineInv
  <1>14. CASE ~Readable(frame)
    <2>1. shown' = <<>> /\ UNCHANGED page
      BY <1>14 DEF Receive, frame
    <2>2. PageInv'
      BY <1>1, <2>1 DEF TimelineInv, PageInv, page
    <2>3. ReadTimeIsClose' /\ PlotTimeIsClose'
      BY <2>1 DEF ReadTimeIsClose, PlotTimeIsClose, ToSet
    <2> QED
      BY <1>11, <1>12, <2>2, <2>3 DEF TimelineInv
  <1> QED
    BY <1>13, <1>14

-----------------------------------------------------------------------------
(* The theorems *)

\* Every step keeps the invariant, and shows what it shows close.
LEMMA StepKeeps ==
  ASSUME TimelineInv, ReadTimeIsClose, PlotTimeIsClose, [Next]_vars
  PROVE  TimelineInv' /\ ReadTimeIsClose' /\ PlotTimeIsClose'
PROOF
  <1>1. ASSUME shown' = <<>>
        PROVE  ReadTimeIsClose' /\ PlotTimeIsClose'
    BY <1>1 DEF ReadTimeIsClose, PlotTimeIsClose, ToSet
  <1>2. CASE Tick
    BY <1>1, <1>2, TickKeeps DEF Tick
  <1>3. CASE Lsm6dslSample
    BY <1>1, <1>3, Lsm6dslSampleKeeps DEF Lsm6dslSample
  <1>4. CASE SingleSample
    BY <1>1, <1>4, SingleSampleKeeps DEF SingleSample
  <1>5. CASE BatchFlushWork
    BY <1>1, <1>5, BatchFlushWorkKeeps DEF BatchFlushWork
  <1>6. CASE Start
    BY <1>1, <1>6, StartKeeps DEF Start
  <1>7. CASE Stop
    BY <1>1, <1>7, StopKeeps DEF Stop
  <1>8. CASE LinkLost \/ Reboot
    BY <1>1, <1>8, DisconnectionKeeps DEF LinkLost, Reboot, Disconnected
  <1>9. CASE Reconnect
    BY <1>1, <1>9, ReconnectKeeps DEF Reconnect
  <1>10. CASE Receive
    BY <1>10, ReceiveKeeps
  <1>11. CASE UNCHANGED vars
    <2>1. UNCHANGED <<now, boot, connected, due, held, air, offset, last, anchor, shown,
                      losses, starts>>
      BY <1>11 DEF vars
    <2>2. TimelineInv'
      BY <2>1, SameFrames DEF TimelineInv, ClockInv, DeviceInv, AirInv, PageInv, Waits
    <2> QED
      BY <2>1, <2>2 DEF ReadTimeIsClose, PlotTimeIsClose, Uptime, Drift
  <1> QED
    BY <1>2, <1>3, <1>4, <1>5, <1>6, <1>7, <1>8, <1>9, <1>10, <1>11 DEF Next

\* The invariant holds, of any frames, delays and restarts.
LEMMA InvHolds == Spec => [](TimelineInv /\ ReadTimeIsClose /\ PlotTimeIsClose)
PROOF
  <1>1. Init => TimelineInv /\ ReadTimeIsClose /\ PlotTimeIsClose
    <2>1. Init => ReadTimeIsClose /\ PlotTimeIsClose
      BY DEF Init, ReadTimeIsClose, PlotTimeIsClose, ToSet
    <2> QED
      BY <2>1, InvAtStart
  <1>2. TimelineInv /\ ReadTimeIsClose /\ PlotTimeIsClose /\ [Next]_vars
          => (TimelineInv /\ ReadTimeIsClose /\ PlotTimeIsClose)'
    BY StepKeeps
  <1> QED
    BY <1>1, <1>2, PTL DEF Spec

\* Every work of the device that is due is due now or later and no frame is overdue, no
\* buffer is left full, and the page keeps the offset and the last timestamp together.
\* (ble_service.c, lsm6dsl_sensor.c, web_api.py)
THEOREM TimesAreKept == Spec => []TypeOK
PROOF
  <1>1. TimelineInv => TypeOK
    BY InvTypes
  <1> QED
    BY <1>1, InvHolds, PTL

\* Whatever the batch sizes and however many fetches fail, a sample is never read later than
\* it was taken, nor earlier than a flush delay for each sample before it in its frame.
\* (ble_service_send_sample, SensorDataPayload.unpack_many)
THEOREM SamplesAreReadClose == Spec => []ReadTimeIsClose
PROOF
  BY InvHolds, PTL

\* Whatever the streams, restarts, disconnections and wraps of the uptime, a sample is shown
\* near the time it was taken, unless its frame was taken before the wrap the offset is of.
\* (_plot_time_ms)
THEOREM SamplesArePlottedClose == Spec => []PlotTimeIsClose
PROOF
  BY InvHolds, PTL

\* A frame the PC gives up has samples on both sides of the wrap.
LEMMA UnreadableIsWrapped ==
  ASSUME TimelineInv, NEW frame \in FramesSent, ~Readable(frame)
  PROVE  Wraps(Last(frame.taken)) > Wraps(Head(frame.taken))
PROOF
  <1> DEFINE t1 == frame.taken[1]
             tn == Last(frame.taken)
  <1>1. boot \in Int /\ TimeModulus \in Nat \ {0}
    BY StateTypes, ConstantTypes
  <1>2. PICK i \in DOMAIN frame.taken : ReadTime(frame, i) >= TimeModulus
    <2>1. PICK i \in DOMAIN frame.taken : ~(ReadTime(frame, i) < TimeModulus)
      BY DEF Readable
    <2>2. frame.timestamp \in Int /\ i \in Nat
      BY <1>1, FrameTimes
    <2>3. ReadTime(frame, i) \in Int
      BY <2>2, ReadTimes
    <2> QED
      BY <1>1, <2>1, <2>3
  <1> DEFINE ti == frame.taken[i]
             w1 == Wraps(t1)
             wn == Wraps(tn)
             x == (i - 1) * SampleInterval
  <1>3. /\ t1 \in Int /\ ti \in Int /\ tn \in Int /\ ti <= tn /\ x \in Nat /\ t1 + x <= ti
        /\ ReadTime(frame, i) = (t1 - boot) - w1 * TimeModulus + x /\ Head(frame.taken) = t1
    <2>1. /\ t1 \in Times /\ ti \in Times /\ ti <= tn /\ x \in Nat /\ Head(frame.taken) = t1
          /\ ti - (t1 + x) \in 0 .. (i - 1) * (FlushDelay - SampleInterval)
          /\ ReadTime(frame, i) = (t1 - boot) - w1 * TimeModulus + x
      BY <1>1, FrameTimes
    <2>2. tn \in Times
      BY NotEmpty DEF FramesSent, GoodFrame
    <2>3. t1 \in Int /\ ti \in Int /\ tn \in Int
      BY <2>1, <2>2, ConstantTypes
    <2>4. (i - 1) * (FlushDelay - SampleInterval) \in Int
      BY <1>1, FrameTimes, ConstantTypes
    <2> HIDE DEF x, t1, ti, tn
    <2> QED
      BY <2>1, <2>3, <2>4
  <1>4. /\ w1 \in Int /\ w1 * TimeModulus \in Int
        /\ wn \in Int /\ wn * TimeModulus \in Int
        /\ (tn - boot) - wn * TimeModulus <= TimeModulus - 1
    <2>1. /\ w1 \in Int /\ w1 * TimeModulus \in Int
          /\ wn \in Int /\ wn * TimeModulus \in Int
          /\ Uptime(tn) = (tn - boot) - wn * TimeModulus
          /\ Uptime(tn) \in 0 .. TimeModulus - 1
      BY <1>1, <1>3, UptimeIs
    <2> QED
      BY <1>1, <2>1
  <1>5. w1 * TimeModulus < wn * TimeModulus
    <2> DEFINE a == w1 * TimeModulus
               b == wn * TimeModulus
    <2>1. /\ a \in Int /\ b \in Int /\ (tn - boot) - b <= TimeModulus - 1
          /\ (t1 - boot) - a + x >= TimeModulus
      BY <1>2, <1>3, <1>4
    <2> HIDE DEF a, b, t1, ti, tn, x
    <2>2. a < b
      BY <1>1, <1>3, <2>1
    <2> QED
      BY <2>2 DEF a, b
  <1>6. ASSUME wn <= w1
        PROVE  FALSE
    <2>1. w1 - wn \in Nat
      BY <1>4, <1>6
    <2>2. (w1 - wn) * TimeModulus \in Nat
      BY <1>1, <2>1
    <2>3. (w1 - wn) * TimeModulus = w1 * TimeModulus - wn * TimeModulus
      BY <1>1, <1>4
    <2> QED
      BY <1>4, <1>5, <2>2, <2>3
  <1> QED
    BY <1>3, <1>4, <1>6

\* A frame that arrives and shows nothing has samples on both sides of the wrap.
LEMMA LostFrameIsWrapped ==
  ASSUME TimelineInv, Next,
         air # <<>>, air' = Tail(air), connected', shown' = <<>>
  PROVE  Wraps(Last(Head(air).taken)) > Wraps(Head(Head(air).taken))
PROOF
  <1>1. /\ air \in Seq(FramesSent) /\ Head(air) \in FramesSent
        /\ Len(air) \in Nat /\ Len(air') = Len(air) - 1
    BY NotEmpty DEF TimelineInv, AirInv
  <1>2. ASSUME air' = air
        PROVE  FALSE
    BY <1>1, <1>2
  <1>3. ASSUME NEW S, NEW frames \in Seq(S), air' = air \o frames
        PROVE  FALSE
    <2>1. air \in Seq(FramesSent \cup S) /\ frames \in Seq(FramesSent \cup S)
      BY <1>1, SeqOfMore, Zenon
    <2>2. Len(air \o frames) = Len(air) + Len(frames) /\ Len(frames) \in Nat
      BY <2>1
    <2> QED
      BY <1>1, <1>3, <2>2
  <1>4. ASSUME NEW buffers, NEW flushed, Flush(buffers, flushed)
        PROVE  FALSE
    BY <1>3, <1>4, FramesAreOfBuffers DEF Flush, Notify
  <1>5. CASE Tick \/ Start \/ Reconnect
    BY <1>2, <1>5 DEF Tick, Start, Reconnect
  <1>6. CASE Lsm6dslSample
    <2>1. \/ air' = air
          \/ \E buffers, flushed : Flush(buffers, flushed)
      BY <1>6 DEF Lsm6dslSample
    <2> QED
      BY <1>2, <1>4, <2>1
  <1>7. CASE SingleSample
    <2> DEFINE frame == FrameOf(<<now>>)
    <2>1. air' = air \o <<frame>>
      BY <1>7 DEF SingleSample, Notify
    <2> HIDE DEF frame
    <2>2. <<frame>> \in Seq({frame})
      OBVIOUS
    <2> QED
      BY <1>3, <2>1, <2>2
  <1>8. CASE BatchFlushWork \/ Stop
    BY <1>4, <1>8 DEF BatchFlushWork, Stop
  <1>9. CASE LinkLost \/ Reboot
    BY <1>9 DEF LinkLost, Reboot, Disconnected
  <1>10. CASE Receive
    <2> DEFINE frame == Head(air)
               n == Len(frame.taken)
    <2>1. /\ frame.timestamp \in Int /\ n \in Nat \ {0} /\ now \in Int
          /\ last \in Int \cup {None} /\ offset \in Int \cup {None}
          /\ (offset = None) = (last = None)
      <3>1. frame.timestamp \in Int /\ n \in Nat \ {0}
        BY <1>1, NotEmpty DEF FramesSent, GoodFrame
      <3> QED
        BY <3>1, StateTypes DEF TimelineInv, PageInv
    <2>2. CASE Readable(frame)
      <3>1. shown' = AfterFrame(frame).shown
        BY <1>10, <2>2 DEF Receive
      <3> DEFINE anew == Older(last, frame.timestamp) \/ offset = None
                 off  == IF anew THEN now - frame.timestamp ELSE offset
                 anch == IF anew THEN Wraps(Head(frame.taken)) ELSE anchor
      <3>2. AfterFrame(frame).shown =
              [i \in 1 .. n |->
                [taken |-> frame.taken[i], read |-> ReadTime(frame, i),
                 plot |-> ReadTime(frame, i) + off, place |-> i,
                 wraps |-> Wraps(Head(frame.taken)), anchor |-> anch]]
        BY <2>1, FrameIsShown
      <3>3. DOMAIN shown' = 1 .. n
        BY <3>1, <3>2, Zenon
      <3>4. 1 \in 1 .. n /\ DOMAIN <<>> = {}
        BY <2>1
      <3> QED
        BY <3>3, <3>4
    <2>3. CASE ~Readable(frame)
      BY <1>1, <2>3, UnreadableIsWrapped
    <2> QED
      BY <2>2, <2>3
  <1> QED
    BY <1>5, <1>6, <1>7, <1>8, <1>9, <1>10 DEF Next

\* A frame whose samples were taken on one side of the wrap is never given up: of all that
\* arrives, only a frame that the wrap cuts shows nothing.  (unpack_many, struct.pack)
THEOREM WholeFramesAreShown == Spec => OnlyTheWrapLosesAFrame
PROOF
  <1>1. TimelineInv /\ [Next]_vars =>
          [ (air # <<>> /\ air' = Tail(air) /\ connected' /\ shown' = <<>>) =>
              Wraps(Last(Head(air).taken)) > Wraps(Head(Head(air).taken)) ]_vars
    BY LostFrameIsWrapped
  <1>2. Spec => []TimelineInv
    BY InvHolds, PTL
  <1> QED
    BY <1>1, <1>2, PTL DEF Spec, OnlyTheWrapLosesAFrame
=============================================================================
