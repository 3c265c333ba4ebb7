------------------------- MODULE MuduoProviderProofs -------------------------
(***************************************************************************)
(* Proofs about the muduo server and its logger, for any connections,      *)
(* threads and streams.                                                    *)
(***************************************************************************)
EXTENDS MuduoProviderProps, SequenceTheorems, FiniteSetTheorems, TLAPS

-----------------------------------------------------------------------------
(***************************************************************************)
(* The frames of a stream.                                                 *)
(***************************************************************************)

\* Positions are naturals; a frame ends its own size behind the one before.
LEMMA EndOfStep ==
    ASSUME NEW s \in Seq(Frame)
    PROVE  /\ EndOf(s)[0] = 0
           /\ \A i \in 0 .. Len(s) : EndOf(s)[i] \in Nat
           /\ \A i \in 0 .. Len(s) - 1 : EndOf(s)[i + 1] = EndOf(s)[i] + FrameSize(s[i + 1])
<1> DEFINE C(i) == {j \in 1 .. i : s[j].args = 1}
<1>1. \A i \in 0 .. Len(s) : EndOf(s)[i] = 2 * i + Cardinality(C(i))
  BY DEF EndOf
<1>2. ASSUME NEW i \in 0 .. Len(s)
      PROVE  IsFiniteSet(C(i)) /\ Cardinality(C(i)) \in Nat
  <2>1. IsFiniteSet(1 .. i)
    BY FS_Interval
  <2>2. C(i) \in SUBSET (1 .. i)
    OBVIOUS
  <2>3. IsFiniteSet(C(i))
    BY <2>1, <2>2, FS_Subset
  <2> QED BY <2>3, FS_CardinalityType
<1>3. EndOf(s)[0] = 0
  <2>1. C(0) = {}
    OBVIOUS
  <2>2. Cardinality(C(0)) = 0
    BY <2>1, FS_EmptySet
  <2>3. 0 \in 0 .. Len(s)
    OBVIOUS
  <2> HIDE DEF C
  <2> QED BY <1>1, <2>2, <2>3
<1>4. ASSUME NEW i \in 0 .. Len(s) - 1
      PROVE  EndOf(s)[i + 1] = EndOf(s)[i] + FrameSize(s[i + 1])
  <2>1. i \in 0 .. Len(s) /\ i + 1 \in 0 .. Len(s) /\ i + 1 \in 1 .. Len(s) /\ i \in Nat
    OBVIOUS
  <2>2. s[i + 1] \in Frame
    BY <2>1
  <2>3. s[i + 1].args \in {0, 1}
    BY <2>2 DEF Frame
  <2>4. 1 .. i + 1 = (1 .. i) \cup {i + 1} /\ i + 1 \notin 1 .. i
    BY <2>1
  <2>5. Cardinality(C(i + 1)) = Cardinality(C(i)) + s[i + 1].args
    <3>1. CASE s[i + 1].args = 0
      <4>1. C(i + 1) = C(i)
        BY <2>4, <3>1
      <4> HIDE DEF C
      <4> QED BY <1>2, <2>1, <3>1, <4>1
    <3>2. CASE s[i + 1].args = 1
      <4>1. C(i + 1) = C(i) \cup {i + 1} /\ i + 1 \notin C(i)
        BY <2>4, <3>2
      <4>2. IsFiniteSet(C(i)) /\ Cardinality(C(i)) \in Nat
        BY <1>2, <2>1
      <4> HIDE DEF C
      <4>3. Cardinality(C(i) \cup {i + 1}) = Cardinality(C(i)) + 1
        BY <4>1, <4>2, FS_AddElement
      <4> QED BY <3>2, <4>1, <4>3
    <3> QED BY <2>3, <3>1, <3>2
  <2>6. Cardinality(C(i)) \in Nat
    BY <1>2, <2>1
  <2> HIDE DEF C
  <2> QED BY <1>1, <2>1, <2>3, <2>5, <2>6 DEF FrameSize
<1>5. \A i \in 0 .. Len(s) : EndOf(s)[i] \in Nat
  <2> HIDE DEF C
  <2> QED BY <1>1, <1>2
<1> QED BY <1>3, <1>4, <1>5

\* Of two frames the later one ends later.
LEMMA EndOfGrows ==
    ASSUME NEW s \in Seq(Frame), NEW i \in 0 .. Len(s), NEW j \in 0 .. Len(s), i < j
    PROVE  EndOf(s)[i] < EndOf(s)[j]
<1> DEFINE C(k) == {n \in 1 .. k : s[n].args = 1}
<1>1. EndOf(s)[i] = 2 * i + Cardinality(C(i)) /\ EndOf(s)[j] = 2 * j + Cardinality(C(j))
  BY DEF EndOf
<1>2. IsFiniteSet(1 .. j)
  BY FS_Interval
<1>3. C(j) \in SUBSET (1 .. j) /\ C(i) \in SUBSET C(j)
  OBVIOUS
<1>4. IsFiniteSet(C(j))
  BY <1>2, <1>3, FS_Subset
<1> HIDE DEF C
<1>5. IsFiniteSet(C(i)) /\ Cardinality(C(i)) <= Cardinality(C(j))
  BY <1>3, <1>4, FS_Subset
<1>6. Cardinality(C(i)) \in Nat /\ Cardinality(C(j)) \in Nat
  BY <1>4, <1>5, FS_CardinalityType
<1> QED BY <1>1, <1>5, <1>6

\* FramesExact for one connection.
CutAt(c) ==
    /\ arrived[c] <= Total(c) /\ retrieved[c] <= arrived[c]
    /\ Len(fate[c]) <= Len(stream[c])
    /\ retrieved[c] = EndOf(stream[c])[Len(fate[c])]
    /\ \A i \in DOMAIN fate[c] :
          /\ stream[c][i].kind # "badHeader"
          /\ (fate[c][i] = "dropped") = (stream[c][i].kind # "ok")

\* FramesExact is about the connections one by one.
LEMMA FramesExactParts ==
    FramesExact <=> ConnTypeOK /\ LogTypeOK /\ \A c \in Conns : CutAt(c)
BY DEF FramesExact, TypeOK, CutAt

\* The types of what a connection keeps.
LEMMA ConnTypes ==
    ASSUME ConnTypeOK, NEW c \in Conns
    PROVE  /\ stream[c] \in Seq(Frame) /\ fate[c] \in Seq(Fates)
           /\ Len(stream[c]) \in Nat /\ Len(fate[c]) \in Nat
           /\ DOMAIN stream[c] = 1 .. Len(stream[c]) /\ DOMAIN fate[c] = 1 .. Len(fate[c])
           /\ arrived[c] \in Nat /\ retrieved[c] \in Nat /\ loopOf[c] \in IoThreads
           /\ answers[c] \in Seq(Nat) /\ Total(c) \in Nat
<1>1. stream[c] \in Seq(Frame) /\ fate[c] \in Seq(Fates) /\ answers[c] \in Seq(Nat)
  BY MuduoAssumption DEF ConnTypeOK
<1>2. arrived[c] \in Nat /\ retrieved[c] \in Nat /\ loopOf[c] \in IoThreads
  BY DEF ConnTypeOK
<1>3. Len(stream[c]) \in Nat /\ Len(fate[c]) \in Nat
  BY <1>1
<1>4. DOMAIN stream[c] = 1 .. Len(stream[c]) /\ DOMAIN fate[c] = 1 .. Len(fate[c])
  BY <1>1
<1>5. Total(c) \in Nat
  BY <1>1, <1>3, EndOfStep DEF Total
<1> QED BY <1>1, <1>2, <1>3, <1>4, <1>5

\* When a header is complete, the frame at the head is the one behind those
\* handled: the CHOOSE of AtHead finds it and nothing else.
LEMMA HeadIs ==
    ASSUME ConnTypeOK, NEW c \in Conns, CutAt(c), HeaderComplete(c)
    PROVE  /\ Len(fate[c]) < Len(stream[c])
           /\ AtHead(c) = Len(fate[c]) + 1
           /\ HeadFrame(c) = stream[c][Len(fate[c]) + 1]
           /\ HeadFrame(c) \in Frame
<1> DEFINE s == stream[c]
           n == Len(fate[c])
<1>1. s \in Seq(Frame) /\ n \in Nat /\ n <= Len(s) /\ Len(s) \in Nat
  BY ConnTypes DEF CutAt
<1>2. retrieved[c] = EndOf(s)[n] /\ arrived[c] - retrieved[c] >= 2
      /\ arrived[c] <= EndOf(s)[Len(s)] /\ arrived[c] \in Nat /\ retrieved[c] \in Nat
  BY ConnTypes DEF CutAt, HeaderComplete, Readable, Total
<1>3. DOMAIN s = 1 .. Len(s)
  BY ConnTypes
<1>4. EndOf(s)[Len(s)] \in Nat
  BY <1>1, EndOfStep
<1>5. n # Len(s)
  BY <1>1, <1>2, <1>4
<1>6. n + 1 \in DOMAIN s /\ EndOf(s)[n + 1 - 1] = retrieved[c] /\ n + 1 # 0
  BY <1>1, <1>2, <1>3, <1>5
<1>7. ASSUME NEW i \in DOMAIN s, EndOf(s)[i - 1] = retrieved[c]
      PROVE  i = n + 1
  <2>1. i - 1 \in 0 .. Len(s) /\ n \in 0 .. Len(s)
    BY <1>1, <1>3
  <2>2. ~(i - 1 < n) /\ ~(n < i - 1)
    <3>1. EndOf(s)[i - 1] = EndOf(s)[n] /\ EndOf(s)[n] \in Nat
      BY <1>2, <1>7
    <3> HIDE DEF s, n
    <3>2. ASSUME i - 1 < n PROVE FALSE
      BY <1>1, <2>1, <3>1, <3>2, EndOfGrows
    <3>3. ASSUME n < i - 1 PROVE FALSE
      BY <1>1, <2>1, <3>1, <3>3, EndOfGrows
    <3> QED BY <3>2, <3>3
  <2> QED BY <1>1, <1>3, <2>1, <2>2
<1>8. AtHead(c) = n + 1
  BY <1>6, <1>7 DEF AtHead
<1>9. HeadFrame(c) = s[n + 1]
  BY <1>6, <1>8 DEF HeadFrame
<1>10. s[n + 1] \in Frame
  BY <1>1, <1>6
<1> QED BY <1>1, <1>5, <1>8, <1>9, <1>10

-----------------------------------------------------------------------------
(***************************************************************************)
(* The messages and where they are.                                        *)
(***************************************************************************)

\* What is where in three sequences put together.
LEMMA ThreeTogether ==
    ASSUME NEW S, NEW a \in Seq(S), NEW b \in Seq(S), NEW q \in Seq(S)
    PROVE  /\ a \o b \o q \in Seq(S)
           /\ Len(a \o b \o q) = Len(a) + Len(b) + Len(q)
           /\ \A i \in 1 .. Len(a) + Len(b) + Len(q) :
                 (a \o b \o q)[i] = IF i <= Len(a) THEN a[i]
                                    ELSE IF i <= Len(a) + Len(b) THEN b[i - Len(a)]
                                    ELSE q[i - Len(a) - Len(b)]
<1>1. /\ a \o b \in Seq(S) /\ Len(a \o b) = Len(a) + Len(b)
      /\ \A i \in 1 .. Len(a) + Len(b) :
            (a \o b)[i] = IF i <= Len(a) THEN a[i] ELSE b[i - Len(a)]
  BY ConcatProperties
<1>2. /\ (a \o b) \o q \in Seq(S) /\ Len((a \o b) \o q) = Len(a) + Len(b) + Len(q)
      /\ \A i \in 1 .. Len(a) + Len(b) + Len(q) :
            ((a \o b) \o q)[i] = IF i <= Len(a) + Len(b) THEN (a \o b)[i]
                                 ELSE q[i - (Len(a) + Len(b))]
  BY <1>1, ConcatProperties
<1>3. Len(a) \in Nat /\ Len(b) \in Nat /\ Len(q) \in Nat
  OBVIOUS
<1>4. ASSUME NEW i \in 1 .. Len(a) + Len(b) + Len(q)
      PROVE  ((a \o b) \o q)[i] = IF i <= Len(a) THEN a[i]
                                  ELSE IF i <= Len(a) + Len(b) THEN b[i - Len(a)]
                                  ELSE q[i - Len(a) - Len(b)]
  <2>1. CASE i <= Len(a) + Len(b)
    <3>1. i \in 1 .. Len(a) + Len(b)
      BY <1>3, <2>1
    <3> QED BY <1>1, <1>2, <1>3, <2>1, <3>1
  <2>2. CASE ~(i <= Len(a) + Len(b))
    <3>1. ~(i <= Len(a)) /\ i - (Len(a) + Len(b)) = i - Len(a) - Len(b)
      BY <1>3, <2>2
    <3> QED BY <1>2, <2>2, <3>1
  <2> QED BY <2>1, <2>2
<1> QED BY <1>2, <1>4

\* What Reported is.
LEMMA ReportedIs ==
    ASSUME LogTypeOK
    PROVE  /\ Reported \in Seq(Message) /\ Len(Reported) \in Nat
           /\ DOMAIN Reported = 1 .. Len(Reported)
           /\ Len(Reported) = Len(lines) + Len(popped) + Len(m_queue)
           /\ \A i \in 1 .. Len(Reported) :
                 Reported[i] = IF i <= Len(lines) THEN lines[i]
                               ELSE IF i <= Len(lines) + Len(popped) THEN popped[i - Len(lines)]
                               ELSE m_queue[i - Len(lines) - Len(popped)]
<1>1. lines \in Seq(Message) /\ popped \in Seq(Message) /\ m_queue \in Seq(Message)
  BY DEF LogTypeOK
<1>2. Reported \in Seq(Message)
  BY <1>1, ThreeTogether DEF Reported
<1>3. Len(Reported) \in Nat /\ DOMAIN Reported = 1 .. Len(Reported)
  BY <1>2
<1> QED BY <1>1, <1>2, <1>3, ThreeTogether DEF Reported

\* The same after a step.
LEMMA ReportedIsNext ==
    ASSUME LogTypeOK'
    PROVE  /\ DOMAIN Reported' = 1 .. Len(Reported')
           /\ Len(Reported') = Len(lines') + Len(popped') + Len(m_queue')
           /\ \A i \in 1 .. Len(Reported') :
                 Reported'[i] = IF i <= Len(lines') THEN lines'[i]
                                ELSE IF i <= Len(lines') + Len(popped') THEN popped'[i - Len(lines')]
                                ELSE m_queue'[i - Len(lines') - Len(popped')]
<1>1. lines' \in Seq(Message) /\ popped' \in Seq(Message) /\ m_queue' \in Seq(Message)
  BY DEF LogTypeOK
<1>2. Reported' = lines' \o popped' \o m_queue'
  BY DEF Reported
<1>3. Reported' \in Seq(Message)
  BY <1>1, <1>2, ThreeTogether
<1>4. DOMAIN Reported' = 1 .. Len(Reported')
  BY <1>3
<1> QED BY <1>1, <1>2, <1>4, ThreeTogether

\* What a message is about stays the same on its way to the file, and so does
\* its place among the others; the stamp alone changes.
LEMMA WriterKeeps ==
    ASSUME LogTypeOK, WriterStep \/ SpuriousWake
    PROVE  /\ LogTypeOK' /\ UNCHANGED logging
           /\ DOMAIN Reported' = DOMAIN Reported
           /\ \A k \in DOMAIN Reported : Reported'[k].msg = Reported[k].msg
<1>1. CASE OpenFile \/ SpuriousWake
  <2>1. UNCHANGED <<logging, m_queue, popped, lines, m_loglevel>>
    BY <1>1 DEF OpenFile, SpuriousWake
  <2>2. LogTypeOK'
    BY <1>1, <2>1 DEF OpenFile, SpuriousWake, LogTypeOK
  <2> QED BY <2>1, <2>2 DEF Reported
<1>2. CASE Pop
  <2>1. CASE m_queue = <<>>
    <3>1. UNCHANGED <<logging, m_queue, popped, lines, m_loglevel>> /\ writer' = "waiting"
      BY <1>2, <2>1 DEF Pop
    <3>2. LogTypeOK'
      BY <1>2, <3>1 DEF Pop, LogTypeOK
    <3> QED BY <3>1, <3>2 DEF Reported
  <2>2. CASE m_queue # <<>>
    <3>1. /\ writer' = "write" /\ popped' = <<Head(m_queue)>> /\ m_queue' = Tail(m_queue)
          /\ UNCHANGED <<logging, lines, m_loglevel>>
      BY <1>2, <2>2 DEF Pop
    <3>2. /\ Head(m_queue) \in Message /\ Head(m_queue) = m_queue[1]
          /\ Tail(m_queue) \in Seq(Message)
          /\ Len(Tail(m_queue)) = Len(m_queue) - 1 /\ Len(m_queue) \in Nat
          /\ \A i \in 1 .. Len(m_queue) - 1 : Tail(m_queue)[i] = m_queue[i + 1]
      BY <2>2, HeadTailProperties DEF LogTypeOK
    <3>3. LogTypeOK'
      BY <3>1, <3>2 DEF LogTypeOK
    <3>4. Len(popped) = 0 /\ Len(popped') = 1 /\ Len(lines) \in Nat
      BY <1>2, <3>1 DEF Pop, LogTypeOK
    <3>5. Len(Reported') = Len(Reported)
      <4>1. Len(Reported) = Len(lines) + 0 + Len(m_queue)
        BY <3>4, ReportedIs
      <4>2. Len(Reported') = Len(lines) + 1 + (Len(m_queue) - 1)
        BY <3>1, <3>2, <3>3, <3>4, ReportedIsNext
      <4> QED BY <3>2, <3>4, <4>1, <4>2
    <3>6. ASSUME NEW i \in 1 .. Len(Reported) PROVE Reported'[i] = Reported[i]
      <4>1. CASE i <= Len(lines)
        BY <3>1, <3>3, <3>5, <4>1, ReportedIs, ReportedIsNext
      <4>2. CASE i = Len(lines) + 1
        BY <3>1, <3>2, <3>3, <3>4, <3>5, <4>2, ReportedIs, ReportedIsNext
      <4>3. CASE i > Len(lines) + 1
        <5>1. /\ i - Len(lines) - 1 \in 1 .. Len(m_queue) - 1
              /\ i - Len(lines) - 0 = (i - Len(lines) - 1) + 1
          BY <3>2, <3>4, <4>3, ReportedIs
        <5>2. Reported[i] = m_queue[i - Len(lines) - 0]
          BY <3>4, <4>3, ReportedIs
        <5>3. Reported'[i] = m_queue'[i - Len(lines) - 1]
          <6>1. ~(i <= Len(lines')) /\ ~(i <= Len(lines') + Len(popped'))
            BY <3>1, <3>4, <4>3
          <6>2. i \in 1 .. Len(Reported')
            BY <3>5
          <6>3. Reported'[i] = m_queue'[i - Len(lines') - Len(popped')]
            BY <3>3, <6>1, <6>2, ReportedIsNext
          <6> QED BY <3>1, <3>4, <6>3
        <5> QED BY <3>1, <3>2, <5>1, <5>2, <5>3
      <4> QED BY <3>4, <4>1, <4>2, <4>3
    <3> QED BY <3>1, <3>3, <3>5, <3>6, ReportedIs, ReportedIsNext
  <2> QED BY <2>1, <2>2
<1>3. CASE WriteLine
  <2> DEFINE m == [popped[1] EXCEPT !.stamp = m_loglevel]
  <2>1. /\ writer = "write" /\ writer' = "open" /\ popped' = <<>> /\ lines' = Append(lines, m)
        /\ UNCHANGED <<logging, m_queue, m_loglevel>>
    BY <1>3 DEF WriteLine
  <2>2. Len(popped) = 1 /\ popped[1] \in Message /\ Len(lines) \in Nat /\ Len(m_queue) \in Nat
    <3>1. popped \in Seq(Message) /\ lines \in Seq(Message) /\ m_queue \in Seq(Message)
          /\ Len(popped) = 1
      BY <2>1 DEF LogTypeOK
    <3>2. popped[1] \in Message
      <4>1. 1 \in 1 .. Len(popped)
        BY <3>1
      <4> QED BY <3>1, <4>1, ElementOfSeq
    <3> QED BY <3>1, <3>2
  <2>3. m \in Message /\ m.msg = popped[1].msg
    BY <2>2 DEF Message, LogTypeOK
  <2> HIDE DEF m
  <2>4. /\ lines' \in Seq(Message) /\ Len(lines') = Len(lines) + 1
        /\ lines'[Len(lines) + 1] = m
        /\ \A i \in 1 .. Len(lines) : lines'[i] = lines[i]
    BY <2>1, <2>3 DEF LogTypeOK
  <2>5. LogTypeOK' /\ Len(popped') = 0
    BY <2>1, <2>4 DEF LogTypeOK
  <2>6. Len(Reported') = Len(Reported)
    <3>1. Len(Reported) = Len(lines) + 1 + Len(m_queue)
      BY <2>2, ReportedIs
    <3>2. Len(Reported') = (Len(lines) + 1) + 0 + Len(m_queue)
      BY <2>1, <2>4, <2>5, ReportedIsNext
    <3> QED BY <2>2, <3>1, <3>2
  <2>7. ASSUME NEW i \in 1 .. Len(Reported) PROVE Reported'[i].msg = Reported[i].msg
    <3>1. CASE i <= Len(lines)
      <4>1. Reported'[i] = lines'[i] /\ Reported[i] = lines[i]
        BY <2>2, <2>4, <2>5, <2>6, <3>1, ReportedIs, ReportedIsNext
      <4> QED BY <2>2, <2>4, <3>1, <4>1
    <3>2. CASE i = Len(lines) + 1
      <4>1. Reported'[i] = lines'[i] /\ Reported[i] = popped[1]
        BY <2>2, <2>4, <2>5, <2>6, <3>2, ReportedIs, ReportedIsNext
      <4> QED BY <2>3, <2>4, <3>2, <4>1
    <3>3. CASE i > Len(lines) + 1
      <4>1. Reported[i] = m_queue[i - Len(lines) - 1]
        BY <2>2, <3>3, ReportedIs
      <4>2. Reported'[i] = m_queue'[i - (Len(lines) + 1) - 0]
        BY <2>2, <2>4, <2>5, <2>6, <3>3, ReportedIs, ReportedIsNext
      <4>3. i - (Len(lines) + 1) - 0 = i - Len(lines) - 1
        BY <2>2
      <4> QED BY <2>1, <4>1, <4>2, <4>3
    <3> QED BY <2>2, <3>1, <3>2, <3>3
  <2> QED BY <2>1, <2>5, <2>6, <2>7, ReportedIs, ReportedIsNext
<1> QED BY <1>1, <1>2, <1>3 DEF WriterStep

\* The second half of a macro puts the message behind all others.
LEMMA PushAppends ==
    ASSUME LogTypeOK, NEW t \in LogThreads, Push(t)
    PROVE  /\ LogTypeOK' /\ Len(logging[t]) = 1 /\ Len(Reported) \in Nat
           /\ logging' = [logging EXCEPT ![t] = <<>>]
           /\ DOMAIN Reported = 1 .. Len(Reported)
           /\ DOMAIN Reported' = 1 .. Len(Reported) + 1
           /\ \A k \in 1 .. Len(Reported) : Reported'[k] = Reported[k]
           /\ Reported'[Len(Reported) + 1] = logging[t][1]
<1>1. /\ m_queue' = m_queue \o logging[t] /\ logging' = [logging EXCEPT ![t] = <<>>]
      /\ writer' = (IF writer = "waiting" THEN "pop" ELSE writer) /\ logging[t] # <<>>
      /\ UNCHANGED <<popped, lines, m_loglevel>>
  BY DEF Push, Enqueued, Notified
<1>2. logging[t] \in Seq(Message) /\ Len(logging[t]) <= 1
  BY DEF LogTypeOK
<1>3. Len(logging[t]) = 1
  <2> DEFINE n == Len(logging[t])
  <2>1. n \in Nat \ {0}
    BY <1>1, <1>2, EmptySeq
  <2>2. n <= 1
    BY <1>2
  <2> HIDE DEF n
  <2>3. n = 1
    BY <2>1, <2>2
  <2> QED BY <2>3 DEF n
<1>4. /\ m_queue \in Seq(Message) /\ m_queue' \in Seq(Message) /\ Len(m_queue) \in Nat
      /\ Len(m_queue') = Len(m_queue) + 1
      /\ \A i \in 1 .. Len(m_queue) + 1 :
            m_queue'[i] = IF i <= Len(m_queue) THEN m_queue[i] ELSE logging[t][i - Len(m_queue)]
  BY <1>1, <1>2, <1>3, ConcatProperties DEF LogTypeOK
<1>5. LogTypeOK'
  <2>1. logging' \in [LogThreads -> Seq(Message)] /\ \A u \in LogThreads : Len(logging'[u]) <= 1
    BY <1>1 DEF LogTypeOK
  <2> QED BY <1>1, <1>4, <2>1 DEF LogTypeOK
<1>6. Len(lines) \in Nat /\ Len(popped) \in Nat
  BY DEF LogTypeOK
<1>7. Len(Reported') = Len(Reported) + 1 /\ Len(Reported) = Len(lines) + Len(popped) + Len(m_queue)
  <2>1. Len(Reported) = Len(lines) + Len(popped) + Len(m_queue)
    BY ReportedIs
  <2>2. Len(Reported') = Len(lines) + Len(popped) + (Len(m_queue) + 1)
    BY <1>1, <1>4, <1>5, ReportedIsNext
  <2> QED BY <1>4, <1>6, <2>1, <2>2
<1>8. ASSUME NEW i \in 1 .. Len(Reported) + 1
      PROVE  Reported'[i] = IF i <= Len(Reported) THEN Reported[i] ELSE logging[t][1]
  <2>1. Reported'[i] = IF i <= Len(lines) THEN lines[i]
                       ELSE IF i <= Len(lines) + Len(popped) THEN popped[i - Len(lines)]
                       ELSE m_queue'[i - Len(lines) - Len(popped)]
    BY <1>1, <1>5, <1>7, ReportedIs, ReportedIsNext
  <2>2. CASE i <= Len(Reported)
    <3>1. i \in 1 .. Len(Reported)
      BY <1>6, <1>7, <2>2, ReportedIs
    <3>2. CASE i <= Len(lines) + Len(popped)
      BY <2>1, <2>2, <3>1, <3>2, <1>6, ReportedIs
    <3>3. CASE ~(i <= Len(lines) + Len(popped))
      <4>1. /\ i - Len(lines) - Len(popped) \in 1 .. Len(m_queue) + 1
            /\ i - Len(lines) - Len(popped) <= Len(m_queue) /\ ~(i <= Len(lines))
        BY <1>4, <1>6, <1>7, <3>1, <3>3
      <4>2. Reported[i] = m_queue[i - Len(lines) - Len(popped)]
        BY <3>1, <3>3, <4>1, ReportedIs
      <4> QED BY <1>4, <2>1, <2>2, <3>3, <4>1, <4>2
    <3> QED BY <3>2, <3>3
  <2>3. CASE ~(i <= Len(Reported))
    <3>1. /\ i - Len(lines) - Len(popped) = Len(m_queue) + 1
          /\ Len(m_queue) + 1 \in 1 .. Len(m_queue) + 1 /\ ~(Len(m_queue) + 1 <= Len(m_queue))
          /\ ~(i <= Len(lines)) /\ ~(i <= Len(lines) + Len(popped))
          /\ (Len(m_queue) + 1) - Len(m_queue) = 1
      <4> DEFINE a == Len(lines)
                 b == Len(popped)
                 q == Len(m_queue)
      <4>1. a \in Nat /\ b \in Nat /\ q \in Nat /\ i \in 1 .. (a + b + q) + 1 /\ ~(i <= a + b + q)
        BY <1>4, <1>6, <1>7, <2>3
      <4> HIDE DEF a, b, q
      <4>2. /\ i - a - b = q + 1 /\ q + 1 \in 1 .. q + 1 /\ ~(q + 1 <= q)
            /\ ~(i <= a) /\ ~(i <= a + b) /\ (q + 1) - q = 1
        BY <4>1
      <4> QED BY <4>2 DEF a, b, q
    <3> QED BY <1>4, <2>1, <2>3, <3>1
  <2> QED BY <2>2, <2>3
<1>9. /\ \A i \in 1 .. Len(Reported) : i \in 1 .. Len(Reported) + 1 /\ i <= Len(Reported)
      /\ Len(Reported) + 1 \in 1 .. Len(Reported) + 1 /\ ~(Len(Reported) + 1 <= Len(Reported))
  BY ReportedIs
<1>10. DOMAIN Reported = 1 .. Len(Reported) /\ Len(Reported) \in Nat
  BY ReportedIs
<1>11. DOMAIN Reported' = 1 .. Len(Reported')
  BY <1>5, ReportedIs, ReportedIsNext
<1> QED BY <1>1, <1>3, <1>5, <1>7, <1>8, <1>9, <1>10, <1>11

\* The first half of a macro: one more thread holds a message.
LEMMA SetKeeps ==
    ASSUME LogTypeOK, NEW t \in LogThreads, NEW lv \in {"INFO", "ERROR"},
           NEW m \in (Conns \X Nat) \cup {<<"start", 0>>}, NotLogging(t), SetLogLevel(t, lv, m)
    PROVE  /\ LogTypeOK' /\ Reported' = Reported
           /\ logging' \in [LogThreads -> Seq(Message)]
           /\ Len(logging[t]) = 0 /\ Len(logging'[t]) = 1 /\ logging'[t][1].msg = m
           /\ \A u \in LogThreads \ {t} : logging'[u] = logging[u]
<1>1. [level |-> lv, stamp |-> lv, msg |-> m] \in Message
  BY DEF Message
<1> DEFINE r == [level |-> lv, stamp |-> lv, msg |-> m]
<1>2. r.msg = m /\ r \in Message
  BY <1>1
<1>3. /\ m_loglevel' = lv /\ logging' = [logging EXCEPT ![t] = <<r>>]
      /\ UNCHANGED <<m_queue, writer, popped, lines>>
  BY DEF SetLogLevel
<1> HIDE DEF r
<1>4. logging' \in [LogThreads -> Seq(Message)] /\ logging'[t] = <<r>> /\ Len(logging'[t]) = 1
      /\ \A u \in LogThreads \ {t} : logging'[u] = logging[u]
  BY <1>2, <1>3 DEF LogTypeOK
<1>5. \A u \in LogThreads : Len(logging'[u]) <= 1
  <2>1. \A u \in LogThreads : Len(logging[u]) <= 1
    BY DEF LogTypeOK
  <2>2. 1 <= 1
    OBVIOUS
  <2> QED BY <1>4, <2>1, <2>2, Zenon
<1>6. LogTypeOK'
  BY <1>3, <1>4, <1>5 DEF LogTypeOK
<1> QED BY <1>2, <1>3, <1>4, <1>6 DEF Reported, NotLogging

\* What was lost before a step is what is lost after it.
SameLost ==
    \A c \in Conns : \A i \in Nat : \A x \in Lost :
       (i \in DOMAIN fate'[c] /\ fate'[c][i] = x) <=> (i \in DOMAIN fate[c] /\ fate[c][i] = x)

\* The messages stay where they are and no frame is lost.
LEMMA LogStable ==
    ASSUME ConnTypeOK, ConnTypeOK', MessageInv, PlaceInv, OrderInv, HolderInv,
           UNCHANGED <<stream, loopOf, logging>>, SameLost,
           DOMAIN Reported' = DOMAIN Reported,
           \A k \in DOMAIN Reported : Reported'[k].msg = Reported[k].msg
    PROVE  MessageInv' /\ PlaceInv' /\ OrderInv' /\ HolderInv'
<1>0. \A c \in Conns : DOMAIN fate[c] \subseteq Nat /\ DOMAIN fate'[c] \subseteq Nat
  BY DEF ConnTypeOK
<1>1. \A k, c, i : Written(k, c, i)' <=> Written(k, c, i)
  BY DEF Written
<1>2. \A t, c, i : Holds(t, c, i)' <=> Holds(t, c, i)
  BY DEF Holds
<1>3. \A m : Justified(m) => Justified(m)'
  BY <1>0 DEF Justified, SameLost
<1>4. MessageInv'
  BY <1>3 DEF MessageInv
<1>5. PlaceInv'
  <2> SUFFICES ASSUME NEW c \in Conns, NEW i \in DOMAIN fate'[c], fate'[c][i] \in Lost
               PROVE  /\ (\E k \in DOMAIN Reported : Written(k, c, i))
                            \/ (\E t \in LogThreads : Holds(t, c, i))
                      /\ \A k, l \in DOMAIN Reported : Written(k, c, i) /\ Written(l, c, i) => k = l
                      /\ \A t, u \in LogThreads : Holds(t, c, i) /\ Holds(u, c, i) => t = u
                      /\ \A k \in DOMAIN Reported, t \in LogThreads :
                            ~(Written(k, c, i) /\ Holds(t, c, i))
    BY <1>1, <1>2 DEF PlaceInv
  <2>1. i \in DOMAIN fate[c] /\ fate[c][i] \in Lost
    BY <1>0 DEF SameLost
  <2> QED BY <2>1 DEF PlaceInv
<1>6. OrderInv'
  <2> SUFFICES ASSUME NEW c \in Conns, NEW i \in DOMAIN fate'[c], NEW j \in DOMAIN fate'[c],
                      fate'[c][i] = "dropped", fate'[c][j] = "dropped", j < i
               PROVE  /\ \A k, l \in DOMAIN Reported : Written(k, c, i) /\ Written(l, c, j) => l < k
                      /\ \A t \in LogThreads : ~Holds(t, c, j)
    BY <1>1, <1>2 DEF OrderInv
  <2>1. /\ i \in DOMAIN fate[c] /\ fate[c][i] = "dropped"
        /\ j \in DOMAIN fate[c] /\ fate[c][j] = "dropped"
    BY <1>0 DEF SameLost, Lost
  <2> QED BY <2>1 DEF OrderInv
<1>7. HolderInv'
  <2> SUFFICES ASSUME NEW c \in Conns, NEW i \in DOMAIN fate'[c], NEW t \in LogThreads,
                      fate'[c][i] = "dropped", Holds(t, c, i)
               PROVE  t = loopOf[c]
    BY <1>2 DEF HolderInv
  <2>1. i \in DOMAIN fate[c] /\ fate[c][i] = "dropped"
    BY <1>0 DEF SameLost, Lost
  <2> QED BY <2>1 DEF HolderInv
<1> QED BY <1>4, <1>5, <1>6, <1>7

\* A thread takes up a message, about the frame lost in this step or about none
\* that is lost.
LEMMA LogHeld ==
    ASSUME ConnTypeOK, ConnTypeOK', MessageInv, PlaceInv, OrderInv, HolderInv,
           UNCHANGED <<stream, loopOf>>, Reported' = Reported,
           NEW t \in LogThreads, Len(logging[t]) = 0, Len(logging'[t]) = 1,
           \A u \in LogThreads \ {t} : logging'[u] = logging[u],
           NEW m, logging'[t][1].msg = m, Justified(m)',
           \A c \in Conns : \A i \in Nat : \A x \in Lost :
              (i \in DOMAIN fate'[c] /\ fate'[c][i] = x /\ m # <<c, i>>)
                 <=> (i \in DOMAIN fate[c] /\ fate[c][i] = x),
           \A c \in Conns : \A i \in DOMAIN fate'[c] : stream[c][i].kind # "badHeader",
           \A c \in Conns : \A i \in DOMAIN fate'[c] :
              m = <<c, i>> /\ fate'[c][i] = "dropped" =>
                 /\ t = loopOf[c]
                 /\ \A j \in DOMAIN fate'[c] : fate'[c][j] = "dropped" => j <= i
    PROVE  MessageInv' /\ PlaceInv' /\ OrderInv' /\ HolderInv'
<1>0. \A c \in Conns : DOMAIN fate[c] \subseteq Nat /\ DOMAIN fate'[c] \subseteq Nat
  BY DEF ConnTypeOK
<1>1. \A k, c, i : Written(k, c, i)' <=> Written(k, c, i)
  BY DEF Written
<1>2. \A c, i : /\ ~Holds(t, c, i)
                /\ Holds(t, c, i)' <=> m = <<c, i>>
                /\ \A u \in LogThreads \ {t} : Holds(u, c, i)' <=> Holds(u, c, i)
  BY DEF Holds
<1>3. \A x : Justified(x) => Justified(x)'
  BY <1>0 DEF Justified
<1>4. MessageInv'
  <2>1. \A k \in DOMAIN Reported : Justified(Reported[k].msg)'
    BY <1>3 DEF MessageInv
  <2>2. ASSUME NEW u \in LogThreads, (Len(logging[u]) = 1)'
        PROVE  Justified(logging[u][1].msg)'
    <3>1. CASE u = t
      BY <3>1
    <3>2. CASE u # t
      <4>1. logging'[u] = logging[u] /\ Justified(logging[u][1].msg)
        BY <2>2, <3>2 DEF MessageInv
      <4> QED BY <1>3, <4>1
    <3> QED BY <3>1, <3>2
  <2> QED BY <2>1, <2>2 DEF MessageInv
<1>5. ASSUME NEW c \in Conns, NEW i \in DOMAIN fate'[c], m = <<c, i>>, fate'[c][i] \in Lost
      PROVE  (\A k \in DOMAIN Reported : ~Written(k, c, i))
             /\ (\A u \in LogThreads : ~Holds(u, c, i))
  <2>1. ~Justified(<<c, i>>)
    <3> SUFFICES ASSUME Justified(<<c, i>>) PROVE FALSE
      OBVIOUS
    <3>1. <<c, i>> # <<"start", 0>>
      <4>1. i # 0
        <5>1. fate'[c] \in Seq(Fates)
          BY DEF ConnTypeOK
        <5> QED BY <5>1
      <4> QED BY <4>1
    <3>2. \/ i \in DOMAIN fate[c] /\ fate[c][i] \in Lost
          \/ stream[c][i].kind = "badHeader"
      BY <3>1 DEF Justified
    <3>3. ~(i \in DOMAIN fate[c] /\ fate[c][i] \in Lost)
      BY <1>0, <1>5
    <3> QED BY <3>2, <3>3
  <2> QED BY <2>1 DEF MessageInv, Written, Holds
<1>6. PlaceInv'
  <2> SUFFICES ASSUME NEW c \in Conns, NEW i \in DOMAIN fate'[c], fate'[c][i] \in Lost
               PROVE  /\ (\E k \in DOMAIN Reported : Written(k, c, i))
                            \/ (\E u \in LogThreads : Holds(u, c, i)')
                      /\ \A k, l \in DOMAIN Reported : Written(k, c, i) /\ Written(l, c, i) => k = l
                      /\ \A u, v \in LogThreads : Holds(u, c, i)' /\ Holds(v, c, i)' => u = v
                      /\ \A k \in DOMAIN Reported, u \in LogThreads :
                            ~(Written(k, c, i) /\ Holds(u, c, i)')
    BY <1>1 DEF PlaceInv
  <2>1. CASE m = <<c, i>>
    BY <1>2, <1>5, <2>1
  <2>2. CASE m # <<c, i>>
    <3>1. i \in DOMAIN fate[c] /\ fate[c][i] \in Lost
      BY <1>0, <2>2
    <3>2. \A u \in LogThreads : Holds(u, c, i)' <=> Holds(u, c, i)
      <4>1. ~Holds(t, c, i) /\ ~Holds(t, c, i)'
        BY <1>2, <2>2
      <4>2. \A u \in LogThreads \ {t} : Holds(u, c, i)' <=> Holds(u, c, i)
        BY <1>2
      <4> QED BY <4>1, <4>2
    <3> QED BY <3>1, <3>2 DEF PlaceInv
  <2> QED BY <2>1, <2>2
<1>7. OrderInv'
  <2> SUFFICES ASSUME NEW c \in Conns, NEW i \in DOMAIN fate'[c], NEW j \in DOMAIN fate'[c],
                      fate'[c][i] = "dropped", fate'[c][j] = "dropped", j < i
               PROVE  /\ \A k, l \in DOMAIN Reported : Written(k, c, i) /\ Written(l, c, j) => l < k
                      /\ \A u \in LogThreads : ~Holds(u, c, j)'
    BY <1>1 DEF OrderInv
  <2>1. i \in Nat /\ j \in Nat
    BY <1>0
  <2>2. m # <<c, j>>
    BY <2>1
  <2>3. j \in DOMAIN fate[c] /\ fate[c][j] = "dropped"
    BY <2>1, <2>2 DEF Lost
  <2>4. CASE m = <<c, i>>
    <3>1. t = loopOf[c] /\ \A k \in DOMAIN Reported : ~Written(k, c, i)
      BY <1>5, <2>4 DEF Lost
    <3>2. \A u \in LogThreads : ~Holds(u, c, j)
      BY <1>2, <2>3, <3>1 DEF HolderInv
    <3> QED BY <1>2, <2>2, <3>1, <3>2
  <2>5. CASE m # <<c, i>>
    <3>1. i \in DOMAIN fate[c] /\ fate[c][i] = "dropped"
      BY <2>1, <2>5 DEF Lost
    <3>2. /\ \A k, l \in DOMAIN Reported : Written(k, c, i) /\ Written(l, c, j) => l < k
          /\ \A u \in LogThreads : ~Holds(u, c, j)
      BY <2>3, <3>1 DEF OrderInv
    <3> QED BY <1>2, <2>2, <3>2
  <2> QED BY <2>4, <2>5
<1>8. HolderInv'
  <2> SUFFICES ASSUME NEW c \in Conns, NEW i \in DOMAIN fate'[c], NEW u \in LogThreads,
                      fate'[c][i] = "dropped", Holds(u, c, i)'
               PROVE  u = loopOf[c]
    BY DEF HolderInv
  <2>1. CASE m = <<c, i>>
    <3>1. t = loopOf[c] /\ \A v \in LogThreads : ~Holds(v, c, i)
      BY <1>5, <2>1 DEF Lost
    <3> QED BY <1>2, <3>1
  <2>2. CASE m # <<c, i>>
    <3>1. i \in DOMAIN fate[c] /\ fate[c][i] = "dropped"
      BY <1>0, <2>2 DEF Lost
    <3>2. Holds(u, c, i)
      BY ZenonT(30), <1>2, <2>2
    <3> QED BY <3>1, <3>2 DEF HolderInv
  <2> QED BY <2>1, <2>2
<1> QED BY <1>4, <1>6, <1>7, <1>8

\* The message a thread holds goes behind all others.
LEMMA LogPushed ==
    ASSUME LogTypeOK, ConnTypeOK, MessageInv, PlaceInv, OrderInv, HolderInv,
           UNCHANGED <<stream, loopOf, fate>>, NEW t \in LogThreads, Push(t)
    PROVE  MessageInv' /\ PlaceInv' /\ OrderInv' /\ HolderInv'
<1> DEFINE n == Len(Reported)
<1>1. /\ Len(logging[t]) = 1 /\ n \in Nat
      /\ DOMAIN Reported = 1 .. n /\ DOMAIN Reported' = 1 .. n + 1
      /\ \A k \in 1 .. n : Reported'[k] = Reported[k]
      /\ Reported'[n + 1] = logging[t][1]
  BY PushAppends
<1>2. logging'[t] = <<>> /\ Len(logging'[t]) = 0 /\ \A u \in LogThreads \ {t} : logging'[u] = logging[u]
  BY PushAppends DEF LogTypeOK
<1> HIDE DEF n
<1>3. /\ \A k \in 1 .. n + 1 : k \in 1 .. n \/ k = n + 1
      /\ \A k \in 1 .. n : k \in 1 .. n + 1 /\ k < n + 1
      /\ n + 1 \in 1 .. n + 1 /\ n + 1 \notin 1 .. n
  BY <1>1
<1>4. \A c, i : /\ \A k \in 1 .. n : Written(k, c, i)' <=> Written(k, c, i)
                /\ \A k : k = n + 1 => (Written(k, c, i)' <=> Holds(t, c, i))
                /\ ~Holds(t, c, i)'
                /\ \A u \in LogThreads \ {t} : Holds(u, c, i)' <=> Holds(u, c, i)
  <2> SUFFICES ASSUME NEW c, NEW i
               PROVE  /\ \A k \in 1 .. n : Written(k, c, i)' <=> Written(k, c, i)
                      /\ \A k : k = n + 1 => (Written(k, c, i)' <=> Holds(t, c, i))
                      /\ ~Holds(t, c, i)'
                      /\ \A u \in LogThreads \ {t} : Holds(u, c, i)' <=> Holds(u, c, i)
    OBVIOUS
  <2>1. \A k \in 1 .. n : Written(k, c, i)' <=> Written(k, c, i)
    BY <1>1, <1>3 DEF Written
  <2>2. ASSUME NEW x, x = n + 1 PROVE Written(x, c, i)' <=> Holds(t, c, i)
    BY <1>1, <1>3, <2>2 DEF Written, Holds
  <2>3. ~Holds(t, c, i)'
    BY <1>2 DEF Holds
  <2>4. \A u \in LogThreads \ {t} : Holds(u, c, i)' <=> Holds(u, c, i)
    BY <1>2 DEF Holds
  <2> QED BY <2>1, <2>2, <2>3, <2>4
<1>5. \A x : Justified(x)' <=> Justified(x)
  BY DEF Justified
<1>6. MessageInv'
  <2>1. \A k \in 1 .. n + 1 : Justified(Reported'[k].msg)
    BY <1>1, <1>3 DEF MessageInv
  <2>2. \A u \in LogThreads : Len(logging'[u]) = 1 => Justified(logging'[u][1].msg)
    BY <1>2 DEF MessageInv
  <2> QED BY <1>1, <1>5, <2>1, <2>2 DEF MessageInv
<1>7. PlaceInv'
  <2> SUFFICES ASSUME NEW c \in Conns, NEW i \in DOMAIN fate[c], fate[c][i] \in Lost
               PROVE  /\ (\E k \in 1 .. n + 1 : Written(k, c, i)')
                            \/ (\E u \in LogThreads : Holds(u, c, i)')
                      /\ \A k, l \in 1 .. n + 1 : Written(k, c, i)' /\ Written(l, c, i)' => k = l
                      /\ \A u, v \in LogThreads : Holds(u, c, i)' /\ Holds(v, c, i)' => u = v
                      /\ \A k \in 1 .. n + 1, u \in LogThreads :
                            ~(Written(k, c, i)' /\ Holds(u, c, i)')
    BY <1>1 DEF PlaceInv
  <2>1. /\ (\E k \in 1 .. n : Written(k, c, i)) \/ (\E u \in LogThreads : Holds(u, c, i))
        /\ \A k, l \in 1 .. n : Written(k, c, i) /\ Written(l, c, i) => k = l
        /\ \A u, v \in LogThreads : Holds(u, c, i) /\ Holds(v, c, i) => u = v
        /\ \A k \in 1 .. n, u \in LogThreads : ~(Written(k, c, i) /\ Holds(u, c, i))
    BY <1>1 DEF PlaceInv
  <2>2. \A k \in 1 .. n : Written(k, c, i)' <=> Written(k, c, i)
    BY <1>4
  <2>3. \A k : k = n + 1 => (Written(k, c, i)' <=> Holds(t, c, i))
    BY <1>4
  <2>4. /\ ~Holds(t, c, i)'
        /\ \A u \in LogThreads \ {t} : Holds(u, c, i)' <=> Holds(u, c, i)
    BY <1>4
  <2>5. (\E k \in 1 .. n + 1 : Written(k, c, i)') \/ (\E u \in LogThreads : Holds(u, c, i)')
    BY <1>3, <2>1, <2>2, <2>3, <2>4
  <2>6. \A k, l \in 1 .. n + 1 : Written(k, c, i)' /\ Written(l, c, i)' => k = l
    BY <1>3, <2>1, <2>2, <2>3
  <2>7. \A k \in 1 .. n + 1, u \in LogThreads : ~(Written(k, c, i)' /\ Holds(u, c, i)')
    BY <1>3, <2>1, <2>2, <2>3, <2>4
  <2>8. \A u, v \in LogThreads : Holds(u, c, i)' /\ Holds(v, c, i)' => u = v
    BY <2>1, <2>4
  <2> QED BY <2>5, <2>6, <2>7, <2>8
<1>8. OrderInv'
  <2> SUFFICES ASSUME NEW c \in Conns, NEW i \in DOMAIN fate[c], NEW j \in DOMAIN fate[c],
                      fate[c][i] = "dropped", fate[c][j] = "dropped", j < i
               PROVE  /\ \A k, l \in 1 .. n + 1 : Written(k, c, i)' /\ Written(l, c, j)' => l < k
                      /\ \A u \in LogThreads : ~Holds(u, c, j)'
    BY <1>1 DEF OrderInv
  <2>1. /\ \A k, l \in 1 .. n : Written(k, c, i) /\ Written(l, c, j) => l < k
        /\ \A u \in LogThreads : ~Holds(u, c, j)
    BY <1>1 DEF OrderInv
  <2>2. \A k \in 1 .. n : /\ Written(k, c, i)' <=> Written(k, c, i)
                          /\ Written(k, c, j)' <=> Written(k, c, j)
    BY <1>4
  <2>3. \A k : k = n + 1 => ~Written(k, c, j)'
    BY <1>4, <2>1
  <2>4. \A k, l \in 1 .. n + 1 : Written(k, c, i)' /\ Written(l, c, j)' => l < k
    BY <1>3, <2>1, <2>2, <2>3
  <2>5. \A u \in LogThreads : ~Holds(u, c, j)'
    BY <1>4, <2>1
  <2> QED BY <2>4, <2>5
<1>9. HolderInv'
  BY <1>4 DEF HolderInv
<1> QED BY <1>6, <1>7, <1>8, <1>9

-----------------------------------------------------------------------------
(***************************************************************************)
(* The steps.                                                              *)
(***************************************************************************)

\* FramesExact after a step.
LEMMA FramesExactNext ==
    FramesExact' <=> ConnTypeOK' /\ LogTypeOK' /\ \A c \in Conns : CutAt(c)'
BY DEF FramesExact, TypeOK, CutAt

\* A step that leaves a connection's stream, buffer and frames alone.
LEMMA CutKept ==
    ASSUME NEW c \in Conns, CutAt(c),
           stream'[c] = stream[c], arrived'[c] = arrived[c], retrieved'[c] = retrieved[c],
           fate'[c] = fate[c]
    PROVE  CutAt(c)'
BY DEF CutAt, Total

\* One frame is taken out of the buffer and meets its fate: Drop, CallMethod.
LEMMA CutAppend ==
    ASSUME ConnTypeOK, \A d \in Conns : CutAt(d), NEW c \in Conns,
           HeaderComplete(c), FrameComplete(c), HeadFrame(c).kind # "badHeader",
           NEW x \in Fates, (x = "dropped") = (HeadFrame(c).kind # "ok"),
           Retrieve(c), fate' = [fate EXCEPT ![c] = Append(@, x)], UNCHANGED <<stream, arrived>>
    PROVE  /\ \A d \in Conns : CutAt(d)'
           /\ retrieved' \in [Conns -> Nat] /\ fate' \in [Conns -> Seq(Fates)]
           /\ \A d \in Conns \ {c} : fate'[d] = fate[d]
           /\ DOMAIN fate'[c] = 1 .. Len(fate[c]) + 1
           /\ fate'[c][Len(fate[c]) + 1] = x
           /\ \A i \in DOMAIN fate[c] : fate'[c][i] = fate[c][i]
<1> DEFINE n == Len(fate[c])
           s == stream[c]
<1>1. /\ n \in Nat /\ n < Len(s) /\ Len(s) \in Nat /\ s \in Seq(Frame)
      /\ AtHead(c) = n + 1 /\ HeadFrame(c) = s[n + 1] /\ s[n + 1] \in Frame
      /\ fate[c] \in Seq(Fates) /\ DOMAIN fate[c] = 1 .. n
      /\ arrived[c] \in Nat /\ retrieved[c] \in Nat
  BY HeadIs, ConnTypes
<1>2. FrameSize(s[n + 1]) \in Nat
  BY <1>1 DEF FrameSize, Frame
<1>3. retrieved' = [retrieved EXCEPT ![c] = retrieved[c] + FrameSize(s[n + 1])]
  BY <1>1 DEF Retrieve
<1>4. retrieved' \in [Conns -> Nat] /\ retrieved'[c] = retrieved[c] + FrameSize(s[n + 1])
      /\ \A d \in Conns \ {c} : retrieved'[d] = retrieved[d]
  BY <1>1, <1>2, <1>3 DEF ConnTypeOK
<1>5. /\ fate' \in [Conns -> Seq(Fates)] /\ fate'[c] = Append(fate[c], x)
      /\ \A d \in Conns \ {c} : fate'[d] = fate[d]
  BY <1>1 DEF ConnTypeOK
<1>6. /\ Len(fate'[c]) = n + 1 /\ DOMAIN fate'[c] = 1 .. n + 1 /\ fate'[c][n + 1] = x
      /\ \A i \in 1 .. n : fate'[c][i] = fate[c][i]
  BY <1>1, <1>5
<1>7. EndOf(s)[n + 1] = EndOf(s)[n] + FrameSize(s[n + 1])
  <2>1. n \in 0 .. Len(s) - 1
    BY <1>1
  <2> QED BY <1>1, <2>1, EndOfStep
<1>8. retrieved[c] = EndOf(s)[n] /\ arrived[c] - retrieved[c] >= FrameSize(s[n + 1])
      /\ arrived[c] <= Total(c)
  BY <1>1 DEF CutAt, FrameComplete, Readable
<1>9. CutAt(c)'
  <2>1. arrived'[c] <= Total(c)' /\ retrieved'[c] <= arrived'[c]
    BY <1>1, <1>2, <1>4, <1>8 DEF Total
  <2>2. Len(fate'[c]) <= Len(stream'[c]) /\ retrieved'[c] = EndOf(stream'[c])[Len(fate'[c])]
    BY <1>1, <1>4, <1>6, <1>7, <1>8
  <2>3. ASSUME NEW i \in 1 .. n + 1
        PROVE  s[i].kind # "badHeader" /\ (fate'[c][i] = "dropped") = (s[i].kind # "ok")
    <3>1. CASE i = n + 1
      BY <1>1, <1>6, <3>1
    <3>2. CASE i # n + 1
      <4>1. i \in 1 .. n
        BY <1>1, <3>2
      <4> QED BY <1>1, <1>6, <4>1 DEF CutAt
    <3> QED BY <3>1, <3>2
  <2> QED BY <1>6, <2>1, <2>2, <2>3 DEF CutAt
<1>10. ASSUME NEW d \in Conns \ {c} PROVE CutAt(d)'
  BY <1>4, <1>5, CutKept
<1> QED BY <1>1, <1>4, <1>5, <1>6, <1>9, <1>10

\* A done turns a called frame into a sent or an unserialized one.
LEMMA FateSet ==
    ASSUME ConnTypeOK, \A d \in Conns : CutAt(d), NEW c \in Conns,
           NEW i \in DOMAIN fate[c], fate[c][i] = "called",
           NEW x \in {"sent", "unserialized"}, fate' = [fate EXCEPT ![c][i] = x],
           UNCHANGED <<stream, arrived, retrieved>>
    PROVE  /\ \A d \in Conns : CutAt(d)'
           /\ fate' \in [Conns -> Seq(Fates)]
           /\ \A d \in Conns \ {c} : fate'[d] = fate[d]
           /\ DOMAIN fate'[c] = DOMAIN fate[c] /\ fate'[c][i] = x
           /\ \A j \in DOMAIN fate[c] \ {i} : fate'[c][j] = fate[c][j]
<1>1. fate[c] \in Seq(Fates) /\ DOMAIN fate[c] = 1 .. Len(fate[c])
  BY ConnTypes
<1>2. /\ fate'[c] = [fate[c] EXCEPT ![i] = x]
      /\ \A d \in Conns \ {c} : fate'[d] = fate[d]
  BY DEF ConnTypeOK
<1>3. /\ [fate[c] EXCEPT ![i] = x] \in Seq(Fates)
      /\ Len([fate[c] EXCEPT ![i] = x]) = Len(fate[c])
  BY <1>1 DEF Fates
<1>4. fate' \in [Conns -> Seq(Fates)]
  BY <1>2, <1>3 DEF ConnTypeOK
<1>5. /\ DOMAIN fate'[c] = DOMAIN fate[c] /\ fate'[c][i] = x /\ Len(fate'[c]) = Len(fate[c])
      /\ \A j \in DOMAIN fate[c] \ {i} : fate'[c][j] = fate[c][j]
  BY <1>1, <1>2, <1>3
<1>6. CutAt(c)'
  <2>1. CutAt(c)
    OBVIOUS
  <2>2. ASSUME NEW j \in DOMAIN fate[c]
        PROVE  (fate'[c][j] = "dropped") = (fate[c][j] = "dropped")
    BY <1>5
  <2> QED BY <1>5, <2>1, <2>2 DEF CutAt, Total
<1>7. ASSUME NEW d \in Conns \ {c} PROVE CutAt(d)'
  BY <1>2, CutKept
<1> QED BY <1>2, <1>4, <1>5, <1>6, <1>7

\* A step that answers nothing: what was sent stays sent.
LEMMA AnswerKept ==
    ASSUME ConnTypeOK, AnswerInv, UNCHANGED <<answers, queued>>,
           \A c \in Conns : \A i \in DOMAIN fate[c] :
              i \in DOMAIN fate'[c] /\ (fate[c][i] = "sent" => fate'[c][i] = "sent")
    PROVE  AnswerInv'
<1>1. \A q \in queued : q[1] \in Conns
  BY DEF ConnTypeOK
<1>2. \A c \in Conns : Range(answers'[c]) = Range(answers[c])
  OBVIOUS
<1>3. AnsweredOnce'
  BY <1>2 DEF AnswerInv, AnsweredOnce, IsInjective
<1>4. \A c \in Conns : Range(answers'[c]) \subseteq DOMAIN fate'[c]
  BY <1>2 DEF AnswerInv
<1>5. \A q \in queued' : q[2] \in DOMAIN fate'[q[1]] /\ fate'[q[1]][q[2]] = "sent"
  BY <1>1 DEF AnswerInv
<1> QED BY <1>3, <1>4, <1>5 DEF AnswerInv

\* A step that changes neither frames nor answers nor the log.
LEMMA QuietStep ==
    ASSUME MuduoInv, UNCHANGED <<stream, loopOf, retrieved, fate, queued, answers, logVars>>,
           ConnTypeOK', LogTypeOK', \A c \in Conns : CutAt(c)'
    PROVE  MuduoInv'
<1>1. ConnTypeOK /\ LogTypeOK
  BY FramesExactParts DEF MuduoInv
<1>2. FramesExact'
  BY FramesExactNext
<1>3. AnswerInv'
  BY <1>1, AnswerKept DEF MuduoInv
<1>4. SameLost
  BY DEF SameLost
<1>5. Reported' = Reported
  BY DEF Reported, logVars
<1>6. UNCHANGED <<stream, loopOf, logging>>
  BY DEF logVars
<1>7. MessageInv' /\ PlaceInv' /\ OrderInv' /\ HolderInv'
  BY <1>1, <1>4, <1>5, <1>6, LogStable DEF MuduoInv
<1> QED BY <1>2, <1>3, <1>7 DEF MuduoInv

\* Some more of the stream is read.
LEMMA HandleReadStep ==
    ASSUME MuduoInv, NEW c \in Conns, HandleRead(c)
    PROVE  MuduoInv'
<1>1. ConnTypeOK /\ LogTypeOK /\ \A d \in Conns : CutAt(d)
  BY FramesExactParts DEF MuduoInv
<1>2. UNCHANGED <<stream, loopOf, conn, retrieved, fate, queued, answers, logVars>>
  BY DEF HandleRead
<1>3. PICK n \in arrived[c] + 1 .. Total(c) : arrived' = [arrived EXCEPT ![c] = n]
  BY DEF HandleRead
<1>4. n \in Nat /\ n <= Total(c) /\ arrived[c] <= n /\ arrived[c] \in Nat
  BY <1>1, <1>3, ConnTypes
<1>5. ConnTypeOK' /\ LogTypeOK'
  BY <1>1, <1>2, <1>3, <1>4 DEF ConnTypeOK, LogTypeOK, logVars
<1>6. ASSUME NEW d \in Conns PROVE CutAt(d)'
  <2>1. CASE d = c
    <3>1. arrived'[c] = n /\ n <= Total(c) /\ retrieved[c] <= n
      BY <1>1, <1>3, <1>4, ConnTypes DEF ConnTypeOK, CutAt
    <3> QED BY <1>1, <1>2, <2>1, <3>1 DEF CutAt, Total
  <2>2. CASE d # c
    BY <1>1, <1>2, <1>3, <2>2, CutKept DEF ConnTypeOK
  <2> QED BY <2>1, <2>2
<1> QED BY <1>1, <1>2, <1>5, <1>6, QuietStep

\* The client closes.
LEMMA HandleCloseStep ==
    ASSUME MuduoInv, NEW c \in Conns, HandleClose(c)
    PROVE  MuduoInv'
<1>1. ConnTypeOK /\ LogTypeOK /\ \A d \in Conns : CutAt(d)
  BY FramesExactParts DEF MuduoInv
<1>2. UNCHANGED <<stream, loopOf, retrieved, fate, queued, answers, logVars>>
  BY DEF HandleClose
<1>3. ConnTypeOK' /\ LogTypeOK'
  BY <1>1, <1>2, ConnTypes DEF HandleClose, ConnTypeOK, LogTypeOK, logVars
<1>4. ASSUME NEW d \in Conns PROVE CutAt(d)'
  BY <1>1, <1>2, CutKept DEF HandleClose
<1> QED BY <1>1, <1>2, <1>3, <1>4, QuietStep

\* The frame at the head is not complete.
LEMMA NeedsMoreStep ==
    ASSUME MuduoInv, NEW c \in Conns, NeedsMore(c)
    PROVE  MuduoInv'
<1>1. ConnTypeOK /\ LogTypeOK /\ \A d \in Conns : CutAt(d)
  BY FramesExactParts DEF MuduoInv
<1>2. UNCHANGED <<stream, loopOf, retrieved, fate, queued, answers, logVars>>
  BY DEF NeedsMore
<1>3. ConnTypeOK' /\ LogTypeOK'
  BY <1>1, <1>2, ConnTypes DEF NeedsMore, ConnTypeOK, LogTypeOK, logVars
<1>4. ASSUME NEW d \in Conns PROVE CutAt(d)'
  BY <1>1, <1>2, CutKept DEF NeedsMore
<1> QED BY <1>1, <1>2, <1>3, <1>4, QuietStep

\* conn->shutdown().
LEMMA ShutdownStep ==
    ASSUME MuduoInv, NEW c \in Conns, Shutdown(c)
    PROVE  MuduoInv'
<1>1. ConnTypeOK /\ LogTypeOK /\ \A d \in Conns : CutAt(d)
  BY FramesExactParts DEF MuduoInv
<1>2. UNCHANGED <<stream, loopOf, retrieved, fate, queued, answers, logVars>>
  BY DEF Shutdown
<1>3. ConnTypeOK' /\ LogTypeOK'
  BY <1>1, <1>2, ConnTypes DEF Shutdown, ConnTypeOK, LogTypeOK, logVars
<1>4. ASSUME NEW d \in Conns PROVE CutAt(d)'
  BY <1>1, <1>2, CutKept DEF Shutdown
<1> QED BY <1>1, <1>2, <1>3, <1>4, QuietStep

\* A step of the write thread.
LEMMA WriterSteps ==
    ASSUME MuduoInv, LogWriter \/ LogSpurious
    PROVE  MuduoInv'
<1>1. ConnTypeOK /\ LogTypeOK /\ \A d \in Conns : CutAt(d)
  BY FramesExactParts DEF MuduoInv
<1>2. UNCHANGED <<stream, loopOf, conn, arrived, retrieved, fate, queued, answers>>
  BY DEF LogWriter, LogSpurious, connVars
<1>3. /\ LogTypeOK' /\ UNCHANGED logging /\ DOMAIN Reported' = DOMAIN Reported
      /\ \A k \in DOMAIN Reported : Reported'[k].msg = Reported[k].msg
  BY <1>1, WriterKeeps DEF LogWriter, LogSpurious
<1>4. ConnTypeOK'
  BY <1>1, <1>2 DEF ConnTypeOK
<1>5. \A d \in Conns : CutAt(d)'
  BY <1>1, <1>2, CutKept
<1>6. FramesExact'
  BY <1>3, <1>4, <1>5, FramesExactNext
<1>7. AnswerInv'
  BY <1>1, <1>2, AnswerKept DEF MuduoInv
<1>8. SameLost
  BY <1>2 DEF SameLost
<1>9. MessageInv' /\ PlaceInv' /\ OrderInv' /\ HolderInv'
  BY <1>1, <1>2, <1>3, <1>4, <1>8, LogStable DEF MuduoInv
<1> QED BY <1>6, <1>7, <1>9 DEF MuduoInv

\* Log puts a message into the queue.
LEMMA LogPushStep ==
    ASSUME MuduoInv, NEW t \in LogThreads, LogPush(t)
    PROVE  MuduoInv'
<1>1. ConnTypeOK /\ LogTypeOK /\ \A d \in Conns : CutAt(d)
  BY FramesExactParts DEF MuduoInv
<1>2. UNCHANGED <<stream, loopOf, conn, arrived, retrieved, fate, queued, answers>> /\ Push(t)
  BY DEF LogPush, connVars
<1>3. LogTypeOK'
  BY <1>1, <1>2, PushAppends
<1>4. ConnTypeOK'
  BY <1>1, <1>2 DEF ConnTypeOK
<1>5. \A d \in Conns : CutAt(d)'
  BY <1>1, <1>2, CutKept
<1>6. FramesExact'
  BY <1>3, <1>4, <1>5, FramesExactNext
<1>7. AnswerInv'
  BY <1>1, <1>2, AnswerKept DEF MuduoInv
<1>8. MessageInv' /\ PlaceInv' /\ OrderInv' /\ HolderInv'
  BY <1>1, <1>2, LogPushed DEF MuduoInv
<1> QED BY <1>6, <1>7, <1>8 DEF MuduoInv

\* Run logs the start of the server.
LEMMA RunStep ==
    ASSUME MuduoInv, Run
    PROVE  MuduoInv'
<1>1. ConnTypeOK /\ LogTypeOK /\ \A d \in Conns : CutAt(d)
  BY FramesExactParts DEF MuduoInv
<1>2. UNCHANGED <<stream, loopOf, conn, arrived, retrieved, fate, queued, answers>>
      /\ NotLogging("main") /\ SetLogLevel("main", "INFO", <<"start", 0>>)
  BY DEF Run
<1>3. "main" \in LogThreads
  BY MuduoAssumption
<1>4. /\ LogTypeOK' /\ Reported' = Reported
      /\ Len(logging["main"]) = 0 /\ Len(logging'["main"]) = 1
      /\ logging'["main"][1].msg = <<"start", 0>>
      /\ \A u \in LogThreads \ {"main"} : logging'[u] = logging[u]
  BY <1>1, <1>2, <1>3, SetKeeps
<1>5. ConnTypeOK'
  BY <1>1, <1>2 DEF ConnTypeOK
<1>6. \A d \in Conns : CutAt(d)'
  BY <1>1, <1>2, CutKept
<1>7. FramesExact'
  BY <1>4, <1>5, <1>6, FramesExactNext
<1>8. AnswerInv'
  BY <1>1, <1>2, AnswerKept DEF MuduoInv
<1>9. Justified(<<"start", 0>>)'
  BY DEF Justified
<1>10. \A c \in Conns : \A i \in DOMAIN fate'[c] : <<"start", 0>> # <<c, i>>
  <2> SUFFICES ASSUME NEW c \in Conns, NEW i \in DOMAIN fate[c] PROVE i # 0
    BY <1>2
  <2> QED BY <1>1, ConnTypes
<1>11. \A c \in Conns : \A i \in DOMAIN fate'[c] : stream[c][i].kind # "badHeader"
  BY <1>1, <1>2 DEF CutAt
<1>12. MessageInv' /\ PlaceInv' /\ OrderInv' /\ HolderInv'
  BY <1>1, <1>2, <1>3, <1>4, <1>5, <1>9, <1>10, <1>11, LogHeld DEF MuduoInv
<1> QED BY <1>7, <1>8, <1>12 DEF MuduoInv

\* A header that does not parse: the message is about a frame that never
\* leaves the buffer.
LEMMA BadHeaderStep ==
    ASSUME MuduoInv, NEW c \in Conns, BadHeader(c)
    PROVE  MuduoInv'
<1> DEFINE t == loopOf[c]
           n == Len(fate[c])
           m == <<c, n + 1>>
<1>1. ConnTypeOK /\ LogTypeOK /\ \A d \in Conns : CutAt(d)
  BY FramesExactParts DEF MuduoInv
<1>2. UNCHANGED <<stream, loopOf, conn, arrived, retrieved, fate, queued, answers>>
  BY DEF BadHeader
<1>3. t \in LogThreads
  BY <1>1, ConnTypes, MuduoAssumption
<1>4. /\ n \in Nat /\ n + 1 \in DOMAIN stream[c] /\ AtHead(c) = n + 1
      /\ stream[c][n + 1].kind = "badHeader"
  <2>1. HeaderComplete(c) /\ HeadFrame(c).kind = "badHeader"
    BY DEF BadHeader
  <2>2. AtHead(c) = n + 1 /\ HeadFrame(c) = stream[c][n + 1] /\ n < Len(stream[c])
    BY <1>1, <2>1, HeadIs
  <2> QED BY <1>1, <2>1, <2>2, ConnTypes
<1>5. NotLogging(t) /\ SetLogLevel(t, "ERROR", m)
  BY <1>4 DEF BadHeader, InOnMessage
<1>6. m \in Conns \X Nat
  BY <1>4
<1> HIDE DEF t
<1>7. /\ LogTypeOK' /\ Reported' = Reported
      /\ Len(logging[t]) = 0 /\ Len(logging'[t]) = 1 /\ logging'[t][1].msg = m
      /\ \A u \in LogThreads \ {t} : logging'[u] = logging[u]
  BY <1>1, <1>3, <1>5, <1>6, SetKeeps
<1>8. ConnTypeOK'
  BY <1>1, <1>2 DEF ConnTypeOK
<1>9. \A d \in Conns : CutAt(d)'
  BY <1>1, <1>2, CutKept
<1>10. FramesExact'
  BY <1>7, <1>8, <1>9, FramesExactNext
<1>11. AnswerInv'
  BY <1>1, <1>2, AnswerKept DEF MuduoInv
<1>12. ASSUME NEW x, x = m PROVE Justified(x)'
  BY <1>2, <1>4, <1>12 DEF Justified
<1>13. \A d \in Conns : \A i \in DOMAIN fate'[d] : m # <<d, i>>
  <2> SUFFICES ASSUME NEW i \in DOMAIN fate[c] PROVE i # n + 1
    BY <1>2
  <2> QED BY <1>1, <1>4, ConnTypes
<1>14. \A d \in Conns : \A i \in DOMAIN fate'[d] : stream[d][i].kind # "badHeader"
  BY <1>1, <1>2 DEF CutAt
<1>15. PICK x : x = m
  OBVIOUS
<1> HIDE DEF m
<1>16. MessageInv' /\ PlaceInv' /\ OrderInv' /\ HolderInv'
  BY <1>1, <1>2, <1>3, <1>7, <1>8, <1>12, <1>13, <1>14, <1>15, LogHeld DEF MuduoInv
<1> QED BY <1>10, <1>11, <1>16 DEF MuduoInv

\* A frame is consumed and logged: the message is the last about its
\* connection, in the hands of the IO thread.
LEMMA DropStep ==
    ASSUME MuduoInv, NEW c \in Conns, Drop(c)
    PROVE  MuduoInv'
<1> DEFINE t == loopOf[c]
           n == Len(fate[c])
           m == <<c, n + 1>>
<1>1. ConnTypeOK /\ LogTypeOK /\ \A d \in Conns : CutAt(d)
  BY FramesExactParts DEF MuduoInv
<1>2. /\ UNCHANGED <<stream, loopOf, conn, arrived, queued, answers>>
      /\ HeaderComplete(c) /\ FrameComplete(c) /\ HeadFrame(c).kind \in {"unknown", "badArgs"}
      /\ Retrieve(c) /\ fate' = [fate EXCEPT ![c] = Append(@, "dropped")]
  BY DEF Drop
<1>3. t \in LogThreads
  BY <1>1, ConnTypes, MuduoAssumption
<1>4. n \in Nat /\ n + 1 \in DOMAIN stream[c] /\ AtHead(c) = n + 1
  <2>1. AtHead(c) = n + 1 /\ n < Len(stream[c])
    BY <1>1, <1>2, HeadIs
  <2> QED BY <1>1, <2>1, ConnTypes
<1>5. NotLogging(t) /\ SetLogLevel(t, "ERROR", m)
  BY <1>4 DEF Drop, InOnMessage
<1>6. m \in Conns \X Nat
  BY <1>4
<1>7. /\ \A d \in Conns : CutAt(d)'
      /\ retrieved' \in [Conns -> Nat] /\ fate' \in [Conns -> Seq(Fates)]
      /\ \A d \in Conns \ {c} : fate'[d] = fate[d]
      /\ DOMAIN fate'[c] = 1 .. n + 1 /\ fate'[c][n + 1] = "dropped"
      /\ \A i \in DOMAIN fate[c] : fate'[c][i] = fate[c][i]
  <2>1. "dropped" \in Fates /\ ("dropped" = "dropped") = (HeadFrame(c).kind # "ok")
        /\ HeadFrame(c).kind # "badHeader"
    BY <1>2 DEF Fates
  <2> QED BY <1>1, <1>2, <2>1, CutAppend
<1>8. DOMAIN fate[c] = 1 .. n
  BY <1>1, ConnTypes
<1> HIDE DEF t
<1>9. /\ LogTypeOK' /\ Reported' = Reported
      /\ Len(logging[t]) = 0 /\ Len(logging'[t]) = 1 /\ logging'[t][1].msg = m
      /\ \A u \in LogThreads \ {t} : logging'[u] = logging[u]
  BY <1>1, <1>3, <1>5, <1>6, SetKeeps
<1>10. ConnTypeOK'
  BY <1>1, <1>2, <1>7 DEF ConnTypeOK
<1>11. FramesExact'
  BY <1>7, <1>9, <1>10, FramesExactNext
<1>12. AnswerInv'
  <2>1. \A i \in 1 .. n : i \in 1 .. n + 1
    BY <1>4
  <2> QED BY <1>1, <1>2, <1>7, <1>8, <2>1, AnswerKept DEF MuduoInv
<1>13. ASSUME NEW x, x = m PROVE Justified(x)'
  <2>1. n + 1 \in DOMAIN fate'[c] /\ fate'[c][n + 1] \in Lost
    BY <1>4, <1>7 DEF Lost
  <2> QED BY <1>2, <1>4, <1>13, <2>1 DEF Justified
<1>14. ASSUME NEW d \in Conns, NEW i \in Nat, NEW x \in Lost
       PROVE  (i \in DOMAIN fate'[d] /\ fate'[d][i] = x /\ m # <<d, i>>)
                 <=> (i \in DOMAIN fate[d] /\ fate[d][i] = x)
  <2>1. CASE d # c
    BY <1>7, <2>1
  <2>2. CASE d = c
    <3>1. i \in 1 .. n <=> i \in 1 .. n + 1 /\ i # n + 1
      BY <1>4
    <3>2. m # <<d, i>> <=> i # n + 1
      BY <2>2
    <3> QED BY <1>7, <1>8, <2>2, <3>1, <3>2
  <2> QED BY <2>1, <2>2
<1>15. \A d \in Conns : \A i \in DOMAIN fate'[d] : stream[d][i].kind # "badHeader"
  BY <1>2, <1>7 DEF CutAt
<1>16. \A d \in Conns : \A i \in DOMAIN fate'[d] :
          m = <<d, i>> /\ fate'[d][i] = "dropped" =>
             t = loopOf[d] /\ \A j \in DOMAIN fate'[d] : fate'[d][j] = "dropped" => j <= i
  BY <1>4, <1>7 DEF t
<1>17. PICK x : x = m
  OBVIOUS
<1> HIDE DEF m
<1>18. MessageInv' /\ PlaceInv' /\ OrderInv' /\ HolderInv'
  BY <1>1, <1>2, <1>3, <1>9, <1>10, <1>13, <1>14, <1>15, <1>16, <1>17, LogHeld DEF MuduoInv
<1> QED BY <1>11, <1>12, <1>18 DEF MuduoInv

\* A method is called: the frame is consumed, nothing is lost.
LEMMA CallMethodStep ==
    ASSUME MuduoInv, NEW c \in Conns, CallMethod(c)
    PROVE  MuduoInv'
<1> DEFINE n == Len(fate[c])
<1>1. ConnTypeOK /\ LogTypeOK /\ \A d \in Conns : CutAt(d)
  BY FramesExactParts DEF MuduoInv
<1>2. /\ UNCHANGED <<stream, loopOf, conn, arrived, queued, answers, logVars>>
      /\ HeaderComplete(c) /\ FrameComplete(c) /\ HeadFrame(c).kind = "ok"
      /\ Retrieve(c) /\ fate' = [fate EXCEPT ![c] = Append(@, "called")]
  BY DEF CallMethod
<1>3. /\ \A d \in Conns : CutAt(d)'
      /\ retrieved' \in [Conns -> Nat] /\ fate' \in [Conns -> Seq(Fates)]
      /\ \A d \in Conns \ {c} : fate'[d] = fate[d]
      /\ DOMAIN fate'[c] = 1 .. n + 1 /\ fate'[c][n + 1] = "called"
      /\ \A i \in DOMAIN fate[c] : fate'[c][i] = fate[c][i]
  <2>1. "called" \in Fates /\ ("called" = "dropped") = (HeadFrame(c).kind # "ok")
        /\ HeadFrame(c).kind # "badHeader"
    BY <1>2 DEF Fates
  <2> QED BY <1>1, <1>2, <2>1, CutAppend
<1>4. DOMAIN fate[c] = 1 .. n /\ n \in Nat
  BY <1>1, ConnTypes
<1>5. ConnTypeOK' /\ LogTypeOK'
  BY <1>1, <1>2, <1>3 DEF ConnTypeOK, LogTypeOK, logVars
<1>6. FramesExact'
  BY <1>3, <1>5, FramesExactNext
<1>7. AnswerInv'
  <2>1. \A i \in 1 .. n : i \in 1 .. n + 1
    BY <1>4
  <2> QED BY <1>1, <1>2, <1>3, <1>4, <2>1, AnswerKept DEF MuduoInv
<1>8. SameLost
  <2> SUFFICES ASSUME NEW d \in Conns, NEW i \in Nat, NEW x \in Lost
               PROVE  (i \in DOMAIN fate'[d] /\ fate'[d][i] = x)
                         <=> (i \in DOMAIN fate[d] /\ fate[d][i] = x)
    BY DEF SameLost
  <2>1. CASE d # c
    BY <1>3, <2>1
  <2>2. CASE d = c
    <3>1. i \in 1 .. n <=> i \in 1 .. n + 1 /\ i # n + 1
      BY <1>4
    <3> QED BY <1>3, <1>4, <2>2, <3>1 DEF Lost
  <2> QED BY <2>1, <2>2
<1>9. Reported' = Reported /\ UNCHANGED <<stream, loopOf, logging>>
  BY <1>2 DEF Reported, logVars
<1>10. MessageInv' /\ PlaceInv' /\ OrderInv' /\ HolderInv'
  BY <1>1, <1>5, <1>8, <1>9, LogStable DEF MuduoInv
<1> QED BY <1>6, <1>7, <1>10 DEF MuduoInv

\* One more answer, for a request that had none.
LEMMA OneMore ==
    ASSUME NEW q \in Seq(Nat), IsInjective(q), NEW i \in Nat, i \notin Range(q)
    PROVE  /\ Append(q, i) \in Seq(Nat) /\ IsInjective(Append(q, i))
           /\ Range(Append(q, i)) = Range(q) \cup {i}
<1>1. /\ Len(q) \in Nat /\ DOMAIN q = 1 .. Len(q) /\ DOMAIN Append(q, i) = 1 .. Len(q) + 1
      /\ Append(q, i) \in Seq(Nat) /\ Append(q, i)[Len(q) + 1] = i
      /\ \A k \in 1 .. Len(q) : Append(q, i)[k] = q[k]
  OBVIOUS
<1>2. \A k \in 1 .. Len(q) + 1 : k \in 1 .. Len(q) \/ k = Len(q) + 1
  BY <1>1
<1>3. Len(q) + 1 \in 1 .. Len(q) + 1 /\ \A k \in 1 .. Len(q) : k \in 1 .. Len(q) + 1
  BY <1>1
<1>4. \A k \in 1 .. Len(q) : q[k] # i
  BY <1>1 DEF Range
<1> QED BY <1>1, <1>2, <1>3, <1>4 DEF IsInjective, Range

\* The done of a request sends its response, or finds the connection down.
LEMMA SendResponseStep ==
    ASSUME MuduoInv, NEW w \in LogThreads, NEW c \in Conns, NEW i \in DOMAIN stream[c],
           SendResponse(w, c, i)
    PROVE  MuduoInv'
<1>1. ConnTypeOK /\ LogTypeOK /\ \A d \in Conns : CutAt(d)
  BY FramesExactParts DEF MuduoInv
<1>2. /\ UNCHANGED <<stream, loopOf, conn, arrived, retrieved, logVars>>
      /\ i \in DOMAIN fate[c] /\ fate[c][i] = "called" /\ fate' = [fate EXCEPT ![c][i] = "sent"]
  BY DEF SendResponse, RunsDone
<1>3. /\ \A d \in Conns : CutAt(d)'
      /\ fate' \in [Conns -> Seq(Fates)]
      /\ \A d \in Conns \ {c} : fate'[d] = fate[d]
      /\ DOMAIN fate'[c] = DOMAIN fate[c] /\ fate'[c][i] = "sent"
      /\ \A j \in DOMAIN fate[c] \ {i} : fate'[c][j] = fate[c][j]
  BY <1>1, <1>2, FateSet
<1>4. i \in Nat
  BY <1>1, <1>2, ConnTypes
<1>5. /\ answers[c] \in Seq(Nat) /\ IsInjective(answers[c]) /\ i \notin Range(answers[c])
      /\ <<c, i>> \notin queued
  BY <1>1, <1>2, ConnTypes DEF MuduoInv, AnswerInv, AnsweredOnce
<1>6. /\ \A d \in Conns : DOMAIN fate'[d] = DOMAIN fate[d]
      /\ \A d \in Conns : \A j \in DOMAIN fate[d] : fate[d][j] = "sent" => fate'[d][j] = "sent"
  BY <1>2, <1>3
<1>7. \A q \in queued : q \in Conns \X Nat /\ q[2] \in DOMAIN fate'[q[1]] /\ fate'[q[1]][q[2]] = "sent"
  BY <1>1, <1>6 DEF ConnTypeOK, MuduoInv, AnswerInv
<1>8. ConnTypeOK' /\ AnswerInv'
  <2>1. CASE conn[c] = "connected" /\ w = loopOf[c]
    <3>1. answers' = [answers EXCEPT ![c] = Append(answers[c], i)] /\ queued' = queued
      BY <2>1 DEF SendResponse
    <3>2. /\ answers' \in [Conns -> Seq(Nat)] /\ IsInjective(answers'[c])
          /\ Range(answers'[c]) = Range(answers[c]) \cup {i}
          /\ \A d \in Conns \ {c} : answers'[d] = answers[d]
      BY <1>1, <1>4, <1>5, <3>1, OneMore DEF ConnTypeOK
    <3>3. ConnTypeOK'
      BY <1>1, <1>2, <1>3, <3>1, <3>2 DEF ConnTypeOK
    <3>4. ASSUME NEW d \in Conns
          PROVE  /\ IsInjective(answers'[d])
                 /\ \A j \in Range(answers'[d]) : fate'[d][j] = "sent" /\ <<d, j>> \notin queued
                 /\ Range(answers'[d]) \subseteq DOMAIN fate'[d]
      <4>1. /\ IsInjective(answers[d])
            /\ \A j \in Range(answers[d]) : fate[d][j] = "sent" /\ <<d, j>> \notin queued
            /\ Range(answers[d]) \subseteq DOMAIN fate[d]
        BY DEF MuduoInv, AnswerInv, AnsweredOnce
      <4>2. CASE d = c
        BY <1>2, <1>3, <1>5, <1>6, <3>2, <4>1, <4>2
      <4>3. CASE d # c
        BY <1>6, <3>2, <4>1, <4>3
      <4> QED BY <4>2, <4>3
    <3>5. AnswerInv'
      BY <1>7, <3>1, <3>4 DEF AnswerInv, AnsweredOnce
    <3> QED BY <3>3, <3>5
  <2>2. CASE ~(conn[c] = "connected" /\ w = loopOf[c])
    <3>1. answers' = answers /\ queued' \subseteq queued \cup {<<c, i>>}
      BY <2>2 DEF SendResponse
    <3>2. ConnTypeOK'
      BY <1>1, <1>2, <1>3, <1>4, <3>1 DEF ConnTypeOK
    <3>3. ASSUME NEW d \in Conns
          PROVE  /\ IsInjective(answers'[d])
                 /\ \A j \in Range(answers'[d]) : fate'[d][j] = "sent" /\ <<d, j>> \notin queued'
                 /\ Range(answers'[d]) \subseteq DOMAIN fate'[d]
      <4>1. /\ IsInjective(answers[d])
            /\ \A j \in Range(answers[d]) : fate[d][j] = "sent" /\ <<d, j>> \notin queued
            /\ Range(answers[d]) \subseteq DOMAIN fate[d]
        BY DEF MuduoInv, AnswerInv, AnsweredOnce
      <4>2. \A j \in Range(answers[d]) : <<d, j>> # <<c, i>>
        BY <1>5
      <4> QED BY <1>6, <3>1, <4>1, <4>2
    <3>4. \A q \in queued' : q[2] \in DOMAIN fate'[q[1]] /\ fate'[q[1]][q[2]] = "sent"
      BY <1>2, <1>3, <1>7, <3>1
    <3>5. AnswerInv'
      BY <3>3, <3>4 DEF AnswerInv, AnsweredOnce
    <3> QED BY <3>2, <3>5
  <2> QED BY <2>1, <2>2
<1>9. LogTypeOK'
  BY <1>1, <1>2 DEF LogTypeOK, logVars
<1>10. FramesExact'
  BY <1>3, <1>8, <1>9, FramesExactNext
<1>11. SameLost
  BY <1>2, <1>3 DEF SameLost, Lost
<1>12. Reported' = Reported /\ UNCHANGED <<stream, loopOf, logging>>
  BY <1>2 DEF Reported, logVars
<1>13. MessageInv' /\ PlaceInv' /\ OrderInv' /\ HolderInv'
  BY <1>1, <1>8, <1>11, <1>12, LogStable DEF MuduoInv
<1> QED BY <1>8, <1>10, <1>13 DEF MuduoInv

\* The response does not serialise: the thread of the done holds the message.
LEMMA SerializeFailsStep ==
    ASSUME MuduoInv, NEW w \in LogThreads, NEW c \in Conns, NEW i \in DOMAIN stream[c],
           SerializeFails(w, c, i)
    PROVE  MuduoInv'
<1> DEFINE m == <<c, i>>
<1>1. ConnTypeOK /\ LogTypeOK /\ \A d \in Conns : CutAt(d)
  BY FramesExactParts DEF MuduoInv
<1>2. /\ UNCHANGED <<stream, loopOf, conn, arrived, retrieved, queued, answers>>
      /\ i \in DOMAIN fate[c] /\ fate[c][i] = "called"
      /\ fate' = [fate EXCEPT ![c][i] = "unserialized"]
      /\ NotLogging(w) /\ SetLogLevel(w, "ERROR", m)
  BY DEF SerializeFails, RunsDone
<1>3. /\ \A d \in Conns : CutAt(d)'
      /\ fate' \in [Conns -> Seq(Fates)]
      /\ \A d \in Conns \ {c} : fate'[d] = fate[d]
      /\ DOMAIN fate'[c] = DOMAIN fate[c] /\ fate'[c][i] = "unserialized"
      /\ \A j \in DOMAIN fate[c] \ {i} : fate'[c][j] = fate[c][j]
  BY <1>1, <1>2, FateSet
<1>4. m \in Conns \X Nat
  BY <1>1, <1>2, ConnTypes
<1>5. /\ LogTypeOK' /\ Reported' = Reported
      /\ Len(logging[w]) = 0 /\ Len(logging'[w]) = 1 /\ logging'[w][1].msg = m
      /\ \A u \in LogThreads \ {w} : logging'[u] = logging[u]
  BY <1>1, <1>2, <1>4, SetKeeps
<1>6. ConnTypeOK'
  BY <1>1, <1>2, <1>3 DEF ConnTypeOK
<1>7. FramesExact'
  BY <1>3, <1>5, <1>6, FramesExactNext
<1>8. AnswerInv'
  BY <1>1, <1>2, <1>3, AnswerKept DEF MuduoInv
<1>9. ASSUME NEW x, x = m PROVE Justified(x)'
  <2>1. i \in DOMAIN fate'[c] /\ fate'[c][i] \in Lost
    BY <1>2, <1>3 DEF Lost
  <2> QED BY <1>2, <1>9, <2>1 DEF Justified
<1>10. ASSUME NEW d \in Conns, NEW j \in Nat, NEW x \in Lost
       PROVE  (j \in DOMAIN fate'[d] /\ fate'[d][j] = x /\ m # <<d, j>>)
                 <=> (j \in DOMAIN fate[d] /\ fate[d][j] = x)
  BY <1>2, <1>3 DEF Lost
<1>11. \A d \in Conns : \A j \in DOMAIN fate'[d] : stream[d][j].kind # "badHeader"
  BY <1>2, <1>3 DEF CutAt
<1>12. \A d \in Conns : \A j \in DOMAIN fate'[d] : m = <<d, j>> => fate'[d][j] # "dropped"
  BY <1>3
<1>13. PICK x : x = m
  OBVIOUS
<1> HIDE DEF m
<1>14. MessageInv' /\ PlaceInv' /\ OrderInv' /\ HolderInv'
  BY <1>1, <1>2, <1>5, <1>6, <1>9, <1>10, <1>11, <1>12, <1>13, LogHeld DEF MuduoInv
<1> QED BY <1>7, <1>8, <1>14 DEF MuduoInv

\* The IO thread writes what another thread has sent.
LEMMA SendInLoopStep ==
    ASSUME MuduoInv, NEW c \in Conns, NEW i \in DOMAIN stream[c], SendInLoop(c, i)
    PROVE  MuduoInv'
<1>1. ConnTypeOK /\ LogTypeOK /\ \A d \in Conns : CutAt(d)
  BY FramesExactParts DEF MuduoInv
<1>2. /\ UNCHANGED <<stream, loopOf, conn, arrived, retrieved, fate, logVars>>
      /\ <<c, i>> \in queued /\ queued' = queued \ {<<c, i>>}
      /\ answers' = [answers EXCEPT ![c] = Append(answers[c], i)] \/ answers' = answers
  BY DEF SendInLoop
<1>3. i \in Nat /\ i \in DOMAIN fate[c] /\ fate[c][i] = "sent" /\ i \notin Range(answers[c])
  BY <1>1, <1>2, ConnTypes DEF MuduoInv, AnswerInv, AnsweredOnce
<1>4. answers[c] \in Seq(Nat) /\ IsInjective(answers[c])
  BY <1>1, ConnTypes DEF MuduoInv, AnswerInv, AnsweredOnce
<1>5. /\ answers' \in [Conns -> Seq(Nat)] /\ IsInjective(answers'[c])
      /\ Range(answers'[c]) \subseteq Range(answers[c]) \cup {i}
      /\ \A d \in Conns \ {c} : answers'[d] = answers[d]
  <2>1. CASE answers' = [answers EXCEPT ![c] = Append(answers[c], i)]
    BY <1>1, <1>3, <1>4, <2>1, OneMore DEF ConnTypeOK
  <2>2. CASE answers' = answers
    BY <1>1, <1>4, <2>2 DEF ConnTypeOK
  <2> QED BY <1>2, <2>1, <2>2
<1>6. ConnTypeOK' /\ LogTypeOK'
  BY <1>1, <1>2, <1>5 DEF ConnTypeOK, LogTypeOK, logVars
<1>7. \A d \in Conns : CutAt(d)'
  BY <1>1, <1>2, CutKept
<1>8. FramesExact'
  BY <1>6, <1>7, FramesExactNext
<1>9. AnswerInv'
  <2>1. ASSUME NEW d \in Conns
        PROVE  /\ IsInjective(answers'[d])
               /\ \A j \in Range(answers'[d]) : fate[d][j] = "sent" /\ <<d, j>> \notin queued'
               /\ Range(answers'[d]) \subseteq DOMAIN fate[d]
    <3>1. /\ IsInjective(answers[d])
          /\ \A j \in Range(answers[d]) : fate[d][j] = "sent" /\ <<d, j>> \notin queued
          /\ Range(answers[d]) \subseteq DOMAIN fate[d]
      BY DEF MuduoInv, AnswerInv, AnsweredOnce
    <3>2. CASE d = c
      BY <1>2, <1>3, <1>5, <3>1, <3>2
    <3>3. CASE d # c
      BY <1>2, <1>5, <3>1, <3>3
    <3> QED BY <3>2, <3>3
  <2>2. \A q \in queued' : q[2] \in DOMAIN fate[q[1]] /\ fate[q[1]][q[2]] = "sent"
    BY <1>2 DEF MuduoInv, AnswerInv
  <2> QED BY <1>2, <2>1, <2>2 DEF AnswerInv, AnsweredOnce
<1>10. SameLost
  BY <1>2 DEF SameLost
<1>11. Reported' = Reported /\ UNCHANGED <<stream, loopOf, logging>>
  BY <1>2 DEF Reported, logVars
<1>12. MessageInv' /\ PlaceInv' /\ OrderInv' /\ HolderInv'
  BY <1>1, <1>6, <1>10, <1>11, LogStable DEF MuduoInv
<1> QED BY <1>8, <1>9, <1>12 DEF MuduoInv

-----------------------------------------------------------------------------
\* The server and its log satisfy MuduoInv at all times.
THEOREM MuduoInvariant == Spec => []MuduoInv
<1>1. Init => MuduoInv
  <2> SUFFICES ASSUME Init PROVE MuduoInv
    OBVIOUS
  <2>1. ConnTypeOK
    BY DEF Init, ConnTypeOK
  <2>2. LogTypeOK
    BY DEF Init, LogInit, LogTypeOK
  <2>3. ASSUME NEW c \in Conns PROVE CutAt(c)
    <3>1. stream[c] \in Seq(Frame) /\ Len(stream[c]) \in Nat /\ Total(c) \in Nat
      BY <2>1, ConnTypes
    <3>2. EndOf(stream[c])[0] = 0
      BY <3>1, EndOfStep
    <3>3. arrived[c] = 0 /\ retrieved[c] = 0 /\ fate[c] = <<>>
      BY DEF Init
    <3> QED BY <3>1, <3>2, <3>3 DEF CutAt
  <2>4. FramesExact
    BY <2>1, <2>2, <2>3, FramesExactParts
  <2>5. AnswerInv
    BY DEF Init, AnswerInv, AnsweredOnce, IsInjective, Range
  <2>6. DOMAIN Reported = {}
    <3>1. Len(Reported) = 0
      BY <2>2, ReportedIs DEF Init, LogInit
    <3> QED BY <2>2, <3>1, ReportedIs
  <2>7. \A t \in LogThreads : Len(logging[t]) = 0
    BY DEF Init, LogInit
  <2>8. \A c \in Conns : DOMAIN fate[c] = {}
    BY DEF Init
  <2>9. MessageInv /\ PlaceInv /\ OrderInv /\ HolderInv
    BY <2>6, <2>7, <2>8 DEF MessageInv, PlaceInv, OrderInv, HolderInv
  <2> QED BY <2>4, <2>5, <2>9 DEF MuduoInv
<1>2. MuduoInv /\ [Next]_vars => MuduoInv'
  <2> SUFFICES ASSUME MuduoInv, [Next]_vars PROVE MuduoInv'
    OBVIOUS
  <2>1. CASE Run
    BY <2>1, RunStep
  <2>2. ASSUME NEW c \in Conns, HandleRead(c) \/ HandleClose(c) \/ OnMessage(c) PROVE MuduoInv'
    BY <2>2, HandleReadStep, HandleCloseStep, NeedsMoreStep, BadHeaderStep, ShutdownStep,
       DropStep, CallMethodStep DEF OnMessage
  <2>3. ASSUME NEW c \in Conns, NEW i \in DOMAIN stream[c], Done(c, i) PROVE MuduoInv'
    BY <2>3, SendResponseStep, SerializeFailsStep DEF Done
  <2>4. ASSUME NEW c \in Conns, NEW i \in DOMAIN stream[c], SendInLoop(c, i) PROVE MuduoInv'
    BY <2>4, SendInLoopStep
  <2>5. ASSUME NEW t \in LogThreads, LogPush(t) PROVE MuduoInv'
    BY <2>5, LogPushStep
  <2>6. CASE LogWriter \/ LogSpurious
    BY <2>6, WriterSteps
  <2>7. CASE UNCHANGED vars
    <3>1. UNCHANGED <<stream, loopOf, conn, arrived, retrieved, fate, queued, answers, logVars>>
      BY <2>7 DEF vars, connVars
    <3>2. ConnTypeOK /\ LogTypeOK /\ \A d \in Conns : CutAt(d)
      BY FramesExactParts DEF MuduoInv
    <3>3. ConnTypeOK' /\ LogTypeOK' /\ \A d \in Conns : CutAt(d)'
      BY <3>1, <3>2, CutKept DEF ConnTypeOK, LogTypeOK, logVars
    <3> QED BY <3>1, <3>3, QuietStep
  <2> QED BY <2>1, <2>2, <2>3, <2>4, <2>5, <2>6, <2>7 DEF Next
<1> QED BY <1>1, <1>2, PTL DEF Spec

\* However the stream is cut into pieces, onMessage takes out exactly its
\* frames, in order, and none behind a bad header.
THEOREM FramesAreExact == Spec => []FramesExact
<1>1. MuduoInv => FramesExact
  BY DEF MuduoInv
<1> QED BY <1>1, MuduoInvariant, PTL

\* A request is answered at most once, and only after its method ran.
THEOREM AnsweredAtMostOnce == Spec => []AnsweredOnce
<1>1. MuduoInv => AnsweredOnce
  BY DEF MuduoInv, AnswerInv
<1> QED BY <1>1, MuduoInvariant, PTL

\* A set without two elements has no element or one.
LEMMA NoneOrOne ==
    ASSUME NEW S, \A x, y \in S : x = y
    PROVE  Cardinality(S) = IF S = {} THEN 0 ELSE 1
<1>1. CASE S = {}
  BY <1>1, FS_EmptySet
<1>2. CASE S # {}
  <2>1. PICK x \in S : TRUE
    BY <1>2
  <2>2. S = {x}
    BY <2>1
  <2>3. Cardinality(S) = 1
    BY <2>2, FS_Singleton
  <2> QED BY <1>2, <2>3
<1> QED BY <1>1, <1>2

\* A request that gets no answer leaves exactly one message, and the messages
\* of one connection stay in the order of its frames.
THEOREM DropsAreReported == Spec => []DropsReported
<1>1. MuduoInv => DropsReported
  <2> SUFFICES ASSUME MuduoInv, NEW c \in Conns, NEW i \in DOMAIN fate[c]
      PROVE  LET about(k) == {x \in DOMAIN Reported : Reported[x].msg = <<c, k>>}
                 held(k)  == {t \in LogThreads : \E x \in DOMAIN logging[t] :
                                                    logging[t][x].msg = <<c, k>>}
             IN /\ fate[c][i] \in Lost
                      => Cardinality(about(i)) + Cardinality(held(i)) = 1
                /\ \A j \in 1 .. i - 1 :
                      fate[c][i] = "dropped" /\ fate[c][j] = "dropped"
                         => \A x \in about(i), y \in about(j) : y < x
    BY DEF DropsReported, Lost
  <2> DEFINE about(k) == {x \in DOMAIN Reported : Reported[x].msg = <<c, k>>}
             held(k)  == {t \in LogThreads : \E x \in DOMAIN logging[t] :
                                                logging[t][x].msg = <<c, k>>}
  <2>0. ConnTypeOK /\ LogTypeOK
    BY FramesExactParts DEF MuduoInv
  <2>1. \A k : about(k) = {x \in DOMAIN Reported : Written(x, c, k)}
    BY DEF Written
  <2>2. \A k : held(k) = {t \in LogThreads : Holds(t, c, k)}
    <3>1. ASSUME NEW t \in LogThreads
          PROVE  DOMAIN logging[t] = IF Len(logging[t]) = 1 THEN {1} ELSE {}
      <4>1. logging[t] \in Seq(Message) /\ Len(logging[t]) <= 1
        BY <2>0 DEF LogTypeOK
      <4>2. Len(logging[t]) \in Nat /\ DOMAIN logging[t] = 1 .. Len(logging[t])
        BY <4>1
      <4>3. Len(logging[t]) = 0 \/ Len(logging[t]) = 1
        <5>1. ASSUME NEW n \in Nat, n <= 1 PROVE n = 0 \/ n = 1
          BY <5>1
        <5> QED BY <4>1, <4>2, <5>1, Zenon
      <4>4. 1 .. 0 = {} /\ 1 .. 1 = {1}
        OBVIOUS
      <4>5. CASE Len(logging[t]) = 0
        BY <4>2, <4>4, <4>5
      <4>6. CASE Len(logging[t]) = 1
        BY <4>2, <4>4, <4>6
      <4> QED BY <4>3, <4>5, <4>6
    <3> QED BY <3>1 DEF Holds
  <2>3. ASSUME fate[c][i] \in Lost
        PROVE  Cardinality(about(i)) + Cardinality(held(i)) = 1
    <3>1. /\ (\E k \in DOMAIN Reported : Written(k, c, i))
                \/ (\E t \in LogThreads : Holds(t, c, i))
          /\ \A k, l \in DOMAIN Reported : Written(k, c, i) /\ Written(l, c, i) => k = l
          /\ \A t, u \in LogThreads : Holds(t, c, i) /\ Holds(u, c, i) => t = u
          /\ \A k \in DOMAIN Reported, t \in LogThreads : ~(Written(k, c, i) /\ Holds(t, c, i))
      BY <2>3 DEF MuduoInv, PlaceInv
    <3>2. /\ \A x, y \in about(i) : x = y
          /\ \A x, y \in held(i) : x = y
          /\ about(i) = {} <=> held(i) # {}
      BY <2>1, <2>2, <3>1
    <3> HIDE DEF about, held
    <3>3. Cardinality(about(i)) = IF about(i) = {} THEN 0 ELSE 1
      BY <3>2, NoneOrOne
    <3>4. Cardinality(held(i)) = IF held(i) = {} THEN 0 ELSE 1
      BY <3>2, NoneOrOne
    <3> QED BY <3>2, <3>3, <3>4
  <2>4. ASSUME NEW j \in 1 .. i - 1, fate[c][i] = "dropped", fate[c][j] = "dropped",
               NEW x \in about(i), NEW y \in about(j)
        PROVE  y < x
    <3>1. j \in DOMAIN fate[c] /\ j < i
      BY <2>0, ConnTypes
    <3>2. Written(x, c, i) /\ Written(y, c, j) /\ x \in DOMAIN Reported /\ y \in DOMAIN Reported
      BY <2>4 DEF Written
    <3> QED BY <2>4, <3>1, <3>2 DEF MuduoInv, OrderInv
  <2> QED BY <2>3, <2>4
<1> QED BY <1>1, MuduoInvariant, PTL
=============================================================================
