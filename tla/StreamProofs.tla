---------------------------- MODULE StreamProofs ----------------------------
(***************************************************************************)
(* Theorems about the streams of every connection, for every value of the  *)
(* constants: the echo, the retransmission queue, reassembly and the FIN.  *)
(***************************************************************************)
EXTENDS FlightProofs

-----------------------------------------------------------------------------
(* What the operations on one connection do to its two streams: what is    *)
(* sent stays pending until it is acknowledged, what is queued and sent    *)
(* echoes what was received, and what is buffered lies ahead of RCV.NXT.   *)

\* The initial sequence numbers of a connection.
Origin == [iss: SeqPoint, irs: SeqPoint]

\* The pending segments hold the numbers in flight, and each one ends among them.
PendingOK(c) ==
    /\ \A p \in c.pending : /\ Consumed(p.info) \in 1..(MaxWnd + 1)
                            /\ Sub(EndSeq(p), c.snd_una) \in 1..Flight(c)
    /\ \A x \in 0..(Flight(c) - 1) :
          \E p \in c.pending : Sub(Add(c.snd_una, x), p.info.seq) < Consumed(p.info)

\* The pending segments carry the client's bytes in their own places.
PendingEchoes(c, o) == \A p \in c.pending : EchoesFrom(o, p.info.seq, p.info.payload)

\* So does the send buffer, and RCV.NXT stands n past the echo of its last byte: 1
\* once the peer's FIN has been received.
QueueOK(c, o, n) ==
    /\ EchoesFrom(o, c.snd_nxt, c.send_buffer)
    /\ c.rcv_nxt = Add(EchoOf(o, Add(c.snd_nxt, Len(c.send_buffer))), n)

\* A connection in the middle of a handler, with the send side open.
Ready(c, o, n) == /\ ConnOK(c)
                  /\ Flight(c) <= MaxWnd
                  /\ PendingOK(c)
                  /\ PendingEchoes(c, o)
                  /\ QueueOK(c, o, n)

\* d is c but for the receiving side.
SameQueue(d, c) == SameSend(d, c) /\ d.pending = c.pending

\* d is c but for the sending side.
SameRecv(d, c) == /\ d.rcv_nxt = c.rcv_nxt
                  /\ d.segments = c.segments
                  /\ d.fin_seq = c.fin_seq
-----------------------------------------------------------------------------
(* What is pending.                                                        *)

\* The fields of a pending segment.
LEMMA PendingFields ==
    ASSUME NEW c, ConnOK(c), NEW p \in c.pending
    PROVE  /\ p.info \in SendInfo
           /\ p.info.seq \in SeqPoint
           /\ p.info.payload \in Seq(SeqPoint)
           /\ Consumed(p.info) \in Nat
           /\ EndSeq(p) \in SeqPoint
<1>1. p \in PendingSegment
  BY Fields
<1>2. p.info \in SendInfo
  BY <1>1 DEF PendingSegment
<1>3. p.info.seq \in SeqPoint /\ p.info.payload \in Seq(SeqPoint)
  BY <1>2 DEF SendInfo
<1>4. Consumed(p.info) \in Nat
  BY <1>2, ConsumedType
<1> QED
  BY <1>2, <1>3, <1>4, AddType DEF EndSeq

\* Receiving leaves what is pending alone.
LEMMA SamePending ==
    ASSUME NEW c, NEW d, SameQueue(d, c)
    PROVE  /\ PendingOK(c) => PendingOK(d)
           /\ \A o : PendingEchoes(c, o) => PendingEchoes(d, o)
           /\ Flight(d) = Flight(c)
BY Zenon DEF SameQueue, SameSend, PendingOK, PendingEchoes, Flight

\* incoming_ack_update drops exactly what has been acknowledged in full.
LEMMA AckedByPending ==
    ASSUME NEW c, ConnOK(c), NEW seg \in InSegment,
           Flight(c) <= MaxWnd + 1,
           ~Antipodal(c, seg),
           PendingOK(c)
    PROVE  PendingOK(AckedBy(c, seg))
<1> DEFINE d    == AckedBy(c, seg)
           una  == c.snd_una
           nxt  == c.snd_nxt
           ack  == seg.ack
<1>1. CASE ~(AckAcceptable(c, seg) /\ Precedes(c.snd_una, seg.ack))
  BY <1>1 DEF AckedBy
<1>2. CASE AckAcceptable(c, seg) /\ Precedes(c.snd_una, seg.ack)
  <2>1. /\ d.snd_una = ack /\ d.snd_nxt = nxt
        /\ d.pending = {p \in c.pending : ~IsCoveredBy(p, ack)}
    BY <1>2 DEF AckedBy, ConnOK, ConnState
  <2>2. una \in SeqPoint /\ nxt \in SeqPoint /\ ack \in SeqPoint
    BY Fields, SegFields
  <2>3. Flight(c) < Half /\ Flight(c) \in Nat
    BY FlightType, SizeAssumption, HalfAssumption, SMT
  <2>4. /\ Sub(ack, una) <= Sub(nxt, una) /\ Sub(nxt, una) < Half
        /\ Sub(nxt, ack) = Sub(nxt, una) - Sub(ack, una)
    BY <1>2, <2>2, <2>3, AckBracketed DEF AckAcceptable, Antipodal, Flight
  <2>5. Sub(ack, una) \in Nat /\ Sub(nxt, una) \in Nat /\ Sub(nxt, ack) \in Nat
    BY <2>2, SubType, SMT
  <2>6. Flight(d) = Sub(nxt, ack) /\ Flight(c) = Sub(nxt, una)
    BY <2>1 DEF Flight
  <2> HIDE DEF d, una, nxt, ack
  <2>7. ASSUME NEW p \in d.pending
        PROVE  /\ Consumed(p.info) \in 1..(MaxWnd + 1)
               /\ Sub(EndSeq(p), ack) \in 1..Flight(d)
    <3>1. p \in c.pending /\ ~PrecedesOrEq(EndSeq(p), ack)
      BY <2>1, <2>7 DEF IsCoveredBy
    <3>2. Consumed(p.info) \in 1..(MaxWnd + 1) /\ Sub(EndSeq(p), una) \in 1..Sub(nxt, una)
      BY <2>6, <3>1 DEF PendingOK, una
    <3>3. EndSeq(p) \in SeqPoint
      BY <3>1, PendingFields
    <3> QED
      BY <2>2, <2>4, <2>6, <3>1, <3>2, <3>3, EndsPastAck
  <2>8. ASSUME NEW x \in 0..(Flight(d) - 1)
        PROVE  \E p \in d.pending : Sub(Add(ack, x), p.info.seq) < Consumed(p.info)
    <3> DEFINE y  == Sub(ack, una) + x
               pt == Add(ack, x)
    <3>1. /\ x \in Nat /\ y \in 0..(Flight(c) - 1) /\ Sub(ack, una) + x < SeqMod
          /\ y \in Nat /\ Sub(ack, una) <= y
      BY <2>3, <2>4, <2>5, <2>6, HalfAssumption, SMT DEF SeqMod
    <3>2. pt \in SeqPoint /\ Sub(pt, una) = y
      BY <2>2, <3>1, AddType, SubAdvance
    <3>3. Add(una, y) = pt
      BY <2>2, <3>2, AddSub
    <3>4. PICK p \in c.pending : Sub(Add(una, y), p.info.seq) < Consumed(p.info)
      BY <3>1 DEF PendingOK, una
    <3> HIDE DEF y, pt
    <3>5. /\ Consumed(p.info) \in 1..(MaxWnd + 1) /\ Sub(EndSeq(p), una) \in 1..Sub(nxt, una)
          /\ p.info.seq \in SeqPoint
      BY <2>6, PendingFields DEF PendingOK, una
    <3>6. Consumed(p.info) \in 1..Half
      BY <3>5, SizeAssumption, HalfAssumption, SMT
    <3>7. Sub(pt, p.info.seq) < Consumed(p.info)
      BY <3>3, <3>4
    <3>8. Sub(ack, una) <= Sub(pt, una) /\ Sub(pt, una) < Sub(nxt, una)
      BY <2>3, <2>6, <3>1, <3>2, SMT
    <3>9. ~PrecedesOrEq(Add(p.info.seq, Consumed(p.info)), ack)
      BY <2>2, <2>4, <3>2, <3>5, <3>6, <3>7, <3>8, HoldsNotCovered DEF EndSeq
    <3>10. p \in d.pending
      BY <2>1, <3>9 DEF IsCoveredBy, EndSeq
    <3> QED
      BY <3>7, <3>10 DEF pt
  <2> QED
    BY <2>1, <2>7, <2>8 DEF PendingOK, d
<1> QED
  BY <1>1, <1>2

\* What is sent is pending, from SND.NXT on.
LEMMA SentPending ==
    ASSUME NEW c, ConnOK(c), NEW info \in SendInfo,
           info.seq = c.snd_nxt,
           Consumed(info) # 0,
           Flight(c) + Consumed(info) <= MaxWnd + 1,
           PendingOK(c)
    PROVE  /\ PendingOK(Sent(c, info))
           /\ \A p \in Sent(c, info).pending : p \in c.pending \/ p.info = info
<1> DEFINE d == Sent(c, info)
           n == Consumed(info)
           F == Flight(c)
           new == [info |-> info, retries |-> 0,
                   copy |-> Cardinality({p \in c.pending : p.info = info})]
<1>1. n \in Nat /\ F \in Nat /\ F + n < SeqMod /\ n <= MaxWnd + 1 /\ n < SeqMod
  BY ConsumedType, FlightType, SizeAssumption, HalfAssumption, SMT DEF SeqMod
<1>2. Flight(d) = F + n /\ d.snd_una = c.snd_una
  BY <1>1, SentFlight
<1>3. d.pending = c.pending \cup {new}
  BY DEF Sent, Push, ConnOK, ConnState
<1>4. new.info = info
  OBVIOUS
<1>5. c.snd_una \in SeqPoint /\ c.snd_nxt \in SeqPoint
  BY Fields
<1> HIDE DEF d, new
<1>6. Sub(EndSeq(new), c.snd_una) = F + n
  <2>1. EndSeq(new) = Add(c.snd_nxt, n)
    BY <1>4 DEF EndSeq
  <2> QED
    BY <1>1, <1>5, <2>1, SubAdvance DEF Flight
<1> HIDE DEF n, F
<1>7. ASSUME NEW p \in d.pending
      PROVE  /\ Consumed(p.info) \in 1..(MaxWnd + 1)
             /\ Sub(EndSeq(p), d.snd_una) \in 1..Flight(d)
  <2>1. CASE p = new
    BY <1>1, <1>2, <1>4, <1>6, <2>1, SizeAssumption, SMT DEF n
  <2>2. CASE p \in c.pending
    <3>1. Consumed(p.info) \in 1..(MaxWnd + 1) /\ Sub(EndSeq(p), c.snd_una) \in 1..F
      BY <2>2 DEF PendingOK, F
    <3> QED
      BY <1>1, <1>2, <3>1, SMT
  <2> QED
    BY <1>3, <1>7, <2>1, <2>2
<1>8. ASSUME NEW x \in 0..(Flight(d) - 1)
      PROVE  \E p \in d.pending : Sub(Add(d.snd_una, x), p.info.seq) < Consumed(p.info)
  <2>1. CASE x < F
    <3>1. x \in 0..(F - 1)
      BY <1>1, <1>2, <2>1, SMT
    <3>2. PICK p \in c.pending : Sub(Add(c.snd_una, x), p.info.seq) < Consumed(p.info)
      BY <3>1 DEF PendingOK, F
    <3> QED
      BY <1>2, <1>3, <3>2
  <2>2. CASE ~(x < F)
    <3> DEFINE pt == Add(c.snd_una, x)
    <3>1. x \in Nat /\ x \in 0..(SeqMod - 1)
      BY <1>1, <1>2, HalfAssumption, SMT DEF SeqMod
    <3>2. pt \in SeqPoint /\ Sub(pt, c.snd_una) = x
      BY <1>5, <3>1, AddType, SubOwn
    <3> HIDE DEF pt
    <3>3. Sub(pt, c.snd_nxt) = IF Sub(pt, c.snd_una) >= Sub(c.snd_nxt, c.snd_una)
                               THEN Sub(pt, c.snd_una) - Sub(c.snd_nxt, c.snd_una)
                               ELSE Sub(pt, c.snd_una) - Sub(c.snd_nxt, c.snd_una) + SeqMod
      BY <1>5, <3>2, SubRebase
    <3>4. Sub(c.snd_nxt, c.snd_una) = F
      BY DEF F, Flight
    <3>5. Sub(pt, c.snd_nxt) < n
      BY <1>1, <1>2, <2>2, <3>1, <3>2, <3>3, <3>4, SMT
    <3>6. new \in d.pending /\ new.info.seq = c.snd_nxt /\ Consumed(new.info) = n
      BY <1>3, <1>4 DEF n
    <3> QED
      BY <1>2, <3>5, <3>6 DEF pt
  <2> QED
    BY <2>1, <2>2
<1>9. PendingOK(d)
  BY <1>2, <1>7, <1>8, Zenon DEF PendingOK
<1> QED
  BY <1>3, <1>4, <1>9 DEF d
-----------------------------------------------------------------------------
(* What is queued.                                                         *)

\* The echo of a place n further on is n further on.
LEMMA EchoAdvance ==
    ASSUME NEW o \in Origin, NEW q \in SeqPoint, NEW n \in Nat
    PROVE  /\ EchoOf(o, q) \in SeqPoint
           /\ EchoOf(o, Add(q, n)) = Add(EchoOf(o, q), n)
<1> DEFINE i == Add(o.irs, 1)
           s == Add(o.iss, 1)
<1>1. o.irs \in SeqPoint /\ o.iss \in SeqPoint
  BY DEF Origin
<1>2. i \in SeqPoint /\ s \in SeqPoint
  BY <1>1, AddType
<1>3. EchoOf(o, q) = Add(i, Sub(q, s)) /\ EchoOf(o, Add(q, n)) = Add(i, Sub(Add(q, n), s))
  BY DEF EchoOf
<1> HIDE DEF i, s
<1>4. Sub(q, s) \in Nat
  BY <1>2, SubType, SMT
<1>5. EchoOf(o, q) \in SeqPoint
  BY <1>2, <1>3, <1>4, AddType
<1>6. i \in Int /\ s \in Int /\ q \in Int /\ n \in Int /\ Sub(q, s) \in Int
  BY <1>2, <1>4, SMT DEF SeqPoint
<1>7. Sub(Add(q, n), s) = Add(Sub(q, s), n)
  BY <1>6, SubOfAdd
<1>8. Add(i, Add(Sub(q, s), n)) = Add(i, Sub(q, s) + n)
  BY <1>6, AddOfAdd
<1>9. Add(Add(i, Sub(q, s)), n) = Add(i, Sub(q, s) + n)
  BY <1>6, AddAdd
<1> QED
  BY <1>3, <1>5, <1>7, <1>8, <1>9

\* Moving on by m and then by n, from a point.
LEMMA AdvanceTwice ==
    ASSUME NEW p \in SeqPoint, NEW m \in Nat, NEW n \in Nat
    PROVE  Add(Add(p, m), n) = Add(p, m + n)
<1>1. p \in Int /\ m \in Int /\ n \in Int
  BY SMT DEF SeqPoint
<1> QED
  BY <1>1, AddAdd

\* An empty payload echoes anything.
LEMMA EchoesEmpty ==
    ASSUME NEW o, NEW q
    PROVE  EchoesFrom(o, q, <<>>)
<1>1. Len(<<>>) = 0
  BY EmptySeq
<1>2. 1..Len(<<>>) = {}
  BY <1>1, SMT
<1> QED
  BY <1>2, Zenon DEF EchoesFrom

\* Bytes received at the place where the queue ends continue the echo.
LEMMA EchoesAppend ==
    ASSUME NEW o \in Origin, NEW q \in SeqPoint, NEW s \in Seq(SeqPoint), NEW n \in Nat,
           EchoesFrom(o, q, s)
    PROVE  EchoesFrom(o, q, s \o Bytes(EchoOf(o, Add(q, Len(s))), n))
<1> DEFINE r == EchoOf(o, Add(q, Len(s)))
           b == Bytes(r, n)
           t == s \o b
<1>1. Len(s) \in Nat
  BY LenProperties
<1>2. Add(q, Len(s)) \in SeqPoint /\ r \in SeqPoint
  BY <1>1, AddType, EchoAdvance
<1>3. b \in Seq(SeqPoint) /\ Len(b) = n
  BY <1>2, BytesType
<1>4. /\ Len(t) = Len(s) + n
      /\ \A i \in 1..(Len(s) + n) : t[i] = IF i <= Len(s) THEN s[i] ELSE b[i - Len(s)]
  BY <1>3, ConcatProperties
<1>5. \A j \in 1..n : b[j] = Add(r, j - 1)
  BY DEF Bytes
<1> HIDE DEF b, t
<1>6. ASSUME NEW i \in 1..Len(t)
      PROVE  t[i] = EchoOf(o, Add(q, i - 1))
  <2>1. i \in 1..(Len(s) + n)
    BY <1>4
  <2>2. CASE i <= Len(s)
    <3>1. i \in 1..Len(s)
      BY <1>1, <2>1, <2>2, SMT
    <3> QED
      BY <1>4, <2>1, <2>2, <3>1 DEF EchoesFrom
  <2>3. CASE ~(i <= Len(s))
    <3> DEFINE j == i - Len(s)
    <3>1. j \in 1..n /\ j - 1 \in Nat /\ Len(s) + (j - 1) = i - 1
      BY <1>1, <2>1, <2>3, SMT
    <3>2. t[i] = Add(r, j - 1)
      BY <1>4, <1>5, <2>1, <2>3, <3>1
    <3> HIDE DEF j
    <3>3. Add(r, j - 1) = EchoOf(o, Add(Add(q, Len(s)), j - 1))
      BY <1>2, <3>1, EchoAdvance
    <3>4. Add(Add(q, Len(s)), j - 1) = Add(q, Len(s) + (j - 1))
      BY <1>1, <3>1, AdvanceTwice
    <3> QED
      BY <3>1, <3>2, <3>3, <3>4
  <2> QED
    BY <2>2, <2>3
<1>7. EchoesFrom(o, q, t)
  BY <1>6 DEF EchoesFrom
<1> QED
  BY <1>7 DEF t, b

\* A queue that echoes does so in its first n bytes and in the rest.
LEMMA EchoesSplit ==
    ASSUME NEW o \in Origin, NEW q \in SeqPoint, NEW s \in Seq(SeqPoint),
           NEW n \in 0..Len(s), EchoesFrom(o, q, s)
    PROVE  /\ EchoesFrom(o, q, SubSeq(s, 1, n))
           /\ EchoesFrom(o, Add(q, n), SubSeq(s, n + 1, Len(s)))
           /\ Len(SubSeq(s, n + 1, Len(s))) = Len(s) - n
<1>1. Len(s) \in Nat /\ n \in Nat /\ n <= Len(s)
  BY LenProperties, SMT
<1>2. \A i \in 1..Len(s) : s[i] \in SeqPoint /\ s[i] = EchoOf(o, Add(q, i - 1))
  BY ElementOfSeq DEF EchoesFrom
<1>3. /\ \A i \in 1..n : s[i] \in SeqPoint
      /\ \A i \in (n + 1)..Len(s) : s[i] \in SeqPoint
  BY <1>1, <1>2, SMT
<1>4. 1 \in Int /\ n \in Int /\ n + 1 \in Int /\ Len(s) \in Int
  BY <1>1, SMT
<1> DEFINE a == SubSeq(s, 1, n)
           b == SubSeq(s, n + 1, Len(s))
<1>5. /\ Len(a) = IF 1 <= n THEN n - 1 + 1 ELSE 0
      /\ \A i \in 1..(n - 1 + 1) : a[i] = s[1 + i - 1]
  BY <1>3, <1>4, SubSeqProperties, SMT
<1>6. /\ Len(b) = IF n + 1 <= Len(s) THEN Len(s) - (n + 1) + 1 ELSE 0
      /\ \A i \in 1..(Len(s) - (n + 1) + 1) : b[i] = s[n + 1 + i - 1]
  BY <1>3, <1>4, SubSeqProperties, SMT
<1> HIDE DEF a, b
<1>7. Len(a) = n /\ Len(b) = Len(s) - n
  BY <1>1, <1>5, <1>6, SMT
<1>8. ASSUME NEW i \in 1..Len(a)
      PROVE  a[i] = EchoOf(o, Add(q, i - 1))
  <2>1. i \in 1..(n - 1 + 1) /\ 1 + i - 1 = i /\ i \in 1..Len(s)
    BY <1>1, <1>7, SMT
  <2> QED
    BY <1>2, <1>5, <2>1
<1>9. ASSUME NEW i \in 1..Len(b)
      PROVE  b[i] = EchoOf(o, Add(Add(q, n), i - 1))
  <2>1. /\ i \in 1..(Len(s) - (n + 1) + 1) /\ n + 1 + i - 1 = n + i /\ n + i \in 1..Len(s)
        /\ n + i - 1 = n + (i - 1) /\ i - 1 \in Nat
    BY <1>1, <1>7, SMT
  <2>2. b[i] = EchoOf(o, Add(q, n + (i - 1)))
    BY <1>2, <1>6, <2>1
  <2> QED
    BY <1>1, <2>1, <2>2, AdvanceTwice
<1>10. EchoesFrom(o, q, a) /\ EchoesFrom(o, Add(q, n), b)
  BY <1>8, <1>9 DEF EchoesFrom
<1> QED
  BY <1>7, <1>10 DEF a, b
-----------------------------------------------------------------------------
(* The operations of a handler, one after the other.                       *)

\* Handlers change what they do not send or deliver without losing readiness.
LEMMA ReadySame ==
    ASSUME NEW o, NEW n, NEW c, NEW d, Ready(c, o, n), ConnOK(d), SameQueue(d, c),
           d.send_buffer = c.send_buffer, d.rcv_nxt = c.rcv_nxt
    PROVE  Ready(d, o, n)
<1>1. PendingOK(d) /\ PendingEchoes(d, o) /\ Flight(d) = Flight(c)
  BY SamePending DEF Ready
<1>2. QueueOK(d, o, n)
  BY Zenon DEF Ready, QueueOK, SameQueue, SameSend
<1> QED
  BY <1>1, <1>2 DEF Ready

\* An acknowledgment leaves the streams where they are.
LEMMA ReadyAcked ==
    ASSUME NEW o \in Origin, NEW n, NEW c, Ready(c, o, n),
           NEW seg \in InSegment, ~Antipodal(c, seg)
    PROVE  /\ Ready(AckedBy(c, seg), o, n)
           /\ SameRecv(AckedBy(c, seg), c)
           /\ AckedBy(c, seg).snd_nxt = c.snd_nxt
           /\ AckedBy(c, seg).send_buffer = c.send_buffer
           /\ AckedBy(c, seg).tcp_state = c.tcp_state
<1> DEFINE d == AckedBy(c, seg)
<1>1. ConnOK(c) /\ Flight(c) <= MaxWnd /\ PendingOK(c) /\ PendingEchoes(c, o) /\ QueueOK(c, o, n)
  BY DEF Ready
<1>2. Flight(c) \in Nat /\ Flight(c) <= MaxWnd + 1
  BY <1>1, FlightType, SizeAssumption, SMT
<1>3. ConnOK(d) /\ PendingOK(d)
  BY <1>1, <1>2, AckedByOK, AckedByPending
<1>4. d.snd_nxt = c.snd_nxt /\ d.tcp_state = c.tcp_state /\ Flight(d) <= Flight(c)
  BY <1>1, <1>2, AckedByFlight
<1>5. /\ d.pending \subseteq c.pending /\ SameRecv(d, c)
      /\ d.send_buffer = c.send_buffer
  BY <1>1 DEF AckedBy, ConnOK, ConnState, SameRecv
<1> HIDE DEF d
<1>6. PendingEchoes(d, o) /\ QueueOK(d, o, n)
  BY <1>1, <1>4, <1>5, Zenon DEF PendingEchoes, QueueOK, SameRecv
<1>7. Flight(d) <= MaxWnd
  BY <1>1, <1>2, <1>3, <1>4, FlightType, SizeAssumption, SMT
<1> QED
  BY <1>3, <1>4, <1>5, <1>6, <1>7 DEF Ready, d

\* The same with the window stored.
LEMMA ReadyAckUpdate ==
    ASSUME NEW o \in Origin, NEW n, NEW c, Ready(c, o, n),
           NEW seg \in InSegment, ~Antipodal(c, seg)
    PROVE  /\ Ready(AckUpdate(c, seg), o, n)
           /\ SameRecv(AckUpdate(c, seg), c)
           /\ AckUpdate(c, seg).snd_nxt = c.snd_nxt
           /\ AckUpdate(c, seg).send_buffer = c.send_buffer
           /\ AckUpdate(c, seg).tcp_state = c.tcp_state
<1> DEFINE a == AckedBy(c, seg)
           d == AckUpdate(c, seg)
<1>1. /\ Ready(a, o, n) /\ SameRecv(a, c) /\ a.snd_nxt = c.snd_nxt
      /\ a.send_buffer = c.send_buffer /\ a.tcp_state = c.tcp_state
  BY ReadyAcked
<1>2. ConnOK(c) /\ ConnOK(a) /\ ConnOK(d)
  BY <1>1, AckUpdateOK DEF Ready
<1>3. d = [a EXCEPT !.window = WindowAfter(c, seg)]
  BY DEF AckUpdate
<1> HIDE DEF a, d
<1>4. /\ SameQueue(d, a) /\ d.send_buffer = a.send_buffer /\ SameRecv(d, a)
      /\ d.tcp_state = a.tcp_state
  BY <1>2, <1>3 DEF ConnOK, ConnState, SameQueue, SameSend, SameRecv
<1>5. Ready(d, o, n)
  BY <1>1, <1>2, <1>4, ReadySame DEF SameRecv
<1> QED
  BY <1>1, <1>4, <1>5 DEF d, SameRecv, SameQueue, SameSend

\* Bytes delivered from RCV.NXT on continue the echo.
LEMMA ReadyDeliver ==
    ASSUME NEW o \in Origin, NEW c, Ready(c, o, 0), NEW m \in Nat
    PROVE  /\ Ready(Deliver(c, c.rcv_nxt, m), o, 0)
           /\ Deliver(c, c.rcv_nxt, m).rcv_nxt = Add(c.rcv_nxt, m)
           /\ Deliver(c, c.rcv_nxt, m).segments = c.segments
           /\ Deliver(c, c.rcv_nxt, m).fin_seq = c.fin_seq
           /\ Deliver(c, c.rcv_nxt, m).snd_nxt = c.snd_nxt
           /\ Deliver(c, c.rcv_nxt, m).tcp_state = c.tcp_state
<1> DEFINE d == Deliver(c, c.rcv_nxt, m)
           b == Bytes(c.rcv_nxt, m)
           q == EchoOf(o, Add(c.snd_nxt, Len(c.send_buffer)))
<1>1. /\ ConnOK(c) /\ Flight(c) <= MaxWnd /\ PendingOK(c) /\ PendingEchoes(c, o)
      /\ EchoesFrom(o, c.snd_nxt, c.send_buffer) /\ c.rcv_nxt = Add(q, 0)
  BY DEF Ready, QueueOK
<1>2. /\ c.rcv_nxt \in SeqPoint /\ c.snd_nxt \in SeqPoint
      /\ c.send_buffer \in Seq(SeqPoint) /\ Len(c.send_buffer) \in Nat
  BY <1>1, Fields, LenProperties
<1>3. Add(c.snd_nxt, Len(c.send_buffer)) \in SeqPoint /\ q \in SeqPoint
  BY <1>2, AddType, EchoAdvance
<1>4. c.rcv_nxt = q
  BY <1>1, <1>3, AddZero
<1>5. ConnOK(d)
  BY <1>1, <1>2, DeliverOK
<1>6. /\ SameQueue(d, c) /\ d.rcv_nxt = Add(c.rcv_nxt, m)
      /\ d.send_buffer = c.send_buffer \o b
      /\ d.segments = c.segments /\ d.fin_seq = c.fin_seq
  BY <1>1 DEF Deliver, AdvanceRcv, ConnOK, ConnState, SameQueue, SameSend
<1>7. b \in Seq(SeqPoint) /\ Len(b) = m
  BY <1>2, BytesType
<1>8. EchoesFrom(o, c.snd_nxt, d.send_buffer)
  BY <1>1, <1>2, <1>4, <1>6, EchoesAppend
<1> HIDE DEF d, b
<1>9. Len(d.send_buffer) = Len(c.send_buffer) + m
  BY <1>2, <1>6, <1>7, ConcatProperties
<1>10. Add(c.snd_nxt, Len(c.send_buffer) + m) = Add(Add(c.snd_nxt, Len(c.send_buffer)), m)
  BY <1>2, AdvanceTwice
<1>11. EchoOf(o, Add(c.snd_nxt, Len(d.send_buffer))) = Add(q, m)
  BY <1>3, <1>9, <1>10, EchoAdvance
<1>12. Add(q, m) \in SeqPoint
  BY <1>3, AddType
<1>13. d.rcv_nxt = Add(EchoOf(o, Add(c.snd_nxt, Len(d.send_buffer))), 0)
  BY <1>4, <1>6, <1>11, <1>12, AddZero
<1>14. QueueOK(d, o, 0)
  BY <1>6, <1>8, <1>13, Zenon DEF QueueOK, SameQueue, SameSend
<1>15. Ready(d, o, 0)
  BY <1>1, <1>5, <1>6, <1>14, SamePending DEF Ready
<1> QED
  BY <1>6, <1>15 DEF d, SameQueue, SameSend

\* What drain_contiguous releases continues it too.
LEMMA ReadyContiguous ==
    ASSUME NEW o \in Origin, NEW c, Ready(c, o, 0)
    PROVE  LET d == DeliverContiguous(c)
           IN  /\ Ready(d, o, 0)
               /\ d.rcv_nxt = DrainedTo(c)
               /\ d.fin_seq = c.fin_seq
               /\ d.segments = [s \in SeqPoint |->
                      IF PrecedesOrEq(s, DrainedTo(c)) THEN 0 ELSE c.segments[s]]
               /\ d.snd_nxt = c.snd_nxt
               /\ d.tcp_state = c.tcp_state
<1> DEFINE m == Sub(DrainedTo(c), c.rcv_nxt)
           b == Deliver(c, c.rcv_nxt, m)
           v == [s \in SeqPoint |-> IF PrecedesOrEq(s, b.rcv_nxt) THEN 0 ELSE c.segments[s]]
           d == DeliverContiguous(c)
<1>1. ConnOK(c)
  BY DEF Ready
<1>2. DrainedTo(c) \in SeqPoint /\ c.rcv_nxt \in SeqPoint /\ m \in Nat
  BY <1>1, DrainedToType, Fields, SubType, SMT
<1>3. /\ Ready(b, o, 0) /\ b.rcv_nxt = Add(c.rcv_nxt, m) /\ b.fin_seq = c.fin_seq
      /\ b.snd_nxt = c.snd_nxt /\ b.tcp_state = c.tcp_state
  BY <1>2, ReadyDeliver
<1>4. b.rcv_nxt = DrainedTo(c)
  BY <1>2, <1>3, AddSub
<1>5. d = [b EXCEPT !.segments = v]
  BY Zenon DEF DeliverContiguous
<1>6. ConnOK(d) /\ ConnOK(b)
  BY <1>1, <1>3, DeliverContiguousOK DEF Ready
<1>7. v = [s \in SeqPoint |-> IF PrecedesOrEq(s, DrainedTo(c)) THEN 0 ELSE c.segments[s]]
  BY <1>4
<1> HIDE DEF b, v, d
<1>8. /\ SameQueue(d, b) /\ d.send_buffer = b.send_buffer /\ d.rcv_nxt = b.rcv_nxt
      /\ d.fin_seq = b.fin_seq /\ d.segments = v
  BY <1>5, <1>6 DEF ConnOK, ConnState, SameQueue, SameSend
<1>9. Ready(d, o, 0)
  BY <1>3, <1>6, <1>8, ReadySame
<1> QED
  BY <1>3, <1>4, <1>7, <1>8, <1>9 DEF d, SameQueue, SameSend

\* The peer's FIN takes one number.
LEMMA ReadyFin ==
    ASSUME NEW o \in Origin, NEW c, Ready(c, o, 0)
    PROVE  /\ Ready(AdvanceRcv(c, 1), o, 1)
           /\ AdvanceRcv(c, 1).rcv_nxt = Add(c.rcv_nxt, 1)
           /\ AdvanceRcv(c, 1).snd_nxt = c.snd_nxt
<1> DEFINE d == AdvanceRcv(c, 1)
           q == EchoOf(o, Add(c.snd_nxt, Len(c.send_buffer)))
<1>1. /\ ConnOK(c) /\ EchoesFrom(o, c.snd_nxt, c.send_buffer) /\ c.rcv_nxt = Add(q, 0)
      /\ Flight(c) <= MaxWnd /\ PendingOK(c) /\ PendingEchoes(c, o)
  BY DEF Ready, QueueOK
<1>2. c.snd_nxt \in SeqPoint /\ Len(c.send_buffer) \in Nat
  BY <1>1, Fields, LenProperties
<1>3. Add(c.snd_nxt, Len(c.send_buffer)) \in SeqPoint /\ q \in SeqPoint
  BY <1>2, AddType, EchoAdvance
<1>4. c.rcv_nxt = q
  BY <1>1, <1>3, AddZero
<1>5. ConnOK(d)
  BY <1>1, AdvanceRcvOK
<1>6. SameQueue(d, c) /\ d.send_buffer = c.send_buffer /\ d.rcv_nxt = Add(c.rcv_nxt, 1)
  BY <1>1 DEF AdvanceRcv, ConnOK, ConnState, SameQueue, SameSend
<1> HIDE DEF d
<1>7. QueueOK(d, o, 1)
  BY <1>1, <1>4, <1>6, Zenon DEF QueueOK, SameQueue, SameSend
<1>8. Ready(d, o, 1)
  BY <1>1, <1>5, <1>6, <1>7, SamePending DEF Ready
<1> QED
  BY <1>6, <1>8 DEF d, SameQueue, SameSend
-----------------------------------------------------------------------------
(* Sending.                                                                *)

\* The replies of a handler carry the client's bytes in their own places.
ReplyEchoes(r, o) == \A i \in r.reply : EchoesFrom(o, i.seq, i.payload)

\* The first n bytes of the queue are sent from d, which is c without them.
LEMMA ChunkSent ==
    ASSUME NEW o \in Origin, NEW m \in Nat, NEW c, Ready(c, o, m),
           NEW n \in 0..Len(c.send_buffer), NEW flags \in {"Ack", "FinAck"},
           NEW d, ConnOK(d), d.snd_nxt = c.snd_nxt, d.snd_una = c.snd_una,
           d.pending = c.pending,
           d.send_buffer = SubSeq(c.send_buffer, n + 1, Len(c.send_buffer)),
           Consumed(DataInfo(c, Chunk(c, n), flags)) # 0,
           Flight(c) + Consumed(DataInfo(c, Chunk(c, n), flags)) <= MaxWnd + 1
    PROVE  LET info == DataInfo(c, Chunk(c, n), flags)
               e    == Sent(d, info)
           IN  /\ PendingOK(e) /\ PendingEchoes(e, o)
               /\ EchoesFrom(o, info.seq, info.payload)
               /\ e.snd_nxt = Add(c.snd_nxt, Consumed(info))
               /\ e.send_buffer = d.send_buffer
               /\ e.tcp_state = d.tcp_state
               /\ SameRecv(e, d)
               /\ Sub(e.snd_nxt, c.snd_nxt) = Consumed(info)
<1> DEFINE info == DataInfo(c, Chunk(c, n), flags)
           e    == Sent(d, info)
<1>1. /\ ConnOK(c) /\ PendingOK(c) /\ PendingEchoes(c, o)
      /\ EchoesFrom(o, c.snd_nxt, c.send_buffer)
  BY DEF Ready, QueueOK
<1>2. c.snd_nxt \in SeqPoint /\ c.send_buffer \in Seq(SeqPoint)
  BY <1>1, Fields
<1>3. info \in SendInfo
  BY <1>1, DrainedOK, DataInfoType
<1>4. info.seq = c.snd_nxt /\ info.payload = SubSeq(c.send_buffer, 1, n)
  BY DEF DataInfo, Chunk
<1>5. EchoesFrom(o, info.seq, info.payload)
  BY <1>1, <1>2, <1>4, EchoesSplit
<1>6. /\ e.snd_nxt = Add(d.snd_nxt, Consumed(info)) /\ e.send_buffer = d.send_buffer
      /\ e.tcp_state = d.tcp_state /\ SameRecv(e, d)
  BY DEF Sent, Push, ConnOK, ConnState, SameRecv
<1>7. PendingOK(d) /\ Flight(d) = Flight(c)
  BY <1>1, Zenon DEF PendingOK, Flight
<1> HIDE DEF info, e
<1>8. /\ Consumed(info) # 0 /\ Flight(d) + Consumed(info) <= MaxWnd + 1
      /\ info.seq = d.snd_nxt
  BY <1>4, <1>7 DEF info
<1>9. PendingOK(e) /\ \A p \in e.pending : p \in d.pending \/ p.info = info
  BY <1>3, <1>7, <1>8, SentPending DEF e
<1>10. PendingEchoes(e, o)
  BY <1>1, <1>5, <1>9 DEF PendingEchoes
<1>11. Consumed(info) \in 0..(SeqMod - 1)
  BY <1>1, <1>3, <1>7, <1>8, ConsumedType, FlightType, SizeAssumption, HalfAssumption, SMT
     DEF SeqMod
<1>12. Sub(e.snd_nxt, c.snd_nxt) = Consumed(info)
  BY <1>2, <1>6, <1>11, SubOwn
<1> QED
  BY <1>5, <1>6, <1>9, <1>10, <1>12 DEF info, e

\* What the server builds from n bytes and, perhaps, our FIN occupies.
LEMMA ConsumedOf ==
    ASSUME NEW c, ConnOK(c), NEW n \in 0..Len(c.send_buffer)
    PROVE  /\ Consumed(DataInfo(c, Chunk(c, n), "Ack")) = n
           /\ Consumed(DataInfo(c, Chunk(c, n), "FinAck")) = n + 1
           /\ n \in Nat
<1> DEFINE data == DataInfo(c, Chunk(c, n), "Ack")
           fin  == DataInfo(c, Chunk(c, n), "FinAck")
<1>1. Len(Chunk(c, n)) = n /\ Len(c.send_buffer) \in Nat
  BY DrainedOK, Fields, LenProperties
<1>2. /\ fin.flags = "FinAck" /\ fin.payload = Chunk(c, n)
      /\ data.flags = "Ack" /\ data.payload = Chunk(c, n)
  BY DEF DataInfo
<1>3. Consumed(fin) = 1 + Len(Chunk(c, n)) /\ Consumed(data) = 0 + Len(Chunk(c, n))
  BY <1>2, Zenon DEF Consumed
<1> QED
  BY <1>1, <1>3, SMT

\* The rest of the queue is the queue from where SND.NXT has got to.
LEMMA RestOfQueue ==
    ASSUME NEW o \in Origin, NEW m \in Nat, NEW c, Ready(c, o, m),
           NEW n \in 0..Len(c.send_buffer)
    PROVE  LET rest == SubSeq(c.send_buffer, n + 1, Len(c.send_buffer))
               q    == Add(c.snd_nxt, n)
           IN  /\ EchoesFrom(o, q, rest)
               /\ c.rcv_nxt = Add(EchoOf(o, Add(q, Len(rest))), m)
               /\ n # Len(c.send_buffer) => rest # <<>>
               /\ rest = <<>> => n = Len(c.send_buffer)
<1> DEFINE rest == SubSeq(c.send_buffer, n + 1, Len(c.send_buffer))
           q    == Add(c.snd_nxt, n)
           len  == Len(c.send_buffer)
<1>1. /\ ConnOK(c) /\ EchoesFrom(o, c.snd_nxt, c.send_buffer)
      /\ c.rcv_nxt = Add(EchoOf(o, Add(c.snd_nxt, len)), m)
  BY DEF Ready, QueueOK
<1>2. c.snd_nxt \in SeqPoint /\ c.send_buffer \in Seq(SeqPoint) /\ len \in Nat
  BY <1>1, Fields, LenProperties
<1>3. EchoesFrom(o, q, rest) /\ Len(rest) = len - n
  BY <1>1, <1>2, EchoesSplit
<1>4. Len(<<>>) = 0
  BY EmptySeq
<1> HIDE DEF rest, len
<1>5. n \in Nat /\ Len(rest) \in Nat /\ n + Len(rest) = len
  BY <1>2, <1>3, SMT DEF len
<1>6. Add(q, Len(rest)) = Add(c.snd_nxt, len)
  BY <1>2, <1>5, AdvanceTwice
<1>7. rest = <<>> => n = len
  BY <1>4, <1>5, SMT
<1>8. n # len => rest # <<>>
  BY <1>7
<1> QED
  BY <1>1, <1>3, <1>6, <1>7, <1>8 DEF rest, len

\* data_payload sends the front of the queue, and the idle reply carries nothing.
LEMMA SendMoreReady ==
    ASSUME NEW o \in Origin, NEW c, Ready(c, o, 0), c.tcp_state \in SendSideOpen,
           NEW idle, \A i \in idle : i.payload = <<>>
    PROVE  LET r == SendMore(c, idle)
           IN  /\ Ready(r.conn, o, 0)
               /\ SameRecv(r.conn, c)
               /\ r.conn.tcp_state = c.tcp_state
               /\ Sub(r.conn.snd_nxt, c.snd_nxt) <= MaxPayloadLen
               /\ ReplyEchoes(r, o)
<1> DEFINE n    == Transmittable(c, c.window)
           info == DataInfo(c, Chunk(c, n), "Ack")
           d    == Drained(c, n)
           r    == SendMore(c, idle)
<1>1. ConnOK(c) /\ Flight(c) <= MaxWnd
  BY DEF Ready
<1>2. /\ n \in 0..Len(c.send_buffer) /\ n <= MaxPayloadLen
      /\ n > 0 => Flight(c) + n <= c.window.wnd
  BY <1>1, Fields, TransmittableBounds DEF Flight
<1>3. Flight(c) \in Nat /\ Flight(c) < Half
  BY <1>1, FlightType, SizeAssumption, HalfAssumption, SMT
<1>4. CanDrain(c)
  BY <1>3, HalfAssumption, SMT DEF CanDrain, Precedes, Flight
<1>5. r = IF n = 0 THEN Result(c, idle) ELSE Result(Sent(d, info), {info})
  BY <1>4, Zenon DEF SendMore
<1>6. FlightOK(r.conn)
  BY <1>1, SendMoreFlight
<1>7. n = 0 \/ ConnOK(Sent(d, info))
  <2> HIDE DEF n
  <2>1. ConnOK(d) /\ info \in SendInfo
    BY <1>1, <1>2, DrainedOK, DataInfoType
  <2> QED
    BY <2>1, SentOK
<1> HIDE DEF n, r
<1>8. CASE n = 0
  <2>1. r.conn = c /\ r.reply = idle
    BY <1>5, <1>8 DEF Result
  <2>2. Sub(c.snd_nxt, c.snd_nxt) <= MaxPayloadLen
    BY <1>1, Fields, AddZero, SizeAssumption, SMT
  <2>3. ReplyEchoes(r, o)
    BY <2>1, EchoesEmpty DEF ReplyEchoes
  <2> QED
    BY <2>1, <2>2, <2>3 DEF SameRecv, r
<1>9. CASE n # 0
  <2> DEFINE e == Sent(d, info)
  <2>1. r.conn = e /\ r.reply = {info}
    BY <1>5, <1>9 DEF Result
  <2>2. /\ ConnOK(d) /\ d.snd_nxt = c.snd_nxt /\ d.snd_una = c.snd_una
        /\ d.pending = c.pending /\ d.tcp_state = c.tcp_state /\ SameRecv(d, c)
        /\ d.send_buffer = SubSeq(c.send_buffer, n + 1, Len(c.send_buffer))
    BY <1>1, <1>2, DrainedOK DEF Drained, ConnOK, ConnState, SameRecv
  <2>3. Consumed(info) = n /\ n \in Nat
    BY <1>1, <1>2, ConsumedOf
  <2>4. c.window.wnd \in Nat /\ c.window.wnd <= MaxWnd
    BY <1>1, Fields, SizeAssumption, SMT DEF WindowState
  <2>5. Flight(c) + n <= MaxWnd /\ Flight(c) + n <= MaxWnd + 1
    BY <1>2, <1>3, <1>9, <2>3, <2>4, SizeAssumption, SMT
  <2>6. /\ PendingOK(e) /\ PendingEchoes(e, o) /\ EchoesFrom(o, info.seq, info.payload)
        /\ e.snd_nxt = Add(c.snd_nxt, n) /\ e.send_buffer = d.send_buffer
        /\ e.tcp_state = d.tcp_state /\ SameRecv(e, d) /\ Sub(e.snd_nxt, c.snd_nxt) = n
    <3> HIDE DEF d
    <3>1. Consumed(info) # 0 /\ Flight(c) + Consumed(info) <= MaxWnd + 1
      BY <1>9, <2>3, <2>5
    <3>2. 0 \in Nat /\ "Ack" \in {"Ack", "FinAck"}
      BY SMT
    <3> QED
      BY <1>2, <2>2, <2>3, <3>1, <3>2, ChunkSent
  <2> HIDE DEF e, d, info
  <2>7. QueueOK(e, o, 0)
    <3>1. 0 \in Nat
      BY SMT
    <3> QED
      BY <1>2, <2>2, <2>6, <3>1, RestOfQueue DEF QueueOK, SameRecv
  <2>8. ConnOK(e) /\ Flight(e) <= MaxWnd
    BY <1>6, <1>7, <1>9, <2>1, <2>2, <2>6 DEF FlightOK, e
  <2>9. Ready(e, o, 0) /\ ReplyEchoes(r, o)
    BY <2>1, <2>6, <2>7, <2>8 DEF Ready, ReplyEchoes
  <2> QED
    BY <1>2, <2>1, <2>2, <2>6, <2>9 DEF SameRecv, r
<1> QED
  BY <1>8, <1>9

\* After the peer's FIN: something is left to send, or our FIN has gone out after it.
HalfClosed(d, o) ==
    /\ PendingOK(d)
    /\ PendingEchoes(d, o)
    /\ \/ d.tcp_state = "CloseWait" /\ QueueOK(d, o, 1) /\ d.send_buffer # <<>>
       \/ d.tcp_state = "LastAck" /\ QueueOK(d, o, 0) /\ d.send_buffer = <<>>

\* close_wait_or_last_ack sends the front of the queue, and our FIN with its last byte.
LEMMA CloseReady ==
    ASSUME NEW o \in Origin, NEW c, Ready(c, o, 1), NEW w \in WindowState
    PROVE  LET r == CloseWaitOrLastAck(c, w)
           IN  /\ HalfClosed(r.conn, o)
               /\ r.conn.rcv_nxt = c.rcv_nxt
               /\ Sub(r.conn.snd_nxt, c.snd_nxt) <= MaxPayloadLen + 1
               /\ ReplyEchoes(r, o)
<1> DEFINE n    == Transmittable(c, w)
           d    == [Drained(c, n) EXCEPT !.window = w]
           fin  == DataInfo(c, Chunk(c, n), "FinAck")
           data == DataInfo(c, Chunk(c, n), "Ack")
           last == [d EXCEPT !.tcp_state = "LastAck"]
           wait == [d EXCEPT !.tcp_state = "CloseWait"]
           rest == SubSeq(c.send_buffer, n + 1, Len(c.send_buffer))
           r    == CloseWaitOrLastAck(c, w)
<1>1. /\ ConnOK(c) /\ Flight(c) <= MaxWnd /\ PendingOK(c) /\ PendingEchoes(c, o)
      /\ QueueOK(c, o, 1)
  BY DEF Ready
<1>2. /\ n \in 0..Len(c.send_buffer) /\ n <= MaxPayloadLen
      /\ n > 0 => Flight(c) + n <= w.wnd
  BY <1>1, TransmittableBounds DEF Flight
<1>3. Flight(c) \in Nat /\ Flight(c) < Half
  BY <1>1, FlightType, SizeAssumption, HalfAssumption, SMT
<1>4. CanDrain(c)
  BY <1>3, HalfAssumption, SMT DEF CanDrain, Precedes, Flight
<1>5. r = IF d.send_buffer = <<>> THEN Result(Sent(last, fin), {fin})
          ELSE IF n = 0 THEN Result(wait, {PureAck(c)})
          ELSE Result(Sent(wait, data), {data})
  BY <1>4, Zenon DEF CloseWaitOrLastAck
<1> HIDE DEF n, r
<1>6. ConnOK(Drained(c, n))
  BY <1>1, <1>2, DrainedOK
<1>7. ConnOK(d)
  BY <1>6, UpdateOK, Zenon
<1>8. /\ d.snd_nxt = c.snd_nxt /\ d.snd_una = c.snd_una /\ d.pending = c.pending
      /\ d.send_buffer = rest /\ d.rcv_nxt = c.rcv_nxt
  BY <1>1, <1>6 DEF Drained, ConnOK, ConnState
<1> HIDE DEF d
<1>9. ConnOK(last) /\ ConnOK(wait)
  BY <1>7, UpdateOK, Zenon DEF TcpState
<1>10. /\ last.snd_nxt = c.snd_nxt /\ last.snd_una = c.snd_una /\ last.pending = c.pending
       /\ last.send_buffer = rest /\ last.rcv_nxt = c.rcv_nxt /\ last.tcp_state = "LastAck"
       /\ wait.snd_nxt = c.snd_nxt /\ wait.snd_una = c.snd_una /\ wait.pending = c.pending
       /\ wait.send_buffer = rest /\ wait.rcv_nxt = c.rcv_nxt /\ wait.tcp_state = "CloseWait"
  BY <1>7, <1>8 DEF ConnOK, ConnState
<1>11. Consumed(fin) = n + 1 /\ Consumed(data) = n /\ n \in Nat
  BY <1>1, <1>2, ConsumedOf
<1>12. Flight(c) + n <= MaxWnd /\ Flight(c) + n <= MaxWnd + 1 /\ Flight(c) + (n + 1) <= MaxWnd + 1
  <2>1. w.wnd \in Nat /\ w.wnd <= MaxWnd
    BY SizeAssumption, SMT DEF WindowState
  <2> QED
    BY <1>1, <1>2, <1>3, <1>11, <2>1, SizeAssumption, SMT
<1>13. n + 1 # 0 /\ 1 \in Nat /\ n + 1 <= MaxPayloadLen + 1 /\ n <= MaxPayloadLen + 1
  BY <1>2, <1>11, SizeAssumption, SMT
<1>14. c.snd_nxt \in SeqPoint /\ Len(c.send_buffer) \in Nat
  BY <1>1, Fields, LenProperties
<1>15. /\ EchoesFrom(o, Add(c.snd_nxt, n), rest)
       /\ c.rcv_nxt = Add(EchoOf(o, Add(Add(c.snd_nxt, n), Len(rest))), 1)
       /\ rest = <<>> => n = Len(c.send_buffer)
  BY <1>2, <1>13, RestOfQueue
<1> HIDE DEF last, wait
<1>16. CASE d.send_buffer = <<>>
  <2> DEFINE e == Sent(last, fin)
  <2>1. r.conn = e /\ r.reply = {fin} /\ rest = <<>>
    BY <1>5, <1>8, <1>16 DEF Result
  <2>2. Consumed(fin) # 0 /\ Flight(c) + Consumed(fin) <= MaxWnd + 1
    BY <1>11, <1>12, <1>13
  <2>3. /\ PendingOK(e) /\ PendingEchoes(e, o) /\ EchoesFrom(o, fin.seq, fin.payload)
        /\ e.snd_nxt = Add(c.snd_nxt, n + 1) /\ e.send_buffer = rest
        /\ e.tcp_state = "LastAck" /\ e.rcv_nxt = c.rcv_nxt
        /\ Sub(e.snd_nxt, c.snd_nxt) = n + 1
    BY <1>2, <1>9, <1>10, <1>11, <1>13, <2>2, ChunkSent DEF SameRecv
  <2> HIDE DEF e, fin
  <2>4. Len(rest) = 0
    BY <2>1, EmptySeq
  <2>5. QueueOK(e, o, 0)
    <3> DEFINE q == Add(c.snd_nxt, n)
    <3>1. q \in SeqPoint /\ Add(q, 0) = q /\ EchoOf(o, q) \in SeqPoint
      BY <1>11, <1>14, AddType, AddZero, EchoAdvance
    <3>2. c.rcv_nxt = Add(EchoOf(o, q), 1)
      BY <1>15, <2>4, <3>1
    <3>3. EchoOf(o, Add(q, 1)) = Add(EchoOf(o, q), 1)
      BY <1>13, <3>1, EchoAdvance
    <3>4. Add(q, 1) = e.snd_nxt
      BY <1>11, <1>13, <1>14, <2>3, AdvanceTwice
    <3>5. e.snd_nxt \in SeqPoint /\ Add(e.snd_nxt, 0) = e.snd_nxt
      BY <1>13, <3>1, <3>4, AddType, AddZero
    <3>6. EchoOf(o, e.snd_nxt) \in SeqPoint
      BY <1>11, <3>5, EchoAdvance
    <3>7. Add(EchoOf(o, Add(e.snd_nxt, Len(e.send_buffer))), 0) = c.rcv_nxt
      BY <2>3, <2>4, <3>2, <3>3, <3>4, <3>5, <3>6, AddZero
    <3> QED
      BY <2>1, <2>3, <3>7, EchoesEmpty DEF QueueOK
  <2>6. HalfClosed(e, o) /\ ReplyEchoes(r, o)
    BY <2>1, <2>3, <2>5 DEF HalfClosed, ReplyEchoes
  <2> QED
    BY <1>13, <2>1, <2>3, <2>6 DEF r
<1>17. CASE d.send_buffer # <<>> /\ n = 0
  <2>1. r.conn = wait /\ r.reply = {PureAck(c)} /\ rest # <<>>
    BY <1>5, <1>8, <1>17 DEF Result
  <2>2. PendingOK(wait) /\ PendingEchoes(wait, o)
    BY <1>1, <1>10, Zenon DEF PendingOK, PendingEchoes, Flight
  <2>3. Add(c.snd_nxt, n) = c.snd_nxt /\ Sub(c.snd_nxt, c.snd_nxt) = 0
    BY <1>14, <1>17, AddZero
  <2>4. QueueOK(wait, o, 1)
    BY <1>10, <1>15, <2>3 DEF QueueOK
  <2>5. ReplyEchoes(r, o)
    BY <2>1, EchoesEmpty DEF ReplyEchoes, PureAck
  <2>6. Sub(wait.snd_nxt, c.snd_nxt) <= MaxPayloadLen + 1
    BY <1>10, <2>3, SizeAssumption, SMT
  <2> QED
    BY <1>10, <2>1, <2>2, <2>4, <2>5, <2>6 DEF HalfClosed, r
<1>18. CASE d.send_buffer # <<>> /\ n # 0
  <2> DEFINE e == Sent(wait, data)
  <2>1. r.conn = e /\ r.reply = {data} /\ rest # <<>>
    BY <1>5, <1>8, <1>18 DEF Result
  <2>2. Consumed(data) # 0 /\ Flight(c) + Consumed(data) <= MaxWnd + 1
    BY <1>11, <1>12, <1>18
  <2>3. /\ PendingOK(e) /\ PendingEchoes(e, o) /\ EchoesFrom(o, data.seq, data.payload)
        /\ e.snd_nxt = Add(c.snd_nxt, n) /\ e.send_buffer = rest
        /\ e.tcp_state = "CloseWait" /\ e.rcv_nxt = c.rcv_nxt
        /\ Sub(e.snd_nxt, c.snd_nxt) = n
    BY <1>2, <1>9, <1>10, <1>11, <1>13, <2>2, ChunkSent DEF SameRecv
  <2> HIDE DEF e, data
  <2>4. QueueOK(e, o, 1)
    BY <1>15, <2>3 DEF QueueOK
  <2>5. HalfClosed(e, o) /\ ReplyEchoes(r, o)
    BY <2>1, <2>3, <2>4 DEF HalfClosed, ReplyEchoes
  <2> QED
    BY <1>13, <2>1, <2>3, <2>5 DEF r
<1> QED
  BY <1>16, <1>17, <1>18
-----------------------------------------------------------------------------
(* Reassembly.                                                             *)

\* What is buffered, and the FIN that has been seen, lie ahead of the point r and within
\* the window that was open there.
AheadOf(c, r) ==
    /\ \A s \in Buffered(c) : Sub(s, r) \in 1..(RcvWnd - 1)
    /\ \A f \in c.fin_seq : Sub(f, r) \in 1..(RcvWnd + MaxSegLen - 1)

\* The far end of what may be buffered is less than half of the space away.
LEMMA FarEnd ==
    /\ RcvWnd + MaxSegLen < Half
    /\ RcvWnd \in 1..(Half - 1) /\ RcvWnd \in Nat /\ MaxSegLen \in Nat
    /\ Half \in Nat /\ SeqMod = 2 * Half
BY SizeAssumption, HalfAssumption, SMT DEF SeqMod

\* A buffered segment is at most MaxSegLen bytes long.
LEMMA BufferedFields ==
    ASSUME NEW c, ConnOK(c), NEW s \in Buffered(c)
    PROVE  s \in SeqPoint /\ c.segments[s] \in 1..MaxSegLen /\ c.segments[s] \in Nat
<1>1. s \in SeqPoint /\ c.segments[s] > 0
  BY DEF Buffered
<1>2. c.segments[s] \in 0..MaxSegLen
  BY <1>1, Fields DEF Reassembly
<1> QED
  BY <1>1, <1>2, FarEnd, SMT

\* A point ahead within half of the space does not precede, and the other way round.
LEMMA AheadOrReached ==
    ASSUME NEW p \in SeqPoint, NEW r \in SeqPoint, NEW now \in SeqPoint, NEW B \in Nat,
           B < Half, Sub(p, r) \in 1..B, Sub(now, r) <= B, ~PrecedesOrEq(p, now)
    PROVE  Sub(p, now) \in 1..B
<1>1. Sub(p, now) = IF Sub(p, r) >= Sub(now, r) THEN Sub(p, r) - Sub(now, r)
                    ELSE Sub(p, r) - Sub(now, r) + SeqMod
  BY SubRebase
<1>2. Sub(p, r) \in Nat /\ Sub(now, r) \in Nat /\ Sub(p, now) \in Nat
  BY SubType, FarEnd, SMT
<1>3. Sub(p, now) < Half
  BY <1>2, FarEnd, SMT DEF PrecedesOrEq, Precedes
<1>4. Sub(p, now) # 0
  <2>1. Add(now, 0) = now /\ Add(now, Sub(p, now)) = p
    BY AddZero, AddSub
  <2> QED
    BY <2>1 DEF PrecedesOrEq
<1> QED
  BY <1>1, <1>2, <1>3, <1>4, FarEnd, SMT

\* A point in front is not behind.
LEMMA AheadNotReached ==
    ASSUME NEW p \in SeqPoint, NEW now \in SeqPoint, Sub(p, now) \in 1..(Half - 1)
    PROVE  ~PrecedesOrEq(p, now)
<1>1. Sub(now, now) = 0
  BY AddZero
<1> QED
  BY <1>1, FarEnd, SMT DEF PrecedesOrEq, Precedes

\* What drain_contiguous releases starts no earlier than RCV.NXT, m past r.
LEMMA ContiguousAhead ==
    ASSUME NEW c, ConnOK(c), NEW r \in SeqPoint, NEW m \in 0..MaxSegLen,
           Sub(c.rcv_nxt, r) = m, AheadOf(c, r)
    PROVE  \A s \in Contiguous(c) : s \in Buffered(c) /\ Sub(s, r) >= m
<1> DEFINE S       == Buffered(c)
           End(s)  == Add(s, c.segments[s])
           C       == {s \in S : Sub(s, r) >= m}
<1>1. c.rcv_nxt \in S => c.rcv_nxt \in C
  BY FarEnd, SMT
<1>2. ASSUME NEW s \in C, End(s) \in S
      PROVE  End(s) \in C
  <2>1. s \in SeqPoint /\ c.segments[s] \in 1..MaxSegLen /\ c.segments[s] \in Nat
    BY BufferedFields
  <2>2. Sub(s, r) \in 1..(RcvWnd - 1) /\ Sub(s, r) >= m
    BY DEF AheadOf
  <2>3. Sub(s, r) + c.segments[s] < SeqMod
    BY <2>1, <2>2, FarEnd, SMT
  <2>4. Sub(End(s), r) = Sub(s, r) + c.segments[s]
    BY <2>1, <2>3, SubAdvance
  <2>5. Sub(End(s), r) >= m
    BY <2>1, <2>2, <2>4, FarEnd, SMT
  <2> QED
    BY <1>2, <2>5
<1>3. C \in SUBSET S
  OBVIOUS
<1>4. \A s \in Contiguous(c) : s \in S /\ s \in C
  BY <1>1, <1>2, <1>3, Zenon DEF Contiguous
<1> QED
  BY <1>4

\* RCV.NXT does not run away: it ends within what the window held.
LEMMA DrainedBounds ==
    ASSUME NEW c, ConnOK(c), NEW r \in SeqPoint, NEW m \in 0..MaxSegLen,
           Sub(c.rcv_nxt, r) = m, AheadOf(c, r)
    PROVE  Sub(DrainedTo(c), r) <= RcvWnd + MaxSegLen - 1
<1> DEFINE ends == {c.rcv_nxt} \cup {Add(s, c.segments[s]) : s \in Contiguous(c)}
<1>1. ASSUME NEW s \in Contiguous(c)
      PROVE  Add(s, c.segments[s]) \in SeqPoint
             /\ Sub(Add(s, c.segments[s]), r) <= RcvWnd + MaxSegLen - 1
  <2>1. s \in Buffered(c)
    BY ContiguousAhead
  <2>2. s \in SeqPoint /\ c.segments[s] \in 1..MaxSegLen /\ c.segments[s] \in Nat
    BY <2>1, BufferedFields
  <2>3. Sub(s, r) \in 1..(RcvWnd - 1)
    BY <2>1 DEF AheadOf
  <2>4. Sub(s, r) + c.segments[s] < SeqMod
    BY <2>2, <2>3, FarEnd, SMT
  <2>5. Sub(Add(s, c.segments[s]), r) = Sub(s, r) + c.segments[s]
    BY <2>2, <2>4, SubAdvance
  <2> QED
    BY <2>2, <2>3, <2>5, AddType, FarEnd, SMTT(20)
<1>2. c.rcv_nxt \in SeqPoint /\ Sub(c.rcv_nxt, r) <= RcvWnd + MaxSegLen - 1
  BY Fields, FarEnd, SMT
<1>3. /\ ends \in SUBSET SeqPoint /\ ends # {}
      /\ \A e \in ends : Sub(e, r) <= RcvWnd + MaxSegLen - 1
  BY <1>1, <1>2, Zenon
<1>4. DrainedTo(c) = CHOOSE e \in ends : \A f \in ends : Sub(f, c.rcv_nxt) <= Sub(e, c.rcv_nxt)
  BY Zenon DEF DrainedTo
<1> HIDE DEF ends
<1>5. \E e \in ends : \A f \in ends : Sub(f, c.rcv_nxt) <= Sub(e, c.rcv_nxt)
  BY <1>2, <1>3, FurthestExists
<1>6. DrainedTo(c) \in ends
  BY <1>4, <1>5, Zenon
<1> QED
  BY <1>3, <1>6

\* After delivering data that starts at r and whatever has become contiguous, nothing
\* that has been reached is left in the buffer; a FIN may have been.
LEMMA DeliveredAhead ==
    ASSUME NEW o \in Origin, NEW c, Ready(c, o, 0), NEW r \in SeqPoint, NEW m \in 0..MaxSegLen,
           Sub(c.rcv_nxt, r) = m, AheadOf(c, r)
    PROVE  LET d == DeliverContiguous(c)
           IN  /\ Sub(d.rcv_nxt, r) <= RcvWnd + MaxSegLen - 1
               /\ ~FinReached(d) => AheadOf(d, d.rcv_nxt)
<1> DEFINE d   == DeliverContiguous(c)
           now == DrainedTo(c)
<1>1. ConnOK(c)
  BY DEF Ready
<1>2. /\ Ready(d, o, 0) /\ d.rcv_nxt = now /\ d.fin_seq = c.fin_seq
      /\ d.segments = [s \in SeqPoint |-> IF PrecedesOrEq(s, now) THEN 0 ELSE c.segments[s]]
  BY ReadyContiguous
<1>3. now \in SeqPoint /\ Sub(now, r) <= RcvWnd + MaxSegLen - 1 /\ Sub(now, r) \in Nat
  BY <1>1, DrainedToType, DrainedBounds, SubType, SMT
<1> HIDE DEF d, now
<1>4. ASSUME NEW s \in Buffered(d)
      PROVE  Sub(s, now) \in 1..(RcvWnd - 1)
  <2>1. s \in SeqPoint /\ d.segments[s] > 0
    BY DEF Buffered
  <2>2. ~PrecedesOrEq(s, now) /\ d.segments[s] = c.segments[s]
    <3>1. CASE PrecedesOrEq(s, now)
      <4>1. d.segments[s] = 0
        BY <1>2, <2>1, <3>1
      <4> QED
        BY <2>1, <4>1, SMT
    <3>2. CASE ~PrecedesOrEq(s, now)
      BY <1>2, <2>1, <3>2
    <3> QED
      BY <3>1, <3>2
  <2>3. s \in Buffered(c)
    BY <2>1, <2>2 DEF Buffered
  <2>4. Sub(s, r) \in 1..(RcvWnd - 1)
    BY <2>3 DEF AheadOf
  <2>5. Sub(s, r) \in 1..(RcvWnd + MaxSegLen - 1) /\ RcvWnd + MaxSegLen - 1 \in Nat
        /\ RcvWnd + MaxSegLen - 1 < Half
    BY <2>4, FarEnd, SMT
  <2>6. Sub(s, now) \in 1..(RcvWnd + MaxSegLen - 1)
    BY <1>3, <2>1, <2>2, <2>5, AheadOrReached
  <2>7. Sub(s, now) = IF Sub(s, r) >= Sub(now, r) THEN Sub(s, r) - Sub(now, r)
                      ELSE Sub(s, r) - Sub(now, r) + SeqMod
    BY <1>3, <2>1, SubRebase
  <2> QED
    BY <1>3, <2>4, <2>6, <2>7, FarEnd, SMT
<1>5. ASSUME ~FinReached(d), NEW f \in d.fin_seq
      PROVE  Sub(f, now) \in 1..(RcvWnd + MaxSegLen - 1)
  <2>1. f \in SeqPoint /\ ~PrecedesOrEq(f, now)
    BY <1>1, <1>2, <1>5, Fields DEF FinReached
  <2>2. Sub(f, r) \in 1..(RcvWnd + MaxSegLen - 1)
    BY <1>2 DEF AheadOf
  <2>3. RcvWnd + MaxSegLen - 1 \in Nat /\ RcvWnd + MaxSegLen - 1 < Half
    BY FarEnd, SMT
  <2> QED
    BY <1>3, <2>1, <2>2, <2>3, AheadOrReached
<1> QED
  BY <1>2, <1>3, <1>4, <1>5 DEF AheadOf, d

\* Data that arrives ahead of RCV.NXT is buffered where it is.
LEMMA InsertAhead ==
    ASSUME NEW c, ConnOK(c), NEW seg \in InSegment, OutOfOrder(c, seg), AheadOf(c, c.rcv_nxt)
    PROVE  /\ AheadOf(Insert(c, seg), c.rcv_nxt)
           /\ SameQueue(Insert(c, seg), c)
           /\ Insert(c, seg).rcv_nxt = c.rcv_nxt
           /\ Insert(c, seg).send_buffer = c.send_buffer
<1> DEFINE d == Insert(c, seg)
<1>1. seg.seq \in SeqPoint /\ c.rcv_nxt \in SeqPoint
  BY Fields, SegFields
<1>2. Sub(seg.seq, c.rcv_nxt) \in 1..(RcvWnd - 1)
  BY <1>1, FarEnd, WindowOffsets DEF OutOfOrder
<1>3. /\ SameQueue(d, c) /\ d.rcv_nxt = c.rcv_nxt /\ d.send_buffer = c.send_buffer
      /\ d.fin_seq = c.fin_seq
      /\ \A s \in SeqPoint : s # seg.seq => d.segments[s] = c.segments[s]
  <2>1. c.segments = [s \in SeqPoint |-> c.segments[s]]
    BY Fields DEF Reassembly
  <2>2. d.segments = [c.segments EXCEPT ![seg.seq] = IF seg.len > @ THEN seg.len ELSE @]
    BY DEF Insert, ConnOK, ConnState
  <2>3. \A s \in SeqPoint : s # seg.seq => d.segments[s] = c.segments[s]
    BY <2>1, <2>2
  <2>4. /\ SameQueue(d, c) /\ d.rcv_nxt = c.rcv_nxt /\ d.send_buffer = c.send_buffer
        /\ d.fin_seq = c.fin_seq
    BY DEF Insert, ConnOK, ConnState, SameQueue, SameSend
  <2> QED
    BY <2>3, <2>4
<1> HIDE DEF d
<1>4. \A s \in Buffered(d) : s = seg.seq \/ s \in Buffered(c)
  BY <1>3 DEF Buffered
<1>5. AheadOf(d, c.rcv_nxt)
  BY <1>2, <1>3, <1>4 DEF AheadOf
<1> QED
  BY <1>3, <1>5 DEF d

\* So is the place of a FIN that arrives ahead.
LEMMA MarkFinAhead ==
    ASSUME NEW c, ConnOK(c), NEW seg \in InSegment, OutOfOrder(c, seg), AheadOf(c, c.rcv_nxt)
    PROVE  /\ AheadOf(MarkFin(c, seg), c.rcv_nxt)
           /\ SameQueue(MarkFin(c, seg), c)
           /\ MarkFin(c, seg).rcv_nxt = c.rcv_nxt
           /\ MarkFin(c, seg).send_buffer = c.send_buffer
<1> DEFINE d == MarkFin(c, seg)
           f == Add(seg.seq, seg.len)
<1>1. seg.seq \in SeqPoint /\ c.rcv_nxt \in SeqPoint /\ seg.len \in 0..MaxSegLen /\ seg.len \in Nat
  BY Fields, SegFields
<1>2. Sub(seg.seq, c.rcv_nxt) \in 1..(RcvWnd - 1)
  BY <1>1, FarEnd, WindowOffsets DEF OutOfOrder
<1>3. Sub(seg.seq, c.rcv_nxt) + seg.len < SeqMod
  BY <1>1, <1>2, FarEnd, SMT
<1>4. Sub(f, c.rcv_nxt) = Sub(seg.seq, c.rcv_nxt) + seg.len
  BY <1>1, <1>3, SubAdvance
<1>5. Sub(f, c.rcv_nxt) \in 1..(RcvWnd + MaxSegLen - 1)
  BY <1>1, <1>2, <1>4, FarEnd, SMT
<1> HIDE DEF f
<1>6. d = c \/ d = [c EXCEPT !.fin_seq = {f}]
  BY Zenon DEF MarkFin, f
<1>7. /\ SameQueue(d, c) /\ d.rcv_nxt = c.rcv_nxt /\ d.send_buffer = c.send_buffer
      /\ d.segments = c.segments /\ (d.fin_seq = c.fin_seq \/ d.fin_seq = {f})
  BY <1>6 DEF ConnOK, ConnState, SameQueue, SameSend
<1> HIDE DEF d
<1>8. AheadOf(d, c.rcv_nxt)
  BY <1>5, <1>7 DEF AheadOf, Buffered
<1> QED
  BY <1>7, <1>8 DEF d

-----------------------------------------------------------------------------
(* The streams of every connection.                                        *)

\* What holds of a connection between steps.
StreamOK(c, o) ==
    /\ PendingOK(c)
    /\ PendingEchoes(c, o)
    /\ c.tcp_state \in {"SynReceived", "Established"} =>
          QueueOK(c, o, 0) /\ AheadOf(c, c.rcv_nxt)
    /\ c.tcp_state = "CloseWait" => QueueOK(c, o, 1) /\ c.send_buffer # <<>>
    /\ c.tcp_state = "LastAck" => QueueOK(c, o, 0) /\ c.send_buffer = <<>>

\* The inductive invariant.
StreamInv ==
    /\ FlightInv
    /\ \A k \in DOMAIN table : StreamOK(table[k], origin[k])
    /\ \A m \in out : m.key \in DOMAIN table =>
            EchoesFrom(origin[m.key], m.info.seq, m.info.payload)

\* What a step may do to a connection's two streams.
StepOK(c, d) ==
    /\ Sub(d.rcv_nxt, c.rcv_nxt) < Half
    /\ Sub(d.snd_nxt, c.snd_nxt) <= MaxPayloadLen + 1
    /\ c.tcp_state \notin SendSideOpen \cup {"SynReceived"} => d.snd_nxt = c.snd_nxt

\* What a handler leaves behind.
StreamResult(c, o, r) == StreamOK(r.conn, o) /\ StepOK(c, r.conn) /\ ReplyEchoes(r, o)

\* What a step has to establish.
StreamStep ==
    /\ \A k \in DOMAIN table' : StreamOK(table'[k], origin'[k])
    /\ \A m \in out' : m.key \in DOMAIN table' =>
            EchoesFrom(origin'[m.key], m.info.seq, m.info.payload)
    /\ \A k \in DOMAIN table \cap DOMAIN table' : StepOK(table[k], table'[k])
-----------------------------------------------------------------------------
(* How a step ends.                                                        *)

\* The connections of a state that satisfies the invariant.
LEMMA InvConn ==
    ASSUME StreamInv, NEW k \in DOMAIN table
    PROVE  /\ ConnOK(table[k]) /\ FlightOK(table[k]) /\ StreamOK(table[k], origin[k])
           /\ origin[k] \in Origin
           /\ StepOK(table[k], table[k])
<1>1. ConnOK(table[k]) /\ FlightOK(table[k]) /\ StreamOK(table[k], origin[k])
  BY SameConn DEF StreamInv
<1>2. origin[k] \in Origin
  BY DEF StreamInv, FlightInv, TypeOK, Origin
<1>3. table[k].rcv_nxt \in SeqPoint /\ table[k].snd_nxt \in SeqPoint
  BY <1>1, Fields
<1>4. Sub(table[k].rcv_nxt, table[k].rcv_nxt) = 0 /\ Sub(table[k].snd_nxt, table[k].snd_nxt) = 0
  BY <1>3, AddZero
<1>5. StepOK(table[k], table[k])
  BY <1>4, SizeAssumption, HalfAssumption, SMT DEF StepOK
<1> QED
  BY <1>1, <1>2, <1>5

\* Storing a result.
LEMMA StoreStream ==
    ASSUME StreamInv, NEW k \in DOMAIN table, NEW r,
           StreamResult(table[k], origin[k], r), Store(k, r)
    PROVE  StreamStep
<1>1. table' = [table EXCEPT ![k] = r.conn] /\ origin' = origin /\ out' = Addressed(k, r.reply)
  BY DEF Store
<1>2. DOMAIN table' = DOMAIN table
  BY <1>1
<1>3. \A x \in DOMAIN table : table'[x] = IF x = k THEN r.conn ELSE table[x]
  BY <1>1
<1>4. \A m \in out' : m.key = k /\ EchoesFrom(origin[k], m.info.seq, m.info.payload)
  BY <1>1 DEF Addressed, StreamResult, ReplyEchoes
<1> QED
  BY <1>1, <1>2, <1>3, <1>4, InvConn, Zenon DEF StreamStep, StreamResult

\* A reply without a payload that changes nothing, or with which the connection goes.
LEMMA AnswerStream ==
    ASSUME StreamInv, NEW k, NEW reply, \A i \in reply : i.payload = <<>>,
           Answer(k, reply) \/ Remove(k, reply)
    PROVE  StreamStep
<1>1. out' = Addressed(k, reply)
  BY DEF Answer, Remove
<1>2. \A m \in out' : m.info.payload = <<>>
  BY <1>1 DEF Addressed
<1>3. \A m \in out' : EchoesFrom(origin'[m.key], m.info.seq, m.info.payload)
  BY <1>2, EchoesEmpty
<1>4. CASE Answer(k, reply)
  <2>1. table' = table /\ origin' = origin
    BY <1>4 DEF Answer
  <2> QED
    BY <1>3, <2>1, InvConn, Zenon DEF StreamStep
<1>5. CASE Remove(k, reply)
  <2>1. /\ table' = [x \in DOMAIN table \ {k} |-> table[x]]
        /\ origin' = [x \in DOMAIN origin \ {k} |-> origin[x]]
        /\ DOMAIN origin = DOMAIN table
    BY <1>5 DEF Remove, Without, StreamInv, FlightInv, TypeOK
  <2>2. /\ DOMAIN table' = DOMAIN table \ {k}
        /\ \A x \in DOMAIN table' : table'[x] = table[x] /\ origin'[x] = origin[x]
    BY <2>1
  <2> QED
    BY <1>3, <2>2, InvConn, Zenon DEF StreamStep
<1> QED
  BY <1>4, <1>5

\* A fresh connection has one SYN in flight, which is pending, and has echoed nothing.
LEMMA FreshStream ==
    ASSUME NEW iss \in SeqPoint, NEW seg \in InSegment
    PROVE  LET c == FromSynAck(SynAckFor(iss, seg))
               o == [iss |-> iss, irs |-> seg.seq]
           IN  StreamOK(c, o)
<1> DEFINE info == SynAckFor(iss, seg)
           c == FromSynAck(info)
           o == [iss |-> iss, irs |-> seg.seq]
           p == [info |-> info, retries |-> 0, copy |-> 0]
           i == Add(seg.seq, 1)
           s == Add(iss, 1)
<1>1. /\ c.tcp_state = "SynReceived" /\ c.snd_nxt = s /\ c.snd_una = iss /\ c.rcv_nxt = i
      /\ c.pending = {p} /\ c.send_buffer = <<>> /\ c.segments = NoSegments /\ c.fin_seq = {}
      /\ p.info.seq = iss /\ p.info.payload = <<>> /\ p.info.flags = "SynAck"
  BY DEF FromSynAck, SynAckFor
<1>2. Len(<<>>) = 0
  BY EmptySeq
<1>3. Consumed(p.info) = 1
  <2>1. Consumed(p.info) = 1 + Len(<<>>)
    BY <1>1, Zenon DEF Consumed
  <2> QED
    BY <1>2, <2>1, SMT
<1>4. EndSeq(p) = s
  BY <1>1, <1>3, Zenon DEF EndSeq
<1>5. seg.seq \in SeqPoint /\ o \in Origin /\ o.iss = iss /\ o.irs = seg.seq
  BY SegFields DEF Origin
<1>6. i \in SeqPoint /\ s \in SeqPoint /\ 1 \in 0..(SeqMod - 1)
  BY <1>5, AddType, SizeAssumption, HalfAssumption, SMT DEF SeqMod
<1>7. Sub(s, iss) = 1 /\ Sub(iss, iss) = 0 /\ Add(iss, 0) = iss /\ Sub(s, s) = 0
      /\ Add(s, 0) = s /\ Add(i, 0) = i
  BY <1>6, SubOwn, AddZero
<1> HIDE DEF c, p, s, i, o
<1>8. Flight(c) = 1
  BY <1>1, <1>7 DEF Flight
<1>9. PendingOK(c)
  <2>1. 1 \in 1..(MaxWnd + 1) /\ 1 \in 1..1 /\ 0 < 1 /\ 0..(1 - 1) = {0}
    BY SizeAssumption, SMT
  <2> QED
    BY <1>1, <1>3, <1>4, <1>7, <1>8, <2>1 DEF PendingOK
<1>10. PendingEchoes(c, o)
  BY <1>1, EchoesEmpty DEF PendingEchoes
<1>11. QueueOK(c, o, 0)
  <2>1. EchoOf(o, s) = i
    BY <1>5, <1>7, Zenon DEF EchoOf, i, s
  <2> QED
    BY <1>1, <1>2, <1>7, <2>1, EchoesEmpty DEF QueueOK
<1>12. AheadOf(c, c.rcv_nxt)
  <2>1. \A x \in SeqPoint : ~(c.segments[x] > 0)
    BY <1>1, SMT DEF NoSegments
  <2> QED
    BY <1>1, <2>1, Zenon DEF AheadOf, Buffered
<1> QED
  BY <1>1, <1>9, <1>10, <1>11, <1>12 DEF StreamOK, c, o

\* Opening a connection.
LEMMA OpenStream ==
    ASSUME StreamInv, NEW k \in ConnKey, NEW seg \in InSegment, OpenConn(k, seg)
    PROVE  StreamStep
<1>1. PICK iss \in Isn :
        /\ table' = With(table, k, FromSynAck(SynAckFor(iss, seg)))
        /\ origin' = With(origin, k, [iss |-> iss, irs |-> seg.seq])
        /\ out' = Addressed(k, {SynAckFor(iss, seg)})
  BY Zenon DEF OpenConn
<1> DEFINE c == FromSynAck(SynAckFor(iss, seg))
           o == [iss |-> iss, irs |-> seg.seq]
<1>2. StreamOK(c, o)
  BY FreshStream, TrafficAssumption
<1>3. DOMAIN origin = DOMAIN table /\ k \notin DOMAIN table
  BY DEF StreamInv, FlightInv, TypeOK, OpenConn
<1>4. \A m \in out' : m.info.payload = <<>>
  BY <1>1 DEF Addressed, SynAckFor
<1>5. \A m \in out' : EchoesFrom(origin'[m.key], m.info.seq, m.info.payload)
  BY <1>4, EchoesEmpty
<1>6. /\ table' = [x \in DOMAIN table \cup {k} |-> IF x = k THEN c ELSE table[x]]
      /\ origin' = [x \in DOMAIN table \cup {k} |-> IF x = k THEN o ELSE origin[x]]
  BY <1>1, <1>3, Zenon DEF With
<1> HIDE DEF c, o
<1>7. /\ DOMAIN table' = DOMAIN table \cup {k}
      /\ \A x \in DOMAIN table' : /\ table'[x] = IF x = k THEN c ELSE table[x]
                                  /\ origin'[x] = IF x = k THEN o ELSE origin[x]
  BY <1>6
<1> QED
  BY <1>2, <1>3, <1>5, <1>7, InvConn, Zenon DEF StreamStep
-----------------------------------------------------------------------------
(* What the handlers leave behind.                                         *)

\* d is c in the middle of a handler that has received but not yet sent.
Follows(c, d) == /\ d.snd_nxt = c.snd_nxt
                 /\ Sub(d.rcv_nxt, c.rcv_nxt) < Half
                 /\ c.tcp_state \in SendSideOpen \cup {"SynReceived"}

\* A reply of a handler that sends nothing of the queue.
LEMMA PlainReply ==
    ASSUME NEW o, NEW c, NEW d, NEW reply, \A i \in reply : i.payload = <<>>,
           StreamOK(d, o), StepOK(c, d)
    PROVE  StreamResult(c, o, Result(d, reply))
<1>1. ReplyEchoes(Result(d, reply), o)
  BY EchoesEmpty DEF ReplyEchoes, Result
<1> QED
  BY <1>1 DEF StreamResult, Result

\* A PureAck has no payload.
LEMMA PureAckPlain ==
    ASSUME NEW d
    PROVE  \A i \in {PureAck(d)} : i.payload = <<>>
BY DEF PureAck

\* A connection that has followed takes an allowed step.
LEMMA FollowsStep ==
    ASSUME NEW c, ConnOK(c), NEW d, Follows(c, d)
    PROVE  StepOK(c, d)
<1>1. Sub(d.snd_nxt, c.snd_nxt) = 0
  BY Fields, AddZero DEF Follows
<1> QED
  BY <1>1, SizeAssumption, SMT DEF StepOK, Follows

\* An ESTABLISHED connection that is ready.
LEMMA EstablishedOK ==
    ASSUME NEW o, NEW d, Ready(d, o, 0), d.tcp_state = "Established", AheadOf(d, d.rcv_nxt)
    PROVE  StreamOK(d, o)
BY DEF StreamOK, Ready

\* Handlers end in data_payload, in a reply without data, or with nothing.
LEMMA SendMoreStream ==
    ASSUME NEW o \in Origin, NEW c, ConnOK(c), NEW d, Follows(c, d),
           Ready(d, o, 0), d.tcp_state = "Established", AheadOf(d, d.rcv_nxt),
           NEW idle, \A i \in idle : i.payload = <<>>
    PROVE  /\ StreamResult(c, o, SendMore(d, idle))
           /\ StreamResult(c, o, Result(d, idle))
<1> DEFINE r == SendMore(d, idle)
           e == r.conn
<1>1. d.tcp_state \in SendSideOpen
  BY DEF SendSideOpen
<1>2. /\ Ready(e, o, 0) /\ SameRecv(e, d) /\ e.tcp_state = "Established"
      /\ Sub(e.snd_nxt, d.snd_nxt) <= MaxPayloadLen /\ ReplyEchoes(r, o)
  BY <1>1, SendMoreReady
<1> HIDE DEF r
<1>3. AheadOf(e, e.rcv_nxt) /\ e.rcv_nxt = d.rcv_nxt
  BY <1>2 DEF SameRecv, AheadOf, Buffered
<1>4. StreamOK(e, o)
  BY <1>2, <1>3, EstablishedOK
<1>5. Sub(e.snd_nxt, c.snd_nxt) <= MaxPayloadLen + 1
  <2>1. e.snd_nxt \in SeqPoint /\ c.snd_nxt \in SeqPoint
    BY <1>2, Fields DEF Ready
  <2>2. Sub(e.snd_nxt, c.snd_nxt) \in Nat
    BY <2>1, SubType, SMT
  <2> QED
    BY <1>2, <2>2, SizeAssumption, SMT DEF Follows
<1>6. StepOK(c, e)
  BY <1>3, <1>5 DEF StepOK, Follows
<1>7. StreamResult(c, o, Result(d, idle))
  BY FollowsStep, EstablishedOK, PlainReply
<1> QED
  BY <1>2, <1>4, <1>6, <1>7 DEF StreamResult, r

\* Handlers that receive the FIN end in close_wait_or_last_ack.
LEMMA CloseStreamResult ==
    ASSUME NEW o \in Origin, NEW c, ConnOK(c), NEW d, Follows(c, d),
           Ready(d, o, 1), NEW w \in WindowState
    PROVE  StreamResult(c, o, CloseWaitOrLastAck(d, w))
<1> DEFINE r == CloseWaitOrLastAck(d, w)
           e == r.conn
<1>1. /\ HalfClosed(e, o) /\ e.rcv_nxt = d.rcv_nxt
      /\ Sub(e.snd_nxt, d.snd_nxt) <= MaxPayloadLen + 1 /\ ReplyEchoes(r, o)
  BY CloseReady
<1> HIDE DEF r
<1>2. StreamOK(e, o)
  BY <1>1 DEF HalfClosed, StreamOK
<1>3. StepOK(c, e)
  BY <1>1 DEF StepOK, Follows
<1> QED
  BY <1>1, <1>2, <1>3 DEF StreamResult, r

\* In-order data is delivered with whatever has become contiguous, and then the FIN if
\* that has been reached.
LEMMA DeliveredStream ==
    ASSUME NEW o \in Origin, NEW c, ConnOK(c), NEW d, Follows(c, d), d.rcv_nxt = c.rcv_nxt,
           Ready(d, o, 0), d.tcp_state = "Established", AheadOf(d, d.rcv_nxt),
           NEW n \in 0..MaxSegLen
    PROVE  LET e == DeliverContiguous(Deliver(d, d.rcv_nxt, n))
           IN  /\ FinReached(e) =>
                     StreamResult(c, o, CloseWaitOrLastAck(AdvanceRcv(e, 1), e.window))
               /\ ~FinReached(e) => /\ StreamResult(c, o, SendMore(e, {PureAck(e)}))
                                    /\ StreamResult(c, o, Result(e, {}))
<1> DEFINE b == Deliver(d, d.rcv_nxt, n)
           e == DeliverContiguous(b)
           f == AdvanceRcv(e, 1)
<1>1. n \in Nat /\ n \in 0..(SeqMod - 1)
  BY FarEnd, SMT
<1>2. /\ Ready(b, o, 0) /\ b.rcv_nxt = Add(d.rcv_nxt, n) /\ b.segments = d.segments
      /\ b.fin_seq = d.fin_seq /\ b.snd_nxt = d.snd_nxt /\ b.tcp_state = d.tcp_state
  BY <1>1, ReadyDeliver
<1> HIDE DEF b
<1>3. d.rcv_nxt \in SeqPoint
  BY Fields DEF Ready
<1>4. Sub(b.rcv_nxt, d.rcv_nxt) = n
  BY <1>1, <1>2, <1>3, SubOwn
<1>5. AheadOf(b, d.rcv_nxt)
  BY <1>2 DEF AheadOf, Buffered
<1>6. /\ Sub(e.rcv_nxt, d.rcv_nxt) <= RcvWnd + MaxSegLen - 1
      /\ ~FinReached(e) => AheadOf(e, e.rcv_nxt)
  BY <1>2, <1>3, <1>4, <1>5, DeliveredAhead
<1>7. Ready(e, o, 0) /\ e.snd_nxt = b.snd_nxt /\ e.tcp_state = b.tcp_state
  BY <1>2, ReadyContiguous
<1> HIDE DEF e
<1>8. e.rcv_nxt \in SeqPoint /\ e.window \in WindowState
  BY <1>7, Fields DEF Ready
<1>9. Sub(e.rcv_nxt, d.rcv_nxt) \in Nat
  BY <1>3, <1>8, SubType, SMT
<1>10. Follows(c, e)
  BY <1>2, <1>6, <1>7, <1>9, FarEnd, SMT DEF Follows
<1>11. ASSUME ~FinReached(e)
       PROVE  /\ StreamResult(c, o, SendMore(e, {PureAck(e)}))
              /\ StreamResult(c, o, Result(e, {}))
  <2>1. \A i \in {} : i.payload = <<>>
    OBVIOUS
  <2> QED
    BY <1>2, <1>6, <1>7, <1>10, <1>11, <2>1, PureAckPlain, SendMoreStream
<1>12. Ready(f, o, 1) /\ f.rcv_nxt = Add(e.rcv_nxt, 1) /\ f.snd_nxt = e.snd_nxt
  BY <1>7, ReadyFin
<1> HIDE DEF f
<1>13. Sub(f.rcv_nxt, d.rcv_nxt) < Half
  <2>1. Sub(e.rcv_nxt, d.rcv_nxt) + 1 < SeqMod /\ Sub(e.rcv_nxt, d.rcv_nxt) + 1 < Half
    BY <1>6, <1>9, FarEnd, SMT
  <2> QED
    BY <1>3, <1>8, <1>12, <2>1, SubAdvance
<1>14. Follows(c, f)
  BY <1>10, <1>12, <1>13 DEF Follows
<1>15. StreamResult(c, o, CloseWaitOrLastAck(f, e.window))
  BY <1>8, <1>12, <1>14, CloseStreamResult
<1> QED
  BY <1>11, <1>15 DEF f, e, b

\* close_on_in_order_fin delivers the data in front of the FIN and takes the FIN.
LEMMA CloseOnFinStream ==
    ASSUME NEW o \in Origin, NEW c, ConnOK(c), NEW d, Follows(c, d), d.rcv_nxt = c.rcv_nxt,
           Ready(d, o, 0), NEW seg \in InSegment, seg.seq = d.rcv_nxt,
           ~Antipodal(d, seg)
    PROVE  StreamResult(c, o, CloseOnInOrderFin(d, seg))
<1> DEFINE b == Deliver(d, seg.seq, seg.len)
           e == AdvanceRcv(b, 1)
           a == AckedBy(e, seg)
           w == WindowAfter(e, seg)
<1>1. CloseOnInOrderFin(d, seg) = CloseWaitOrLastAck(a, w)
  BY Zenon DEF CloseOnInOrderFin
<1>2. seg.len \in Nat /\ seg.len \in 0..MaxSegLen /\ seg.seq \in SeqPoint
  BY SegFields
<1>3. /\ Ready(b, o, 0) /\ b.rcv_nxt = Add(d.rcv_nxt, seg.len) /\ b.snd_nxt = d.snd_nxt
      /\ b.snd_una = d.snd_una
  <2>1. ConnOK(d)
    BY DEF Ready
  <2>2. b.snd_una = d.snd_una
    BY <1>2, <2>1, ReceivingSameSend DEF SameSend
  <2> HIDE DEF b
  <2>3. b = Deliver(d, d.rcv_nxt, seg.len)
    BY DEF b
  <2> QED
    BY <1>2, <2>2, <2>3, ReadyDeliver
<1> HIDE DEF b
<1>4. /\ Ready(e, o, 1) /\ e.rcv_nxt = Add(b.rcv_nxt, 1) /\ e.snd_nxt = b.snd_nxt
      /\ e.snd_una = b.snd_una
  <2>1. ConnOK(b)
    BY <1>3 DEF Ready
  <2>2. e.snd_una = b.snd_una
    BY <1>2, <2>1, ReceivingSameSend DEF SameSend
  <2> QED
    BY <1>3, <2>2, ReadyFin
<1> HIDE DEF e
<1>5. Ready(a, o, 1) /\ a.rcv_nxt = e.rcv_nxt /\ a.snd_nxt = e.snd_nxt
  BY <1>3, <1>4, ReadyAcked DEF SameRecv, Antipodal
<1>6. w \in WindowState
  BY <1>4, WindowAfterType DEF Ready
<1> HIDE DEF a, w
<1>7. Sub(e.rcv_nxt, d.rcv_nxt) < Half
  <2>1. d.rcv_nxt \in SeqPoint
    BY <1>2
  <2>2. e.rcv_nxt = Add(d.rcv_nxt, seg.len + 1)
    BY <1>2, <1>3, <1>4, <2>1, AdvanceTwice
  <2>3. seg.len + 1 \in 0..(SeqMod - 1) /\ seg.len + 1 < Half
    BY <1>2, FarEnd, SMT
  <2> QED
    BY <2>1, <2>2, <2>3, SubOwn
<1>8. Follows(c, a)
  BY <1>3, <1>4, <1>5, <1>7 DEF Follows
<1> QED
  BY <1>1, <1>5, <1>6, <1>8, CloseStreamResult

\* complete_handshake: the SYN-ACK is acknowledged, and the streams are where they were.
LEMMA HandshakeStream ==
    ASSUME NEW o \in Origin, NEW c, ConnOK(c), FlightOK(c), StreamOK(c, o),
           c.tcp_state = "SynReceived", NEW seg \in InSegment, AcceptableAck(c, seg)
    PROVE  LET h == CompleteHandshake(c, seg)
           IN  /\ Ready(h, o, 0) /\ h.tcp_state = "Established" /\ AheadOf(h, h.rcv_nxt)
               /\ Follows(c, h) /\ h.rcv_nxt = c.rcv_nxt /\ h.snd_una = seg.ack
<1> DEFINE h == CompleteHandshake(c, seg)
<1>1. /\ ConnOK(h) /\ h.tcp_state = "Established" /\ h.snd_una = seg.ack
      /\ Flight(h) = 0
  BY HandshakeFlight
<1>2. /\ h.snd_nxt = c.snd_nxt /\ h.rcv_nxt = c.rcv_nxt /\ h.send_buffer = c.send_buffer
      /\ h.pending = {} /\ h.segments = c.segments /\ h.fin_seq = c.fin_seq
  BY DEF CompleteHandshake, ConnOK, ConnState
<1> HIDE DEF h
<1>3. QueueOK(c, o, 0) /\ AheadOf(c, c.rcv_nxt)
  BY DEF StreamOK
<1>4. QueueOK(h, o, 0) /\ AheadOf(h, h.rcv_nxt)
  BY <1>2, <1>3 DEF QueueOK, AheadOf, Buffered
<1>5. PendingOK(h) /\ PendingEchoes(h, o)
  <2>1. 0..(0 - 1) = {}
    BY SMT
  <2> QED
    BY <1>1, <1>2, <2>1 DEF PendingOK, PendingEchoes
<1>6. Flight(h) <= MaxWnd
  BY <1>1, SizeAssumption, SMT
<1>7. Sub(h.rcv_nxt, c.rcv_nxt) < Half
  BY <1>2, Fields, AddZero, FarEnd, SMT
<1> QED
  BY <1>1, <1>2, <1>4, <1>5, <1>6, <1>7 DEF Ready, Follows, h

\* Data and a FIN that arrive ahead of their turn are kept for later.
LEMMA AheadStream ==
    ASSUME NEW o \in Origin, NEW c, ConnOK(c), NEW d, Follows(c, d),
           Ready(d, o, 0), d.tcp_state = "Established", AheadOf(d, d.rcv_nxt),
           NEW seg \in InSegment, OutOfOrder(d, seg)
    PROVE  LET e == Insert(d, seg)
               f == MarkFin(e, seg)
           IN  /\ StreamResult(c, o, Result(e, {PureAck(e)}))
               /\ StreamResult(c, o, Result(f, {PureAck(f)}))
<1>1. ASSUME NEW g, NEW e, Ready(g, o, 0), Follows(c, g), g.tcp_state = "Established",
             ConnOK(e), AheadOf(e, g.rcv_nxt), SameQueue(e, g),
             e.rcv_nxt = g.rcv_nxt, e.send_buffer = g.send_buffer
      PROVE  /\ StreamResult(c, o, Result(e, {PureAck(e)}))
             /\ Ready(e, o, 0) /\ Follows(c, e) /\ e.tcp_state = "Established"
             /\ AheadOf(e, e.rcv_nxt)
  <2>1. Ready(e, o, 0)
    BY <1>1, ReadySame
  <2>2. e.tcp_state = "Established" /\ e.snd_nxt = g.snd_nxt
    BY <1>1 DEF SameQueue, SameSend
  <2>3. Follows(c, e)
    BY <1>1, <2>2 DEF Follows
  <2> QED
    BY <1>1, <2>1, <2>2, <2>3, SendMoreStream, PureAckPlain
<1> DEFINE e == Insert(d, seg)
           f == MarkFin(e, seg)
<1>2. ConnOK(d)
  BY DEF Ready
<1>3. /\ ConnOK(e) /\ AheadOf(e, d.rcv_nxt) /\ SameQueue(e, d)
      /\ e.rcv_nxt = d.rcv_nxt /\ e.send_buffer = d.send_buffer
  BY <1>2, InsertOK, InsertAhead
<1> HIDE DEF e
<1>4. /\ StreamResult(c, o, Result(e, {PureAck(e)})) /\ Ready(e, o, 0) /\ Follows(c, e)
      /\ e.tcp_state = "Established" /\ AheadOf(e, e.rcv_nxt)
  BY <1>1, <1>3
<1>5. OutOfOrder(e, seg)
  BY <1>3 DEF OutOfOrder
<1>6. /\ ConnOK(f) /\ AheadOf(f, e.rcv_nxt) /\ SameQueue(f, e)
      /\ f.rcv_nxt = e.rcv_nxt /\ f.send_buffer = e.send_buffer
  BY <1>3, <1>4, <1>5, MarkFinOK, MarkFinAhead
<1> HIDE DEF f
<1>7. StreamResult(c, o, Result(f, {PureAck(f)}))
  BY <1>1, <1>4, <1>6
<1> QED
  BY <1>4, <1>7 DEF e, f

\* incoming_ack_update once our FIN has been sent.
LEMMA AckUpdateStream ==
    ASSUME NEW o, NEW c, ConnOK(c), FlightOK(c), NEW seg \in InSegment,
           ~Antipodal(c, seg), PendingOK(c), PendingEchoes(c, o)
    PROVE  LET u == AckUpdate(c, seg)
           IN  /\ PendingOK(u) /\ PendingEchoes(u, o) /\ SameRecv(u, c)
               /\ u.snd_nxt = c.snd_nxt /\ u.send_buffer = c.send_buffer
               /\ u.tcp_state = c.tcp_state
<1> DEFINE a == AckedBy(c, seg)
           u == AckUpdate(c, seg)
<1>1. PendingOK(a)
  BY AckedByPending DEF FlightOK
<1>2. ConnOK(a)
  BY AckedByOK
<1>3. /\ a.snd_nxt = c.snd_nxt /\ a.send_buffer = c.send_buffer /\ a.tcp_state = c.tcp_state
      /\ a.rcv_nxt = c.rcv_nxt /\ a.segments = c.segments /\ a.fin_seq = c.fin_seq
      /\ a.pending \subseteq c.pending
  BY Zenon DEF AckedBy, ConnOK, ConnState
<1> HIDE DEF a
<1>4. u = [a EXCEPT !.window = WindowAfter(c, seg)]
  BY DEF AckUpdate, a
<1>5. /\ u.snd_nxt = a.snd_nxt /\ u.send_buffer = a.send_buffer /\ u.tcp_state = a.tcp_state
      /\ u.rcv_nxt = a.rcv_nxt /\ u.segments = a.segments /\ u.fin_seq = a.fin_seq
      /\ u.pending = a.pending /\ u.snd_una = a.snd_una
  BY <1>2, <1>4 DEF ConnOK, ConnState
<1> HIDE DEF u
<1>6. PendingOK(u)
  BY <1>1, <1>5, SamePending DEF SameQueue, SameSend
<1>7. PendingEchoes(u, o)
  BY <1>3, <1>5 DEF PendingEchoes
<1> QED
  BY <1>3, <1>5, <1>6, <1>7 DEF SameRecv, u

\* After our FIN only the receiving side moves.
LEMMA FinStream ==
    ASSUME NEW o, NEW c, ConnOK(c), NEW d, PendingOK(d), PendingEchoes(d, o),
           d.snd_nxt = c.snd_nxt, Sub(d.rcv_nxt, c.rcv_nxt) < Half,
           \/ d.tcp_state \in {"FinWait1", "FinWait2", "Closing"}
           \/ /\ d.tcp_state = "LastAck" /\ c.tcp_state = "LastAck" /\ StreamOK(c, o)
              /\ d.send_buffer = c.send_buffer /\ d.rcv_nxt = c.rcv_nxt,
           NEW reply, \A i \in reply : i.payload = <<>>
    PROVE  StreamResult(c, o, Result(d, reply))
<1>1. Sub(d.snd_nxt, c.snd_nxt) = 0
  BY Fields, AddZero
<1>2. StepOK(c, d)
  BY <1>1, SizeAssumption, SMT DEF StepOK
<1>3. StreamOK(d, o)
  <2>1. CASE d.tcp_state \in {"FinWait1", "FinWait2", "Closing"}
    BY <2>1 DEF StreamOK
  <2>2. CASE /\ d.tcp_state = "LastAck" /\ c.tcp_state = "LastAck" /\ StreamOK(c, o)
             /\ d.send_buffer = c.send_buffer /\ d.rcv_nxt = c.rcv_nxt
    BY <2>2 DEF StreamOK, QueueOK
  <2> QED
    BY <2>1, <2>2
<1> QED
  BY <1>2, <1>3, PlainReply

\* A duplicate SYN adds one more SYN-ACK for the same sequence number.
LEMMA ResendStream ==
    ASSUME NEW o \in Origin, NEW c, ConnOK(c), FlightOK(c), StreamOK(c, o),
           c.tcp_state = "SynReceived", NEW seg \in InSegment
    PROVE  LET info == SynAckFor(c.snd_una, seg)
           IN  StreamResult(c, o, Result(Push(c, info), {info}))
<1> DEFINE info == SynAckFor(c.snd_una, seg)
           q == [info |-> info, retries |-> 0,
                 copy |-> Cardinality({p \in c.pending : p.info = info})]
           d == Push(c, info)
<1>1. /\ d.pending = c.pending \cup {q} /\ d.snd_nxt = c.snd_nxt /\ d.snd_una = c.snd_una
      /\ d.tcp_state = c.tcp_state /\ d.rcv_nxt = c.rcv_nxt /\ d.send_buffer = c.send_buffer
      /\ d.segments = c.segments /\ d.fin_seq = c.fin_seq
  BY DEF Push, ConnOK, ConnState
<1>2. /\ q.info = info /\ info.seq = c.snd_una /\ info.payload = <<>>
      /\ info.flags = "SynAck"
  BY DEF SynAckFor
<1> HIDE DEF q, d, info
<1>3. Consumed(info) = 1
  <2>1. Consumed(info) = 1 + Len(<<>>)
    BY <1>2, Zenon DEF Consumed
  <2> QED
    BY <2>1, EmptySeq, SMT
<1>4. Sub(EndSeq(q), c.snd_una) = 1
  <2>1. EndSeq(q) = Add(c.snd_una, 1)
    BY <1>2, <1>3, Zenon DEF EndSeq
  <2>2. 1 \in 0..(SeqMod - 1) /\ c.snd_una \in SeqPoint
    BY FarEnd, Fields, SMT
  <2> QED
    BY <2>1, <2>2, SubOwn
<1>5. Flight(d) = 1 /\ Flight(c) = 1
  BY <1>1 DEF Flight, FlightOK
<1>6. PendingOK(d)
  <2>1. 1 \in 1..(MaxWnd + 1) /\ 1 \in 1..1
    BY SizeAssumption, SMT
  <2> QED
    BY <1>1, <1>2, <1>3, <1>4, <1>5, <2>1, Zenon DEF PendingOK, StreamOK
<1>7. PendingEchoes(d, o)
  BY <1>1, <1>2, EchoesEmpty, Zenon DEF PendingEchoes, StreamOK
<1>8. StreamOK(d, o)
  BY <1>1, <1>6, <1>7 DEF StreamOK, QueueOK, AheadOf, Buffered
<1>9. Follows(c, d)
  <2>1. Sub(d.rcv_nxt, c.rcv_nxt) = 0
    BY <1>1, Fields, AddZero
  <2> QED
    BY <1>1, <2>1, FarEnd, SMT DEF Follows
<1> QED
  BY <1>2, <1>8, <1>9, FollowsStep, PlainReply DEF d, info
-----------------------------------------------------------------------------
(* The steps.                                                              *)

\* Every arm of decide_reply keeps the streams in order.
LEMMA ReceiveStream ==
    ASSUME StreamInv, NEW k \in ConnKey, NEW seg \in InSegment, Receive(k, seg),
           /\ k \in DOMAIN table
           /\ seg.flags \in {"Ack", "FinAck"}
           => ~Antipodal(table[k], seg)
    PROVE  StreamStep
<1> DEFINE c == table[k]
           o == origin[k]
           u == AckUpdate(c, seg)
           h == CompleteHandshake(c, seg)
<1>1. k \in DOMAIN table => /\ ConnOK(c) /\ FlightOK(c) /\ StreamOK(c, o) /\ o \in Origin
                            /\ PendingOK(c) /\ PendingEchoes(c, o)
  BY InvConn DEF StreamOK
<1>2. seg.len \in Nat /\ seg.len \in 0..MaxSegLen /\ seg.seq \in SeqPoint
  BY SegFields
<1>3. k \in DOMAIN table => Sub(c.rcv_nxt, c.rcv_nxt) < Half
  BY <1>1, Fields, AddZero, FarEnd, SMT
<1>4. ASSUME In(k, "Established")
      PROVE  /\ k \in DOMAIN table /\ Ready(c, o, 0) /\ c.tcp_state = "Established"
             /\ AheadOf(c, c.rcv_nxt) /\ Follows(c, c)
  <2>1. k \in DOMAIN table /\ c.tcp_state = "Established"
    BY <1>4 DEF In
  <2>2. Flight(c) <= MaxWnd
    BY <1>1, <2>1 DEF FlightOK, SendSideOpen
  <2>3. QueueOK(c, o, 0) /\ AheadOf(c, c.rcv_nxt)
    BY <1>1, <2>1 DEF StreamOK
  <2>4. Follows(c, c)
    BY <1>3, <2>1 DEF Follows, SendSideOpen
  <2> QED
    BY <1>1, <2>1, <2>2, <2>3, <2>4 DEF Ready
<1>5. ASSUME In(k, "Established"), seg.flags \in {"Ack", "FinAck"}
      PROVE  /\ Ready(u, o, 0) /\ u.tcp_state = "Established" /\ AheadOf(u, u.rcv_nxt)
             /\ Follows(c, u) /\ u.rcv_nxt = c.rcv_nxt
  <2>1. /\ Ready(u, o, 0) /\ SameRecv(u, c) /\ u.snd_nxt = c.snd_nxt
        /\ u.tcp_state = "Established"
    BY <1>1, <1>4, <1>5, ReadyAckUpdate
  <2> HIDE DEF u
  <2>2. AheadOf(u, u.rcv_nxt)
    BY <1>4, <1>5, <2>1 DEF AheadOf, Buffered, SameRecv
  <2> QED
    BY <1>4, <1>5, <2>1, <2>2 DEF Follows, SameRecv
<1>6. ASSUME In(k, "SynReceived"), AcceptableAck(c, seg)
      PROVE  /\ k \in DOMAIN table
             /\ Ready(h, o, 0) /\ h.tcp_state = "Established" /\ AheadOf(h, h.rcv_nxt)
             /\ Follows(c, h) /\ h.rcv_nxt = c.rcv_nxt /\ h.snd_una = seg.ack
  BY <1>1, <1>6, HandshakeStream DEF In
<1> HIDE DEF u, h
<1>7. CASE OpenConn(k, seg)
  BY <1>7, OpenStream
<1>8. CASE \/ DropUnknownRst(k, seg) \/ IgnoreRst(k, seg) \/ RefuseUnknown(k, seg)
           \/ Refuse(k, seg) \/ EstablishedAckOfUnsent(k, seg) \/ ChallengeAck(k, seg)
           \/ FinWaitFinished(k, seg) \/ FinalAck(k, seg) \/ ResetConn(k, seg)
  <2>1. \E reply : /\ \/ reply = {}
                      \/ reply = {RstFor(seg)}
                      \/ \E d : reply = {PureAck(d)}
                   /\ Answer(k, reply) \/ Remove(k, reply)
    BY <1>8, Zenon DEF DropUnknownRst, IgnoreRst, RefuseUnknown, Refuse,
       EstablishedAckOfUnsent, ChallengeAck, FinWaitFinished, FinalAck, ResetConn
  <2>2. PICK reply : /\ \/ reply = {}
                        \/ reply = {RstFor(seg)}
                        \/ \E d : reply = {PureAck(d)}
                     /\ Answer(k, reply) \/ Remove(k, reply)
    BY <2>1
  <2>3. \A i \in reply : i.payload = <<>>
    BY <2>2 DEF RstFor, PureAck
  <2> QED
    BY <2>2, <2>3, AnswerStream
<1>9. CASE ResendSynAck(k, seg)
  <2> DEFINE info == SynAckFor(c.snd_una, seg)
  <2>1. /\ k \in DOMAIN table /\ c.tcp_state = "SynReceived"
        /\ Store(k, Result(Push(c, info), {info}))
    BY <1>9, Zenon DEF ResendSynAck, In
  <2>2. StreamResult(c, o, Result(Push(c, info), {info}))
    BY <1>1, <2>1, ResendStream
  <2> QED
    BY <2>1, <2>2, StoreStream
<1>10. CASE HandshakeAck(k, seg)
  <2> DEFINE d == DeliverContiguous(Deliver(h, seg.seq, seg.len))
             r == IF FinReached(d) THEN CloseWaitOrLastAck(AdvanceRcv(d, 1), d.window)
                  ELSE IF d.send_buffer = <<>> THEN Result(d, {})
                  ELSE SendMore(d, {PureAck(d)})
  <2>1. In(k, "SynReceived") /\ AcceptableAck(c, seg) /\ seg.seq = c.rcv_nxt /\ Store(k, r)
    BY <1>10, Zenon DEF HandshakeAck, InOrder, h
  <2>2. d = DeliverContiguous(Deliver(h, h.rcv_nxt, seg.len))
    BY <1>6, <2>1, Zenon
  <2>3. /\ FinReached(d) => StreamResult(c, o, CloseWaitOrLastAck(AdvanceRcv(d, 1), d.window))
        /\ ~FinReached(d) => /\ StreamResult(c, o, SendMore(d, {PureAck(d)}))
                             /\ StreamResult(c, o, Result(d, {}))
    BY <1>1, <1>2, <1>6, <2>1, <2>2, DeliveredStream
  <2>4. StreamResult(c, o, r)
    BY <2>3, Zenon
  <2> HIDE DEF r
  <2> QED
    BY <1>6, <2>1, <2>4, StoreStream
<1>11. CASE HandshakeFin(k, seg)
  <2>1. /\ In(k, "SynReceived") /\ AcceptableAck(c, seg) /\ seg.seq = c.rcv_nxt
        /\ Store(k, CloseOnInOrderFin(h, seg))
    BY <1>11, Zenon DEF HandshakeFin, InOrderFin, InOrder, h
  <2>2. ~Antipodal(h, seg)
    BY <1>6, <2>1, SegFields, AddZero, HalfAssumption, SMT DEF Antipodal
  <2>3. StreamResult(c, o, CloseOnInOrderFin(h, seg))
    BY <1>1, <1>6, <2>1, <2>2, CloseOnFinStream
  <2> QED
    BY <1>6, <2>1, <2>3, StoreStream
<1>12. CASE HandshakeOutOfOrder(k, seg)
  <2> DEFINE e == Insert(h, seg)
             d == IF seg.flags = "FinAck" THEN MarkFin(e, seg) ELSE e
  <2>1. /\ In(k, "SynReceived") /\ AcceptableAck(c, seg) /\ OutOfOrder(c, seg)
        /\ Store(k, Result(d, {PureAck(d)}))
    BY <1>12, Zenon DEF HandshakeOutOfOrder, h
  <2>2. OutOfOrder(h, seg)
    BY <1>6, <2>1 DEF OutOfOrder
  <2>3. /\ StreamResult(c, o, Result(e, {PureAck(e)}))
        /\ StreamResult(c, o, Result(MarkFin(e, seg), {PureAck(MarkFin(e, seg))}))
    BY <1>1, <1>6, <2>1, <2>2, AheadStream
  <2>4. StreamResult(c, o, Result(d, {PureAck(d)}))
    BY <2>3, Zenon
  <2> HIDE DEF d
  <2> QED
    BY <1>6, <2>1, <2>4, StoreStream
<1>13. CASE EstablishedAck(k, seg)
  <2>1. In(k, "Established") /\ seg.flags = "Ack" /\ Store(k, SendMore(u, {}))
    BY <1>13, Zenon DEF EstablishedAck, PlainAck, u
  <2>2. \A i \in {} : i.payload = <<>>
    OBVIOUS
  <2>3. StreamResult(c, o, SendMore(u, {}))
    BY <1>1, <1>4, <1>5, <2>1, <2>2, SendMoreStream
  <2> QED
    BY <1>4, <2>1, <2>3, StoreStream
<1>14. CASE EstablishedData(k, seg)
  <2> DEFINE d == DeliverContiguous(Deliver(u, seg.seq, seg.len))
             r == IF FinReached(d) THEN CloseWaitOrLastAck(AdvanceRcv(d, 1), d.window)
                  ELSE SendMore(d, {PureAck(d)})
  <2>1. In(k, "Established") /\ seg.flags = "Ack" /\ seg.seq = c.rcv_nxt /\ Store(k, r)
    BY <1>14, Zenon DEF EstablishedData, InOrderData, InOrder, u
  <2>2. d = DeliverContiguous(Deliver(u, u.rcv_nxt, seg.len))
    BY <1>5, <2>1, Zenon
  <2>3. /\ FinReached(d) => StreamResult(c, o, CloseWaitOrLastAck(AdvanceRcv(d, 1), d.window))
        /\ ~FinReached(d) => StreamResult(c, o, SendMore(d, {PureAck(d)}))
    BY <1>1, <1>2, <1>4, <1>5, <2>1, <2>2, DeliveredStream
  <2>4. StreamResult(c, o, r)
    BY <2>3, Zenon
  <2> HIDE DEF r
  <2> QED
    BY <1>4, <2>1, <2>4, StoreStream
<1>15. CASE EstablishedDataAhead(k, seg) \/ EstablishedFinAhead(k, seg)
  <2> DEFINE e == Insert(u, seg)
             f == MarkFin(e, seg)
  <2>1. /\ In(k, "Established") /\ seg.flags \in {"Ack", "FinAck"} /\ OutOfOrder(c, seg)
        /\ Store(k, Result(e, {PureAck(e)})) \/ Store(k, Result(f, {PureAck(f)}))
    BY <1>15, Zenon DEF EstablishedDataAhead, EstablishedFinAhead, u
  <2>2. OutOfOrder(u, seg)
    BY <1>5, <2>1 DEF OutOfOrder
  <2>3. /\ StreamResult(c, o, Result(e, {PureAck(e)}))
        /\ StreamResult(c, o, Result(f, {PureAck(f)}))
    BY <1>1, <1>4, <1>5, <2>1, <2>2, AheadStream
  <2> HIDE DEF e, f
  <2> QED
    BY <1>4, <2>1, <2>3, StoreStream
<1>16. CASE EstablishedFin(k, seg)
  <2>1. /\ In(k, "Established") /\ seg.flags = "FinAck" /\ seg.seq = c.rcv_nxt
        /\ Store(k, CloseOnInOrderFin(c, seg))
    BY <1>16, Zenon DEF EstablishedFin, InOrderFin, InOrder
  <2>2. k \in DOMAIN table /\ ~Antipodal(c, seg)
    BY <1>4, <2>1
  <2>3. StreamResult(c, o, CloseOnInOrderFin(c, seg))
    BY <1>1, <1>4, <2>1, <2>2, CloseOnFinStream
  <2> QED
    BY <2>1, <2>2, <2>3, StoreStream
<1>17. ASSUME k \in DOMAIN table, seg.flags \in {"Ack", "FinAck"}, NEW n \in 0..(MaxSegLen + 1)
       PROVE  LET d == AdvanceRcv(c, n)
                  a == AckUpdate(d, seg)
              IN  /\ ConnOK(a) /\ PendingOK(a) /\ PendingEchoes(a, o)
                  /\ a.snd_nxt = c.snd_nxt
                  /\ a.tcp_state = c.tcp_state /\ Sub(a.rcv_nxt, c.rcv_nxt) < Half
  <2> DEFINE d == AdvanceRcv(c, n)
             a == AckUpdate(d, seg)
  <2>1. n \in Nat /\ n \in 0..(SeqMod - 1) /\ n < Half
    BY FarEnd, SMT
  <2>2. ConnOK(d) /\ SameSend(d, c)
    BY <1>1, <1>17, <2>1, AdvanceRcvOK, ReceivingSameSend
  <2>3. d.pending = c.pending /\ d.rcv_nxt = Add(c.rcv_nxt, n)
    BY <1>1, <1>17 DEF AdvanceRcv, ConnOK, ConnState
  <2> HIDE DEF d
  <2>4. PendingOK(d) /\ PendingEchoes(d, o)
    BY <1>1, <1>17, <2>2, <2>3, SamePending DEF SameQueue
  <2>5. FlightOK(d) /\ ~Antipodal(d, seg)
    BY <1>1, <1>17, <2>2, SameSendFlight DEF SameSend, Antipodal
  <2>6. /\ PendingOK(a) /\ PendingEchoes(a, o) /\ SameRecv(a, d)
        /\ a.snd_nxt = d.snd_nxt /\ a.tcp_state = d.tcp_state
    BY <2>2, <2>4, <2>5, AckUpdateStream
  <2>7. Sub(d.rcv_nxt, c.rcv_nxt) < Half
    BY <1>1, <1>17, <2>1, <2>3, Fields, SubOwn
  <2>8. ConnOK(a)
    BY <2>2, AckUpdateOK
  <2> HIDE DEF a
  <2> QED
    BY <2>2, <2>6, <2>7, <2>8 DEF SameSend, SameRecv, a, d
<1>18. seg.len \in 0..(MaxSegLen + 1) /\ seg.len + 1 \in 0..(MaxSegLen + 1)
  BY <1>2, SizeAssumption, SMT
<1>19. ASSUME k \in DOMAIN table, seg.flags \in {"Ack", "FinAck"}
       PROVE  /\ ConnOK(u) /\ PendingOK(u) /\ PendingEchoes(u, o)
              /\ u.snd_nxt = c.snd_nxt /\ u.tcp_state = c.tcp_state
              /\ u.send_buffer = c.send_buffer /\ u.rcv_nxt = c.rcv_nxt
              /\ Sub(u.rcv_nxt, c.rcv_nxt) < Half
  <2>1. ConnOK(u)
    BY <1>1, <1>19, AckUpdateOK DEF u
  <2>2. /\ PendingOK(u) /\ PendingEchoes(u, o) /\ SameRecv(u, c)
        /\ u.snd_nxt = c.snd_nxt /\ u.send_buffer = c.send_buffer
        /\ u.tcp_state = c.tcp_state
    BY <1>1, <1>19, AckUpdateStream DEF u
  <2> QED
    BY <1>3, <1>19, <2>1, <2>2 DEF SameRecv
<1>20. \A i \in {} : i.payload = <<>>
  OBVIOUS
<1>21. CASE FinWaitData(k, seg)
  <2> DEFINE d == AdvanceRcv(c, seg.len)
             a == AckUpdate(d, seg)
  <2>1. /\ k \in DOMAIN table /\ c.tcp_state \in {"FinWait1", "FinWait2"}
        /\ seg.flags = "Ack" /\ Store(k, Result(a, {PureAck(d)}))
    BY <1>21 DEF FinWaitData, InOrderData, In
  <2>2. /\ ConnOK(a) /\ PendingOK(a) /\ PendingEchoes(a, o) /\ a.snd_nxt = c.snd_nxt
        /\ a.tcp_state = c.tcp_state /\ Sub(a.rcv_nxt, c.rcv_nxt) < Half
    BY <1>17, <1>18, <2>1
  <2> HIDE DEF a
  <2>3. StreamResult(c, o, Result(a, {PureAck(d)}))
    BY <1>1, <2>1, <2>2, PureAckPlain, FinStream
  <2> QED
    BY <2>1, <2>3, StoreStream
<1>22. CASE FinWait1FinAcked(k, seg)
  <2> DEFINE d == [u EXCEPT !.tcp_state = "FinWait2"]
  <2>1. k \in DOMAIN table /\ seg.flags = "Ack" /\ Store(k, Result(d, {}))
    BY <1>22, Zenon DEF FinWait1FinAcked, PlainAck, In, u
  <2>2. /\ d.snd_nxt = u.snd_nxt /\ d.snd_una = u.snd_una /\ d.tcp_state = "FinWait2"
        /\ d.pending = u.pending /\ d.rcv_nxt = u.rcv_nxt
    BY <1>19, <2>1 DEF ConnOK, ConnState
  <2> HIDE DEF d
  <2>3. PendingOK(d) /\ PendingEchoes(d, o)
    BY <1>19, <2>1, <2>2, Zenon DEF PendingOK, PendingEchoes, Flight
  <2>4. StreamResult(c, o, Result(d, {}))
    BY <1>1, <1>19, <1>20, <2>1, <2>2, <2>3, FinStream
  <2> QED
    BY <2>1, <2>4, StoreStream
<1>23. CASE PartialAck(k, seg)
  <2>1. /\ k \in DOMAIN table /\ seg.flags = "Ack" /\ Store(k, Result(u, {}))
        /\ c.tcp_state \in {"FinWait1", "FinWait2", "Closing"} \/ c.tcp_state = "LastAck"
    BY <1>23 DEF PartialAck, PlainAck, In, u
  <2>2. StreamResult(c, o, Result(u, {}))
    BY <1>1, <1>19, <1>20, <2>1, FinStream
  <2> QED
    BY <2>1, <2>2, StoreStream
<1>24. CASE FinWait1Fin(k, seg)
  <2> DEFINE d == AdvanceRcv(c, seg.len + 1)
             a == AckUpdate(d, seg)
             e == [a EXCEPT !.tcp_state = "Closing"]
  <2>1. /\ k \in DOMAIN table /\ seg.flags = "FinAck" /\ Store(k, Result(e, {PureAck(d)}))
    BY <1>24, Zenon DEF FinWait1Fin, InOrderFin, In
  <2>2. /\ ConnOK(a) /\ PendingOK(a) /\ PendingEchoes(a, o) /\ a.snd_nxt = c.snd_nxt
        /\ Sub(a.rcv_nxt, c.rcv_nxt) < Half
    BY <1>17, <1>18, <2>1
  <2> HIDE DEF a
  <2>3. /\ e.snd_nxt = a.snd_nxt /\ e.snd_una = a.snd_una /\ e.tcp_state = "Closing"
        /\ e.pending = a.pending /\ e.rcv_nxt = a.rcv_nxt
    BY <2>2 DEF ConnOK, ConnState
  <2> HIDE DEF e
  <2>4. PendingOK(e) /\ PendingEchoes(e, o)
    BY <2>2, <2>3, Zenon DEF PendingOK, PendingEchoes, Flight
  <2>5. StreamResult(c, o, Result(e, {PureAck(d)}))
    BY <1>1, <2>1, <2>2, <2>3, <2>4, PureAckPlain, FinStream
  <2> QED
    BY <2>1, <2>5, StoreStream
<1>25. CASE CloseWaitAck(k, seg)
  <2> DEFINE a == AckedBy(c, seg)
             w == WindowAfter(c, seg)
  <2>1. /\ k \in DOMAIN table /\ c.tcp_state = "CloseWait" /\ seg.flags = "Ack"
        /\ Store(k, CloseWaitOrLastAck(a, w))
    BY <1>25, Zenon DEF CloseWaitAck, PlainAck, In
  <2>2. w \in WindowState
    BY <1>1, <2>1, WindowAfterType
  <2>3. Flight(c) <= MaxWnd /\ QueueOK(c, o, 1)
    BY <1>1, <2>1 DEF FlightOK, SendSideOpen, StreamOK
  <2>4. Ready(c, o, 1)
    BY <1>1, <2>1, <2>3 DEF Ready
  <2>5. Ready(a, o, 1) /\ SameRecv(a, c) /\ a.snd_nxt = c.snd_nxt
    BY <1>1, <2>1, <2>4, ReadyAcked
  <2>6. Follows(c, a)
    BY <1>3, <2>1, <2>5 DEF Follows, SameRecv, SendSideOpen
  <2>7. StreamResult(c, o, CloseWaitOrLastAck(a, w))
    BY <1>1, <2>1, <2>2, <2>5, <2>6, CloseStreamResult
  <2> QED
    BY <2>1, <2>7, StoreStream
<1> QED
  BY <1>7, <1>8, <1>9, <1>10, <1>11, <1>12, <1>13, <1>14, <1>15, <1>16, <1>21, <1>22,
     <1>23, <1>24, <1>25, Receive(k, seg), Zenon DEF Receive

\* What a pending segment holds and carries does not depend on its retries.
LEMMA SameInfos ==
    ASSUME NEW c, NEW d, d.snd_nxt = c.snd_nxt, d.snd_una = c.snd_una,
           \A p \in d.pending : \E q \in c.pending : q.info = p.info,
           \A q \in c.pending : \E p \in d.pending : q.info = p.info,
           PendingOK(c)
    PROVE  /\ PendingOK(d)
           /\ \A o : PendingEchoes(c, o) => PendingEchoes(d, o)
<1>1. Flight(d) = Flight(c)
  BY DEF Flight
<1>2. ASSUME NEW p \in d.pending
      PROVE  /\ Consumed(p.info) \in 1..(MaxWnd + 1)
             /\ Sub(EndSeq(p), d.snd_una) \in 1..Flight(d)
             /\ \A o : PendingEchoes(c, o) => EchoesFrom(o, p.info.seq, p.info.payload)
  <2>1. PICK q \in c.pending : q.info = p.info
    BY <1>2
  <2>2. EndSeq(q) = EndSeq(p)
    BY <2>1, Zenon DEF EndSeq
  <2> QED
    BY <1>1, <2>1, <2>2, Zenon DEF PendingOK, PendingEchoes
<1>3. ASSUME NEW x \in 0..(Flight(d) - 1)
      PROVE  \E p \in d.pending : Sub(Add(d.snd_una, x), p.info.seq) < Consumed(p.info)
  <2>1. PICK q \in c.pending : Sub(Add(c.snd_una, x), q.info.seq) < Consumed(q.info)
    BY <1>1, <1>3, Zenon DEF PendingOK
  <2>2. PICK p \in d.pending : q.info = p.info
    BY <2>1
  <2> QED
    BY <2>1, <2>2, Zenon
<1>4. PendingOK(d)
  BY <1>2, <1>3, Zenon DEF PendingOK
<1> QED
  BY <1>2, <1>4, Zenon DEF PendingEchoes

\* The timer sends again what is pending, and keeps it.
LEMMA TimerStream ==
    ASSUME StreamInv, NEW due \in DueChoices, MakeRetransmissions(due)
    PROVE  StreamStep
<1> DEFINE GivenUp == {k \in DOMAIN table : \E p \in due[k] : ExhaustedRetries(p, MaxRetries)}
           Kept    == DOMAIN table \ GivenUp
           P(k)    == (table[k].pending \ due[k]) \cup {Retried(p) : p \in due[k]}
           N(k)    == [table[k] EXCEPT !.pending = P(k)]
<1>1. /\ table' = [k \in Kept |-> N(k)] /\ origin' = [k \in Kept |-> origin[k]]
      /\ out' = UNION {Addressed(k, {p.info : p \in due[k]}) : k \in Kept}
  BY Zenon DEF MakeRetransmissions
<1>2. Kept \subseteq DOMAIN table /\ \A k \in DOMAIN table : due[k] \subseteq table[k].pending
  BY DEF DueChoices
<1>3. \A k \in DOMAIN table : \A p \in table[k].pending : Retried(p).info = p.info
  <2>1. \A k \in DOMAIN table : \A p \in table[k].pending : p \in PendingSegment
    BY InvConn, Fields
  <2> QED
    BY <2>1 DEF Retried, PendingSegment
<1> HIDE DEF Kept
<1>4. ASSUME NEW k \in Kept
      PROVE  StreamOK(N(k), origin[k]) /\ StepOK(table[k], N(k))
  <2> DEFINE c == table[k]
             d == N(k)
  <2>1. ConnOK(c) /\ StreamOK(c, origin[k]) /\ StepOK(c, c)
    BY <1>2, InvConn
  <2>2. /\ d.pending = P(k) /\ d.snd_nxt = c.snd_nxt /\ d.snd_una = c.snd_una
        /\ d.tcp_state = c.tcp_state /\ d.rcv_nxt = c.rcv_nxt
        /\ d.send_buffer = c.send_buffer
        /\ d.segments = c.segments /\ d.fin_seq = c.fin_seq
    BY <2>1 DEF ConnOK, ConnState
  <2> HIDE DEF d
  <2>3. \A p \in d.pending : \E q \in c.pending : q.info = p.info
    <3> SUFFICES ASSUME NEW p \in d.pending
                 PROVE  \E q \in c.pending : q.info = p.info
      OBVIOUS
    <3>1. CASE p \in {Retried(q) : q \in due[k]}
      <4>1. PICK q \in due[k] : p = Retried(q)
        BY <3>1
      <4>2. q \in c.pending
        BY <1>2
      <4> QED
        BY <1>2, <1>3, <4>1, <4>2
    <3>2. CASE p \in c.pending \ due[k]
      BY <3>2
    <3> QED
      BY <2>2, <3>1, <3>2
  <2>4. \A q \in c.pending : \E p \in d.pending : q.info = p.info
    <3> SUFFICES ASSUME NEW q \in c.pending
                 PROVE  \E p \in d.pending : q.info = p.info
      OBVIOUS
    <3>1. CASE q \in due[k]
      BY <1>2, <1>3, <2>2, <3>1, Zenon
    <3>2. CASE q \notin due[k]
      BY <2>2, <3>2, Zenon
    <3> QED
      BY <3>1, <3>2
  <2>5. PendingOK(d) /\ PendingEchoes(d, origin[k])
    BY <2>1, <2>2, <2>3, <2>4, SameInfos DEF StreamOK
  <2>6. StreamOK(d, origin[k])
    BY <2>1, <2>2, <2>5 DEF StreamOK, QueueOK, AheadOf, Buffered
  <2>7. StepOK(c, d)
    BY <2>1, <2>2 DEF StepOK
  <2> QED
    BY <2>6, <2>7 DEF d
<1> HIDE DEF N
<1>5. /\ DOMAIN table' = Kept
      /\ \A k \in Kept : table'[k] = N(k) /\ origin'[k] = origin[k]
  BY <1>1
<1>6. ASSUME NEW m \in out'
      PROVE  EchoesFrom(origin'[m.key], m.info.seq, m.info.payload)
  <2>1. PICK k \in Kept : m \in Addressed(k, {p.info : p \in due[k]})
    BY <1>1, <1>6, Zenon
  <2>2. PICK p \in due[k] : m = [key |-> k, info |-> p.info]
    BY <2>1, Zenon DEF Addressed
  <2>3. PendingEchoes(table[k], origin[k]) /\ p \in table[k].pending
    BY <1>2, InvConn DEF StreamOK
  <2>4. m.key = k /\ m.info = p.info
    BY <2>2
  <2> QED
    BY <1>5, <2>3, <2>4, Zenon DEF PendingEchoes
<1> QED
  BY <1>2, <1>4, <1>5, <1>6, Zenon DEF StreamStep

\* close_established sends our FIN behind what has been sent.
LEMMA ClosedStream ==
    ASSUME NEW o \in Origin, NEW c, ConnOK(c), FlightOK(c), StreamOK(c, o),
           c.tcp_state = "Established"
    PROVE  StreamOK(Closed(c), o) /\ StepOK(c, Closed(c))
<1> DEFINE info == DataInfo(c, <<>>, "FinAck")
           b == [c EXCEPT !.tcp_state = "FinWait1"]
           d == Closed(c)
<1>1. /\ ConnOK(b) /\ b.snd_nxt = c.snd_nxt /\ b.snd_una = c.snd_una
      /\ b.pending = c.pending /\ b.tcp_state = "FinWait1" /\ b.rcv_nxt = c.rcv_nxt
  BY DEF ConnOK, ConnState, TcpState
<1>2. info \in SendInfo
  BY ClosedOK
<1>3. info.seq = c.snd_nxt /\ info.payload = <<>> /\ info.flags = "FinAck"
  BY DEF DataInfo
<1>4. d = Sent(b, info)
  BY Zenon DEF Closed
<1> HIDE DEF b, info, d
<1>5. Consumed(info) = 1
  <2>1. Consumed(info) = 1 + Len(<<>>)
    BY <1>3, Zenon DEF Consumed
  <2> QED
    BY <2>1, EmptySeq, SMT
<1>6. Flight(c) <= MaxWnd /\ Flight(c) \in Nat /\ Flight(b) = Flight(c)
  BY <1>1, FlightType DEF FlightOK, SendSideOpen, Flight
<1>7. Consumed(info) # 0 /\ Flight(b) + Consumed(info) <= MaxWnd + 1
  BY <1>5, <1>6, SizeAssumption, SMT
<1>8. PendingOK(c) /\ PendingEchoes(c, o)
  BY DEF StreamOK
<1>9. PendingOK(b)
  BY <1>1, <1>6, <1>8, Zenon DEF PendingOK
<1>10. PendingOK(d) /\ \A p \in d.pending : p \in b.pending \/ p.info = info
  BY <1>1, <1>2, <1>3, <1>4, <1>7, <1>9, SentPending
<1>11. PendingEchoes(d, o)
  BY <1>1, <1>3, <1>8, <1>10, EchoesEmpty, Zenon DEF PendingEchoes
<1>12. /\ d.snd_nxt = Add(c.snd_nxt, 1) /\ d.rcv_nxt = c.rcv_nxt
       /\ d.tcp_state = "FinWait1"
  BY <1>1, <1>4, <1>5 DEF Sent, Push, ConnOK, ConnState
<1>13. Sub(d.snd_nxt, c.snd_nxt) = 1 /\ Sub(d.rcv_nxt, c.rcv_nxt) = 0
  <2>1. c.snd_nxt \in SeqPoint /\ c.rcv_nxt \in SeqPoint /\ 1 \in 0..(SeqMod - 1)
    BY Fields, FarEnd, SMT
  <2> QED
    BY <1>12, <2>1, SubOwn, AddZero
<1>14. StreamOK(d, o)
  BY <1>10, <1>11, <1>12 DEF StreamOK
<1>15. StepOK(c, d)
  BY <1>13, FarEnd, SizeAssumption, SMT DEF StepOK, SendSideOpen
<1> QED
  BY <1>14, <1>15 DEF d

\* The active close.
LEMMA CloseStream ==
    ASSUME StreamInv, CloseEstablished
    PROVE  StreamStep
<1> DEFINE Open == {k \in DOMAIN table : table[k].tcp_state = "Established"}
           N(k) == IF k \in Open THEN Closed(table[k]) ELSE table[k]
<1>1. /\ table' = [k \in DOMAIN table |-> N(k)] /\ origin' = origin
      /\ out' = {[key |-> k, info |-> DataInfo(table[k], <<>>, "FinAck")] : k \in Open}
  BY Zenon DEF CloseEstablished
<1>2. \A k \in DOMAIN table : StreamOK(N(k), origin[k]) /\ StepOK(table[k], N(k))
  BY InvConn, ClosedStream
<1> HIDE DEF N
<1>3. DOMAIN table' = DOMAIN table /\ \A k \in DOMAIN table : table'[k] = N(k)
  BY <1>1
<1>4. \A m \in out' : m.info.payload = <<>>
  BY <1>1 DEF DataInfo
<1> QED
  BY <1>1, <1>2, <1>3, <1>4, EchoesEmpty, Zenon DEF StreamStep

\* Every step keeps the streams in order.
LEMMA NextStream ==
    ASSUME StreamInv, Next, NoAntipodalAck
    PROVE  StreamInv' /\ StreamStep
<1>1. StreamStep
  <2>1. CASE \E k \in ConnKey, seg \in Traffic : Receive(k, seg)
    <3>1. PICK k \in ConnKey, seg \in Traffic : Receive(k, seg)
      BY <2>1
    <3>2. seg \in InSegment
      BY TrafficAssumption
    <3>3. /\ k \in DOMAIN table
          /\ seg.flags \in {"Ack", "FinAck"}
          => ~Antipodal(table[k], seg)
      BY <3>1 DEF NoAntipodalAck
    <3> QED
      BY <3>1, <3>2, <3>3, ReceiveStream
  <2>2. CASE \E due \in DueChoices : MakeRetransmissions(due)
    BY <2>2, TimerStream
  <2>3. CASE CloseEstablished
    BY <2>3, CloseStream
  <2> QED
    BY <2>1, <2>2, <2>3 DEF Next
<1>2. FlightInv'
  BY NextFlight DEF StreamInv
<1>3. StreamInv'
  BY <1>1, <1>2, Zenon DEF StreamStep, StreamInv, StreamOK, PendingOK, PendingEchoes,
     QueueOK, AheadOf, Buffered, Flight
<1> QED
  BY <1>1, <1>3

\* The invariant holds of every reachable state.
LEMMA StreamInvariant ==
    Spec /\ [][NoAntipodalAck]_vars => []StreamInv
<1>1. Init => StreamInv
  <2> SUFFICES ASSUME Init PROVE StreamInv
    OBVIOUS
  <2>1. TypeOK /\ DOMAIN table = {} /\ ~fault /\ out = {}
    BY InitType DEF Init
  <2> QED
    BY <2>1 DEF StreamInv, FlightInv
<1>2. StreamInv /\ [Next]_vars /\ [NoAntipodalAck]_vars => StreamInv'
  <2>1. ASSUME StreamInv, Next, NoAntipodalAck PROVE StreamInv'
    BY <2>1, NextStream
  <2>2. ASSUME StreamInv, UNCHANGED vars PROVE StreamInv'
    <3>1. table' = table /\ origin' = origin /\ out' = out /\ fault' = fault
      BY <2>2 DEF vars
    <3>2. FlightInv'
      BY <2>2, <3>1 DEF StreamInv, FlightInv, TypeOK
    <3> QED
      BY <2>2, <3>1, <3>2, Zenon DEF StreamInv
  <2> QED
    BY <2>1, <2>2
<1> QED
  BY <1>1, <1>2, PTL DEF Spec
-----------------------------------------------------------------------------
(* What it shows.                                                          *)

\* The echo server's promise: on every connection, however the traffic is cut, repeated,
\* reordered and late, and wherever the numbers wrap, the client's bytes come back once each, in order and in their own
\* place, in what the handlers queue, keep pending and send; and until our FIN nothing
\* that was received is missing from the queue.  No antipodal ACK arrives.
THEOREM EchoIsFaithful ==
    Spec /\ [][NoAntipodalAck]_vars => []EchoIntegrity
<1>1. StreamInv => EchoIntegrity
  <2> SUFFICES ASSUME StreamInv PROVE EchoIntegrity
    OBVIOUS
  <2>1. ASSUME NEW k \in DOMAIN table
        PROVE  LET c == table[k]
                   o == origin[k]
                   queued == EchoOf(o, Add(c.snd_nxt, Len(c.send_buffer)))
               IN  /\ \A p \in c.pending : EchoesFrom(o, p.info.seq, p.info.payload)
                   /\ c.tcp_state \in SendSideOpen => EchoesFrom(o, c.snd_nxt, c.send_buffer)
                   /\ c.tcp_state = "Established" => c.rcv_nxt = queued
                   /\ c.tcp_state = "CloseWait" => c.rcv_nxt = Add(queued, 1)
                   /\ c.tcp_state = "LastAck" => c.rcv_nxt = queued
    <3> DEFINE c == table[k]
               o == origin[k]
               n == Len(c.send_buffer)
               queued == EchoOf(o, Add(c.snd_nxt, n))
    <3>1. ConnOK(c) /\ StreamOK(c, o) /\ o \in Origin
      BY InvConn
    <3>2. c.snd_nxt \in SeqPoint /\ n \in Nat
      BY <3>1, Fields, LenProperties
    <3> HIDE DEF c, o, n
    <3>3. queued \in SeqPoint
      BY <3>1, <3>2, AddType, EchoAdvance
    <3>4. Add(queued, 0) = queued
      BY <3>3, AddZero
    <3>5. /\ c.tcp_state \in {"SynReceived", "Established"} => QueueOK(c, o, 0)
          /\ c.tcp_state = "CloseWait" => QueueOK(c, o, 1)
          /\ c.tcp_state = "LastAck" => QueueOK(c, o, 0)
          /\ PendingEchoes(c, o)
      BY <3>1 DEF StreamOK
    <3>6. /\ c.tcp_state \in SendSideOpen => EchoesFrom(o, c.snd_nxt, c.send_buffer)
          /\ c.tcp_state = "Established" => c.rcv_nxt = queued
          /\ c.tcp_state = "CloseWait" => c.rcv_nxt = Add(queued, 1)
          /\ c.tcp_state = "LastAck" => c.rcv_nxt = queued
      BY <3>4, <3>5 DEF QueueOK, SendSideOpen, n
    <3> QED
      BY <3>5, <3>6, Zenon DEF PendingEchoes, c, o, n
  <2> QED
    BY <2>1, Zenon DEF StreamInv, EchoIntegrity
<1> QED
  BY <1>1, StreamInvariant, PTL

\* Retransmission misses nothing: every number in flight is held by a pending segment,
\* so the pruning of incoming_ack_update and the clear of complete_handshake drop only
\* what the peer has acknowledged, unless an antipodal ACK arrives.
THEOREM RetransmissionIsComplete ==
    Spec /\ [][NoAntipodalAck]_vars => []UnackedIsPending
<1>1. StreamInv => UnackedIsPending
  BY Zenon DEF StreamInv, StreamOK, PendingOK, Flight, UnackedIsPending
<1> QED
  BY <1>1, StreamInvariant, PTL

\* And nothing in vain: what is pending ends past SND.UNA and not past SND.NXT, so no
\* acknowledged segment is sent again or exhausts its retries.  No antipodal ACK arrives.
THEOREM RetransmissionIsNeeded ==
    Spec /\ [][NoAntipodalAck]_vars => []PendingIsUnacked
<1>1. StreamInv => PendingIsUnacked
  BY Zenon DEF StreamInv, StreamOK, PendingOK, Flight, PendingIsUnacked
<1> QED
  BY <1>1, StreamInvariant, PTL

\* close_wait_or_last_ack sends our FIN with the last queued byte: CLOSE-WAIT has
\* something left to send, LAST-ACK nothing, unless an antipodal ACK arrives.
THEOREM FinGoesLast ==
    Spec /\ [][NoAntipodalAck]_vars => []FinWithLastByte
<1>1. StreamInv => FinWithLastByte
  BY Zenon DEF StreamInv, StreamOK, FinWithLastByte
<1> QED
  BY <1>1, StreamInvariant, PTL

\* drain_contiguous leaves nothing behind whose turn has come, and a FIN that has been
\* reached has been acted on, unless an antipodal ACK arrives.
THEOREM ReassemblyIsComplete ==
    Spec /\ [][NoAntipodalAck]_vars => []NothingStranded
<1>1. StreamInv => NothingStranded
  <2> SUFFICES ASSUME StreamInv, NEW k \in DOMAIN table, table[k].tcp_state = "Established"
               PROVE  /\ \A s \in Buffered(table[k]) : ~PrecedesOrEq(s, table[k].rcv_nxt)
                      /\ ~FinReached(table[k])
    BY Zenon DEF NothingStranded
  <2> DEFINE c == table[k]
  <2>1. ConnOK(c) /\ AheadOf(c, c.rcv_nxt)
    BY InvConn DEF StreamOK
  <2>2. c.rcv_nxt \in SeqPoint /\ c.fin_seq \subseteq SeqPoint
    BY <2>1, Fields
  <2> HIDE DEF c
  <2>3. 1..(RcvWnd - 1) \subseteq 1..(Half - 1)
        /\ 1..(RcvWnd + MaxSegLen - 1) \subseteq 1..(Half - 1)
    BY FarEnd, SMT
  <2>4. \A s \in Buffered(c) : ~PrecedesOrEq(s, c.rcv_nxt)
    <3>1. \A s \in Buffered(c) : s \in SeqPoint /\ Sub(s, c.rcv_nxt) \in 1..(Half - 1)
      BY <2>1, <2>3, Zenon DEF AheadOf, Buffered
    <3> QED
      BY <2>2, <3>1, AheadNotReached
  <2>5. \A f \in c.fin_seq : ~PrecedesOrEq(f, c.rcv_nxt)
    <3>1. \A f \in c.fin_seq : f \in SeqPoint /\ Sub(f, c.rcv_nxt) \in 1..(Half - 1)
      BY <2>1, <2>2, <2>3, Zenon DEF AheadOf
    <3> QED
      BY <2>2, <3>1, AheadNotReached
  <2> QED
    BY <2>4, <2>5 DEF FinReached, c
<1> QED
  BY <1>1, StreamInvariant, PTL

\* No step takes a stream back: RCV.NXT moves forward by less than half the space,
\* SND.NXT by at most a full segment and our FIN, and not at all after the FIN.  No
\* antipodal ACK arrives.
THEOREM StreamsOnlyAdvance ==
    Spec /\ [][NoAntipodalAck]_vars => NeverBack
<1> DEFINE A == \A k \in DOMAIN table \cap DOMAIN table' :
                    LET c == table[k]
                        d == table'[k]
                    IN  /\ Sub(d.rcv_nxt, c.rcv_nxt) < Half
                        /\ Sub(d.snd_nxt, c.snd_nxt) <= MaxPayloadLen + 1
                        /\ c.tcp_state \notin SendSideOpen \cup {"SynReceived"} =>
                               d.snd_nxt = c.snd_nxt
<1>1. StreamInv /\ [Next]_vars /\ [NoAntipodalAck]_vars => [A]_vars
  <2>1. ASSUME StreamInv, Next, NoAntipodalAck PROVE A
    BY <2>1, NextStream, Zenon DEF StreamStep, StepOK
  <2> QED
    BY <2>1
<1> QED
  BY <1>1, StreamInvariant, PTL DEF Spec, NeverBack
=============================================================================
