---------------------------- MODULE TcpConnProofs ----------------------------
(***************************************************************************)
(* Facts about the circular sequence space, for every size of the space,   *)
(* and what the operations on one connection preserve: the result of each  *)
(* is a well-formed connection, for every window, segment and space size.  *)
(***************************************************************************)
EXTENDS TcpConn, TLAPS, FiniteSetTheorems, SequenceTheorems

-----------------------------------------------------------------------------
(* The sequence space.                                                     *)

\* Wrapping addition of a small offset, without the modulus.
LEMMA AddCases ==
    ASSUME NEW p \in SeqPoint, NEW n \in 0..SeqMod
    PROVE  Add(p, n) = IF p + n < SeqMod THEN p + n ELSE p + n - SeqMod
BY HalfAssumption, SMT DEF SeqPoint, SeqMod, Add

\* Wrapping subtraction of two points, without the modulus.
LEMMA SubCases ==
    ASSUME NEW p \in SeqPoint, NEW q \in SeqPoint
    PROVE  Sub(p, q) = IF p >= q THEN p - q ELSE p - q + SeqMod
BY HalfAssumption, SMT DEF SeqPoint, SeqMod, Sub

\* Wrapping addition of any offset is a point.
LEMMA AddType ==
    ASSUME NEW p \in SeqPoint, NEW n \in Nat
    PROVE  Add(p, n) \in SeqPoint
BY HalfAssumption, SMT DEF SeqPoint, SeqMod, Add

\* An offset is less than the size of the space.
LEMMA SubType ==
    ASSUME NEW p \in SeqPoint, NEW q \in SeqPoint
    PROVE  Sub(p, q) \in 0..(SeqMod - 1)
BY HalfAssumption, SubCases, SMT DEF SeqPoint, SeqMod

\* A window grows by what its far end advances, as long as it does not wrap around.
LEMMA SubAdvance ==
    ASSUME NEW p \in SeqPoint, NEW q \in SeqPoint, NEW n \in Nat,
           Sub(p, q) + n < SeqMod
    PROVE  Sub(Add(p, n), q) = Sub(p, q) + n
<1>1. n \in 0..SeqMod
  BY HalfAssumption, SubType, SMT DEF SeqMod
<1>2. Add(p, n) \in SeqPoint
  BY AddType
<1>3. Add(p, n) = IF p + n < SeqMod THEN p + n ELSE p + n - SeqMod
  BY <1>1, AddCases
<1>4. Sub(p, q) = IF p >= q THEN p - q ELSE p - q + SeqMod
  BY SubCases
<1>5. Sub(Add(p, n), q) = IF Add(p, n) >= q THEN Add(p, n) - q ELSE Add(p, n) - q + SeqMod
  BY <1>2, SubCases
<1> QED
  BY <1>3, <1>4, <1>5, HalfAssumption, SMT DEF SeqPoint, SeqMod

\* precedes_or_eq twice brackets an acknowledgment: when less than half of the space is
\* in flight and the acknowledgment is not antipodal (exactly half of the space away, with
\* nothing in flight), one that passes both comparisons of incoming_ack_update lies between SND.UNA and SND.NXT.
LEMMA AckBracketed ==
    ASSUME NEW una \in SeqPoint, NEW nxt \in SeqPoint, NEW ack \in SeqPoint,
           Sub(nxt, una) < Half,
           ~(una = nxt /\ Sub(ack, una) = Half),
           PrecedesOrEq(una, ack), PrecedesOrEq(ack, nxt)
    PROVE  /\ Sub(ack, una) <= Sub(nxt, una)
           /\ Sub(nxt, ack) = Sub(nxt, una) - Sub(ack, una)
<1>1. Sub(nxt, una) = IF nxt >= una THEN nxt - una ELSE nxt - una + SeqMod
  BY SubCases
<1>2. Sub(ack, una) = IF ack >= una THEN ack - una ELSE ack - una + SeqMod
  BY SubCases
<1>3. Sub(una, ack) = IF una >= ack THEN una - ack ELSE una - ack + SeqMod
  BY SubCases
<1>4. Sub(ack, nxt) = IF ack >= nxt THEN ack - nxt ELSE ack - nxt + SeqMod
  BY SubCases
<1>5. Sub(nxt, ack) = IF nxt >= ack THEN nxt - ack ELSE nxt - ack + SeqMod
  BY SubCases
<1> QED
  BY <1>1, <1>2, <1>3, <1>4, <1>5, HalfAssumption, SMT
     DEF SeqPoint, SeqMod, PrecedesOrEq, Precedes

\* With one number in flight, the comparisons of handle_syn_rcv accept exactly the
\* acknowledgment of that number, wherever in the space the acknowledgment lies.
LEMMA OneInFlight ==
    ASSUME NEW una \in SeqPoint, NEW nxt \in SeqPoint, NEW ack \in SeqPoint,
           Sub(nxt, una) = 1, 1 < Half,
           Precedes(una, ack), PrecedesOrEq(ack, nxt)
    PROVE  ack = nxt
<1>1. Sub(nxt, una) = IF nxt >= una THEN nxt - una ELSE nxt - una + SeqMod
  BY SubCases
<1>2. Sub(una, ack) = IF una >= ack THEN una - ack ELSE una - ack + SeqMod
  BY SubCases
<1>3. Sub(ack, nxt) = IF ack >= nxt THEN ack - nxt ELSE ack - nxt + SeqMod
  BY SubCases
<1> QED
  BY <1>1, <1>2, <1>3, HalfAssumption, SMT DEF SeqPoint, SeqMod, PrecedesOrEq, Precedes
-----------------------------------------------------------------------------
(* Wrapping arithmetic with any offset.                                    *)

\* Quotient and remainder are unique.
LEMMA ModUnique ==
    ASSUME NEW M \in Nat \ {0}, NEW a \in Int, NEW q \in Int, NEW r \in 0..(M - 1),
           a = M * q + r
    PROVE  a % M = r
BY SMT

\* The remainder, and the quotient it leaves.
LEMMA ModDef ==
    ASSUME NEW M \in Nat \ {0}, NEW a \in Int
    PROVE  /\ a % M \in 0..(M - 1)
           /\ \E q \in Int : a = M * q + (a % M)
<1>1. a % M \in 0..(M - 1)
  BY SMT
<1>2. a \div M \in Int /\ a = (M * (a \div M)) + (a % M)
  BY SMT
<1> QED
  BY <1>1, <1>2

\* A remainder taken early changes nothing.
LEMMA ModAbsorb ==
    ASSUME NEW M \in Nat \ {0}, NEW a \in Int, NEW b \in Int
    PROVE  ((a % M) + b) % M = (a + b) % M
<1>1. PICK q \in Int : a = M * q + (a % M)
  BY ModDef
<1>2. a % M \in 0..(M - 1) /\ a % M \in Int
  BY ModDef, SMT
<1> DEFINE r == a % M
           t == (r + b) % M
<1>3. r + b \in Int
  BY <1>2, SMT
<1>4. t \in 0..(M - 1) /\ \E p \in Int : r + b = M * p + t
  BY <1>3, ModDef
<1>5. PICK p \in Int : r + b = M * p + t
  BY <1>4
<1> HIDE DEF t
<1>6. r \in Int /\ a = M * q + r
  BY <1>1, <1>2
<1> HIDE DEF r
<1>7. M * q \in Int /\ M * p \in Int /\ t \in Int /\ M * (q + p) = M * q + M * p /\ q + p \in Int
  BY <1>4, SMT
<1>8. a + b = M * (q + p) + t
  BY <1>5, <1>6, <1>7, SMT
<1>9. (a + b) % M = t
  <2>1. a + b \in Int /\ q + p \in Int /\ t \in 0..(M - 1)
    BY <1>4, SMT
  <2> QED
    BY <1>8, <2>1, ModUnique, Zenon
<1> QED
  BY <1>9 DEF t, r

\* Wrapping additions one after the other are one wrapping addition.
LEMMA AddAdd ==
    ASSUME NEW p \in Int, NEW m \in Int, NEW n \in Int
    PROVE  Add(Add(p, m), n) = Add(p, m + n)
<1>1. SeqMod \in Nat \ {0} /\ p + m \in Int /\ (p + m) + n = p + (m + n)
  BY HalfAssumption, SMT DEF SeqMod
<1>2. (((p + m) % SeqMod) + n) % SeqMod = ((p + m) + n) % SeqMod
  BY <1>1, ModAbsorb
<1> QED
  BY <1>1, <1>2 DEF Add

\* So is the addition of a sum that has wrapped.
LEMMA AddOfAdd ==
    ASSUME NEW p \in Int, NEW m \in Int, NEW n \in Int
    PROVE  Add(p, Add(m, n)) = Add(p, m + n)
<1>1. /\ SeqMod \in Nat \ {0} /\ m + n \in Int
      /\ (m + n) + p = p + (m + n)
      /\ ((m + n) % SeqMod) + p = p + ((m + n) % SeqMod)
  BY HalfAssumption, SMT DEF SeqMod
<1>2. (((m + n) % SeqMod) + p) % SeqMod = ((m + n) + p) % SeqMod
  BY <1>1, ModAbsorb
<1> QED
  BY <1>1, <1>2 DEF Add

\* Offset and addition commute, whatever wraps.
LEMMA SubOfAdd ==
    ASSUME NEW p \in Int, NEW n \in Int, NEW q \in Int
    PROVE  Sub(Add(p, n), q) = Add(Sub(p, q), n)
<1>1. /\ SeqMod \in Nat \ {0} /\ p + n \in Int /\ p - q \in Int /\ 0 - q \in Int
      /\ (p + n) + (0 - q) = (p - q) + n
      /\ ((p + n) % SeqMod) + (0 - q) = ((p + n) % SeqMod) - q
  BY HalfAssumption, SMT DEF SeqMod
<1>2. /\ (((p + n) % SeqMod) + (0 - q)) % SeqMod = ((p + n) + (0 - q)) % SeqMod
      /\ (((p - q) % SeqMod) + n) % SeqMod = ((p - q) + n) % SeqMod
  BY <1>1, ModAbsorb
<1> QED
  BY <1>1, <1>2 DEF Add, Sub
-----------------------------------------------------------------------------
(* Offsets seen from different points.                                     *)

\* The offset from a point to another leads there.
LEMMA AddSub ==
    ASSUME NEW p \in SeqPoint, NEW q \in SeqPoint
    PROVE  Add(p, Sub(q, p)) = q
<1>1. Sub(q, p) \in 0..SeqMod
  BY SubType, HalfAssumption, SMT DEF SeqMod
<1>2. Sub(q, p) = IF q >= p THEN q - p ELSE q - p + SeqMod
  BY SubCases
<1>3. Add(p, Sub(q, p)) = IF p + Sub(q, p) < SeqMod THEN p + Sub(q, p) ELSE p + Sub(q, p) - SeqMod
  BY <1>1, AddCases
<1> QED
  BY <1>2, <1>3, HalfAssumption, SMT DEF SeqPoint, SeqMod

\* Adding nothing.
LEMMA AddZero ==
    ASSUME NEW p \in SeqPoint
    PROVE  Add(p, 0) = p /\ Sub(p, p) = 0
<1>1. 0 \in 0..SeqMod
  BY HalfAssumption, SMT DEF SeqMod
<1>2. Add(p, 0) = IF p + 0 < SeqMod THEN p + 0 ELSE p + 0 - SeqMod
  BY <1>1, AddCases
<1>3. Sub(p, p) = IF p >= p THEN p - p ELSE p - p + SeqMod
  BY SubCases
<1> QED
  BY <1>2, <1>3, HalfAssumption, SMT DEF SeqPoint, SeqMod

\* Offsets from two bases: seen from b, which lies a past base, a point that lies x
\* past base lies x - a past b, or behind it when x is less than a.
LEMMA SubRebase ==
    ASSUME NEW base \in SeqPoint, NEW b \in SeqPoint, NEW p \in SeqPoint
    PROVE  Sub(p, b) = IF Sub(p, base) >= Sub(b, base) THEN Sub(p, base) - Sub(b, base)
                       ELSE Sub(p, base) - Sub(b, base) + SeqMod
<1>1. Sub(p, b) = IF p >= b THEN p - b ELSE p - b + SeqMod
  BY SubCases
<1>2. Sub(p, base) = IF p >= base THEN p - base ELSE p - base + SeqMod
  BY SubCases
<1>3. Sub(b, base) = IF b >= base THEN b - base ELSE b - base + SeqMod
  BY SubCases
<1> QED
  BY <1>1, <1>2, <1>3, HalfAssumption, SMT DEF SeqPoint, SeqMod

\* The offset of a point n past p is n.
LEMMA SubOwn ==
    ASSUME NEW p \in SeqPoint, NEW n \in 0..(SeqMod - 1)
    PROVE  Sub(Add(p, n), p) = n
<1>1. n \in Nat /\ Sub(p, p) = 0 /\ Sub(p, p) + n < SeqMod
  BY AddZero, HalfAssumption, SMT DEF SeqMod
<1>2. Sub(Add(p, n), p) = Sub(p, p) + n
  BY <1>1, SubAdvance
<1> QED
  BY <1>1, <1>2, SMT

\* What an acknowledgment in the flight does not cover ends past it.
LEMMA EndsPastAck ==
    ASSUME NEW una \in SeqPoint, NEW nxt \in SeqPoint, NEW ack \in SeqPoint,
           NEW e \in SeqPoint,
           Sub(nxt, una) < Half,
           Sub(ack, una) <= Sub(nxt, una),
           Sub(e, una) \in 1..Sub(nxt, una),
           ~PrecedesOrEq(e, ack)
    PROVE  Sub(e, ack) \in 1..Sub(nxt, ack)
<1>1. /\ Sub(e, ack) = IF Sub(e, una) >= Sub(ack, una) THEN Sub(e, una) - Sub(ack, una)
                       ELSE Sub(e, una) - Sub(ack, una) + SeqMod
      /\ Sub(nxt, ack) = IF Sub(nxt, una) >= Sub(ack, una) THEN Sub(nxt, una) - Sub(ack, una)
                         ELSE Sub(nxt, una) - Sub(ack, una) + SeqMod
  BY SubRebase
<1>2. /\ Sub(e, una) \in Int /\ Sub(ack, una) \in Nat /\ Sub(nxt, una) \in Nat
      /\ Sub(e, ack) \in Nat
  BY SubType, HalfAssumption, SMT DEF SeqMod
<1>3. Sub(e, ack) < Half
  BY <1>2, HalfAssumption, SMT DEF PrecedesOrEq, Precedes
<1>4. Sub(e, ack) # 0
  <2>1. Add(ack, 0) = ack
    BY AddZero
  <2>2. Add(ack, Sub(e, ack)) = e
    BY AddSub
  <2> QED
    BY <2>1, <2>2 DEF PrecedesOrEq
<1> QED
  BY <1>1, <1>2, <1>3, <1>4, HalfAssumption, SMT DEF SeqMod

\* A segment that holds a number past the acknowledgment is not covered by it.
LEMMA HoldsNotCovered ==
    ASSUME NEW una \in SeqPoint, NEW nxt \in SeqPoint, NEW ack \in SeqPoint,
           NEW q \in SeqPoint, NEW n \in 1..Half, NEW pt \in SeqPoint,
           Sub(nxt, una) < Half,
           Sub(ack, una) <= Sub(pt, una), Sub(pt, una) < Sub(nxt, una),
           Sub(Add(q, n), una) \in 1..Sub(nxt, una),
           Sub(pt, q) < n
    PROVE  ~PrecedesOrEq(Add(q, n), ack)
<1> DEFINE e == Add(q, n)
<1>1. n \in Nat /\ n \in 0..(SeqMod - 1)
  BY HalfAssumption, SMT DEF SeqMod
<1>2. e \in SeqPoint /\ Sub(e, q) = n
  BY <1>1, AddType, SubOwn
<1> HIDE DEF e
<1>3. /\ Sub(e, ack) = IF Sub(e, una) >= Sub(ack, una) THEN Sub(e, una) - Sub(ack, una)
                       ELSE Sub(e, una) - Sub(ack, una) + SeqMod
      /\ Sub(pt, e) = IF Sub(pt, una) >= Sub(e, una) THEN Sub(pt, una) - Sub(e, una)
                      ELSE Sub(pt, una) - Sub(e, una) + SeqMod
      /\ Sub(pt, e) = IF Sub(pt, q) >= Sub(e, q) THEN Sub(pt, q) - Sub(e, q)
                      ELSE Sub(pt, q) - Sub(e, q) + SeqMod
  BY <1>2, SubRebase
<1>4. /\ Sub(e, una) \in Nat /\ Sub(ack, una) \in Nat /\ Sub(nxt, una) \in Nat
      /\ Sub(pt, una) \in Nat /\ Sub(pt, q) \in Nat
  BY <1>2, SubType, HalfAssumption, SMT DEF SeqMod
<1>5. Sub(e, una) \in 1..Sub(nxt, una)
  BY DEF e
<1>6. Sub(e, una) > Sub(ack, una)
  BY <1>1, <1>2, <1>3, <1>4, HalfAssumption, SMT DEF SeqMod
<1>7. Sub(e, ack) \in 1..(Half - 1)
  BY <1>3, <1>4, <1>5, <1>6, HalfAssumption, SMT DEF SeqMod
<1>8. e # ack
  <2>1. Sub(ack, ack) = 0
    BY AddZero
  <2> QED
    BY <1>7, <2>1, HalfAssumption, SMT
<1>9. ~PrecedesOrEq(e, ack)
  BY <1>7, <1>8, HalfAssumption, SMT DEF PrecedesOrEq, Precedes
<1> QED
  BY <1>9 DEF e

\* in_window: the points strictly ahead of start and less than len past it.
LEMMA WindowOffsets ==
    ASSUME NEW p \in SeqPoint, NEW start \in SeqPoint, NEW len \in 1..(Half - 1),
           p # start, InWindow(p, start, len)
    PROVE  Sub(p, start) \in 1..(len - 1)
<1> DEFINE stop == Add(start, len)
<1>1. len \in Nat /\ len \in 0..(SeqMod - 1)
  BY HalfAssumption, SMT DEF SeqMod
<1>2. stop \in SeqPoint /\ Sub(stop, start) = len
  BY <1>1, AddType, SubOwn
<1>3. Sub(start, p) >= Half /\ Sub(p, stop) >= Half
  BY Zenon DEF InWindow, PrecedesOrEq, Precedes
<1> HIDE DEF stop
<1>4. /\ Sub(p, stop) = IF Sub(p, start) >= Sub(stop, start) THEN Sub(p, start) - Sub(stop, start)
                        ELSE Sub(p, start) - Sub(stop, start) + SeqMod
      /\ Sub(start, p) = IF Sub(start, start) >= Sub(p, start) THEN Sub(start, start) - Sub(p, start)
                         ELSE Sub(start, start) - Sub(p, start) + SeqMod
      /\ Sub(start, start) = 0
  BY <1>2, SubRebase, AddZero
<1>5. Sub(p, start) \in Nat
  BY SubType, SMT
<1> QED
  BY <1>1, <1>2, <1>3, <1>4, <1>5, HalfAssumption, SMT DEF SeqMod

-----------------------------------------------------------------------------
(* One connection.                                                         *)

\* A connection as TypeOK requires it.
ConnOK(c) == c \in ConnState /\ IsFiniteSet(c.pending)

\* A handler's result: a connection, and replies that are segments.
ResultOK(r) == /\ ConnOK(r.conn)
               /\ r.reply \subseteq SendInfo
               /\ r.err \in BOOLEAN
-----------------------------------------------------------------------------
\* Updating one field with a value of its type keeps a connection well formed.
LEMMA UpdateOK ==
    ASSUME NEW c, ConnOK(c)
    PROVE  /\ \A v \in TcpState : ConnOK([c EXCEPT !.tcp_state = v])
           /\ \A v \in SeqPoint : ConnOK([c EXCEPT !.snd_nxt = v])
           /\ \A v \in SeqPoint : ConnOK([c EXCEPT !.rcv_nxt = v])
           /\ \A v \in SeqPoint : ConnOK([c EXCEPT !.snd_una = v])
           /\ \A v \in WindowState : ConnOK([c EXCEPT !.window = v])
           /\ \A v \in SUBSET PendingSegment :
                 IsFiniteSet(v) => ConnOK([c EXCEPT !.pending = v])
           /\ \A v \in Seq(SeqPoint) : ConnOK([c EXCEPT !.send_buffer = v])
           /\ \A v \in Reassembly : ConnOK([c EXCEPT !.segments = v])
           /\ \A v \in SUBSET SeqPoint : ConnOK([c EXCEPT !.fin_seq = v])
BY Zenon DEF ConnState, ConnOK

\* The fields of a well-formed connection.
LEMMA Fields ==
    ASSUME NEW c, ConnOK(c)
    PROVE  /\ c.tcp_state \in TcpState
           /\ c.snd_nxt \in SeqPoint
           /\ c.rcv_nxt \in SeqPoint
           /\ c.snd_una \in SeqPoint
           /\ c.window \in WindowState
           /\ c.pending \in SUBSET PendingSegment
           /\ IsFiniteSet(c.pending)
           /\ c.send_buffer \in Seq(SeqPoint)
           /\ c.segments \in Reassembly
           /\ c.fin_seq \in SUBSET SeqPoint
BY Zenon DEF ConnState, ConnOK

\* What a segment occupies is a natural number.
LEMMA ConsumedType ==
    ASSUME NEW info \in SendInfo
    PROVE  Consumed(info) \in Nat
<1>1. info.payload \in Seq(SeqPoint)
  BY DEF SendInfo
<1>2. Len(info.payload) \in Nat
  BY <1>1, LenProperties
<1>3. CASE info.flags \in {"Syn", "SynAck", "FinAck"}
  BY <1>2, <1>3, SMT DEF Consumed
<1>4. CASE info.flags \notin {"Syn", "SynAck", "FinAck"}
  BY <1>2, <1>4, SMT DEF Consumed
<1> QED
  BY <1>3, <1>4

\* A pure acknowledgment is a segment.
LEMMA PureAckType ==
    ASSUME NEW c, ConnOK(c)
    PROVE  PureAck(c) \in SendInfo
<1>1. <<>> \in Seq(SeqPoint)
  BY EmptySeq
<1> QED
  BY <1>1, Fields DEF PureAck, SendInfo, TcpFlags

\* Pushing onto conn.pending keeps the connection well formed.
LEMMA PushOK ==
    ASSUME NEW c, ConnOK(c), NEW info \in SendInfo
    PROVE  ConnOK(Push(c, info))
<1> DEFINE same == {p \in c.pending : p.info = info}
           new  == [info |-> info, retries |-> 0, copy |-> Cardinality(same)]
<1>1. IsFiniteSet(same)
  BY Fields, FS_Subset
<1>2. Cardinality(same) \in Nat
  BY <1>1, FS_CardinalityType
<1>3. new \in PendingSegment
  BY <1>2 DEF PendingSegment
<1> DEFINE P == c.pending \cup {new}
<1>4. IsFiniteSet(P)
  BY Fields, FS_AddElement
<1>5. Push(c, info) = [c EXCEPT !.pending = P]
  BY DEF Push
<1>6. P \in SUBSET PendingSegment
  BY <1>3, Fields
<1> HIDE DEF P
<1>7. ConnOK([c EXCEPT !.pending = P])
  BY <1>4, <1>6, UpdateOK, Zenon
<1> QED
  BY <1>5, <1>7

\* So does sending a segment.
LEMMA SentOK ==
    ASSUME NEW c, ConnOK(c), NEW info \in SendInfo
    PROVE  ConnOK(Sent(c, info))
<1> DEFINE d == [c EXCEPT !.snd_nxt = Add(c.snd_nxt, Consumed(info))]
<1>1. Add(c.snd_nxt, Consumed(info)) \in SeqPoint
  BY ConsumedType, AddType, Fields
<1>2. ConnOK(d)
  BY <1>1, UpdateOK
<1>3. Sent(c, info) = Push(d, info)
  BY DEF Sent
<1> HIDE DEF d
<1> QED
  BY <1>2, <1>3, PushOK

\* The bytes of the client's stream are sequences of points.
LEMMA BytesType ==
    ASSUME NEW p \in SeqPoint, NEW n \in Nat
    PROVE  /\ Bytes(p, n) \in Seq(SeqPoint)
           /\ Len(Bytes(p, n)) = n
<1>1. \A i \in 1..n : i - 1 \in Nat
  BY SMT
<1>2. Bytes(p, n) \in [1..n -> SeqPoint]
  BY <1>1, AddType, Zenon DEF Bytes
<1>3. Bytes(p, n) \in Seq(SeqPoint)
  BY <1>2, SeqDef
<1>4. DOMAIN Bytes(p, n) = 1..n /\ DOMAIN Bytes(p, n) = 1..Len(Bytes(p, n))
  BY <1>2, <1>3, LenProperties
<1>5. Len(Bytes(p, n)) \in Nat
  BY <1>3, LenProperties
<1> QED
  BY <1>3, <1>4, <1>5, SMT

\* RCV.NXT may advance by any number of bytes.
LEMMA AdvanceRcvOK ==
    ASSUME NEW c, ConnOK(c), NEW n \in Nat
    PROVE  ConnOK(AdvanceRcv(c, n))
BY AddType, Fields, UpdateOK, Zenon DEF AdvanceRcv

\* Delivery to the application keeps the connection well formed.
LEMMA DeliverOK ==
    ASSUME NEW c, ConnOK(c), NEW q \in SeqPoint, NEW n \in Nat
    PROVE  ConnOK(Deliver(c, q, n))
<1> DEFINE d == AdvanceRcv(c, n)
           b == c.send_buffer \o Bytes(q, n)
<1>1. c.send_buffer \in Seq(SeqPoint)
  BY Fields
<1>2. b \in Seq(SeqPoint)
  BY <1>1, BytesType, ConcatProperties
<1>3. ConnOK(d)
  BY AdvanceRcvOK
<1>4. d.send_buffer = c.send_buffer
  BY DEF AdvanceRcv, ConnOK, ConnState
<1>5. Deliver(c, q, n) = [d EXCEPT !.send_buffer = b]
  BY <1>4, Zenon DEF Deliver
<1> HIDE DEF d, b
<1> QED
  BY <1>2, <1>3, <1>5, UpdateOK
-----------------------------------------------------------------------------
(* Acknowledgments and the send window.                                    *)

\* The fields of an incoming segment.
LEMMA SegFields ==
    ASSUME NEW seg \in InSegment
    PROVE  /\ seg.seq \in SeqPoint
           /\ seg.ack \in SeqPoint
           /\ seg.flags \in TcpFlags
           /\ seg.wnd \in 0..MaxWnd
           /\ seg.len \in 0..MaxSegLen
           /\ seg.len \in Nat
BY SizeAssumption, SMT DEF InSegment

\* The window of a segment is a window.
LEMMA WindowFromType ==
    ASSUME NEW seg \in InSegment
    PROVE  WindowFrom(seg) \in WindowState
BY SegFields, Zenon DEF WindowFrom, WindowState

\* Pruning and moving SND.UNA keep the connection well formed.
LEMMA AckedByOK ==
    ASSUME NEW c, ConnOK(c), NEW seg \in InSegment
    PROVE  ConnOK(AckedBy(c, seg))
<1> DEFINE d == [c EXCEPT !.snd_una = seg.ack]
           P == {p \in c.pending : ~IsCoveredBy(p, seg.ack)}
<1>1. ConnOK(d)
  BY SegFields, UpdateOK, Zenon
<1>2. P \in SUBSET PendingSegment
  BY Fields
<1>3. IsFiniteSet(P)
  BY Fields, FS_Subset
<1>4. AckedBy(c, seg) \in {c, [d EXCEPT !.pending = P]}
  BY DEF AckedBy, ConnOK, ConnState
<1> HIDE DEF d, P
<1>5. ConnOK([d EXCEPT !.pending = P])
  BY <1>1, <1>2, <1>3, UpdateOK, Zenon
<1> QED
  BY <1>4, <1>5

\* The window that incoming_ack_update returns is a window.
LEMMA WindowAfterType ==
    ASSUME NEW c, ConnOK(c), NEW seg \in InSegment
    PROVE  WindowAfter(c, seg) \in WindowState
BY Fields, WindowFromType, Zenon DEF WindowAfter

\* incoming_ack_update keeps the connection well formed.
LEMMA AckUpdateOK ==
    ASSUME NEW c, ConnOK(c), NEW seg \in InSegment
    PROVE  ConnOK(AckUpdate(c, seg))
BY AckedByOK, WindowAfterType, UpdateOK, Zenon DEF AckUpdate

\* drain_transmittable takes no more than there is, than one segment carries, and than
\* the window leaves open.
LEMMA TransmittableBounds ==
    ASSUME NEW c, ConnOK(c), NEW w \in WindowState
    PROVE  /\ Transmittable(c, w) \in 0..Len(c.send_buffer)
           /\ Transmittable(c, w) <= MaxPayloadLen
           /\ Transmittable(c, w) > 0 =>
                 Sub(c.snd_nxt, c.snd_una) + Transmittable(c, w) <= w.wnd
<1>1. Len(c.send_buffer) \in Nat
  BY Fields, LenProperties
<1>2. Sub(c.snd_nxt, c.snd_una) \in Nat
  BY Fields, SubType, HalfAssumption, SMT DEF SeqMod
<1>3. w.wnd \in Nat
  BY SizeAssumption, SMT DEF WindowState
<1> QED
  BY <1>1, <1>2, <1>3, SizeAssumption, SMT DEF Transmittable, Least

\* Draining splits the send buffer in two.
LEMMA DrainedOK ==
    ASSUME NEW c, ConnOK(c), NEW n \in 0..Len(c.send_buffer)
    PROVE  /\ Chunk(c, n) \in Seq(SeqPoint)
           /\ Len(Chunk(c, n)) = n
           /\ ConnOK(Drained(c, n))
<1>1. c.send_buffer \in Seq(SeqPoint) /\ Len(c.send_buffer) \in Nat
  BY Fields, LenProperties
<1>2. \A i \in 1..Len(c.send_buffer) : c.send_buffer[i] \in SeqPoint
  BY <1>1, ElementOfSeq
<1>3. \A i \in 1..n : c.send_buffer[i] \in SeqPoint
  BY <1>1, <1>2, SMT
<1>4. \A i \in (n + 1)..Len(c.send_buffer) : c.send_buffer[i] \in SeqPoint
  BY <1>1, <1>2, SMT
<1>5. n \in Int /\ 1 \in Int /\ n + 1 \in Int /\ Len(c.send_buffer) \in Int
  BY <1>1, SMT
<1>6. Chunk(c, n) \in Seq(SeqPoint)
  BY <1>3, <1>5, SubSeqProperties, Zenon DEF Chunk
<1>7. SubSeq(c.send_buffer, n + 1, Len(c.send_buffer)) \in Seq(SeqPoint)
  BY <1>4, <1>5, SubSeqProperties, Zenon
<1>8. ConnOK(Drained(c, n))
  BY <1>7, UpdateOK, Zenon DEF Drained
<1>9. Len(Chunk(c, n)) = n
  BY <1>3, <1>5, SubSeqProperties, SMT DEF Chunk
<1> QED
  BY <1>6, <1>8, <1>9

\* A segment the server builds from a payload is a segment.
LEMMA DataInfoType ==
    ASSUME NEW c, ConnOK(c), NEW payload \in Seq(SeqPoint), NEW flags \in {"Ack", "FinAck"}
    PROVE  DataInfo(c, payload, flags) \in SendInfo
<1>1. flags \in TcpFlags
  BY DEF TcpFlags
<1> QED
  BY <1>1, Fields DEF DataInfo, SendInfo

\* The results of handlers.
LEMMA ResultsOK ==
    ASSUME NEW c, ConnOK(c), NEW reply \in SUBSET SendInfo
    PROVE  ResultOK(Result(c, reply)) /\ ResultOK(Failed(c))
BY DEF ResultOK, Result, Failed

\* Sending more of the send buffer keeps the connection well formed.
LEMMA SendMoreOK ==
    ASSUME NEW c, ConnOK(c), NEW idle \in SUBSET SendInfo
    PROVE  ResultOK(SendMore(c, idle))
<1> DEFINE n    == Transmittable(c, c.window)
           info == DataInfo(c, Chunk(c, n), "Ack")
           d    == Drained(c, n)
<1>1. n \in 0..Len(c.send_buffer)
  BY Fields, TransmittableBounds
<1>2. SendMore(c, idle) \in {Failed(c), Result(c, idle), Result(Sent(d, info), {info})}
  BY Zenon DEF SendMore
<1> HIDE DEF n
<1>3. ConnOK(d) /\ Chunk(c, n) \in Seq(SeqPoint)
  BY <1>1, DrainedOK
<1>4. info \in SendInfo
  BY <1>3, DataInfoType
<1> HIDE DEF d, info
<1>5. ConnOK(Sent(d, info))
  BY <1>3, <1>4, SentOK
<1>6. ResultOK(Result(Sent(d, info), {info}))
  BY <1>4, <1>5, ResultsOK
<1>7. ResultOK(Failed(c)) /\ ResultOK(Result(c, idle))
  BY ResultsOK
<1> QED
  BY <1>2, <1>6, <1>7

\* So does the passive close.
LEMMA CloseWaitOrLastAckOK ==
    ASSUME NEW c, ConnOK(c), NEW w \in WindowState
    PROVE  ResultOK(CloseWaitOrLastAck(c, w))
<1> DEFINE n    == Transmittable(c, w)
           d    == [Drained(c, n) EXCEPT !.window = w]
           fin  == DataInfo(c, Chunk(c, n), "FinAck")
           data == DataInfo(c, Chunk(c, n), "Ack")
           last == [d EXCEPT !.tcp_state = "LastAck"]
           wait == [d EXCEPT !.tcp_state = "CloseWait"]
<1>1. n \in 0..Len(c.send_buffer)
  BY TransmittableBounds
<1>2. CloseWaitOrLastAck(c, w) \in
        {Failed(c), Result(Sent(last, fin), {fin}), Result(wait, {PureAck(c)}),
         Result(Sent(wait, data), {data})}
  BY Zenon DEF CloseWaitOrLastAck
<1> HIDE DEF n
<1>3. ConnOK(Drained(c, n)) /\ Chunk(c, n) \in Seq(SeqPoint)
  BY <1>1, DrainedOK
<1>4. fin \in SendInfo /\ data \in SendInfo
  BY <1>3, DataInfoType
<1>5. ConnOK(d)
  BY <1>3, UpdateOK, Zenon
<1> HIDE DEF d, fin, data
<1>6. ConnOK(last) /\ ConnOK(wait)
  BY <1>5, UpdateOK, Zenon DEF TcpState
<1> HIDE DEF last, wait
<1>7. ConnOK(Sent(last, fin)) /\ ConnOK(Sent(wait, data))
  BY <1>4, <1>6, SentOK
<1>8. /\ ResultOK(Failed(c)) /\ ResultOK(Result(Sent(last, fin), {fin}))
      /\ ResultOK(Result(Sent(wait, data), {data}))
  BY <1>4, <1>7, ResultsOK
<1>9. ResultOK(Result(wait, {PureAck(c)}))
  BY <1>6, PureAckType, ResultsOK
<1> QED
  BY <1>2, <1>8, <1>9
-----------------------------------------------------------------------------
(* Receiving.                                                              *)

\* Of any points, one lies furthest past r.
LEMMA FurthestExists ==
    ASSUME NEW r \in SeqPoint, NEW ends \in SUBSET SeqPoint, ends # {}
    PROVE  \E e \in ends : \A f \in ends : Sub(f, r) <= Sub(e, r)
<1> DEFINE T == {SeqMod - Sub(e, r) : e \in ends}
           R == OpToRel(<, Nat)
<1>1. \A e \in ends : Sub(e, r) \in Int /\ SeqMod - Sub(e, r) \in Nat
  BY SubType, HalfAssumption, SMT DEF SeqMod
<1>2. T \subseteq Nat /\ T # {}
  BY <1>1
<1>3. PICK x \in T : \A y \in T : ~(<<y, x>> \in R)
  BY <1>2, WFMin, NatLessThanWellFounded, Zenon
<1>4. \A y \in T : ~(y < x)
  BY <1>2, <1>3 DEF OpToRel
<1>5. PICK e \in ends : x = SeqMod - Sub(e, r)
  BY <1>3
<1>6. \A f \in ends : ~(SeqMod - Sub(f, r) < SeqMod - Sub(e, r))
  BY <1>4, <1>5
<1>7. \A f \in ends : Sub(f, r) <= Sub(e, r)
  BY <1>1, <1>6, HalfAssumption, SMT DEF SeqMod
<1> QED
  BY <1>7

\* drain_contiguous leaves RCV.NXT in the space.
LEMMA DrainedToType ==
    ASSUME NEW c, ConnOK(c)
    PROVE  DrainedTo(c) \in SeqPoint
<1> DEFINE ends == {c.rcv_nxt} \cup {Add(s, c.segments[s]) : s \in Contiguous(c)}
<1>1. Contiguous(c) \subseteq SeqPoint
  BY Zenon DEF Contiguous, Buffered
<1>2. \A s \in SeqPoint : c.segments[s] \in Nat
  BY Fields, SizeAssumption, SMT DEF Reassembly
<1>3. \A s \in Contiguous(c) : Add(s, c.segments[s]) \in SeqPoint
  BY <1>1, <1>2, AddType, Zenon
<1>4. ends \in SUBSET SeqPoint /\ ends # {}
  BY <1>3, Fields, Zenon
<1>5. DrainedTo(c) = CHOOSE e \in ends : \A f \in ends : Sub(f, c.rcv_nxt) <= Sub(e, c.rcv_nxt)
  BY Zenon DEF DrainedTo
<1> HIDE DEF ends
<1>6. \E e \in ends : \A f \in ends : Sub(f, c.rcv_nxt) <= Sub(e, c.rcv_nxt)
  BY <1>4, FurthestExists, Fields
<1>7. DrainedTo(c) \in ends
  BY <1>5, <1>6, Zenon
<1> QED
  BY <1>4, <1>7

\* Delivering the contiguous segments keeps the connection well formed.
LEMMA DeliverContiguousOK ==
    ASSUME NEW c, ConnOK(c)
    PROVE  ConnOK(DeliverContiguous(c))
<1> DEFINE d == Deliver(c, c.rcv_nxt, Sub(DrainedTo(c), c.rcv_nxt))
           left == [s \in SeqPoint |-> IF PrecedesOrEq(s, d.rcv_nxt) THEN 0 ELSE c.segments[s]]
<1>1. Sub(DrainedTo(c), c.rcv_nxt) \in Nat
  BY DrainedToType, Fields, SubType, SMT
<1>2. ConnOK(d)
  BY <1>1, Fields, DeliverOK
<1>3. left \in Reassembly
  BY Fields, SizeAssumption DEF Reassembly
<1>4. DeliverContiguous(c) = [d EXCEPT !.segments = left]
  BY Zenon DEF DeliverContiguous
<1> HIDE DEF d, left
<1>5. ConnOK([d EXCEPT !.segments = left])
  BY <1>2, <1>3, UpdateOK, Zenon
<1> QED
  BY <1>4, <1>5

\* Buffering a segment keeps the connection well formed.
LEMMA InsertOK ==
    ASSUME NEW c, ConnOK(c), NEW seg \in InSegment
    PROVE  ConnOK(Insert(c, seg))
<1> DEFINE old  == c.segments[seg.seq]
           keep == IF seg.len > old THEN seg.len ELSE old
           v    == [c.segments EXCEPT ![seg.seq] = keep]
<1>1. old \in 0..MaxSegLen
  BY Fields, SegFields DEF Reassembly
<1>2. keep \in 0..MaxSegLen
  BY <1>1, SegFields, Zenon
<1>3. v \in Reassembly
  BY <1>2, Fields, SegFields, Zenon DEF Reassembly
<1>4. Insert(c, seg) = [c EXCEPT !.segments = v]
  BY Fields DEF Insert
<1> HIDE DEF v
<1> QED
  BY <1>3, <1>4, UpdateOK, SMT

\* So does remembering where the FIN is.
LEMMA MarkFinOK ==
    ASSUME NEW c, ConnOK(c), NEW seg \in InSegment
    PROVE  ConnOK(MarkFin(c, seg))
<1>1. {Add(seg.seq, seg.len)} \in SUBSET SeqPoint
  BY SegFields, AddType
<1> QED
  BY <1>1, UpdateOK, Zenon DEF MarkFin

\* complete_handshake keeps the connection well formed.
LEMMA CompleteHandshakeOK ==
    ASSUME NEW c, ConnOK(c), NEW seg \in InSegment
    PROVE  ConnOK(CompleteHandshake(c, seg))
<1>1. WindowFrom(seg) \in WindowState /\ "Established" \in TcpState /\ seg.ack \in SeqPoint
  BY WindowFromType, SegFields DEF TcpState
<1>2. IsFiniteSet({})
  BY FS_EmptySet
<1>3. CompleteHandshake(c, seg) \in ConnState
  BY <1>1 DEF CompleteHandshake, ConnOK, ConnState
<1>4. CompleteHandshake(c, seg).pending = {}
  BY DEF CompleteHandshake, ConnOK, ConnState
<1> QED
  BY <1>2, <1>3, <1>4 DEF ConnOK

\* close_on_in_order_fin keeps the connection well formed.
LEMMA CloseOnInOrderFinOK ==
    ASSUME NEW c, ConnOK(c), NEW seg \in InSegment
    PROVE  ResultOK(CloseOnInOrderFin(c, seg))
<1> DEFINE d == AdvanceRcv(Deliver(c, seg.seq, seg.len), 1)
<1>1. ConnOK(Deliver(c, seg.seq, seg.len))
  BY SegFields, DeliverOK
<1>2. ConnOK(d)
  BY <1>1, AdvanceRcvOK
<1>3. CloseOnInOrderFin(c, seg) = CloseWaitOrLastAck(AckedBy(d, seg), WindowAfter(d, seg))
  BY Zenon DEF CloseOnInOrderFin
<1> HIDE DEF d
<1>4. ConnOK(AckedBy(d, seg)) /\ WindowAfter(d, seg) \in WindowState
  BY <1>2, AckedByOK, WindowAfterType
<1> QED
  BY <1>3, <1>4, CloseWaitOrLastAckOK

\* A refusal and a SYN-ACK are segments.
LEMMA RepliesType ==
    ASSUME NEW seg \in InSegment, NEW iss \in SeqPoint
    PROVE  RstFor(seg) \in SendInfo /\ SynAckFor(iss, seg) \in SendInfo
<1>1. <<>> \in Seq(SeqPoint)
  BY EmptySeq
<1>2. 0 \in SeqPoint
  BY HalfAssumption, SMT DEF SeqPoint, SeqMod
<1>3. Add(seg.seq, 1) \in SeqPoint
  BY SegFields, AddType
<1> QED
  BY <1>1, <1>2, <1>3, SegFields DEF RstFor, SynAckFor, SendInfo, TcpFlags

\* from_syn_ack makes a well-formed connection.
LEMMA FromSynAckOK ==
    ASSUME NEW info \in SendInfo
    PROVE  ConnOK(FromSynAck(info))
<1> DEFINE p == [info |-> info, retries |-> 0, copy |-> 0]
           w == [wnd |-> 0, wl1 |-> 0, wl2 |-> 0]
<1>1. <<>> \in Seq(SeqPoint)
  BY EmptySeq
<1>2. 0 \in SeqPoint /\ 0 \in 0..MaxWnd /\ 0 \in 0..MaxSegLen
  BY HalfAssumption, SizeAssumption, SMT DEF SeqPoint, SeqMod
<1>3. info.seq \in SeqPoint /\ info.ack \in SeqPoint
  BY DEF SendInfo
<1>4. Add(info.seq, 1) \in SeqPoint
  BY <1>3, AddType
<1>5. p \in PendingSegment
  BY DEF PendingSegment
<1>6. IsFiniteSet({p})
  BY FS_Singleton
<1>7. w \in WindowState
  BY <1>2 DEF WindowState
<1>8. NoSegments \in Reassembly
  BY <1>2 DEF NoSegments, Reassembly
<1>9. "SynReceived" \in TcpState
  BY DEF TcpState
<1> HIDE DEF p, w
<1>10. FromSynAck(info) =
        [tcp_state |-> "SynReceived", snd_nxt |-> Add(info.seq, 1),
         rcv_nxt |-> info.ack, snd_una |-> info.seq, window |-> w, pending |-> {p},
         send_buffer |-> <<>>, segments |-> NoSegments, fin_seq |-> {}]
  BY DEF FromSynAck, p, w
<1>11. FromSynAck(info) \in ConnState
  BY <1>1, <1>3, <1>4, <1>5, <1>7, <1>8, <1>9, <1>10, SMT DEF ConnState
<1>12. FromSynAck(info).pending = {p}
  BY <1>10
<1> QED
  BY <1>6, <1>11, <1>12 DEF ConnOK
-----------------------------------------------------------------------------
(* What the operations do to the TCP state.                                *)

\* Receiving and acknowledgments leave the TCP state alone.
LEMMA StateKept ==
    ASSUME NEW c, ConnOK(c), NEW n \in Nat, NEW q \in SeqPoint, NEW seg \in InSegment
    PROVE  /\ AdvanceRcv(c, n).tcp_state = c.tcp_state
           /\ Deliver(c, q, n).tcp_state = c.tcp_state
           /\ DeliverContiguous(c).tcp_state = c.tcp_state
           /\ Insert(c, seg).tcp_state = c.tcp_state
           /\ MarkFin(c, seg).tcp_state = c.tcp_state
           /\ AckedBy(c, seg).tcp_state = c.tcp_state
           /\ AckUpdate(c, seg).tcp_state = c.tcp_state
           /\ CompleteHandshake(c, seg).tcp_state = "Established"
<1>1. AdvanceRcv(c, n).tcp_state = c.tcp_state /\ Deliver(c, q, n).tcp_state = c.tcp_state
  BY Zenon DEF AdvanceRcv, Deliver, ConnOK, ConnState
<1>2. DeliverContiguous(c).tcp_state = c.tcp_state
  BY Zenon DEF DeliverContiguous, AdvanceRcv, Deliver, ConnOK, ConnState
<1>3. Insert(c, seg).tcp_state = c.tcp_state /\ MarkFin(c, seg).tcp_state = c.tcp_state
  BY Zenon DEF Insert, MarkFin, ConnOK, ConnState
<1>4. AckedBy(c, seg).tcp_state = c.tcp_state
  BY Zenon DEF AckedBy, ConnOK, ConnState
<1>5. AckUpdate(c, seg).tcp_state = c.tcp_state
  BY <1>4, AckedByOK, Zenon DEF AckUpdate, ConnOK, ConnState
<1>6. CompleteHandshake(c, seg).tcp_state = "Established"
  BY Zenon DEF CompleteHandshake, ConnOK, ConnState
<1> QED
  BY <1>1, <1>2, <1>3, <1>4, <1>5, <1>6

\* Sending does too.
LEMMA SentState ==
    ASSUME NEW c, ConnOK(c), NEW info
    PROVE  /\ Push(c, info).tcp_state = c.tcp_state
           /\ Sent(c, info).tcp_state = c.tcp_state
BY DEF Push, Sent, ConnOK, ConnState

\* data_payload keeps the state.
LEMMA SendMoreState ==
    ASSUME NEW c, ConnOK(c), NEW idle
    PROVE  SendMore(c, idle).conn.tcp_state = c.tcp_state
<1> DEFINE n    == Transmittable(c, c.window)
           info == DataInfo(c, Chunk(c, n), "Ack")
<1>1. n \in 0..Len(c.send_buffer)
  BY Fields, TransmittableBounds
<1> HIDE DEF n, info
<1>2. ConnOK(Drained(c, n))
  BY <1>1, DrainedOK
<1>3. Drained(c, n).tcp_state = c.tcp_state
  BY DEF Drained, ConnOK, ConnState
<1>4. Sent(Drained(c, n), info).tcp_state = c.tcp_state
  BY <1>2, <1>3, SentState
<1>5. \/ SendMore(c, idle) = Failed(c)
      \/ SendMore(c, idle) = Result(c, idle)
      \/ SendMore(c, idle) = Result(Sent(Drained(c, n), info), {info})
  BY Zenon DEF SendMore, n, info
<1> QED
  BY <1>4, <1>5 DEF Result, Failed

\* close_wait_or_last_ack moves on to one of its two states, or fails where it is.
LEMMA CloseState ==
    ASSUME NEW c, ConnOK(c), NEW w \in WindowState
    PROVE  CloseWaitOrLastAck(c, w).conn.tcp_state \in {c.tcp_state, "CloseWait", "LastAck"}
<1> DEFINE n    == Transmittable(c, w)
           d    == [Drained(c, n) EXCEPT !.window = w]
           fin  == DataInfo(c, Chunk(c, n), "FinAck")
           data == DataInfo(c, Chunk(c, n), "Ack")
           L    == [d EXCEPT !.tcp_state = "LastAck"]
           W    == [d EXCEPT !.tcp_state = "CloseWait"]
<1>1. n \in 0..Len(c.send_buffer)
  BY TransmittableBounds
<1> HIDE DEF n, fin, data
<1>2. ConnOK(Drained(c, n))
  BY <1>1, DrainedOK
<1>3. ConnOK(d)
  BY <1>2, UpdateOK, Zenon
<1>4. ConnOK(L) /\ ConnOK(W)
  BY <1>3, UpdateOK, Zenon DEF TcpState
<1> HIDE DEF d
<1>5. L.tcp_state = "LastAck" /\ W.tcp_state = "CloseWait"
  BY <1>3 DEF ConnOK, ConnState
<1> HIDE DEF L, W
<1>6. Sent(L, fin).tcp_state = "LastAck" /\ Sent(W, data).tcp_state = "CloseWait"
  BY <1>4, <1>5, SentState
<1>7. \/ CloseWaitOrLastAck(c, w) = Failed(c)
      \/ CloseWaitOrLastAck(c, w) = Result(Sent(L, fin), {fin})
      \/ CloseWaitOrLastAck(c, w) = Result(W, {PureAck(c)})
      \/ CloseWaitOrLastAck(c, w) = Result(Sent(W, data), {data})
  BY Zenon DEF CloseWaitOrLastAck, n, d, fin, data, L, W
<1> QED
  BY <1>5, <1>6, <1>7 DEF Result, Failed
=============================================================================
