---------------------------- MODULE FlightProofs ----------------------------
(***************************************************************************)
(* What is sent and unacknowledged stays within the window, so that the    *)
(* circular comparisons of SND.UNA, SEG.ACK and SND.NXT mean what they say *)
(* and drain_transmittable never fails, for every value of the constants.  *)
(***************************************************************************)
EXTENDS TcpProofs

\* The sequence numbers in flight.
Flight(c) == Sub(c.snd_nxt, c.snd_una)

\* One SYN in flight before the handshake, at most a window while the send side is
\* open, and our FIN on top of it afterwards.
FlightOK(c) ==
    /\ c.tcp_state = "SynReceived" => Flight(c) = 1
    /\ c.tcp_state \in SendSideOpen => Flight(c) <= MaxWnd
    /\ Flight(c) <= MaxWnd + 1

\* The inductive invariant.
FlightInv == /\ TypeOK
             /\ \A k \in DOMAIN table : FlightOK(table[k])
             /\ ~fault

\* d sends from where c sends.
SameSend(d, c) == /\ d.snd_nxt = c.snd_nxt
                  /\ d.snd_una = c.snd_una
                  /\ d.tcp_state = c.tcp_state

\* SND.UNA of d is between SND.UNA and SND.NXT of c.
AckStep(c, d) == Sub(d.snd_una, c.snd_una) <= Flight(c)

\* What a handler leaves behind.
FlightResult(c, r) == FlightOK(r.conn) /\ AckStep(c, r.conn) /\ ~r.err
-----------------------------------------------------------------------------
\* A number of sequence numbers in flight is an integer less than the space.
LEMMA FlightType ==
    ASSUME NEW c, ConnOK(c)
    PROVE  Flight(c) \in Nat
BY Fields, SubType, SMT DEF Flight

\* Receiving does not touch the send side.
LEMMA ReceivingSameSend ==
    ASSUME NEW c, ConnOK(c), NEW n \in Nat, NEW seg \in InSegment
    PROVE  /\ SameSend(AdvanceRcv(c, n), c)
           /\ \A q \in SeqPoint : SameSend(Deliver(c, q, n), c)
           /\ SameSend(DeliverContiguous(c), c)
           /\ SameSend(Insert(c, seg), c)
           /\ SameSend(MarkFin(c, seg), c)
<1>1. SameSend(AdvanceRcv(c, n), c)
  BY DEF SameSend, AdvanceRcv, ConnOK, ConnState
<1>2. \A q \in SeqPoint, m \in Nat : SameSend(Deliver(c, q, m), c)
  BY DEF SameSend, AdvanceRcv, Deliver, ConnOK, ConnState
<1>3. SameSend(DeliverContiguous(c), c)
  <2> DEFINE d == Deliver(c, c.rcv_nxt, Sub(DrainedTo(c), c.rcv_nxt))
             v == [s \in SeqPoint |-> IF PrecedesOrEq(s, d.rcv_nxt) THEN 0 ELSE c.segments[s]]
  <2>1. Sub(DrainedTo(c), c.rcv_nxt) \in Nat
    BY DrainedToType, Fields, SubType, SMT
  <2>2. SameSend(d, c) /\ ConnOK(d)
    BY <1>2, <2>1, Fields, DeliverOK
  <2>3. DeliverContiguous(c) = [d EXCEPT !.segments = v]
    BY Zenon DEF DeliverContiguous
  <2> HIDE DEF d, v
  <2> QED
    BY <2>2, <2>3 DEF SameSend, ConnOK, ConnState
<1>4. SameSend(Insert(c, seg), c)
  BY DEF SameSend, Insert, ConnOK, ConnState
<1>5. SameSend(MarkFin(c, seg), c)
  BY DEF SameSend, MarkFin, ConnOK, ConnState
<1> QED
  BY <1>1, <1>2, <1>3, <1>4, <1>5

\* An acknowledgment takes numbers out of flight, and none that were not in flight.
LEMMA AckedByFlight ==
    ASSUME NEW c, ConnOK(c), NEW seg \in InSegment,
           Flight(c) <= MaxWnd + 1,
           ~Antipodal(c, seg)
    PROVE  /\ AckedBy(c, seg).snd_nxt = c.snd_nxt
           /\ AckedBy(c, seg).tcp_state = c.tcp_state
           /\ Flight(AckedBy(c, seg)) <= Flight(c)
           /\ AckStep(c, AckedBy(c, seg))
<1>1. c.snd_una \in SeqPoint /\ c.snd_nxt \in SeqPoint /\ seg.ack \in SeqPoint
  BY Fields, SegFields
<1>2. /\ AckedBy(c, seg).snd_nxt = c.snd_nxt
      /\ AckedBy(c, seg).tcp_state = c.tcp_state
  BY DEF AckedBy, ConnOK, ConnState
<1>3. Flight(c) < Half /\ Flight(c) \in Nat
  BY FlightType, SizeAssumption, HalfAssumption, SMT
<1>4. CASE AckAcceptable(c, seg) /\ Precedes(c.snd_una, seg.ack)
  <2>1. AckedBy(c, seg).snd_una = seg.ack
    BY <1>4 DEF AckedBy, ConnOK, ConnState
  <2>2. /\ Sub(seg.ack, c.snd_una) <= Flight(c)
        /\ Sub(c.snd_nxt, seg.ack) = Flight(c) - Sub(seg.ack, c.snd_una)
    BY <1>1, <1>3, <1>4, AckBracketed DEF AckAcceptable, Antipodal, Flight
  <2>3. Sub(seg.ack, c.snd_una) \in Nat
    BY <1>1, SubType, SMT
  <2>4. Flight(AckedBy(c, seg)) = Flight(c) - Sub(seg.ack, c.snd_una)
    BY <1>2, <2>1, <2>2 DEF Flight
  <2>5. Flight(AckedBy(c, seg)) <= Flight(c)
    BY <1>3, <2>3, <2>4, SMT
  <2> QED
    BY <1>2, <2>1, <2>2, <2>5 DEF AckStep
<1>5. CASE ~(AckAcceptable(c, seg) /\ Precedes(c.snd_una, seg.ack))
  <2>1. AckedBy(c, seg) = c
    BY <1>5 DEF AckedBy
  <2>2. Sub(c.snd_una, c.snd_una) = 0
    BY <1>1, SubCases, SMT DEF SeqPoint
  <2>3. Flight(c) <= Flight(c) /\ 0 <= Flight(c)
    BY <1>3, SMT
  <2> QED
    BY <2>1, <2>2, <2>3 DEF AckStep
<1> QED
  BY <1>4, <1>5

\* The same with the window stored.
LEMMA AckUpdateFlight ==
    ASSUME NEW c, ConnOK(c), NEW seg \in InSegment,
           Flight(c) <= MaxWnd + 1,
           ~Antipodal(c, seg)
    PROVE  /\ AckUpdate(c, seg).snd_nxt = c.snd_nxt
           /\ AckUpdate(c, seg).tcp_state = c.tcp_state
           /\ Flight(AckUpdate(c, seg)) <= Flight(c)
           /\ AckStep(c, AckUpdate(c, seg))
<1> DEFINE d == AckedBy(c, seg)
<1>1. ConnOK(d)
  BY AckedByOK
<1>2. AckUpdate(c, seg) = [d EXCEPT !.window = WindowAfter(c, seg)]
  BY DEF AckUpdate
<1>3. /\ d.snd_nxt = c.snd_nxt /\ d.tcp_state = c.tcp_state
      /\ Flight(d) <= Flight(c) /\ AckStep(c, d)
  BY AckedByFlight
<1> HIDE DEF d
<1>4. SameSend(AckUpdate(c, seg), d)
  BY <1>1, <1>2 DEF SameSend, ConnOK, ConnState
<1> QED
  BY <1>3, <1>4 DEF SameSend, Flight, AckStep

\* Sending a segment adds to the flight what the segment occupies.
LEMMA SentFlight ==
    ASSUME NEW c, ConnOK(c), NEW info \in SendInfo,
           Flight(c) + Consumed(info) < SeqMod
    PROVE  /\ Flight(Sent(c, info)) = Flight(c) + Consumed(info)
           /\ Sent(c, info).snd_una = c.snd_una
           /\ Sent(c, info).tcp_state = c.tcp_state
<1>1. Consumed(info) \in Nat /\ c.snd_nxt \in SeqPoint /\ c.snd_una \in SeqPoint
  BY ConsumedType, Fields
<1>2. /\ Sent(c, info).snd_nxt = Add(c.snd_nxt, Consumed(info))
      /\ Sent(c, info).snd_una = c.snd_una
      /\ Sent(c, info).tcp_state = c.tcp_state
  BY DEF Sent, Push, ConnOK, ConnState
<1> QED
  BY <1>1, <1>2, SubAdvance DEF Flight

\* SND.UNA has not moved.
LEMMA NoAckStep ==
    ASSUME NEW c, ConnOK(c), NEW d, d.snd_una = c.snd_una
    PROVE  AckStep(c, d)
<1>1. Sub(c.snd_una, c.snd_una) = 0
  BY Fields, SubCases, SMT DEF SeqPoint
<1> QED
  BY <1>1, FlightType, SMT DEF AckStep

\* What data_payload sends fits the window, and drain_transmittable does not fail.
LEMMA SendMoreFlight ==
    ASSUME NEW c, ConnOK(c), NEW idle, c.tcp_state \in SendSideOpen, Flight(c) <= MaxWnd
    PROVE  /\ FlightOK(SendMore(c, idle).conn)
           /\ SendMore(c, idle).conn.snd_una = c.snd_una
           /\ ~SendMore(c, idle).err
<1> DEFINE n    == Transmittable(c, c.window)
           info == DataInfo(c, Chunk(c, n), "Ack")
           d    == Drained(c, n)
<1>1. /\ n \in 0..Len(c.send_buffer)
      /\ n > 0 => Flight(c) + n <= c.window.wnd
  BY Fields, TransmittableBounds DEF Flight
<1>2. Flight(c) \in Nat /\ Flight(c) < Half
  BY FlightType, SizeAssumption, HalfAssumption, SMT
<1>3. CanDrain(c)
  BY <1>2, HalfAssumption, SMT DEF CanDrain, Precedes, Flight
<1>4. SendMore(c, idle) = IF n = 0 THEN Result(c, idle) ELSE Result(Sent(d, info), {info})
  BY <1>3, Zenon DEF SendMore
<1> HIDE DEF n
<1>5. Chunk(c, n) \in Seq(SeqPoint) /\ Len(Chunk(c, n)) = n /\ ConnOK(d)
  BY <1>1, DrainedOK
<1>6. info \in SendInfo /\ Consumed(info) = n
  <2>1. info \in SendInfo
    BY <1>5, DataInfoType
  <2>2. info.flags = "Ack" /\ info.payload = Chunk(c, n)
    BY DEF DataInfo
  <2>3. Consumed(info) = 0 + Len(Chunk(c, n))
    BY <2>2, Zenon DEF Consumed
  <2> QED
    BY <1>1, <1>5, <2>1, <2>3, SMT
<1>7. d.snd_nxt = c.snd_nxt /\ d.snd_una = c.snd_una /\ d.tcp_state = c.tcp_state
  BY DEF Drained, ConnOK, ConnState
<1>8. Flight(d) = Flight(c)
  BY <1>7 DEF Flight
<1>9. c.tcp_state # "SynReceived"
  BY DEF SendSideOpen
<1> HIDE DEF d, info
<1>10. CASE n = 0
  <2>1. SendMore(c, idle) = Result(c, idle)
    BY <1>4, <1>10
  <2>2. FlightOK(c)
    BY <1>2, <1>9, SizeAssumption, SMT DEF FlightOK
  <2> QED
    BY <2>1, <2>2 DEF Result
<1>11. CASE n # 0
  <2>1. SendMore(c, idle) = Result(Sent(d, info), {info})
    BY <1>4, <1>11
  <2>2. c.window.wnd \in Nat /\ c.window.wnd <= MaxWnd
    BY Fields, SizeAssumption, SMT DEF WindowState
  <2>3. n \in Nat /\ Flight(c) + n <= MaxWnd
    BY <1>1, <1>2, <1>11, <2>2, SizeAssumption, SMT
  <2>4. Flight(d) + Consumed(info) < SeqMod
    BY <1>2, <1>6, <1>8, <2>3, SizeAssumption, HalfAssumption, SMT DEF SeqMod
  <2>5. /\ Flight(Sent(d, info)) = Flight(c) + n
        /\ Sent(d, info).snd_una = c.snd_una
        /\ Sent(d, info).tcp_state = c.tcp_state
    BY <1>5, <1>6, <1>7, <1>8, <2>4, SentFlight
  <2>6. FlightOK(Sent(d, info))
    BY <1>2, <1>9, <2>3, <2>5, SizeAssumption, SMT DEF FlightOK
  <2> QED
    BY <2>1, <2>5, <2>6 DEF Result
<1> QED
  BY <1>10, <1>11

\* The same for close_wait_or_last_ack, with the FIN one past the window at most.
LEMMA CloseWaitOrLastAckFlight ==
    ASSUME NEW c, ConnOK(c), NEW w \in WindowState, Flight(c) <= MaxWnd
    PROVE  /\ FlightOK(CloseWaitOrLastAck(c, w).conn)
           /\ CloseWaitOrLastAck(c, w).conn.snd_una = c.snd_una
           /\ ~CloseWaitOrLastAck(c, w).err
<1> DEFINE n    == Transmittable(c, w)
           d    == [Drained(c, n) EXCEPT !.window = w]
           fin  == DataInfo(c, Chunk(c, n), "FinAck")
           data == DataInfo(c, Chunk(c, n), "Ack")
           last == [d EXCEPT !.tcp_state = "LastAck"]
           wait == [d EXCEPT !.tcp_state = "CloseWait"]
           r    == CloseWaitOrLastAck(c, w)
<1>1. /\ n \in 0..Len(c.send_buffer)
      /\ n > 0 => Flight(c) + n <= w.wnd
  BY TransmittableBounds DEF Flight
<1>2. Flight(c) \in Nat /\ Flight(c) < Half
  BY FlightType, SizeAssumption, HalfAssumption, SMT
<1>3. CanDrain(c)
  BY <1>2, HalfAssumption, SMT DEF CanDrain, Precedes, Flight
<1>4. r \in {Result(Sent(last, fin), {fin}), Result(wait, {PureAck(c)}),
             Result(Sent(wait, data), {data})}
  BY <1>3, Zenon DEF CloseWaitOrLastAck
<1> HIDE DEF n, r
<1>5. Chunk(c, n) \in Seq(SeqPoint) /\ Len(Chunk(c, n)) = n /\ ConnOK(Drained(c, n))
  BY <1>1, DrainedOK
<1>6. fin \in SendInfo /\ data \in SendInfo
  BY <1>5, DataInfoType
<1>7. n \in Nat /\ Flight(c) + n <= MaxWnd
  <2>1. w.wnd \in Nat /\ w.wnd <= MaxWnd
    BY SizeAssumption, SMT DEF WindowState
  <2>2. Len(c.send_buffer) \in Nat
    BY Fields, LenProperties
  <2> QED
    BY <1>1, <1>2, <2>1, <2>2, SizeAssumption, SMT
<1>8. Consumed(fin) = n + 1 /\ Consumed(data) = n
  <2>1. /\ fin.flags = "FinAck" /\ fin.payload = Chunk(c, n)
        /\ data.flags = "Ack" /\ data.payload = Chunk(c, n)
    BY DEF DataInfo
  <2>2. Consumed(fin) = 1 + Len(Chunk(c, n)) /\ Consumed(data) = 0 + Len(Chunk(c, n))
    BY <2>1, Zenon DEF Consumed
  <2> QED
    BY <1>5, <1>7, <2>2, SMT
<1>9. ConnOK(d)
  BY <1>5, UpdateOK, Zenon
<1>10. d.snd_nxt = c.snd_nxt /\ d.snd_una = c.snd_una
  BY <1>5 DEF Drained, ConnOK, ConnState
<1> HIDE DEF d, fin, data
<1>11. ConnOK(last) /\ ConnOK(wait)
  BY <1>9, UpdateOK, Zenon DEF TcpState
<1>12. /\ last.snd_nxt = c.snd_nxt /\ last.snd_una = c.snd_una /\ last.tcp_state = "LastAck"
       /\ wait.snd_nxt = c.snd_nxt /\ wait.snd_una = c.snd_una /\ wait.tcp_state = "CloseWait"
  BY <1>9, <1>10 DEF ConnOK, ConnState
<1>13. Flight(last) = Flight(c) /\ Flight(wait) = Flight(c)
  BY <1>12 DEF Flight
<1> HIDE DEF last, wait
<1>14. Flight(last) + Consumed(fin) < SeqMod /\ Flight(wait) + Consumed(data) < SeqMod
  BY <1>2, <1>7, <1>8, <1>13, SizeAssumption, HalfAssumption, SMT DEF SeqMod
<1>15. /\ Flight(Sent(last, fin)) = Flight(c) + (n + 1)
       /\ Sent(last, fin).snd_una = c.snd_una
       /\ Sent(last, fin).tcp_state = "LastAck"
  BY <1>6, <1>8, <1>11, <1>12, <1>13, <1>14, SentFlight
<1>16. /\ Flight(Sent(wait, data)) = Flight(c) + n
       /\ Sent(wait, data).snd_una = c.snd_una
       /\ Sent(wait, data).tcp_state = "CloseWait"
  BY <1>6, <1>8, <1>11, <1>12, <1>13, <1>14, SentFlight
<1>17. FlightOK(Sent(last, fin))
  BY <1>2, <1>7, <1>15, SizeAssumption, SMT DEF FlightOK, SendSideOpen
<1>18. FlightOK(Sent(wait, data))
  BY <1>2, <1>7, <1>16, SizeAssumption, SMT DEF FlightOK, SendSideOpen
<1>19. FlightOK(wait)
  BY <1>2, <1>12, <1>13, SizeAssumption, SMT DEF FlightOK, SendSideOpen
<1> QED
  BY <1>4, <1>12, <1>15, <1>16, <1>17, <1>18, <1>19 DEF Result, r

\* Our FIN takes one more number.
LEMMA ClosedFlight ==
    ASSUME NEW c, ConnOK(c), Flight(c) <= MaxWnd
    PROVE  FlightOK(Closed(c)) /\ Closed(c).snd_una = c.snd_una
<1> DEFINE fin == DataInfo(c, <<>>, "FinAck")
           d   == [c EXCEPT !.tcp_state = "FinWait1"]
<1>1. fin \in SendInfo /\ Closed(c) = Sent(d, fin)
  BY ClosedOK, Zenon DEF Closed
<1>2. Consumed(fin) = 1
  <2>1. fin.flags = "FinAck" /\ fin.payload = <<>>
    BY DEF DataInfo
  <2>2. Consumed(fin) = 1 + Len(<<>>) /\ Len(<<>>) = 0
    BY <2>1, EmptySeq, Zenon DEF Consumed
  <2> QED
    BY <2>2, SMT
<1>3. ConnOK(d)
  BY UpdateOK, Zenon DEF TcpState
<1>4. d.snd_nxt = c.snd_nxt /\ d.snd_una = c.snd_una /\ d.tcp_state = "FinWait1"
  BY DEF ConnOK, ConnState
<1>5. Flight(d) = Flight(c) /\ Flight(c) \in Nat
  BY <1>4, FlightType DEF Flight
<1> HIDE DEF fin, d
<1>6. Flight(d) + Consumed(fin) < SeqMod
  BY <1>2, <1>5, SizeAssumption, HalfAssumption, SMT DEF SeqMod
<1>7. /\ Flight(Closed(c)) = Flight(c) + 1
      /\ Closed(c).snd_una = c.snd_una
      /\ Closed(c).tcp_state = "FinWait1"
  BY <1>1, <1>2, <1>3, <1>4, <1>5, <1>6, SentFlight
<1>8. FlightOK(Closed(c))
  BY <1>5, <1>7, SizeAssumption, SMT DEF FlightOK, SendSideOpen
<1> QED
  BY <1>7, <1>8
-----------------------------------------------------------------------------
(* The steps of the table.                                                 *)

\* What a step has to establish besides TypeOK.
FlightStep ==
    /\ \A k \in DOMAIN table' : FlightOK(table'[k])
    /\ ~fault'
    /\ \A k \in DOMAIN table \cap DOMAIN table' : AckStep(table[k], table'[k])

\* A step that leaves a connection as it is.
LEMMA SameConn ==
    ASSUME FlightInv, NEW k \in DOMAIN table
    PROVE  /\ ConnOK(table[k])
           /\ FlightOK(table[k])
           /\ AckStep(table[k], table[k])
BY TypeParts, NoAckStep DEF FlightInv

\* Storing a result that is within bounds.
LEMMA StoreFlight ==
    ASSUME FlightInv, NEW k \in DOMAIN table, NEW r, FlightResult(table[k], r), Store(k, r)
    PROVE  FlightStep
<1>1. table' = [table EXCEPT ![k] = r.conn] /\ fault' = r.err
  BY DEF Store
<1>2. DOMAIN table' = DOMAIN table
  BY <1>1
<1>3. \A x \in DOMAIN table : table'[x] = IF x = k THEN r.conn ELSE table[x]
  BY <1>1
<1> QED
  BY <1>1, <1>2, <1>3, SameConn, Zenon DEF FlightStep, FlightResult

\* Replying, and removing a connection.
LEMMA AnswerFlight ==
    ASSUME FlightInv, NEW k, NEW reply, Answer(k, reply) \/ Remove(k, reply)
    PROVE  FlightStep
<1>1. CASE Answer(k, reply)
  <2>1. table' = table /\ fault' = FALSE
    BY <1>1 DEF Answer
  <2> QED
    BY <2>1, SameConn, Zenon DEF FlightStep
<1>2. CASE Remove(k, reply)
  <2>1. table' = [x \in DOMAIN table \ {k} |-> table[x]] /\ fault' = FALSE
    BY <1>2 DEF Remove, Without
  <2>2. DOMAIN table' = DOMAIN table \ {k}
    BY <2>1
  <2>3. \A x \in DOMAIN table' : x \in DOMAIN table /\ table'[x] = table[x]
    BY <2>1, <2>2
  <2> QED
    BY <2>1, <2>2, <2>3, SameConn, Zenon DEF FlightStep
<1> QED
  BY <1>1, <1>2

\* A fresh SYN-ACK is the one number in flight.
LEMMA OpenFlight ==
    ASSUME FlightInv, NEW k \in ConnKey, NEW seg \in InSegment, OpenConn(k, seg)
    PROVE  FlightStep
<1>1. PICK iss \in Isn :
        /\ table' = With(table, k, FromSynAck(SynAckFor(iss, seg)))
        /\ fault' = FALSE
  BY Zenon DEF OpenConn
<1> DEFINE c == FromSynAck(SynAckFor(iss, seg))
<1>2. c.tcp_state = "SynReceived" /\ c.snd_nxt = Add(iss, 1) /\ c.snd_una = iss
  BY DEF FromSynAck, SynAckFor
<1>3. iss \in SeqPoint
  BY TrafficAssumption
<1>4. Sub(iss, iss) = 0 /\ 1 < SeqMod
  BY <1>3, SubCases, SizeAssumption, HalfAssumption, SMT DEF SeqPoint, SeqMod
<1>5. Sub(Add(iss, 1), iss) = Sub(iss, iss) + 1
  BY <1>3, <1>4, SubAdvance
<1>6. Flight(c) = 1
  BY <1>2, <1>4, <1>5 DEF Flight
<1>7. FlightOK(c)
  BY <1>2, <1>6, SizeAssumption, SMT DEF FlightOK, SendSideOpen
<1> HIDE DEF c
<1>8. table' = [x \in DOMAIN table \cup {k} |-> IF x = k THEN c ELSE table[x]]
  BY <1>1, Zenon DEF With, c
<1>9. DOMAIN table' = DOMAIN table \cup {k} /\ k \notin DOMAIN table
  BY <1>8 DEF OpenConn
<1>10. \A x \in DOMAIN table' : table'[x] = IF x = k THEN c ELSE table[x]
  BY <1>8, <1>9
<1> QED
  BY <1>1, <1>7, <1>9, <1>10, SameConn, Zenon DEF FlightStep

\* Completing the handshake acknowledges exactly the SYN.
LEMMA HandshakeFlight ==
    ASSUME NEW c, ConnOK(c), FlightOK(c), c.tcp_state = "SynReceived",
           NEW seg \in InSegment, AcceptableAck(c, seg)
    PROVE  LET d == CompleteHandshake(c, seg)
           IN  /\ ConnOK(d)
               /\ d.tcp_state = "Established"
               /\ d.snd_una = seg.ack
               /\ d.snd_nxt = seg.ack
               /\ Flight(d) = 0
               /\ Sub(seg.ack, c.snd_una) <= Flight(c)
<1> DEFINE d == CompleteHandshake(c, seg)
<1>1. c.snd_una \in SeqPoint /\ c.snd_nxt \in SeqPoint /\ seg.ack \in SeqPoint
  BY Fields, SegFields
<1>2. Sub(c.snd_nxt, c.snd_una) = 1 /\ 1 < Half
  BY SizeAssumption, HalfAssumption, SMT DEF FlightOK, Flight
<1>3. seg.ack = c.snd_nxt
  BY <1>1, <1>2, OneInFlight DEF AcceptableAck
<1>4. ConnOK(d)
  BY CompleteHandshakeOK
<1>5. d.tcp_state = "Established" /\ d.snd_una = seg.ack /\ d.snd_nxt = c.snd_nxt
  BY DEF CompleteHandshake, ConnOK, ConnState
<1>6. Sub(seg.ack, seg.ack) = 0
  BY <1>1, SubCases, SMT DEF SeqPoint
<1>7. Flight(d) = 0
  BY <1>3, <1>5, <1>6 DEF Flight
<1>8. Sub(seg.ack, c.snd_una) <= Flight(c)
  BY <1>2, <1>3, SMT DEF Flight
<1> QED
  BY <1>3, <1>4, <1>5, <1>7, <1>8

\* Sending more, or closing, from a connection d that has followed from c.
LEMMA FinishFlight ==
    ASSUME NEW c, NEW d, ConnOK(d), Flight(d) <= MaxWnd, AckStep(c, d),
           NEW idle, NEW w \in WindowState
    PROVE  /\ d.tcp_state \in SendSideOpen => FlightResult(c, SendMore(d, idle))
           /\ FlightResult(c, CloseWaitOrLastAck(d, w))
<1>1. d.tcp_state \in SendSideOpen => FlightResult(c, SendMore(d, idle))
  BY SendMoreFlight, Zenon DEF FlightResult, AckStep
<1>2. FlightResult(c, CloseWaitOrLastAck(d, w))
  BY CloseWaitOrLastAckFlight, Zenon DEF FlightResult, AckStep
<1> QED
  BY <1>1, <1>2

\* A connection that was only received on, or acknowledged.
LEMMA KeptFlight ==
    ASSUME NEW c, ConnOK(c), NEW d, FlightOK(c), AckStep(c, d), ConnOK(d),
           d.tcp_state = c.tcp_state \/ d.tcp_state \in {"FinWait2", "Closing"},
           c.tcp_state # "SynReceived",
           Flight(d) <= Flight(c),
           NEW reply
    PROVE  FlightResult(c, Result(d, reply))
<1>1. Flight(c) \in Nat /\ Flight(d) \in Nat
  BY FlightType
<1>2. FlightOK(d)
  BY <1>1, SizeAssumption, SMT DEF FlightOK, SendSideOpen
<1> QED
  BY <1>2 DEF FlightResult, Result

\* Being in the same place of the send side carries the bounds over.
LEMMA SameSendFlight ==
    ASSUME NEW c, NEW d, NEW e, SameSend(e, d)
    PROVE  /\ Flight(e) = Flight(d)
           /\ AckStep(c, e) <=> AckStep(c, d)
           /\ AckStep(e, c) <=> AckStep(d, c)
           /\ e.tcp_state = d.tcp_state
           /\ e.snd_una = d.snd_una
           /\ FlightOK(e) <=> FlightOK(d)
BY Zenon DEF SameSend, Flight, AckStep, FlightOK

\* Delivering data and whatever it makes contiguous.
LEMMA DeliveredFlight ==
    ASSUME NEW d, ConnOK(d), NEW q \in SeqPoint, NEW n \in Nat, NEW seg \in InSegment
    PROVE  LET e == DeliverContiguous(Deliver(d, q, n))
           IN  ConnOK(e) /\ SameSend(e, d) /\ SameSend(AdvanceRcv(e, 1), d)
               /\ ConnOK(AdvanceRcv(e, 1))
<1> DEFINE b == Deliver(d, q, n)
           e == DeliverContiguous(b)
<1>1. ConnOK(b) /\ SameSend(b, d)
  BY DeliverOK, ReceivingSameSend
<1> HIDE DEF b
<1>2. ConnOK(e) /\ SameSend(e, b)
  BY <1>1, DeliverContiguousOK, ReceivingSameSend
<1> HIDE DEF e
<1>3. ConnOK(AdvanceRcv(e, 1)) /\ SameSend(AdvanceRcv(e, 1), e)
  BY <1>2, AdvanceRcvOK, ReceivingSameSend
<1> QED
  BY <1>1, <1>2, <1>3 DEF SameSend, b, e

\* The two ways a stream goes on once data has been delivered.
LEMMA DeliveredResult ==
    ASSUME NEW c, NEW d, ConnOK(d), d.tcp_state = "Established", Flight(d) <= MaxWnd,
           AckStep(c, d), NEW q \in SeqPoint, NEW n \in Nat, NEW seg \in InSegment
    PROVE  LET e == DeliverContiguous(Deliver(d, q, n))
           IN  /\ FlightResult(c, CloseWaitOrLastAck(AdvanceRcv(e, 1), e.window))
               /\ FlightResult(c, SendMore(e, {PureAck(e)}))
               /\ FlightResult(c, Result(e, {}))
<1> DEFINE e == DeliverContiguous(Deliver(d, q, n))
           a == AdvanceRcv(e, 1)
<1>1. ConnOK(e) /\ SameSend(e, d) /\ ConnOK(a) /\ SameSend(a, d)
  BY DeliveredFlight
<1> HIDE DEF e, a
<1>2. /\ Flight(e) <= MaxWnd /\ AckStep(c, e) /\ e.tcp_state = "Established"
      /\ Flight(a) <= MaxWnd /\ AckStep(c, a)
  BY <1>1, SameSendFlight
<1>3. e.window \in WindowState
  BY <1>1, Fields
<1>4. e.tcp_state \in SendSideOpen /\ e.tcp_state # "SynReceived"
  BY <1>2 DEF SendSideOpen
<1>5. FlightResult(c, SendMore(e, {PureAck(e)}))
  BY <1>1, <1>2, <1>3, <1>4, FinishFlight
<1>6. FlightResult(c, CloseWaitOrLastAck(a, e.window))
  BY <1>1, <1>2, <1>3, FinishFlight
<1>7. Flight(e) \in Nat
  BY <1>1, FlightType
<1>8. FlightOK(e)
  BY <1>2, <1>4, <1>7, SizeAssumption, SMT DEF FlightOK
<1>9. FlightResult(c, Result(e, {}))
  BY <1>2, <1>8 DEF FlightResult, Result
<1> QED
  BY <1>5, <1>6, <1>9 DEF a, e

\* close_on_in_order_fin, from ESTABLISHED; right after the handshake there is nothing
\* left to acknowledge.
LEMMA CloseOnFinFlight ==
    ASSUME NEW d, ConnOK(d), Flight(d) <= MaxWnd,
           NEW seg \in InSegment, ~Antipodal(d, seg)
    PROVE  /\ FlightResult(d, CloseOnInOrderFin(d, seg))
           /\ seg.ack = d.snd_una => CloseOnInOrderFin(d, seg).conn.snd_una = d.snd_una
<1> DEFINE b == Deliver(d, seg.seq, seg.len)
           e == AdvanceRcv(b, 1)
           a == AckedBy(e, seg)
           w == WindowAfter(e, seg)
<1>1. ConnOK(b) /\ SameSend(b, d)
  BY SegFields, DeliverOK, ReceivingSameSend
<1> HIDE DEF b
<1>2. ConnOK(e) /\ SameSend(e, b)
  BY <1>1, AdvanceRcvOK, ReceivingSameSend
<1>3. CloseOnInOrderFin(d, seg) = CloseWaitOrLastAck(a, w)
  BY Zenon DEF CloseOnInOrderFin, b
<1> HIDE DEF e
<1>4. SameSend(e, d)
  BY <1>1, <1>2 DEF SameSend
<1>5. Flight(e) = Flight(d) /\ e.snd_una = d.snd_una /\ Flight(d) \in Nat
  BY <1>4, SameSendFlight, FlightType
<1>6. Flight(e) <= MaxWnd + 1 /\ ~Antipodal(e, seg)
  BY <1>4, <1>5, SizeAssumption, SMT DEF SameSend, Antipodal
<1>7. ConnOK(a) /\ w \in WindowState
  BY <1>2, AckedByOK, WindowAfterType
<1>8. Flight(a) <= Flight(e) /\ AckStep(e, a)
  BY <1>2, <1>6, AckedByFlight
<1>9. Flight(a) <= MaxWnd
  BY <1>5, <1>7, <1>8, FlightType, SizeAssumption, SMT
<1>10. AckStep(d, a)
  BY <1>4, <1>8, SameSendFlight
<1>11. ASSUME seg.ack = d.snd_una
       PROVE  a = e
  <2>1. Sub(e.snd_una, seg.ack) = 0
    BY <1>5, <1>11, SegFields, SubCases, SMT DEF SeqPoint
  <2>2. ~Precedes(e.snd_una, seg.ack)
    BY <2>1, HalfAssumption, SMT DEF Precedes
  <2> QED
    BY <2>2, Zenon DEF AckedBy
<1> HIDE DEF a, w
<1>12. FlightResult(d, CloseWaitOrLastAck(a, w))
  BY <1>7, <1>9, <1>10, FinishFlight
<1>13. CloseWaitOrLastAck(a, w).conn.snd_una = a.snd_una
  BY <1>7, <1>9, CloseWaitOrLastAckFlight
<1> QED
  BY <1>3, <1>5, <1>11, <1>12, <1>13

\* Every arm of decide_reply keeps the flight within bounds.
LEMMA ReceiveFlight ==
    ASSUME FlightInv, NEW k \in ConnKey, NEW seg \in InSegment, Receive(k, seg),
           /\ k \in DOMAIN table
           /\ seg.flags \in {"Ack", "FinAck"}
           => ~Antipodal(table[k], seg)
    PROVE  FlightStep
<1> DEFINE c == table[k]
           u == AckUpdate(c, seg)
           h == CompleteHandshake(c, seg)
<1>1. k \in DOMAIN table => ConnOK(c) /\ FlightOK(c)
  BY SameConn
<1>2. seg.len \in Nat /\ seg.len + 1 \in Nat /\ seg.seq \in SeqPoint
  BY SegFields, SMT
<1>3. ASSUME k \in DOMAIN table, seg.flags \in {"Ack", "FinAck"}
      PROVE  /\ ConnOK(u) /\ u.tcp_state = c.tcp_state
             /\ Flight(u) <= Flight(c) /\ AckStep(c, u)
  <2>1. Flight(c) <= MaxWnd + 1
    BY <1>1, <1>3 DEF FlightOK
  <2> QED
    BY <1>1, <1>3, <2>1, AckUpdateOK, AckUpdateFlight
<1>4. ASSUME In(k, "Established"), seg.flags \in {"Ack", "FinAck"}
      PROVE  /\ k \in DOMAIN table /\ Flight(c) <= MaxWnd /\ Flight(u) <= MaxWnd
             /\ u.tcp_state = "Established"
  <2>1. k \in DOMAIN table /\ c.tcp_state = "Established"
    BY <1>4 DEF In
  <2>2. Flight(c) <= MaxWnd
    BY <1>1, <2>1 DEF FlightOK, SendSideOpen
  <2>3. Flight(u) \in Nat /\ Flight(c) \in Nat
    BY <1>1, <1>3, <1>4, <2>1, FlightType
  <2> QED
    BY <1>3, <1>4, <2>1, <2>2, <2>3, SizeAssumption, SMT
<1>5. ASSUME In(k, "SynReceived"), AcceptableAck(c, seg)
      PROVE  /\ k \in DOMAIN table /\ ConnOK(h) /\ h.tcp_state = "Established"
             /\ h.snd_una = seg.ack /\ Flight(h) = 0 /\ AckStep(c, h)
  BY <1>1, <1>5, HandshakeFlight DEF In, AckStep
<1>6. 0 <= MaxWnd
  BY SizeAssumption, SMT
<1> HIDE DEF u, h
<1>7. CASE OpenConn(k, seg)
  BY <1>7, OpenFlight
<1>8. CASE \/ DropUnknownRst(k, seg) \/ IgnoreRst(k, seg) \/ RefuseUnknown(k, seg)
           \/ Refuse(k, seg) \/ EstablishedAckOfUnsent(k, seg) \/ ChallengeAck(k, seg)
           \/ FinWaitFinished(k, seg) \/ FinalAck(k, seg) \/ ResetConn(k, seg)
  <2>1. \E reply : Answer(k, reply) \/ Remove(k, reply)
    BY <1>8, Zenon DEF DropUnknownRst, IgnoreRst, RefuseUnknown, Refuse,
       EstablishedAckOfUnsent, ChallengeAck, FinWaitFinished, FinalAck, ResetConn
  <2> QED
    BY <2>1, AnswerFlight
<1>9. CASE ResendSynAck(k, seg)
  <2> DEFINE info == SynAckFor(c.snd_una, seg)
  <2>1. k \in DOMAIN table /\ Store(k, Result(Push(c, info), {info}))
    BY <1>9, Zenon DEF ResendSynAck, In
  <2> HIDE DEF info
  <2>2. SameSend(Push(c, info), c)
    BY <1>1, <2>1 DEF SameSend, Push, ConnOK, ConnState
  <2>3. FlightOK(Push(c, info)) /\ AckStep(c, Push(c, info))
    BY <1>1, <2>1, <2>2, SameSendFlight, SameConn
  <2>4. FlightResult(c, Result(Push(c, info), {info}))
    BY <2>3 DEF FlightResult, Result
  <2> QED
    BY <2>1, <2>4, StoreFlight
<1>10. CASE HandshakeAck(k, seg)
  <2> DEFINE d == DeliverContiguous(Deliver(h, seg.seq, seg.len))
             r == IF FinReached(d) THEN CloseWaitOrLastAck(AdvanceRcv(d, 1), d.window)
                  ELSE IF d.send_buffer = <<>> THEN Result(d, {})
                  ELSE SendMore(d, {PureAck(d)})
  <2>1. In(k, "SynReceived") /\ AcceptableAck(c, seg) /\ Store(k, r)
    BY <1>10, Zenon DEF HandshakeAck, h
  <2>2. /\ FlightResult(c, CloseWaitOrLastAck(AdvanceRcv(d, 1), d.window))
        /\ FlightResult(c, SendMore(d, {PureAck(d)}))
        /\ FlightResult(c, Result(d, {}))
    BY <1>2, <1>5, <1>6, <2>1, DeliveredResult
  <2>3. FlightResult(c, r)
    BY <2>2, Zenon
  <2> HIDE DEF r
  <2> QED
    BY <1>5, <2>1, <2>3, StoreFlight
<1>11. CASE HandshakeFin(k, seg)
  <2>1. In(k, "SynReceived") /\ AcceptableAck(c, seg) /\ Store(k, CloseOnInOrderFin(h, seg))
    BY <1>11, Zenon DEF HandshakeFin, h
  <2>2. ~Antipodal(h, seg)
    <3>1. Sub(seg.ack, seg.ack) = 0
      BY SegFields, SubCases, SMT DEF SeqPoint
    <3> QED
      BY <1>5, <2>1, <3>1, HalfAssumption, SMT DEF Antipodal
  <2>3. /\ FlightResult(h, CloseOnInOrderFin(h, seg))
        /\ CloseOnInOrderFin(h, seg).conn.snd_una = h.snd_una
    BY <1>5, <1>6, <2>1, <2>2, CloseOnFinFlight
  <2>4. FlightResult(c, CloseOnInOrderFin(h, seg))
    BY <1>5, <2>1, <2>3 DEF FlightResult, AckStep
  <2> QED
    BY <1>5, <2>1, <2>4, StoreFlight
<1>12. CASE HandshakeOutOfOrder(k, seg)
  <2> DEFINE e == Insert(h, seg)
             d == IF seg.flags = "FinAck" THEN MarkFin(e, seg) ELSE e
  <2>1. /\ In(k, "SynReceived") /\ AcceptableAck(c, seg)
        /\ Store(k, Result(d, {PureAck(d)}))
    BY <1>12, Zenon DEF HandshakeOutOfOrder, h
  <2>2. ConnOK(e) /\ SameSend(e, h)
    BY <1>2, <1>5, <2>1, InsertOK, ReceivingSameSend
  <2>3. SameSend(MarkFin(e, seg), e)
    BY <1>2, <2>2, ReceivingSameSend
  <2>4. SameSend(d, h)
    BY <2>2, <2>3 DEF SameSend
  <2> HIDE DEF d
  <2>5. FlightOK(h)
    BY <1>5, <2>1, SizeAssumption, SMT DEF FlightOK
  <2>6. FlightOK(d) /\ AckStep(c, d)
    BY <1>5, <2>1, <2>4, <2>5, SameSendFlight
  <2>7. FlightResult(c, Result(d, {PureAck(d)}))
    BY <2>6 DEF FlightResult, Result
  <2> QED
    BY <1>5, <2>1, <2>7, StoreFlight
<1>13. CASE EstablishedAck(k, seg)
  <2>1. In(k, "Established") /\ seg.flags = "Ack" /\ Store(k, SendMore(u, {}))
    BY <1>13, Zenon DEF EstablishedAck, PlainAck, u
  <2>2. u.tcp_state \in SendSideOpen /\ ConnOK(u) /\ u.window \in WindowState
    BY <1>3, <1>4, <2>1, Fields DEF SendSideOpen
  <2>3. FlightResult(c, SendMore(u, {}))
    BY <1>3, <1>4, <2>1, <2>2, FinishFlight
  <2> QED
    BY <1>4, <2>1, <2>3, StoreFlight
<1>14. CASE EstablishedData(k, seg)
  <2> DEFINE d == DeliverContiguous(Deliver(u, seg.seq, seg.len))
             r == IF FinReached(d) THEN CloseWaitOrLastAck(AdvanceRcv(d, 1), d.window)
                  ELSE SendMore(d, {PureAck(d)})
  <2>1. In(k, "Established") /\ seg.flags = "Ack" /\ Store(k, r)
    BY <1>14, Zenon DEF EstablishedData, InOrderData, u
  <2>2. /\ FlightResult(c, CloseWaitOrLastAck(AdvanceRcv(d, 1), d.window))
        /\ FlightResult(c, SendMore(d, {PureAck(d)}))
    BY <1>2, <1>3, <1>4, <2>1, DeliveredResult
  <2>3. FlightResult(c, r)
    BY <2>2, Zenon
  <2> HIDE DEF r
  <2> QED
    BY <1>4, <2>1, <2>3, StoreFlight
<1>15. CASE EstablishedDataAhead(k, seg)
  <2> DEFINE d == Insert(u, seg)
  <2>1. In(k, "Established") /\ seg.flags = "Ack" /\ Store(k, Result(d, {PureAck(d)}))
    BY <1>15, Zenon DEF EstablishedDataAhead, u
  <2>2. k \in DOMAIN table /\ c.tcp_state # "SynReceived"
    BY <2>1 DEF In
  <2>3. ConnOK(d) /\ SameSend(d, u)
    BY <1>2, <1>3, <2>1, <2>2, InsertOK, ReceivingSameSend
  <2> HIDE DEF d
  <2>4. d.tcp_state = c.tcp_state /\ Flight(d) <= Flight(c) /\ AckStep(c, d)
    BY <1>3, <2>1, <2>2, <2>3, SameSendFlight
  <2>5. FlightResult(c, Result(d, {PureAck(d)}))
    BY <1>1, <2>2, <2>3, <2>4, KeptFlight
  <2> QED
    BY <2>1, <2>2, <2>5, StoreFlight
<1>16. CASE EstablishedFin(k, seg)
  <2>1. In(k, "Established") /\ seg.flags = "FinAck" /\ Store(k, CloseOnInOrderFin(c, seg))
    BY <1>16, Zenon DEF EstablishedFin, InOrderFin
  <2>2. k \in DOMAIN table /\ c.tcp_state = "Established"
    BY <2>1 DEF In
  <2>3. ConnOK(c) /\ Flight(c) <= MaxWnd /\ ~Antipodal(c, seg)
    BY <1>1, <1>4, <2>1, <2>2
  <2>4. FlightResult(c, CloseOnInOrderFin(c, seg))
    BY <2>3, CloseOnFinFlight
  <2> QED
    BY <2>1, <2>2, <2>4, StoreFlight
<1>17. CASE EstablishedFinAhead(k, seg)
  <2> DEFINE e == Insert(u, seg)
             d == MarkFin(e, seg)
  <2>1. In(k, "Established") /\ seg.flags = "FinAck" /\ Store(k, Result(d, {PureAck(d)}))
    BY <1>17, Zenon DEF EstablishedFinAhead, u
  <2>2. k \in DOMAIN table /\ c.tcp_state # "SynReceived"
    BY <2>1 DEF In
  <2>3. ConnOK(e) /\ SameSend(e, u)
    BY <1>2, <1>3, <2>1, <2>2, InsertOK, ReceivingSameSend
  <2> HIDE DEF e
  <2>4. ConnOK(d) /\ SameSend(d, e)
    BY <1>2, <2>3, MarkFinOK, ReceivingSameSend
  <2> HIDE DEF d
  <2>5. SameSend(d, u)
    BY <2>3, <2>4 DEF SameSend
  <2>6. d.tcp_state = c.tcp_state /\ Flight(d) <= Flight(c) /\ AckStep(c, d)
    BY <1>3, <2>1, <2>2, <2>5, SameSendFlight
  <2>7. FlightResult(c, Result(d, {PureAck(d)}))
    BY <1>1, <2>2, <2>4, <2>6, KeptFlight
  <2> QED
    BY <2>1, <2>2, <2>7, StoreFlight
<1>18. ASSUME k \in DOMAIN table, seg.flags \in {"Ack", "FinAck"}, NEW n \in Nat
       PROVE  LET d == AdvanceRcv(c, n)
                  a == AckUpdate(d, seg)
              IN  /\ ConnOK(d) /\ ConnOK(a) /\ a.tcp_state = c.tcp_state
                  /\ Flight(a) <= Flight(c) /\ AckStep(c, a)
  <2> DEFINE d == AdvanceRcv(c, n)
             a == AckUpdate(d, seg)
  <2>1. ConnOK(d) /\ SameSend(d, c)
    BY <1>1, <1>18, AdvanceRcvOK, ReceivingSameSend
  <2> HIDE DEF d
  <2>2. Flight(d) <= MaxWnd + 1 /\ ~Antipodal(d, seg)
    BY <1>1, <1>18, <2>1, SameSendFlight DEF FlightOK, SameSend, Antipodal
  <2>3. /\ ConnOK(a) /\ a.tcp_state = d.tcp_state
        /\ Flight(a) <= Flight(d) /\ AckStep(d, a)
    BY <2>1, <2>2, AckUpdateOK, AckUpdateFlight
  <2> HIDE DEF a
  <2>4. a.tcp_state = c.tcp_state /\ Flight(a) <= Flight(c) /\ AckStep(c, a)
    BY <2>1, <2>3, SameSendFlight
  <2> QED
    BY <2>1, <2>3, <2>4 DEF a, d
<1>19. CASE FinWaitData(k, seg)
  <2> DEFINE d == AdvanceRcv(c, seg.len)
             a == AckUpdate(d, seg)
  <2>1. /\ k \in DOMAIN table /\ c.tcp_state # "SynReceived" /\ seg.flags = "Ack"
        /\ Store(k, Result(a, {PureAck(d)}))
    BY <1>19 DEF FinWaitData, InOrderData, In
  <2>2. ConnOK(a) /\ a.tcp_state = c.tcp_state /\ Flight(a) <= Flight(c) /\ AckStep(c, a)
    BY <1>2, <1>18, <2>1
  <2> HIDE DEF a
  <2>3. FlightResult(c, Result(a, {PureAck(d)}))
    BY <1>1, <2>1, <2>2, KeptFlight
  <2> QED
    BY <2>1, <2>3, StoreFlight
<1>20. CASE FinWait1FinAcked(k, seg)
  <2> DEFINE d == [u EXCEPT !.tcp_state = "FinWait2"]
  <2>1. /\ k \in DOMAIN table /\ c.tcp_state = "FinWait1" /\ seg.flags = "Ack"
        /\ Store(k, Result(d, {}))
    BY <1>20, Zenon DEF FinWait1FinAcked, PlainAck, In, u
  <2>2. ConnOK(u) /\ Flight(u) <= Flight(c) /\ AckStep(c, u)
    BY <1>3, <2>1
  <2>3. ConnOK(d)
    BY <2>2, UpdateOK, Zenon DEF TcpState
  <2>4. d.snd_nxt = u.snd_nxt /\ d.snd_una = u.snd_una /\ d.tcp_state = "FinWait2"
    BY <2>2 DEF ConnOK, ConnState
  <2> HIDE DEF d
  <2>5. Flight(d) <= Flight(c) /\ AckStep(c, d)
    BY <2>2, <2>4 DEF Flight, AckStep
  <2>6. FlightResult(c, Result(d, {}))
    BY <1>1, <2>1, <2>3, <2>4, <2>5, KeptFlight
  <2> QED
    BY <2>1, <2>6, StoreFlight
<1>21. CASE PartialAck(k, seg)
  <2>1. /\ k \in DOMAIN table /\ c.tcp_state # "SynReceived" /\ seg.flags = "Ack"
        /\ Store(k, Result(u, {}))
    BY <1>21 DEF PartialAck, PlainAck, In, u
  <2>2. FlightResult(c, Result(u, {}))
    BY <1>1, <1>3, <2>1, KeptFlight
  <2> QED
    BY <2>1, <2>2, StoreFlight
<1>22. CASE FinWait1Fin(k, seg)
  <2> DEFINE d == AdvanceRcv(c, seg.len + 1)
             a == AckUpdate(d, seg)
             e == [a EXCEPT !.tcp_state = "Closing"]
  <2>1. /\ k \in DOMAIN table /\ c.tcp_state = "FinWait1" /\ seg.flags = "FinAck"
        /\ Store(k, Result(e, {PureAck(d)}))
    BY <1>22, Zenon DEF FinWait1Fin, InOrderFin, In
  <2>2. ConnOK(a) /\ Flight(a) <= Flight(c) /\ AckStep(c, a)
    BY <1>2, <1>18, <2>1
  <2> HIDE DEF a
  <2>3. ConnOK(e)
    BY <2>2, UpdateOK, Zenon DEF TcpState
  <2>4. e.snd_nxt = a.snd_nxt /\ e.snd_una = a.snd_una /\ e.tcp_state = "Closing"
    BY <2>2 DEF ConnOK, ConnState
  <2> HIDE DEF e
  <2>5. Flight(e) <= Flight(c) /\ AckStep(c, e)
    BY <2>2, <2>4 DEF Flight, AckStep
  <2>6. FlightResult(c, Result(e, {PureAck(d)}))
    BY <1>1, <2>1, <2>3, <2>4, <2>5, KeptFlight
  <2> QED
    BY <2>1, <2>6, StoreFlight
<1>23. CASE CloseWaitAck(k, seg)
  <2> DEFINE a == AckedBy(c, seg)
             w == WindowAfter(c, seg)
  <2>1. /\ k \in DOMAIN table /\ c.tcp_state = "CloseWait" /\ seg.flags = "Ack"
        /\ Store(k, CloseWaitOrLastAck(a, w))
    BY <1>23, Zenon DEF CloseWaitAck, PlainAck, In
  <2>2. ConnOK(a) /\ w \in WindowState
    BY <1>1, <2>1, AckedByOK, WindowAfterType
  <2>3. Flight(c) <= MaxWnd /\ Flight(c) <= MaxWnd + 1
    BY <1>1, <2>1 DEF FlightOK, SendSideOpen
  <2>4. Flight(a) <= Flight(c) /\ AckStep(c, a)
    BY <1>1, <2>1, <2>3, AckedByFlight
  <2>5. Flight(a) <= MaxWnd
    <3>1. Flight(a) \in Nat /\ Flight(c) \in Nat
      BY <1>1, <2>1, <2>2, FlightType
    <3> QED
      BY <2>3, <2>4, <3>1, SizeAssumption, SMT
  <2>6. FlightResult(c, CloseWaitOrLastAck(a, w))
    BY <2>2, <2>4, <2>5, FinishFlight
  <2> QED
    BY <2>1, <2>6, StoreFlight
<1> QED
  BY <1>7, <1>8, <1>9, <1>10, <1>11, <1>12, <1>13, <1>14, <1>15, <1>16, <1>17, <1>19,
     <1>20, <1>21, <1>22, <1>23, Receive(k, seg), Zenon DEF Receive

\* The timer sends nothing new.
LEMMA TimerFlight ==
    ASSUME FlightInv, NEW due \in DueChoices, MakeRetransmissions(due)
    PROVE  FlightStep
<1> DEFINE GivenUp == {k \in DOMAIN table : \E p \in due[k] : ExhaustedRetries(p, MaxRetries)}
           Kept    == DOMAIN table \ GivenUp
           P(k)    == (table[k].pending \ due[k]) \cup {Retried(p) : p \in due[k]}
           N(k)    == [table[k] EXCEPT !.pending = P(k)]
<1>1. table' = [k \in Kept |-> N(k)] /\ fault' = FALSE
  BY Zenon DEF MakeRetransmissions
<1>2. Kept \subseteq DOMAIN table
  OBVIOUS
<1> HIDE DEF Kept, P
<1>3. \A k \in Kept : SameSend(N(k), table[k])
  BY <1>2, SameConn DEF SameSend, ConnOK, ConnState
<1> HIDE DEF N
<1>4. \A k \in Kept : FlightOK(N(k)) /\ AckStep(table[k], N(k))
  BY <1>2, <1>3, SameConn, SameSendFlight
<1>5. DOMAIN table' = Kept /\ \A k \in Kept : table'[k] = N(k)
  BY <1>1
<1> QED
  BY <1>1, <1>4, <1>5, Zenon DEF FlightStep

\* The active close adds our FIN to what an open window allows.
LEMMA CloseFlight ==
    ASSUME FlightInv, CloseEstablished
    PROVE  FlightStep
<1> DEFINE Open == {k \in DOMAIN table : table[k].tcp_state = "Established"}
           N(k) == IF k \in Open THEN Closed(table[k]) ELSE table[k]
<1>1. table' = [k \in DOMAIN table |-> N(k)] /\ fault' = FALSE
  BY Zenon DEF CloseEstablished
<1>2. \A k \in Open : k \in DOMAIN table /\ ConnOK(table[k]) /\ Flight(table[k]) <= MaxWnd
  BY SameConn DEF FlightOK, SendSideOpen
<1>3. \A k \in Open : FlightOK(Closed(table[k])) /\ AckStep(table[k], Closed(table[k]))
  BY <1>2, ClosedFlight, NoAckStep
<1>4. \A k \in DOMAIN table : FlightOK(N(k)) /\ AckStep(table[k], N(k))
  BY <1>3, SameConn, Zenon
<1> HIDE DEF N
<1>5. DOMAIN table' = DOMAIN table /\ \A k \in DOMAIN table : table'[k] = N(k)
  BY <1>1
<1> QED
  BY <1>1, <1>4, <1>5, Zenon DEF FlightStep

\* Every step keeps the flight within bounds.
LEMMA NextFlight ==
    ASSUME FlightInv, Next, NoAntipodalAck
    PROVE  FlightInv' /\ FlightStep
<1>1. FlightStep
  <2>1. CASE \E k \in ConnKey, seg \in Traffic : Receive(k, seg)
    <3>1. PICK k \in ConnKey, seg \in Traffic : Receive(k, seg)
      BY <2>1
    <3>2. seg \in InSegment
      BY TrafficAssumption
    <3>3. /\ k \in DOMAIN table
          /\ seg.flags \in {"Ack", "FinAck"}
          => ~Antipodal(table[k], seg)
      BY <3>1 DEF NoAntipodalAck
    <3> QED
      BY <3>1, <3>2, <3>3, ReceiveFlight
  <2>2. CASE \E due \in DueChoices : MakeRetransmissions(due)
    BY <2>2, TimerFlight
  <2>3. CASE CloseEstablished
    BY <2>3, CloseFlight
  <2> QED
    BY <2>1, <2>2, <2>3 DEF Next
<1>2. TypeOK'
  BY NextType DEF FlightInv
<1> QED
  BY <1>1, <1>2, Zenon DEF FlightStep, FlightInv, FlightOK, Flight

\* The invariant holds of every reachable state.
LEMMA FlightInvariant ==
    Spec /\ [][NoAntipodalAck]_vars => []FlightInv
<1>1. Init => FlightInv
  <2> SUFFICES ASSUME Init PROVE FlightInv
    OBVIOUS
  <2>1. TypeOK /\ DOMAIN table = {} /\ ~fault
    BY InitType DEF Init
  <2> QED
    BY <2>1 DEF FlightInv
<1>2. FlightInv /\ [Next]_vars /\ [NoAntipodalAck]_vars => FlightInv'
  <2>1. ASSUME FlightInv, Next, NoAntipodalAck PROVE FlightInv'
    BY <2>1, NextFlight
  <2>2. ASSUME FlightInv, UNCHANGED vars PROVE FlightInv'
    BY <2>2 DEF vars, FlightInv, TypeOK
  <2> QED
    BY <2>1, <2>2
<1> QED
  BY <1>1, <1>2, PTL DEF Spec

\* What is sent and unacknowledged fits the largest window and our FIN, on every
\* connection, however segments are lost, duplicated and reordered, and wherever the
\* sequence numbers wrap, as long as no antipodal ACK arrives.
THEOREM FlightBounded ==
    Spec /\ [][NoAntipodalAck]_vars => []UnackedBounded
<1>1. FlightInv => UnackedBounded
  BY Zenon DEF FlightInv, FlightOK, Flight, UnackedBounded
<1> QED
  BY <1>1, FlightInvariant, PTL

\* Only an antipodal ACK makes a handler return the error of drain_transmittable: as long
\* as none arrives, SND.NXT - SND.UNA is never negative where it is converted to usize.
THEOREM HandlersNeverFail ==
    Spec /\ [][NoAntipodalAck]_vars => []DrainNeverFails
<1>1. FlightInv => DrainNeverFails
  BY DEF FlightInv, DrainNeverFails
<1> QED
  BY <1>1, FlightInvariant, PTL

\* SND.UNA only moves forward, and never past what had been sent: but for antipodal ACKs,
\* the two circular comparisons in incoming_ack_update, and those in handle_syn_rcv,
\* accept nothing else.
THEOREM OnlySentIsAcked ==
    Spec /\ [][NoAntipodalAck]_vars => AckedWasSent
<1> DEFINE A == \A k \in DOMAIN table \cap DOMAIN table' :
                    Sub(table'[k].snd_una, table[k].snd_una)
                        <= Sub(table[k].snd_nxt, table[k].snd_una)
<1>1. FlightInv /\ [Next]_vars /\ [NoAntipodalAck]_vars => [A]_vars
  <2>1. ASSUME FlightInv, Next, NoAntipodalAck PROVE A
    BY <2>1, NextFlight, Zenon DEF FlightStep, AckStep, Flight
  <2> QED
    BY <2>1
<1> QED
  BY <1>1, FlightInvariant, PTL DEF Spec, AckedWasSent
=============================================================================
