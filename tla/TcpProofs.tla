------------------------------ MODULE TcpProofs ------------------------------
(***************************************************************************)
(* Theorems about the connection table, for every value of the constants:  *)
(* any traffic, any number of connections, any window and space sizes.     *)
(***************************************************************************)
EXTENDS TcpConnections, TcpConnProofs

\* The parts of TypeOK that a step has to establish.
LEMMA TypeParts ==
    TypeOK <=> /\ DOMAIN table \subseteq ConnKey
               /\ table = [k \in DOMAIN table |-> table[k]]
               /\ \A k \in DOMAIN table : ConnOK(table[k])
               /\ origin \in [DOMAIN table -> [iss: SeqPoint, irs: SeqPoint]]
               /\ out \subseteq [key: ConnKey, info: SendInfo]
               /\ fault \in BOOLEAN
BY Zenon DEF TypeOK, ConnOK

\* Replies addressed to a key are messages.
LEMMA AddressedType ==
    ASSUME NEW k \in ConnKey, NEW reply \in SUBSET SendInfo
    PROVE  Addressed(k, reply) \subseteq [key: ConnKey, info: SendInfo]
BY DEF Addressed

\* Storing a well-formed result preserves TypeOK.
LEMMA StoreType ==
    ASSUME TypeOK, NEW k \in DOMAIN table, NEW r, ResultOK(r), Store(k, r)
    PROVE  TypeOK'
<1>1. DOMAIN table' = DOMAIN table
  BY DEF Store, TypeOK
<1>2. \A x \in DOMAIN table : ConnOK(table'[x])
  BY TypeParts DEF Store, ResultOK
<1>3. table' = [x \in DOMAIN table' |-> table'[x]]
  BY TypeParts DEF Store
<1>4. k \in ConnKey
  BY DEF TypeOK
<1>5. out' \subseteq [key: ConnKey, info: SendInfo] /\ fault' \in BOOLEAN
  BY <1>4, AddressedType DEF Store, ResultOK
<1>6. origin' = origin
  BY DEF Store
<1> QED
  BY <1>1, <1>2, <1>3, <1>5, <1>6, Zenon DEF TypeOK, ConnOK

\* Replying with segments preserves TypeOK.
LEMMA AnswerType ==
    ASSUME TypeOK, NEW k \in ConnKey, NEW reply \in SUBSET SendInfo, Answer(k, reply)
    PROVE  TypeOK'
<1>1. out' \subseteq [key: ConnKey, info: SendInfo]
  BY AddressedType DEF Answer
<1>2. table' = table /\ origin' = origin /\ fault' \in BOOLEAN
  BY DEF Answer
<1> QED
  BY <1>1, <1>2 DEF TypeOK

\* Removing a connection preserves TypeOK.
LEMMA RemoveType ==
    ASSUME TypeOK, NEW k \in ConnKey, NEW reply \in SUBSET SendInfo, Remove(k, reply)
    PROVE  TypeOK'
<1>1. table' = [x \in DOMAIN table \ {k} |-> table[x]]
  BY DEF Remove, Without
<1>2. DOMAIN origin = DOMAIN table
  BY DEF TypeOK
<1>3. origin' = [x \in DOMAIN table \ {k} |-> origin[x]]
  BY <1>2 DEF Remove, Without
<1>4. DOMAIN table' = DOMAIN table \ {k}
  BY <1>1
<1>5. \A x \in DOMAIN table' : ConnOK(table'[x])
  BY <1>1, <1>4, TypeParts
<1>6. table' = [x \in DOMAIN table' |-> table'[x]]
  BY <1>1
<1>7. origin' \in [DOMAIN table' -> [iss: SeqPoint, irs: SeqPoint]]
  BY <1>3, <1>4 DEF TypeOK
<1>8. out' \subseteq [key: ConnKey, info: SendInfo] /\ fault' \in BOOLEAN
  BY AddressedType DEF Remove
<1>9. DOMAIN table' \subseteq ConnKey
  BY <1>4 DEF TypeOK
<1> QED
  BY <1>5, <1>6, <1>7, <1>8, <1>9, Zenon DEF TypeOK, ConnOK

\* A new connection preserves TypeOK.
LEMMA OpenType ==
    ASSUME TypeOK, NEW k \in ConnKey, NEW seg \in InSegment, OpenConn(k, seg)
    PROVE  TypeOK'
<1>1. PICK iss \in Isn :
        /\ table' = With(table, k, FromSynAck(SynAckFor(iss, seg)))
        /\ origin' = With(origin, k, [iss |-> iss, irs |-> seg.seq])
        /\ out' = Addressed(k, {SynAckFor(iss, seg)})
        /\ fault' = FALSE
  BY Zenon DEF OpenConn
<1> DEFINE info == SynAckFor(iss, seg)
           c    == FromSynAck(info)
           o    == [iss |-> iss, irs |-> seg.seq]
<1>2. iss \in SeqPoint
  BY TrafficAssumption
<1>3. info \in SendInfo
  BY <1>2, RepliesType
<1>4. ConnOK(c)
  BY <1>3, FromSynAckOK
<1>5. o \in [iss: SeqPoint, irs: SeqPoint]
  BY <1>2, SegFields
<1>6. out' \subseteq [key: ConnKey, info: SendInfo] /\ fault' \in BOOLEAN
  BY <1>1, <1>3, AddressedType
<1>7. DOMAIN origin = DOMAIN table
  BY DEF TypeOK
<1>8. /\ table' = [x \in DOMAIN table \cup {k} |-> IF x = k THEN c ELSE table[x]]
      /\ origin' = [x \in DOMAIN table \cup {k} |-> IF x = k THEN o ELSE origin[x]]
  BY <1>1, <1>7, Zenon DEF With
<1> HIDE DEF info, c, o
<1>9. DOMAIN table' = DOMAIN table \cup {k}
  BY <1>8
<1>10. \A x \in DOMAIN table' : ConnOK(table'[x])
  BY <1>4, <1>8, <1>9, TypeParts
<1>11. table' = [x \in DOMAIN table' |-> table'[x]]
  BY <1>8
<1>12. origin' \in [DOMAIN table' -> [iss: SeqPoint, irs: SeqPoint]]
  BY <1>5, <1>8, <1>9 DEF TypeOK
<1>13. DOMAIN table' \subseteq ConnKey
  BY <1>9 DEF TypeOK
<1> QED
  BY <1>6, <1>10, <1>11, <1>12, <1>13, Zenon DEF TypeOK, ConnOK

\* Every arm of decide_reply preserves TypeOK.
LEMMA ReceiveType ==
    ASSUME TypeOK, NEW k \in ConnKey, NEW seg \in InSegment, Receive(k, seg)
    PROVE  TypeOK'
<1> DEFINE c == table[k]
<1>1. k \in DOMAIN table => ConnOK(c)
  BY TypeParts
<1>2. seg.len \in Nat /\ seg.len + 1 \in Nat /\ RstFor(seg) \in SendInfo
  BY SegFields, RepliesType, SMT
<1>3. CASE OpenConn(k, seg)
  BY <1>3, OpenType
<1>4. CASE DropUnknownRst(k, seg) \/ IgnoreRst(k, seg)
  BY <1>4, AnswerType DEF DropUnknownRst, IgnoreRst
<1>5. CASE RefuseUnknown(k, seg) \/ Refuse(k, seg)
  BY <1>2, <1>5, AnswerType DEF RefuseUnknown, Refuse
<1>6. CASE ResendSynAck(k, seg)
  <2> DEFINE info == SynAckFor(c.snd_una, seg)
  <2>1. k \in DOMAIN table /\ Store(k, Result(Push(c, info), {info}))
    BY <1>6, Zenon DEF ResendSynAck, In
  <2>2. info \in SendInfo
    BY <1>1, <2>1, Fields, RepliesType
  <2> HIDE DEF info
  <2>3. ResultOK(Result(Push(c, info), {info}))
    BY <1>1, <2>1, <2>2, PushOK, ResultsOK
  <2> QED
    BY <2>1, <2>3, StoreType
<1>7. CASE HandshakeAck(k, seg)
  <2> DEFINE d == DeliverContiguous(Deliver(CompleteHandshake(c, seg), seg.seq, seg.len))
             r == IF FinReached(d) THEN CloseWaitOrLastAck(AdvanceRcv(d, 1), d.window)
                  ELSE IF d.send_buffer = <<>> THEN Result(d, {})
                  ELSE SendMore(d, {PureAck(d)})
  <2>1. k \in DOMAIN table /\ Store(k, r)
    BY <1>7, Zenon DEF HandshakeAck, In
  <2>2. ConnOK(Deliver(CompleteHandshake(c, seg), seg.seq, seg.len))
    BY <1>1, <1>2, <2>1, SegFields, CompleteHandshakeOK, DeliverOK
  <2>3. ConnOK(d)
    BY <2>2, DeliverContiguousOK
  <2> HIDE DEF d
  <2>4. ResultOK(CloseWaitOrLastAck(AdvanceRcv(d, 1), d.window))
    BY <2>3, AdvanceRcvOK, Fields, CloseWaitOrLastAckOK
  <2>5. ResultOK(Result(d, {})) /\ ResultOK(SendMore(d, {PureAck(d)}))
    BY <2>3, PureAckType, ResultsOK, SendMoreOK
  <2>6. ResultOK(r)
    BY <2>4, <2>5, Zenon
  <2> HIDE DEF r
  <2> QED
    BY <2>1, <2>6, StoreType
<1>8. CASE HandshakeFin(k, seg)
  <2>1. k \in DOMAIN table /\ Store(k, CloseOnInOrderFin(CompleteHandshake(c, seg), seg))
    BY <1>8, Zenon DEF HandshakeFin, In
  <2>2. ResultOK(CloseOnInOrderFin(CompleteHandshake(c, seg), seg))
    BY <1>1, <2>1, CompleteHandshakeOK, CloseOnInOrderFinOK
  <2> QED
    BY <2>1, <2>2, StoreType
<1>9. CASE HandshakeOutOfOrder(k, seg)
  <2> DEFINE e == Insert(CompleteHandshake(c, seg), seg)
             d == IF seg.flags = "FinAck" THEN MarkFin(e, seg) ELSE e
  <2>1. k \in DOMAIN table /\ Store(k, Result(d, {PureAck(d)}))
    BY <1>9, Zenon DEF HandshakeOutOfOrder, In
  <2>2. ConnOK(e)
    BY <1>1, <2>1, CompleteHandshakeOK, InsertOK
  <2>3. ConnOK(d)
    BY <2>2, MarkFinOK, Zenon
  <2> HIDE DEF d
  <2>4. ResultOK(Result(d, {PureAck(d)}))
    BY <2>3, PureAckType, ResultsOK
  <2> QED
    BY <2>1, <2>4, StoreType
<1>10. CASE EstablishedAckOfUnsent(k, seg) \/ ChallengeAck(k, seg)
  <2>1. k \in DOMAIN table /\ Answer(k, {PureAck(c)})
    BY <1>10 DEF EstablishedAckOfUnsent, ChallengeAck, In, Unhandled
  <2> QED
    BY <1>1, <2>1, PureAckType, AnswerType
<1>11. CASE EstablishedAck(k, seg)
  <2>1. k \in DOMAIN table /\ Store(k, SendMore(AckUpdate(c, seg), {}))
    BY <1>11, Zenon DEF EstablishedAck, In
  <2>2. ResultOK(SendMore(AckUpdate(c, seg), {}))
    BY <1>1, <2>1, AckUpdateOK, SendMoreOK
  <2> QED
    BY <2>1, <2>2, StoreType
<1>12. CASE EstablishedData(k, seg)
  <2> DEFINE d == DeliverContiguous(Deliver(AckUpdate(c, seg), seg.seq, seg.len))
             r == IF FinReached(d) THEN CloseWaitOrLastAck(AdvanceRcv(d, 1), d.window)
                  ELSE SendMore(d, {PureAck(d)})
  <2>1. k \in DOMAIN table /\ Store(k, r)
    BY <1>12, Zenon DEF EstablishedData, In
  <2>2. ConnOK(Deliver(AckUpdate(c, seg), seg.seq, seg.len))
    BY <1>1, <1>2, <2>1, SegFields, AckUpdateOK, DeliverOK
  <2>3. ConnOK(d)
    BY <2>2, DeliverContiguousOK
  <2> HIDE DEF d
  <2>4. ResultOK(CloseWaitOrLastAck(AdvanceRcv(d, 1), d.window))
    BY <2>3, AdvanceRcvOK, Fields, CloseWaitOrLastAckOK
  <2>5. ResultOK(SendMore(d, {PureAck(d)}))
    BY <2>3, PureAckType, SendMoreOK
  <2>6. ResultOK(r)
    BY <2>4, <2>5, Zenon
  <2> HIDE DEF r
  <2> QED
    BY <2>1, <2>6, StoreType
<1>13. CASE EstablishedDataAhead(k, seg)
  <2> DEFINE d == Insert(AckUpdate(c, seg), seg)
  <2>1. k \in DOMAIN table /\ Store(k, Result(d, {PureAck(d)}))
    BY <1>13, Zenon DEF EstablishedDataAhead, In
  <2>2. ConnOK(d)
    BY <1>1, <2>1, AckUpdateOK, InsertOK
  <2>3. ResultOK(Result(d, {PureAck(d)}))
    BY <2>2, PureAckType, ResultsOK
  <2> QED
    BY <2>1, <2>3, StoreType
<1>14. CASE EstablishedFin(k, seg)
  <2>1. k \in DOMAIN table /\ Store(k, CloseOnInOrderFin(c, seg))
    BY <1>14, Zenon DEF EstablishedFin, In
  <2> QED
    BY <1>1, <2>1, CloseOnInOrderFinOK, StoreType
<1>15. CASE EstablishedFinAhead(k, seg)
  <2> DEFINE d == MarkFin(Insert(AckUpdate(c, seg), seg), seg)
  <2>1. k \in DOMAIN table /\ Store(k, Result(d, {PureAck(d)}))
    BY <1>15, Zenon DEF EstablishedFinAhead, In
  <2>2. ConnOK(d)
    BY <1>1, <2>1, AckUpdateOK, InsertOK, MarkFinOK
  <2>3. ResultOK(Result(d, {PureAck(d)}))
    BY <2>2, PureAckType, ResultsOK
  <2> QED
    BY <2>1, <2>3, StoreType
<1>16. CASE FinWaitData(k, seg)
  <2> DEFINE d == AdvanceRcv(c, seg.len)
  <2>1. k \in DOMAIN table /\ Store(k, Result(AckUpdate(d, seg), {PureAck(d)}))
    BY <1>16, Zenon DEF FinWaitData, In
  <2>2. ConnOK(d)
    BY <1>1, <1>2, <2>1, AdvanceRcvOK
  <2>3. ResultOK(Result(AckUpdate(d, seg), {PureAck(d)}))
    BY <2>2, AckUpdateOK, PureAckType, ResultsOK
  <2> QED
    BY <2>1, <2>3, StoreType
<1>17. CASE FinWait1FinAcked(k, seg)
  <2> DEFINE d == [AckUpdate(c, seg) EXCEPT !.tcp_state = "FinWait2"]
  <2>1. k \in DOMAIN table /\ Store(k, Result(d, {}))
    BY <1>17, Zenon DEF FinWait1FinAcked, In
  <2>2. ConnOK(d)
    BY <1>1, <2>1, AckUpdateOK, UpdateOK, Zenon DEF TcpState
  <2>3. ResultOK(Result(d, {}))
    BY <2>2, ResultsOK
  <2> QED
    BY <2>1, <2>3, StoreType
<1>18. CASE PartialAck(k, seg)
  <2>1. k \in DOMAIN table /\ Store(k, Result(AckUpdate(c, seg), {}))
    BY <1>18, Zenon DEF PartialAck, In
  <2>2. ResultOK(Result(AckUpdate(c, seg), {}))
    BY <1>1, <2>1, AckUpdateOK, ResultsOK
  <2> QED
    BY <2>1, <2>2, StoreType
<1>19. CASE FinWait1Fin(k, seg)
  <2> DEFINE d == AdvanceRcv(c, seg.len + 1)
             e == [AckUpdate(d, seg) EXCEPT !.tcp_state = "Closing"]
  <2>1. k \in DOMAIN table /\ Store(k, Result(e, {PureAck(d)}))
    BY <1>19, Zenon DEF FinWait1Fin, In
  <2>2. ConnOK(d)
    BY <1>1, <1>2, <2>1, AdvanceRcvOK
  <2>3. ConnOK(e)
    BY <2>2, AckUpdateOK, UpdateOK, Zenon DEF TcpState
  <2>4. ResultOK(Result(e, {PureAck(d)}))
    BY <2>2, <2>3, PureAckType, ResultsOK
  <2> QED
    BY <2>1, <2>4, StoreType
<1>20. CASE FinWaitFinished(k, seg)
  <2> DEFINE d == AdvanceRcv(c, seg.len + 1)
  <2>1. k \in DOMAIN table /\ Remove(k, {PureAck(d)})
    BY <1>20, Zenon DEF FinWaitFinished, In
  <2>2. ConnOK(d)
    BY <1>1, <1>2, <2>1, AdvanceRcvOK
  <2> QED
    BY <2>1, <2>2, PureAckType, RemoveType
<1>21. CASE CloseWaitAck(k, seg)
  <2> DEFINE r == CloseWaitOrLastAck(AckedBy(c, seg), WindowAfter(c, seg))
  <2>1. k \in DOMAIN table /\ Store(k, r)
    BY <1>21, Zenon DEF CloseWaitAck, In
  <2>2. ResultOK(r)
    BY <1>1, <2>1, AckedByOK, WindowAfterType, CloseWaitOrLastAckOK
  <2> QED
    BY <2>1, <2>2, StoreType
<1>22. CASE FinalAck(k, seg) \/ ResetConn(k, seg)
  BY <1>22, RemoveType DEF FinalAck, ResetConn
<1> QED
  BY <1>3, <1>4, <1>5, <1>6, <1>7, <1>8, <1>9, <1>10, <1>11, <1>12, <1>13, <1>14,
     <1>15, <1>16, <1>17, <1>18, <1>19, <1>20, <1>21, <1>22, Receive(k, seg), Zenon
     DEF Receive

\* Retransmitted segments are pending segments, and no more of them than were due.
LEMMA RetriedOK ==
    ASSUME NEW c, ConnOK(c), NEW due \in SUBSET c.pending
    PROVE  ConnOK([c EXCEPT !.pending = (c.pending \ due) \cup {Retried(p) : p \in due}])
<1> DEFINE R == {Retried(p) : p \in due}
           f == [p \in due |-> Retried(p)]
           P == (c.pending \ due) \cup R
<1>1. c.pending \subseteq PendingSegment /\ IsFiniteSet(c.pending)
  BY Fields
<1>2. \A p \in PendingSegment : Retried(p) \in PendingSegment
  BY SMT DEF PendingSegment, Retried
<1>3. P \in SUBSET PendingSegment
  BY <1>1, <1>2
<1>4. IsFiniteSet(due) /\ IsFiniteSet(c.pending \ due)
  BY <1>1, FS_Subset
<1>5. f \in Surjection(due, R)
  BY DEF Surjection
<1>6. IsFiniteSet(R)
  BY <1>4, <1>5, FS_Surjection, Zenon
<1>7. IsFiniteSet(P)
  BY <1>4, <1>6, FS_Union
<1> HIDE DEF P
<1>8. ConnOK([c EXCEPT !.pending = P])
  BY <1>3, <1>7, UpdateOK, Zenon
<1> QED
  BY <1>8 DEF P

\* Serving the timer preserves TypeOK.
LEMMA TimerType ==
    ASSUME TypeOK, NEW due \in DueChoices, MakeRetransmissions(due)
    PROVE  TypeOK'
<1> DEFINE GivenUp == {k \in DOMAIN table : \E p \in due[k] : ExhaustedRetries(p, MaxRetries)}
           Kept    == DOMAIN table \ GivenUp
           N(k)    == [table[k] EXCEPT !.pending = (table[k].pending \ due[k])
                                            \cup {Retried(p) : p \in due[k]}]
<1>1. /\ table' = [k \in Kept |-> N(k)]
      /\ origin' = [k \in Kept |-> origin[k]]
      /\ out' = UNION {Addressed(k, {p.info : p \in due[k]}) : k \in Kept}
      /\ fault' = FALSE
  BY Zenon DEF MakeRetransmissions
<1>2. \A k \in DOMAIN table : due[k] \in SUBSET table[k].pending
  BY Zenon DEF DueChoices
<1>3. \A k \in DOMAIN table : ConnOK(table[k])
  BY TypeParts
<1>4. \A k \in DOMAIN table : ConnOK(N(k))
  BY <1>2, <1>3, RetriedOK, Zenon
<1>5. Kept \subseteq DOMAIN table /\ Kept \subseteq ConnKey
  BY DEF TypeOK
<1>6. \A k \in Kept : {p.info : p \in due[k]} \in SUBSET SendInfo
  <2>1. \A k \in Kept : due[k] \subseteq PendingSegment
    BY <1>2, <1>3, <1>5, Fields, Zenon
  <2> QED
    BY <2>1 DEF PendingSegment
<1> HIDE DEF Kept, N
<1>7. \A k \in Kept : Addressed(k, {p.info : p \in due[k]}) \subseteq [key: ConnKey, info: SendInfo]
  BY <1>5, <1>6, AddressedType, Zenon
<1>8. out' \subseteq [key: ConnKey, info: SendInfo]
  BY <1>1, <1>7, Zenon
<1>9. DOMAIN table' = Kept
  BY <1>1
<1>10. table' = [k \in DOMAIN table' |-> table'[k]]
  BY <1>1, <1>9
<1>11. \A k \in DOMAIN table' : ConnOK(table'[k])
  BY <1>1, <1>4, <1>5, <1>9
<1>12. origin' \in [DOMAIN table' -> [iss: SeqPoint, irs: SeqPoint]]
  BY <1>1, <1>5, <1>9 DEF TypeOK
<1>13. fault' \in BOOLEAN
  BY <1>1
<1> QED
  BY <1>5, <1>8, <1>9, <1>10, <1>11, <1>12, <1>13, Zenon DEF TypeOK, ConnOK

\* Sending our FIN keeps the connection well formed.
LEMMA ClosedOK ==
    ASSUME NEW c, ConnOK(c)
    PROVE  /\ DataInfo(c, <<>>, "FinAck") \in SendInfo
           /\ ConnOK(Closed(c))
<1>1. <<>> \in Seq(SeqPoint)
  BY EmptySeq
<1>2. DataInfo(c, <<>>, "FinAck") \in SendInfo
  BY <1>1, DataInfoType
<1>3. ConnOK([c EXCEPT !.tcp_state = "FinWait1"])
  BY UpdateOK, Zenon DEF TcpState
<1> QED
  BY <1>2, <1>3, SentOK DEF Closed

\* The active close preserves TypeOK.
LEMMA CloseType ==
    ASSUME TypeOK, CloseEstablished
    PROVE  TypeOK'
<1> DEFINE Open == {k \in DOMAIN table : table[k].tcp_state = "Established"}
           N(k) == IF k \in Open THEN Closed(table[k]) ELSE table[k]
<1>1. /\ table' = [k \in DOMAIN table |-> N(k)]
      /\ out' = {[key |-> k, info |-> DataInfo(table[k], <<>>, "FinAck")] : k \in Open}
      /\ fault' = FALSE
      /\ origin' = origin
  BY Zenon DEF CloseEstablished
<1>2. \A k \in DOMAIN table : ConnOK(N(k)) /\ DataInfo(table[k], <<>>, "FinAck") \in SendInfo
  BY TypeParts, ClosedOK
<1>3. Open \subseteq DOMAIN table /\ DOMAIN table \subseteq ConnKey
  BY DEF TypeOK
<1> HIDE DEF Open, N
<1>4. out' \subseteq [key: ConnKey, info: SendInfo]
  BY <1>1, <1>2, <1>3
<1>5. DOMAIN table' = DOMAIN table
  BY <1>1
<1>6. \A k \in DOMAIN table' : ConnOK(table'[k])
  BY <1>1, <1>2, <1>5
<1>7. table' = [k \in DOMAIN table' |-> table'[k]]
  BY <1>1, <1>5
<1>8. origin' \in [DOMAIN table' -> [iss: SeqPoint, irs: SeqPoint]] /\ fault' \in BOOLEAN
  BY <1>1, <1>5 DEF TypeOK
<1> QED
  BY <1>3, <1>4, <1>5, <1>6, <1>7, <1>8, Zenon DEF TypeOK, ConnOK

\* Every step preserves TypeOK.
LEMMA NextType ==
    ASSUME TypeOK, [Next]_vars
    PROVE  TypeOK'
<1>1. CASE \E k \in ConnKey, seg \in Traffic : Receive(k, seg)
  BY <1>1, TrafficAssumption, ReceiveType
<1>2. CASE \E due \in DueChoices : MakeRetransmissions(due)
  BY <1>2, TimerType
<1>3. CASE CloseEstablished
  BY <1>3, CloseType
<1>4. CASE UNCHANGED vars
  BY <1>4 DEF vars, TypeOK
<1> QED
  BY <1>1, <1>2, <1>3, <1>4, [Next]_vars DEF Next

\* The empty table is well formed.
LEMMA InitType == Init => TypeOK
<1> SUFFICES ASSUME Init PROVE TypeOK
  OBVIOUS
<1>1. DOMAIN table = {} /\ DOMAIN origin = {}
  BY DEF Init
<1>2. table = [k \in DOMAIN table |-> table[k]]
  BY DEF Init
<1>3. origin \in [DOMAIN table -> [iss: SeqPoint, irs: SeqPoint]]
  BY <1>1 DEF Init
<1> QED
  BY <1>1, <1>2, <1>3 DEF Init, TypeOK

\* Whatever segments arrive and whenever the timer fires, every connection in the table
\* stays well formed: sequence numbers stay in the space under wrapping arithmetic, what
\* is queued, pending and sent are segments and bytes, and the pending list is finite.
THEOREM TypeCorrect == Spec => []TypeOK
<1>1. Init => TypeOK
  BY InitType
<1>2. TypeOK /\ [Next]_vars => TypeOK'
  BY NextType
<1> QED
  BY <1>1, <1>2, PTL DEF Spec
-----------------------------------------------------------------------------
(* The table implements Lifecycle.                                         *)

\* A move of one connection is one of Lifecycle's.
LEMMA MoveAllowed ==
    ASSUME NEW f, NEW k \in ConnKey, NEW t,
           t = f[k] \/ <<f[k], t>> \in Abstract!PacketMoves,
           f = [x \in ConnKey |-> f[x]]
    PROVE  [f EXCEPT ![k] = t] \in Abstract!AfterPacket(f)
<1>1. CASE t = f[k]
  <2>1. [f EXCEPT ![k] = t] = f
    BY <1>1
  <2> QED
    BY <2>1 DEF Abstract!AfterPacket
<1>2. CASE <<f[k], t>> \in Abstract!PacketMoves
  <2> DEFINE n == <<k, <<f[k], t>>>>
  <2>1. n[1] = k /\ n[2][1] = f[k] /\ n[2][2] = t
    OBVIOUS
  <2>2. n \in {x \in ConnKey \X Abstract!PacketMoves : f[x[1]] = x[2][1]}
    BY <1>2, <2>1
  <2>3. [f EXCEPT ![k] = t] = [f EXCEPT ![n[1]] = n[2][2]]
    BY <2>1
  <2> HIDE DEF n
  <2> QED
    BY <2>2, <2>3 DEF Abstract!AfterPacket
<1> QED
  BY <1>1, <1>2

\* The abstract state is a function on the keys.
LEMMA StatesOfFn ==
    /\ StatesOf = [x \in ConnKey |-> StatesOf[x]]
    /\ StatesOf' = [x \in ConnKey |-> StatesOf'[x]]
    /\ \A x \in ConnKey :
          StatesOf[x] = IF x \in DOMAIN table THEN table[x].tcp_state ELSE "Closed"
BY DEF StatesOf

\* Storing a result whose state is an allowed move.
LEMMA StoreLifecycle ==
    ASSUME TypeOK, NEW k \in DOMAIN table, NEW r, Store(k, r),
           \/ r.conn.tcp_state = table[k].tcp_state
           \/ <<table[k].tcp_state, r.conn.tcp_state>> \in Abstract!PacketMoves
    PROVE  Abstract!Next
<1> DEFINE t == r.conn.tcp_state
<1>1. k \in ConnKey /\ DOMAIN table' = DOMAIN table
  BY DEF Store, TypeOK
<1>2. \A x \in DOMAIN table : table'[x] = IF x = k THEN r.conn ELSE table[x]
  BY DEF Store
<1>3. StatesOf[k] = table[k].tcp_state
  BY <1>1, StatesOfFn
<1>4. StatesOf' = [StatesOf EXCEPT ![k] = t]
  BY <1>1, <1>2 DEF StatesOf
<1> HIDE DEF t
<1>5. StatesOf' \in Abstract!AfterPacket(StatesOf)
  <2>1. t = StatesOf[k] \/ <<StatesOf[k], t>> \in Abstract!PacketMoves
    BY <1>3 DEF t
  <2>2. [StatesOf EXCEPT ![k] = t] \in Abstract!AfterPacket(StatesOf)
    BY <1>1, <2>1, StatesOfFn, MoveAllowed
  <2> QED
    BY <1>4, <2>2
<1> QED
  BY <1>5 DEF Abstract!Next

\* A reply moves nothing.
LEMMA AnswerLifecycle ==
    ASSUME NEW k, NEW reply, Answer(k, reply)
    PROVE  Abstract!Next
<1>1. StatesOf' = StatesOf
  BY DEF Answer, StatesOf
<1> QED
  BY <1>1 DEF Abstract!Next, Abstract!AfterPacket

\* Every state has a move to "Closed".
LEMMA RemoveLifecycle ==
    ASSUME TypeOK, NEW k \in DOMAIN table, NEW reply, Remove(k, reply)
    PROVE  Abstract!Next
<1>1. table' = [x \in DOMAIN table \ {k} |-> table[x]] /\ k \in ConnKey
  BY DEF Remove, Without, TypeOK
<1>2. DOMAIN table' = DOMAIN table \ {k} /\ \A x \in DOMAIN table' : table'[x] = table[x]
  BY <1>1
<1>3. StatesOf' = [StatesOf EXCEPT ![k] = "Closed"]
  BY <1>1, <1>2 DEF StatesOf
<1>4. table[k].tcp_state \in TcpState /\ StatesOf[k] = table[k].tcp_state
  BY <1>1, TypeParts, Fields, StatesOfFn
<1>5. <<StatesOf[k], "Closed">> \in Abstract!PacketMoves
  <2>1. StatesOf[k] \in Abstract!TcpStates \ {"Closed"}
    BY <1>4 DEF TcpState, Abstract!TcpStates
  <2> QED
    BY <2>1 DEF Abstract!PacketMoves
<1>6. [StatesOf EXCEPT ![k] = "Closed"] \in Abstract!AfterPacket(StatesOf)
  BY <1>1, <1>5, StatesOfFn, MoveAllowed
<1> QED
  BY <1>3, <1>6 DEF Abstract!Next

\* A SYN opens a connection.
LEMMA OpenLifecycle ==
    ASSUME TypeOK, NEW k \in ConnKey, NEW seg, OpenConn(k, seg)
    PROVE  Abstract!Next
<1>1. PICK iss : table' = With(table, k, FromSynAck(SynAckFor(iss, seg)))
  BY Zenon DEF OpenConn
<1> DEFINE c == FromSynAck(SynAckFor(iss, seg))
<1>2. c.tcp_state = "SynReceived"
  BY DEF FromSynAck
<1>3. table' = [x \in DOMAIN table \cup {k} |-> IF x = k THEN c ELSE table[x]]
  BY <1>1, Zenon DEF With
<1> HIDE DEF c
<1>4. /\ DOMAIN table' = DOMAIN table \cup {k} /\ k \notin DOMAIN table
      /\ \A x \in DOMAIN table' : table'[x] = IF x = k THEN c ELSE table[x]
  BY <1>3 DEF OpenConn
<1>5. StatesOf' = [StatesOf EXCEPT ![k] = "SynReceived"]
  BY <1>2, <1>4 DEF StatesOf
<1>6. <<StatesOf[k], "SynReceived">> \in Abstract!PacketMoves
  BY <1>4, StatesOfFn DEF Abstract!PacketMoves
<1>7. [StatesOf EXCEPT ![k] = "SynReceived"] \in Abstract!AfterPacket(StatesOf)
  BY <1>6, StatesOfFn, MoveAllowed
<1> QED
  BY <1>5, <1>7 DEF Abstract!Next

\* Every arm of decide_reply moves at most its own connection, along an allowed move.
LEMMA ReceiveLifecycle ==
    ASSUME TypeOK, NEW k \in ConnKey, NEW seg \in InSegment, Receive(k, seg)
    PROVE  Abstract!Next
<1> DEFINE c == table[k]
           u == AckUpdate(c, seg)
           h == CompleteHandshake(c, seg)
           s == c.tcp_state
<1>1. k \in DOMAIN table => /\ ConnOK(c) /\ ConnOK(u) /\ ConnOK(h)
                            /\ u.tcp_state = s /\ h.tcp_state = "Established"
  BY TypeParts, AckUpdateOK, CompleteHandshakeOK, StateKept, SegFields
<1>2. /\ <<"SynReceived", "Established">> \in Abstract!PacketMoves
      /\ \A t \in {"CloseWait", "LastAck"} :
            /\ <<"SynReceived", t>> \in Abstract!PacketMoves
            /\ <<"Established", t>> \in Abstract!PacketMoves
      /\ <<"CloseWait", "LastAck">> \in Abstract!PacketMoves
      /\ <<"FinWait1", "FinWait2">> \in Abstract!PacketMoves
      /\ <<"FinWait1", "Closing">> \in Abstract!PacketMoves
  BY DEF Abstract!PacketMoves
<1>3. seg.len \in Nat /\ seg.len + 1 \in Nat /\ seg.seq \in SeqPoint /\ 1 \in Nat
  BY SegFields, SMT
<1>4. ASSUME NEW d, ConnOK(d)
      PROVE  LET e == DeliverContiguous(Deliver(d, seg.seq, seg.len))
             IN  /\ SendMore(e, {PureAck(e)}).conn.tcp_state = d.tcp_state
                 /\ Result(e, {}).conn.tcp_state = d.tcp_state
                 /\ CloseWaitOrLastAck(AdvanceRcv(e, 1), e.window).conn.tcp_state
                        \in {d.tcp_state, "CloseWait", "LastAck"}
  <2> DEFINE e == DeliverContiguous(Deliver(d, seg.seq, seg.len))
             f == AdvanceRcv(e, 1)
  <2>1. ConnOK(e) /\ e.tcp_state = d.tcp_state
    BY <1>3, <1>4, DeliverOK, DeliverContiguousOK, StateKept
  <2> HIDE DEF e
  <2>2. ConnOK(f) /\ f.tcp_state = e.tcp_state /\ e.window \in WindowState
    BY <1>3, <2>1, AdvanceRcvOK, StateKept, Fields
  <2> HIDE DEF f
  <2>3. CloseWaitOrLastAck(f, e.window).conn.tcp_state \in {f.tcp_state, "CloseWait", "LastAck"}
    BY <2>2, CloseState
  <2>4. SendMore(e, {PureAck(e)}).conn.tcp_state = e.tcp_state
    BY <2>1, SendMoreState
  <2>5. Result(e, {}).conn.tcp_state = e.tcp_state
    BY DEF Result
  <2> QED
    BY <2>1, <2>2, <2>3, <2>4, <2>5 DEF f, e
<1>5. ASSUME NEW d, ConnOK(d)
      PROVE  CloseOnInOrderFin(d, seg).conn.tcp_state \in {d.tcp_state, "CloseWait", "LastAck"}
  <2> DEFINE b == Deliver(d, seg.seq, seg.len)
             e == AdvanceRcv(b, 1)
             a == AckedBy(e, seg)
             w == WindowAfter(e, seg)
  <2>1. ConnOK(b) /\ b.tcp_state = d.tcp_state
    BY <1>3, <1>5, DeliverOK, StateKept
  <2> HIDE DEF b
  <2>2. ConnOK(e) /\ e.tcp_state = b.tcp_state
    BY <1>3, <2>1, AdvanceRcvOK, StateKept
  <2> HIDE DEF e
  <2>3. ConnOK(a) /\ a.tcp_state = e.tcp_state /\ w \in WindowState
    BY <1>3, <2>2, AckedByOK, StateKept, WindowAfterType
  <2>4. CloseOnInOrderFin(d, seg) = CloseWaitOrLastAck(a, w)
    BY Zenon DEF CloseOnInOrderFin, b, e
  <2> HIDE DEF a, w
  <2> QED
    BY <2>1, <2>2, <2>3, <2>4, CloseState
<1> HIDE DEF u, h
<1>6. CASE OpenConn(k, seg)
  BY <1>6, OpenLifecycle
<1>7. CASE \/ DropUnknownRst(k, seg) \/ IgnoreRst(k, seg) \/ RefuseUnknown(k, seg)
           \/ Refuse(k, seg) \/ EstablishedAckOfUnsent(k, seg) \/ ChallengeAck(k, seg)
  <2>1. \E reply : Answer(k, reply)
    BY <1>7, Zenon DEF DropUnknownRst, IgnoreRst, RefuseUnknown, Refuse,
       EstablishedAckOfUnsent, ChallengeAck
  <2> QED
    BY <2>1, AnswerLifecycle
<1>8. CASE FinWaitFinished(k, seg) \/ FinalAck(k, seg) \/ ResetConn(k, seg)
  <2>1. k \in DOMAIN table /\ \E reply : Remove(k, reply)
    BY <1>8, Zenon DEF FinWaitFinished, FinalAck, ResetConn, In, Unhandled
  <2> QED
    BY <2>1, RemoveLifecycle
<1>9. CASE ResendSynAck(k, seg)
  <2> DEFINE info == SynAckFor(c.snd_una, seg)
  <2>1. k \in DOMAIN table /\ Store(k, Result(Push(c, info), {info}))
    BY <1>9, Zenon DEF ResendSynAck, In
  <2> HIDE DEF info
  <2>2. Result(Push(c, info), {info}).conn.tcp_state = s
    BY <1>1, <2>1, SentState DEF Result
  <2> QED
    BY <2>1, <2>2, StoreLifecycle
<1>10. CASE HandshakeAck(k, seg)
  <2> DEFINE d == DeliverContiguous(Deliver(h, seg.seq, seg.len))
             r == IF FinReached(d) THEN CloseWaitOrLastAck(AdvanceRcv(d, 1), d.window)
                  ELSE IF d.send_buffer = <<>> THEN Result(d, {})
                  ELSE SendMore(d, {PureAck(d)})
  <2>1. k \in DOMAIN table /\ s = "SynReceived" /\ Store(k, r)
    BY <1>10, Zenon DEF HandshakeAck, In, h
  <2>2. /\ SendMore(d, {PureAck(d)}).conn.tcp_state = "Established"
        /\ Result(d, {}).conn.tcp_state = "Established"
        /\ CloseWaitOrLastAck(AdvanceRcv(d, 1), d.window).conn.tcp_state
               \in {"Established", "CloseWait", "LastAck"}
    BY <1>1, <1>4, <2>1
  <2> HIDE DEF d
  <2>3. r.conn.tcp_state \in {"Established", "CloseWait", "LastAck"}
    BY <2>2
  <2> HIDE DEF r
  <2>4. <<s, r.conn.tcp_state>> \in Abstract!PacketMoves
    BY <1>2, <2>1, <2>3
  <2> QED
    BY <2>1, <2>4, StoreLifecycle
<1>11. CASE HandshakeFin(k, seg)
  <2> DEFINE r == CloseOnInOrderFin(h, seg)
  <2>1. k \in DOMAIN table /\ s = "SynReceived" /\ Store(k, r)
    BY <1>11, Zenon DEF HandshakeFin, In, h
  <2>2. r.conn.tcp_state \in {"Established", "CloseWait", "LastAck"}
    BY <1>1, <1>5, <2>1
  <2> HIDE DEF r
  <2>3. <<s, r.conn.tcp_state>> \in Abstract!PacketMoves
    BY <1>2, <2>1, <2>2
  <2> QED
    BY <2>1, <2>3, StoreLifecycle
<1>12. CASE HandshakeOutOfOrder(k, seg)
  <2> DEFINE e == Insert(h, seg)
             d == IF seg.flags = "FinAck" THEN MarkFin(e, seg) ELSE e
  <2>1. k \in DOMAIN table /\ s = "SynReceived" /\ Store(k, Result(d, {PureAck(d)}))
    BY <1>12, Zenon DEF HandshakeOutOfOrder, In, h
  <2>2. ConnOK(e) /\ e.tcp_state = "Established"
    BY <1>1, <1>3, <2>1, InsertOK, StateKept
  <2> HIDE DEF e
  <2>3. d.tcp_state = "Established"
    BY <1>3, <2>2, StateKept
  <2> HIDE DEF d
  <2>4. Result(d, {PureAck(d)}).conn.tcp_state = "Established"
    BY <2>3 DEF Result
  <2> QED
    BY <1>2, <2>1, <2>4, StoreLifecycle
<1>13. CASE EstablishedAck(k, seg)
  <2>1. k \in DOMAIN table /\ Store(k, SendMore(u, {}))
    BY <1>13, Zenon DEF EstablishedAck, In, u
  <2>2. SendMore(u, {}).conn.tcp_state = s
    BY <1>1, <2>1, SendMoreState
  <2> QED
    BY <2>1, <2>2, StoreLifecycle
<1>14. CASE EstablishedData(k, seg)
  <2> DEFINE d == DeliverContiguous(Deliver(u, seg.seq, seg.len))
             r == IF FinReached(d) THEN CloseWaitOrLastAck(AdvanceRcv(d, 1), d.window)
                  ELSE SendMore(d, {PureAck(d)})
  <2>1. k \in DOMAIN table /\ s = "Established" /\ Store(k, r)
    BY <1>14, Zenon DEF EstablishedData, In, u
  <2>2. /\ SendMore(d, {PureAck(d)}).conn.tcp_state = s
        /\ CloseWaitOrLastAck(AdvanceRcv(d, 1), d.window).conn.tcp_state
               \in {s, "CloseWait", "LastAck"}
    BY <1>1, <1>4, <2>1
  <2> HIDE DEF d
  <2>3. r.conn.tcp_state \in {s, "CloseWait", "LastAck"}
    BY <2>2
  <2> HIDE DEF r
  <2>4. r.conn.tcp_state = s \/ <<s, r.conn.tcp_state>> \in Abstract!PacketMoves
    BY <1>2, <2>1, <2>3
  <2> QED
    BY <2>1, <2>4, StoreLifecycle
<1>15. CASE EstablishedDataAhead(k, seg) \/ EstablishedFinAhead(k, seg)
  <2> DEFINE e == Insert(u, seg)
             f == MarkFin(e, seg)
  <2>1. /\ k \in DOMAIN table
        /\ Store(k, Result(e, {PureAck(e)})) \/ Store(k, Result(f, {PureAck(f)}))
    BY <1>15, Zenon DEF EstablishedDataAhead, EstablishedFinAhead, In, u
  <2>2. ConnOK(e) /\ e.tcp_state = s
    BY <1>1, <1>3, <2>1, InsertOK, StateKept
  <2> HIDE DEF e
  <2>3. f.tcp_state = s
    BY <1>3, <2>2, StateKept
  <2> HIDE DEF f
  <2>4. /\ Result(e, {PureAck(e)}).conn.tcp_state = s
        /\ Result(f, {PureAck(f)}).conn.tcp_state = s
    BY <2>2, <2>3 DEF Result
  <2> QED
    BY <2>1, <2>4, StoreLifecycle
<1>16. CASE EstablishedFin(k, seg)
  <2> DEFINE r == CloseOnInOrderFin(c, seg)
  <2>1. k \in DOMAIN table /\ s = "Established" /\ Store(k, r)
    BY <1>16, Zenon DEF EstablishedFin, In
  <2>2. r.conn.tcp_state \in {s, "CloseWait", "LastAck"}
    BY <1>1, <1>5, <2>1
  <2> HIDE DEF r
  <2>3. r.conn.tcp_state = s \/ <<s, r.conn.tcp_state>> \in Abstract!PacketMoves
    BY <1>2, <2>1, <2>2
  <2> QED
    BY <2>1, <2>3, StoreLifecycle
<1>17. ASSUME k \in DOMAIN table, NEW n \in Nat
       PROVE  LET a == AckUpdate(AdvanceRcv(c, n), seg)
              IN  ConnOK(a) /\ a.tcp_state = s
  <2> DEFINE d == AdvanceRcv(c, n)
  <2>1. ConnOK(d) /\ d.tcp_state = s
    BY <1>1, <1>3, <1>17, AdvanceRcvOK, StateKept
  <2> HIDE DEF d
  <2>2. ConnOK(AckUpdate(d, seg)) /\ AckUpdate(d, seg).tcp_state = s
    BY <1>3, <2>1, AckUpdateOK, StateKept
  <2> QED
    BY <2>2 DEF d
<1>18. CASE FinWaitData(k, seg)
  <2> DEFINE d == AdvanceRcv(c, seg.len)
             r == Result(AckUpdate(d, seg), {PureAck(d)})
  <2>1. k \in DOMAIN table /\ Store(k, r)
    BY <1>18, Zenon DEF FinWaitData, In
  <2>2. r.conn.tcp_state = s
    BY <1>3, <1>17, <2>1 DEF Result
  <2> HIDE DEF r
  <2> QED
    BY <2>1, <2>2, StoreLifecycle
<1>19. CASE FinWait1FinAcked(k, seg)
  <2> DEFINE d == [u EXCEPT !.tcp_state = "FinWait2"]
  <2>1. k \in DOMAIN table /\ s = "FinWait1" /\ Store(k, Result(d, {}))
    BY <1>19, Zenon DEF FinWait1FinAcked, In, u
  <2>2. d.tcp_state = "FinWait2"
    BY <1>1, <2>1 DEF ConnOK, ConnState
  <2> HIDE DEF d
  <2>3. Result(d, {}).conn.tcp_state = "FinWait2"
    BY <2>2 DEF Result
  <2> QED
    BY <1>2, <2>1, <2>3, StoreLifecycle
<1>20. CASE PartialAck(k, seg)
  <2>1. k \in DOMAIN table /\ Store(k, Result(u, {}))
    BY <1>20, Zenon DEF PartialAck, In, u
  <2>2. Result(u, {}).conn.tcp_state = s
    BY <1>1, <2>1 DEF Result
  <2> QED
    BY <2>1, <2>2, StoreLifecycle
<1>21. CASE FinWait1Fin(k, seg)
  <2> DEFINE d == AdvanceRcv(c, seg.len + 1)
             a == AckUpdate(d, seg)
             e == [a EXCEPT !.tcp_state = "Closing"]
  <2>1. k \in DOMAIN table /\ s = "FinWait1" /\ Store(k, Result(e, {PureAck(d)}))
    BY <1>21, Zenon DEF FinWait1Fin, In
  <2>2. ConnOK(a)
    BY <1>3, <1>17, <2>1
  <2> HIDE DEF a
  <2>3. e.tcp_state = "Closing"
    BY <2>2 DEF ConnOK, ConnState
  <2> HIDE DEF e
  <2>4. Result(e, {PureAck(d)}).conn.tcp_state = "Closing"
    BY <2>3 DEF Result
  <2> QED
    BY <1>2, <2>1, <2>4, StoreLifecycle
<1>22. CASE CloseWaitAck(k, seg)
  <2> DEFINE a == AckedBy(c, seg)
             w == WindowAfter(c, seg)
             r == CloseWaitOrLastAck(a, w)
  <2>1. k \in DOMAIN table /\ s = "CloseWait" /\ Store(k, r)
    BY <1>22, Zenon DEF CloseWaitAck, In
  <2>2. ConnOK(a) /\ a.tcp_state = s /\ w \in WindowState
    BY <1>1, <1>3, <2>1, AckedByOK, StateKept, WindowAfterType
  <2>3. r.conn.tcp_state \in {s, "CloseWait", "LastAck"}
    BY <2>2, CloseState
  <2> HIDE DEF r
  <2>4. r.conn.tcp_state = s \/ <<s, r.conn.tcp_state>> \in Abstract!PacketMoves
    BY <1>2, <2>1, <2>3
  <2> QED
    BY <2>1, <2>4, StoreLifecycle
<1> QED
  BY <1>6, <1>7, <1>8, <1>9, <1>10, <1>11, <1>12, <1>13, <1>14, <1>15, <1>16, <1>18,
     <1>19, <1>20, <1>21, <1>22, Receive(k, seg), Zenon DEF Receive

\* The timer only takes connections away.
LEMMA TimerLifecycle ==
    ASSUME TypeOK, NEW due \in DueChoices, MakeRetransmissions(due)
    PROVE  Abstract!Next
<1> DEFINE GivenUp == {k \in DOMAIN table : \E p \in due[k] : ExhaustedRetries(p, MaxRetries)}
           Kept    == DOMAIN table \ GivenUp
           P(k)    == (table[k].pending \ due[k]) \cup {Retried(p) : p \in due[k]}
           N(k)    == [table[k] EXCEPT !.pending = P(k)]
<1>1. table' = [k \in Kept |-> N(k)]
  BY Zenon DEF MakeRetransmissions
<1>2. \A k \in Kept : N(k).tcp_state = table[k].tcp_state
  <2>1. \A k \in DOMAIN table : ConnOK(table[k])
    BY TypeParts
  <2> HIDE DEF P
  <2> QED
    BY <2>1 DEF ConnOK, ConnState
<1>3. GivenUp \subseteq DOMAIN table /\ GivenUp \subseteq ConnKey
  BY DEF TypeOK
<1>4. \A k \in GivenUp : StatesOf[k] # "Closed"
  <2>1. \A k \in DOMAIN table : table[k].tcp_state \in TcpState
    BY TypeParts, Fields
  <2>2. \A k \in GivenUp : StatesOf[k] \in TcpState
    BY <1>3, <2>1, StatesOfFn
  <2> QED
    BY <2>2 DEF TcpState
<1> HIDE DEF GivenUp, N
<1>5. DOMAIN table' = Kept /\ \A k \in Kept : table'[k] = N(k)
  BY <1>1
<1>6. StatesOf' = [k \in ConnKey |-> IF k \in GivenUp THEN "Closed" ELSE StatesOf[k]]
  BY <1>2, <1>5 DEF StatesOf
<1>7. GivenUp \in SUBSET {k \in ConnKey : StatesOf[k] # "Closed"}
  BY <1>3, <1>4
<1>8. StatesOf' \in Abstract!AfterTimer(StatesOf)
  BY <1>6, <1>7, Zenon DEF Abstract!AfterTimer
<1> QED
  BY <1>8 DEF Abstract!Next

\* The active close moves all the established connections together.
LEMMA CloseLifecycle ==
    ASSUME TypeOK, CloseEstablished
    PROVE  Abstract!Next
<1> DEFINE Open == {k \in DOMAIN table : table[k].tcp_state = "Established"}
           N(k) == IF k \in Open THEN Closed(table[k]) ELSE table[k]
<1>1. table' = [k \in DOMAIN table |-> N(k)]
  BY Zenon DEF CloseEstablished
<1>2. \A k \in DOMAIN table : Closed(table[k]).tcp_state = "FinWait1"
  <2>1. \A k \in DOMAIN table : ConnOK(table[k])
    BY TypeParts
  <2>2. \A k \in DOMAIN table : /\ ConnOK([table[k] EXCEPT !.tcp_state = "FinWait1"])
                                /\ [table[k] EXCEPT !.tcp_state = "FinWait1"].tcp_state = "FinWait1"
    BY <2>1 DEF ConnOK, ConnState, TcpState
  <2> QED
    BY <2>2, SentState, Zenon DEF Closed
<1>3. \A k \in DOMAIN table :
        N(k).tcp_state = IF table[k].tcp_state = "Established" THEN "FinWait1"
                         ELSE table[k].tcp_state
  BY <1>2
<1> HIDE DEF N
<1>4. DOMAIN table' = DOMAIN table /\ \A k \in DOMAIN table : table'[k] = N(k)
  BY <1>1
<1>5. StatesOf' = Abstract!AfterClose(StatesOf)
  BY <1>3, <1>4 DEF StatesOf, Abstract!AfterClose
<1> QED
  BY <1>5 DEF Abstract!Next

\* What the worker relies on: every step of the table, whatever the traffic, moves one
\* connection along the transitions of state.rs, or removes those that gave up, or
\* actively closes all that are established.
THEOREM RefinesLifecycle == Spec => ImplementsLifecycle
<1>1. Init => Abstract!Init
  <2> SUFFICES ASSUME Init PROVE Abstract!Init
    OBVIOUS
  <2>1. DOMAIN table = {}
    BY DEF Init
  <2> QED
    BY <2>1 DEF Abstract!Init, Abstract!NoConns, StatesOf
<1>2. TypeOK /\ [Next]_vars => [Abstract!Next]_StatesOf
  <2> SUFFICES ASSUME TypeOK, [Next]_vars PROVE [Abstract!Next]_StatesOf
    OBVIOUS
  <2>1. CASE \E k \in ConnKey, seg \in Traffic : Receive(k, seg)
    BY <2>1, TrafficAssumption, ReceiveLifecycle
  <2>2. CASE \E due \in DueChoices : MakeRetransmissions(due)
    BY <2>2, TimerLifecycle
  <2>3. CASE CloseEstablished
    BY <2>3, CloseLifecycle
  <2>4. CASE UNCHANGED vars
    BY <2>4 DEF vars, StatesOf
  <2> QED
    BY <2>1, <2>2, <2>3, <2>4, [Next]_vars DEF Next
<1> QED
  BY <1>1, <1>2, TypeCorrect, PTL DEF Spec, ImplementsLifecycle, Abstract!Spec
=============================================================================
