--------------------------- MODULE TcpConnections ---------------------------
(***************************************************************************)
(* The table of TCP connections (TcpConnections, connections.rs) and every *)
(* step that changes it: one action per arm of the segment handlers of     *)
(* send_info.rs, the retransmission timer and the active close.  A worker  *)
(* thread owns its table, so the steps are those of one thread and each    *)
(* handler runs to its end; what is nondeterministic is the traffic (any   *)
(* segment, in any order, any number of times) and the time at which       *)
(* pending segments fall due.                                              *)
(***************************************************************************)
EXTENDS TcpConn

CONSTANTS
    ConnKey,        \* the 4-tuples that clients use
    Traffic,        \* the segments that may arrive on a connection
    Isn,            \* the values sys::random_u32 may return
    MaxRetries,     \* TcpConnections.max_retries
    MaxSynAcks      \* bound: SYN-ACKs kept pending on one connection

ASSUME TrafficAssumption ==
    /\ Traffic \subseteq InSegment
    /\ Isn \subseteq SeqPoint
    /\ MaxRetries \in Nat
    /\ MaxSynAcks \in Nat

VARIABLES
    table,          \* the HashMap from ConnKey to ConnState
    out,            \* the segments that the last step handed to the device
    fault,          \* whether the last step's handler returned Err
    origin          \* history: the initial sequence numbers of each connection

vars == <<table, out, fault, origin>>

Init == /\ table = [k \in {} |-> 0]
        /\ out = {}
        /\ fault = FALSE
        /\ origin = [k \in {} |-> 0]
-----------------------------------------------------------------------------
(* How a step ends.                                                        *)

Without(f, k) == [x \in DOMAIN f \ {k} |-> f[x]]

With(f, k, v) == [x \in DOMAIN f \cup {k} |-> IF x = k THEN v ELSE f[x]]

Addressed(k, reply) == {[key |-> k, info |-> i] : i \in reply}

\* The connection keeps the handler's result.
Store(k, result) ==
    /\ table' = [table EXCEPT ![k] = result.conn]
    /\ out' = Addressed(k, result.reply)
    /\ fault' = result.err
    /\ UNCHANGED origin

\* Reply and change nothing.
Answer(k, reply) ==
    /\ out' = Addressed(k, reply)
    /\ fault' = FALSE
    /\ UNCHANGED <<table, origin>>

\* decide_reply removes the connection after the handler.
Remove(k, reply) ==
    /\ table' = Without(table, k)
    /\ origin' = Without(origin, k)
    /\ out' = Addressed(k, reply)
    /\ fault' = FALSE
-----------------------------------------------------------------------------
(* handle_unknown_conn.                                                    *)

OpenConn(k, seg) ==
    /\ k \notin DOMAIN table
    /\ seg.flags = "Syn"
    /\ \E iss \in Isn :
          LET info == SynAckFor(iss, seg)
          IN  /\ table' = With(table, k, FromSynAck(info))
              /\ origin' = With(origin, k, [iss |-> iss, irs |-> seg.seq])
              /\ out' = Addressed(k, {info})
              /\ fault' = FALSE

DropUnknownRst(k, seg) ==
    /\ k \notin DOMAIN table
    /\ seg.flags \in {"Rst", "RstAck"}
    /\ Answer(k, {})

RefuseUnknown(k, seg) ==
    /\ k \notin DOMAIN table
    /\ seg.flags \in {"SynAck", "Ack", "FinAck"}
    /\ Answer(k, {RstFor(seg)})
-----------------------------------------------------------------------------
(* The arms that the handlers of several states share as patterns.         *)

In(k, state) == k \in DOMAIN table /\ table[k].tcp_state = state

PlainAck(c, seg) == seg.flags = "Ack" /\ seg.len = 0 /\ Acceptable(c, seg)
InOrderData(c, seg) == seg.flags = "Ack" /\ seg.len > 0 /\ InOrder(c, seg)
InOrderFin(c, seg) == seg.flags = "FinAck" /\ InOrder(c, seg)
-----------------------------------------------------------------------------
(* handle_syn_rcv.                                                         *)

AcceptableAck(c, seg) == Precedes(c.snd_una, seg.ack) /\ PrecedesOrEq(seg.ack, c.snd_nxt)

ResendSynAck(k, seg) ==
    /\ In(k, "SynReceived")
    /\ seg.flags = "Syn"
    /\ Cardinality(table[k].pending) < MaxSynAcks
    /\ LET info == SynAckFor(table[k].snd_una, seg)
       IN  Store(k, Result(Push(table[k], info), {info}))

HandshakeAck(k, seg) ==
    /\ In(k, "SynReceived")
    /\ seg.flags = "Ack" /\ InOrder(table[k], seg) /\ AcceptableAck(table[k], seg)
    /\ LET c == DeliverContiguous(Deliver(CompleteHandshake(table[k], seg), seg.seq, seg.len))
       IN  Store(k, IF FinReached(c) THEN CloseWaitOrLastAck(AdvanceRcv(c, 1), c.window)
                    ELSE IF c.send_buffer = <<>> THEN Result(c, {})
                    ELSE SendMore(c, {PureAck(c)}))

HandshakeFin(k, seg) ==
    /\ In(k, "SynReceived")
    /\ InOrderFin(table[k], seg) /\ AcceptableAck(table[k], seg)
    /\ Store(k, CloseOnInOrderFin(CompleteHandshake(table[k], seg), seg))

HandshakeOutOfOrder(k, seg) ==
    /\ In(k, "SynReceived")
    /\ seg.flags \in {"Ack", "FinAck"}
    /\ OutOfOrder(table[k], seg) /\ AcceptableAck(table[k], seg)
    /\ LET c == Insert(CompleteHandshake(table[k], seg), seg)
           d == IF seg.flags = "FinAck" THEN MarkFin(c, seg) ELSE c
       IN  Store(k, Result(d, {PureAck(d)}))
-----------------------------------------------------------------------------
(* handle_established.                                                     *)

AcksUnsent(c, seg) == seg.flags = "Ack" /\ Precedes(c.snd_nxt, seg.ack)

EstablishedAckOfUnsent(k, seg) ==
    /\ In(k, "Established")
    /\ Acceptable(table[k], seg) /\ AcksUnsent(table[k], seg)
    /\ Answer(k, {PureAck(table[k])})

EstablishedAck(k, seg) ==
    /\ In(k, "Established")
    /\ PlainAck(table[k], seg) /\ ~AcksUnsent(table[k], seg)
    /\ Store(k, SendMore(AckUpdate(table[k], seg), {}))

EstablishedData(k, seg) ==
    /\ In(k, "Established")
    /\ InOrderData(table[k], seg) /\ ~AcksUnsent(table[k], seg)
    /\ LET c == DeliverContiguous(Deliver(AckUpdate(table[k], seg), seg.seq, seg.len))
       IN  Store(k, IF FinReached(c) THEN CloseWaitOrLastAck(AdvanceRcv(c, 1), c.window)
                    ELSE SendMore(c, {PureAck(c)}))

EstablishedDataAhead(k, seg) ==
    /\ In(k, "Established")
    /\ seg.flags = "Ack" /\ seg.len > 0
    /\ OutOfOrder(table[k], seg) /\ ~AcksUnsent(table[k], seg)
    /\ LET c == Insert(AckUpdate(table[k], seg), seg)
       IN  Store(k, Result(c, {PureAck(c)}))

EstablishedFin(k, seg) ==
    /\ In(k, "Established")
    /\ InOrderFin(table[k], seg)
    /\ Store(k, CloseOnInOrderFin(table[k], seg))

EstablishedFinAhead(k, seg) ==
    /\ In(k, "Established")
    /\ seg.flags = "FinAck" /\ OutOfOrder(table[k], seg)
    /\ LET c == MarkFin(Insert(AckUpdate(table[k], seg), seg), seg)
       IN  Store(k, Result(c, {PureAck(c)}))
-----------------------------------------------------------------------------
(* handle_fin_wait_1 and handle_fin_wait_2.  The reply to data and to a FIN *)
(* is built before the acknowledgment is applied.                          *)

FinWaitData(k, seg) ==
    /\ In(k, "FinWait1") \/ In(k, "FinWait2")
    /\ InOrderData(table[k], seg)
    /\ LET c == AdvanceRcv(table[k], seg.len)
       IN  Store(k, Result(AckUpdate(c, seg), {PureAck(c)}))

FinWait1FinAcked(k, seg) ==
    /\ In(k, "FinWait1")
    /\ PlainAck(table[k], seg) /\ OurFinAcked(table[k], seg)
    /\ Store(k, Result([AckUpdate(table[k], seg) EXCEPT !.tcp_state = "FinWait2"], {}))

\* A plain ACK that leaves the state as it is, in each of the states after our FIN.
PartialAck(k, seg) ==
    /\ \/ In(k, "FinWait2")
       \/ /\ In(k, "FinWait1") \/ In(k, "Closing") \/ In(k, "LastAck")
          /\ ~OurFinAcked(table[k], seg)
    /\ PlainAck(table[k], seg)
    /\ Store(k, Result(AckUpdate(table[k], seg), {}))

\* Mutant: the peer's FIN is taken for a passive close.
FinWait1FinPassive(k, seg) ==
    /\ In(k, "FinWait1")
    /\ InOrderFin(table[k], seg) /\ ~OurFinAcked(table[k], seg)
    /\ LET c == AdvanceRcv(table[k], seg.len + 1)
       IN  Store(k, Result([AckUpdate(c, seg) EXCEPT !.tcp_state = "LastAck"],
                           {PureAck(c)}))

\* The peer's FIN while ours is not yet acknowledged by it: simultaneous close.
FinWait1Fin(k, seg) ==
    /\ In(k, "FinWait1")
    /\ InOrderFin(table[k], seg) /\ ~OurFinAcked(table[k], seg)
    /\ LET c == AdvanceRcv(table[k], seg.len + 1)
       IN  Store(k, Result([AckUpdate(c, seg) EXCEPT !.tcp_state = "Closing"],
                           {PureAck(c)}))

\* The peer's FIN with ours acknowledged: the connection is finished.
FinWaitFinished(k, seg) ==
    /\ \/ In(k, "FinWait2")
       \/ In(k, "FinWait1") /\ OurFinAcked(table[k], seg)
    /\ InOrderFin(table[k], seg)
    /\ Remove(k, {PureAck(AdvanceRcv(table[k], seg.len + 1))})
-----------------------------------------------------------------------------
(* handle_close_wait, handle_closing and handle_last_ack.                  *)

CloseWaitAck(k, seg) ==
    /\ In(k, "CloseWait")
    /\ PlainAck(table[k], seg)
    /\ Store(k, CloseWaitOrLastAck(AckedBy(table[k], seg), WindowAfter(table[k], seg)))

FinalAck(k, seg) ==
    /\ In(k, "Closing") \/ In(k, "LastAck")
    /\ PlainAck(table[k], seg) /\ OurFinAcked(table[k], seg)
    /\ Remove(k, {})
-----------------------------------------------------------------------------
(* known_conn_common_fallback, for what no arm above takes.                *)

SynRcvTakes(c, seg) ==
    \/ seg.flags = "Syn"
    \/ seg.flags \in {"Ack", "FinAck"} /\ Acceptable(c, seg) /\ AcceptableAck(c, seg)

EstablishedTakes(c, seg) == seg.flags \in {"Ack", "FinAck"} /\ Acceptable(c, seg)

FinWaitTakes(c, seg) == PlainAck(c, seg) \/ InOrderData(c, seg) \/ InOrderFin(c, seg)

Handled(c, seg) ==
    CASE c.tcp_state = "SynReceived" -> SynRcvTakes(c, seg)
      [] c.tcp_state = "Established" -> EstablishedTakes(c, seg)
      [] c.tcp_state \in {"FinWait1", "FinWait2"} -> FinWaitTakes(c, seg)
      [] OTHER -> PlainAck(c, seg)

Unhandled(k, seg) == k \in DOMAIN table /\ ~Handled(table[k], seg)

IsRst(seg) == seg.flags \in {"Rst", "RstAck"}

IgnoreRst(k, seg) ==
    /\ Unhandled(k, seg)
    /\ IsRst(seg) /\ ~Acceptable(table[k], seg)
    /\ Answer(k, {})

ResetConn(k, seg) ==
    /\ Unhandled(k, seg)
    /\ IsRst(seg) /\ InOrder(table[k], seg)
    /\ Remove(k, {})

\* A SYN or SYN-ACK on a synchronized connection.
StraySyn(c, seg) == seg.flags \in {"Syn", "SynAck"} /\ c.tcp_state # "SynReceived"

ChallengeAck(k, seg) ==
    /\ Unhandled(k, seg)
    /\ \/ IsRst(seg) /\ OutOfOrder(table[k], seg)
       \/ ~IsRst(seg) /\ ~Acceptable(table[k], seg)
       \/ StraySyn(table[k], seg)
    /\ Answer(k, {PureAck(table[k])})

Refuse(k, seg) ==
    /\ Unhandled(k, seg)
    /\ ~IsRst(seg) /\ Acceptable(table[k], seg) /\ ~StraySyn(table[k], seg)
    /\ Answer(k, {RstFor(seg)})
-----------------------------------------------------------------------------
(* The timer and the active close.                                         *)

\* due[k] is what has fallen due on connection k: time is abstract, any of the
\* pending segments may be due whenever the timer is served.
DueChoices ==
    {due \in [DOMAIN table -> SUBSET UNION {table[k].pending : k \in DOMAIN table}] :
        /\ \A k \in DOMAIN table : due[k] \subseteq table[k].pending
        /\ \E k \in DOMAIN table : due[k] # {}}

\* Mutant: a retransmission is not counted.
RetriedUncounted(p) == p

Retried(p) == [p EXCEPT !.retries = @ + 1]

MakeRetransmissions(due) ==
    LET GivenUp == {k \in DOMAIN table : \E p \in due[k] : ExhaustedRetries(p, MaxRetries)}
        Kept    == DOMAIN table \ GivenUp
    IN  /\ table' = [k \in Kept |-> [table[k] EXCEPT
                        !.pending = (@ \ due[k]) \cup {Retried(p) : p \in due[k]}]]
        /\ origin' = [k \in Kept |-> origin[k]]
        /\ out' = UNION {Addressed(k, {p.info : p \in due[k]}) : k \in Kept}
        /\ fault' = FALSE

Closed(c) == Sent([c EXCEPT !.tcp_state = "FinWait1"], DataInfo(c, <<>>, "FinAck"))

CloseEstablished ==
    LET Open == {k \in DOMAIN table : table[k].tcp_state = "Established"}
    IN  /\ Open # {}
        /\ table' = [k \in DOMAIN table |->
                        IF k \in Open THEN Closed(table[k]) ELSE table[k]]
        /\ out' = {[key |-> k, info |-> DataInfo(table[k], <<>>, "FinAck")] : k \in Open}
        /\ fault' = FALSE
        /\ UNCHANGED origin
-----------------------------------------------------------------------------
\* decide_reply.
Receive(k, seg) ==
    \/ OpenConn(k, seg) \/ DropUnknownRst(k, seg) \/ RefuseUnknown(k, seg)
    \/ ResendSynAck(k, seg) \/ HandshakeAck(k, seg) \/ HandshakeFin(k, seg)
    \/ HandshakeOutOfOrder(k, seg)
    \/ EstablishedAckOfUnsent(k, seg) \/ EstablishedAck(k, seg) \/ EstablishedData(k, seg)
    \/ EstablishedDataAhead(k, seg) \/ EstablishedFin(k, seg) \/ EstablishedFinAhead(k, seg)
    \/ FinWaitData(k, seg) \/ FinWait1FinAcked(k, seg) \/ PartialAck(k, seg)
    \/ FinWait1Fin(k, seg) \/ FinWaitFinished(k, seg)
    \/ CloseWaitAck(k, seg) \/ FinalAck(k, seg)
    \/ IgnoreRst(k, seg) \/ ResetConn(k, seg) \/ ChallengeAck(k, seg) \/ Refuse(k, seg)

Next ==
    \/ \E k \in ConnKey, seg \in Traffic : Receive(k, seg)
    \/ \E due \in DueChoices : MakeRetransmissions(due)
    \/ CloseEstablished

Spec == Init /\ [][Next]_vars
-----------------------------------------------------------------------------
(* What some of the properties assume of the environment.                  *)

\* Two points of the sequence space that are half of it apart precede each other.  With
\* nothing in flight, a SEG.ACK half the space away from SND.UNA is therefore both after
\* SND.UNA and before SND.NXT: incoming_ack_update takes it, and SND.UNA passes SND.NXT.
Antipodal(c, seg) == c.snd_una = c.snd_nxt /\ Sub(seg.ack, c.snd_una) = Half

\* This acknowledgment of what was never sent does not arrive.  Nothing in the code
\* refuses it: the properties that need NoAntipodalAck fail when it arrives.
NoAntipodalAck ==
    \A k \in DOMAIN table, seg \in Traffic :
        seg.flags \in {"Ack", "FinAck"} /\ Receive(k, seg) => ~Antipodal(table[k], seg)

\* A timeout of poll with some segment of connection k due.
ServeTimer(k) ==
    /\ k \in DOMAIN table
    /\ \E due \in DueChoices : due[k] # {} /\ MakeRetransmissions(due)

\* poll times out only while the queue is empty.  Lulls(k): packets do not keep coming
\* whenever something of connection k is due.  The code does not see to it: under steady
\* traffic, of any connection, no segment is ever retransmitted or given up.
Lulls(k) == WF_vars(ServeTimer(k))
-----------------------------------------------------------------------------
(* Correctness.                                                            *)

\* The type of the state: every connection is a well-formed ConnState with finitely
\* many pending segments and at most one FIN position (TcpReassembly.fin_seq).
TypeOK ==
    /\ DOMAIN table \subseteq ConnKey
    /\ table = [k \in DOMAIN table |-> table[k]]
    /\ \A k \in DOMAIN table : /\ table[k] \in ConnState
                               /\ IsFiniteSet(table[k].pending)
    /\ origin \in [DOMAIN table -> [iss: SeqPoint, irs: SeqPoint]]
    /\ out \subseteq [key: ConnKey, info: SendInfo]
    /\ fault \in BOOLEAN

\* drain_transmittable never returns Err: SND.NXT - SND.UNA is never negative when a
\* handler converts it to usize, however old, early, partial or reordered the ACKs are
\* and wherever the numbers wrap.  It holds unless an antipodal ACK arrives: incoming_
\* ack_update is documented to ignore every ACK "for data not yet sent", and takes that.
DrainNeverFails == ~fault

\* What is sent and unacknowledged fits the largest window plus our FIN, and it is
\* always SND.UNA that is behind: the offsets that the circular comparisons of
\* incoming_ack_update and drain_transmittable look at stay far from half the space.
UnackedBounded ==
    \A k \in DOMAIN table : Sub(table[k].snd_nxt, table[k].snd_una) <= MaxWnd + 1

\* Every sequence number between SND.UNA and SND.NXT is held by a segment that the
\* timer will retransmit: pruning in incoming_ack_update and the clear in
\* complete_handshake never drop something the peer has not acknowledged.
UnackedIsPending ==
    \A k \in DOMAIN table :
        LET c == table[k]
        IN  \A x \in 0..(Sub(c.snd_nxt, c.snd_una) - 1) :
                \E p \in c.pending :
                    Sub(Add(c.snd_una, x), p.info.seq) < Consumed(p.info)

\* A segment the peer has acknowledged in full is never retransmitted, so it cannot
\* exhaust its retries and tear the connection down either: what is pending ends past
\* SND.UNA, and not past SND.NXT.
PendingIsUnacked ==
    \A k \in DOMAIN table : \A p \in table[k].pending :
        Sub(EndSeq(p), table[k].snd_una) \in 1..Sub(table[k].snd_nxt, table[k].snd_una)

\* The byte of the client's stream that the server's stream carries at q.
EchoOf(o, q) == Add(Add(o.irs, 1), Sub(q, Add(o.iss, 1)))

EchoesFrom(o, q, bytes) == \A i \in 1..Len(bytes) : bytes[i] = EchoOf(o, Add(q, i - 1))

\* Echo: the client's bytes come back once each, in order and in their own place, in
\* what is queued, pending and sent, however they were segmented, reordered,
\* duplicated or reassembled; and before our FIN nothing received is missing: RCV.NXT
\* stands where the echo of the last byte in send_buffer ends, plus the peer's FIN.
EchoIntegrity ==
    /\ \A k \in DOMAIN table :
        LET c == table[k]
            o == origin[k]
            queued == EchoOf(o, Add(c.snd_nxt, Len(c.send_buffer)))
        IN  /\ \A p \in c.pending : EchoesFrom(o, p.info.seq, p.info.payload)
            /\ c.tcp_state \in SendSideOpen => EchoesFrom(o, c.snd_nxt, c.send_buffer)
            /\ c.tcp_state = "Established" => c.rcv_nxt = queued
            /\ c.tcp_state = "CloseWait" => c.rcv_nxt = Add(queued, 1)
            /\ c.tcp_state = "LastAck" => c.rcv_nxt = queued
    /\ \A m \in out : m.key \in DOMAIN table =>
            EchoesFrom(origin[m.key], m.info.seq, m.info.payload)

\* While the connection is ESTABLISHED, no buffered segment has had its gap closed
\* and been left behind by drain_contiguous, and a FIN whose position has been reached
\* has been acted on.
NothingStranded ==
    \A k \in DOMAIN table : table[k].tcp_state = "Established" =>
        /\ \A s \in Buffered(table[k]) : ~PrecedesOrEq(s, table[k].rcv_nxt)
        /\ ~FinReached(table[k])

\* In CLOSE-WAIT there is something left to send, and in LAST-ACK nothing: our FIN
\* goes out with the last queued byte, neither earlier nor later.
FinWithLastByte ==
    \A k \in DOMAIN table :
        /\ table[k].tcp_state = "CloseWait" => table[k].send_buffer # <<>>
        /\ table[k].tcp_state = "LastAck" => table[k].send_buffer = <<>>

\* incoming_ack_update ignores an ACK "for data not yet sent (past SND.NXT)", and
\* every other ACK that is not between SND.UNA and SND.NXT: SND.UNA only moves
\* forward, and not past what had been sent.  Antipodal ACKs are the only exception.
AckedWasSent ==
    [][\A k \in DOMAIN table \cap DOMAIN table' :
        Sub(table'[k].snd_una, table[k].snd_una) <= Sub(table[k].snd_nxt, table[k].snd_una)
      ]_vars

\* No step takes a stream back: RCV.NXT only moves forward, SND.NXT by at most one
\* full segment, and SND.NXT not at all once our FIN is out.
NeverBack ==
    [][\A k \in DOMAIN table \cap DOMAIN table' :
        LET c == table[k]
            d == table'[k]
        IN  /\ Sub(d.rcv_nxt, c.rcv_nxt) < Half
            /\ Sub(d.snd_nxt, c.snd_nxt) <= MaxPayloadLen + 1
            /\ c.tcp_state \notin SendSideOpen \cup {"SynReceived"} => d.snd_nxt = c.snd_nxt
      ]_vars

\* A half-open connection does not stay, provided traffic lulls: the handshake completes
\* or a SYN-ACK exhausts its retries, even if duplicate SYNs keep adding fresh SYN-ACKs,
\* and whichever of the pending segments each timeout finds due.
HandshakeEnds ==
    \A k \in ConnKey : Lulls(k) => (In(k, "SynReceived") ~> ~In(k, "SynReceived"))

\* A passive close ends, provided traffic lulls: the peer acknowledges our FIN or the
\* retries of something that it has not acknowledged run out.
LastAckEnds ==
    \A k \in ConnKey : Lulls(k) => (In(k, "LastAck") ~> ~In(k, "LastAck"))

\* The TCP state of each key, as the worker that owns the table sees it.
StatesOf == [k \in ConnKey |-> IF k \in DOMAIN table THEN table[k].tcp_state ELSE "Closed"]

Abstract == INSTANCE Lifecycle WITH states <- StatesOf

\* Every step of the table is one of the moves that Lifecycle allows: one connection at
\* a time for a segment, only removals for the timer, and all ESTABLISHED connections
\* together for the active close.
ImplementsLifecycle == Abstract!Spec

\* TcpState::Closing is "reached via simultaneous close, when the remote peer's FIN
\* arrives before our own FIN has been acknowledged": in CLOSING our FIN is still
\* unacknowledged, and so retransmitted until it is.
ClosingFinUnacked ==
    \A k \in DOMAIN table :
        table[k].tcp_state = "Closing" => table[k].snd_una # table[k].snd_nxt
=============================================================================
