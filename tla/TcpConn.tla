------------------------------- MODULE TcpConn -------------------------------
(***************************************************************************)
(* One TCP connection as the server stores it (ConnState, state.rs), and   *)
(* the operations its segment handlers are composed of (send_info.rs,      *)
(* state.rs, reassembly.rs, pending_segment.rs).  All are functions of a   *)
(* connection value; TcpConnections applies them to the table.             *)
(*                                                                         *)
(* Data abstraction.  A byte of the client's stream is represented by the  *)
(* sequence number it occupies, so an incoming payload is its first        *)
(* sequence number and its length, and the bytes the echo application      *)
(* queues and the server sends are sequences of such labels.  Whether a    *)
(* byte comes back in its own place is then a question about labels.       *)
(* An Option is a set with at most one member.                             *)
(***************************************************************************)
EXTENDS SeqSpace, Sequences, FiniteSets

CONSTANTS
    RcvWnd,         \* TcpSegment::RCV_WND, the window the server advertises
    MaxWnd,         \* the largest window a segment can advertise (u16::MAX)
    MaxSegLen,      \* the longest payload an incoming segment carries
    MaxPayloadLen   \* MAX_PAYLOAD_LEN, the longest payload the server sends

\* What the provers and TLC need of the sizes.  With the code's values it reads
\* 65535 + 1 < 2^31 and 65535 + 65535 < 2^31.
ASSUME SizeAssumption ==
    /\ RcvWnd \in Nat \ {0}
    /\ MaxWnd \in Nat
    /\ MaxSegLen \in Nat
    /\ MaxPayloadLen \in Nat \ {0}
    /\ MaxWnd + 1 < Half
    /\ RcvWnd + MaxSegLen < Half

TcpFlags == {"Syn", "SynAck", "Ack", "FinAck", "Rst", "RstAck"}

\* A segment from the client, as TcpSegment::parse hands it to decide_reply.
InSegment == [seq: SeqPoint, ack: SeqPoint, flags: TcpFlags,
              wnd: 0..MaxWnd, len: 0..MaxSegLen]

\* SendInfo: the fields in which the server's segments differ.
SendInfo == [seq: SeqPoint, ack: SeqPoint, flags: TcpFlags, payload: Seq(SeqPoint)]

\* PendingSegment.  end_seq is a function of info; last_sent_at is left out (see
\* MakeRetransmissions).  copy tells apart the equal entries that the Vec may hold.
PendingSegment == [info: SendInfo, retries: Nat, copy: Nat]

TcpState == {"SynReceived", "Established", "FinWait1", "FinWait2",
             "CloseWait", "Closing", "LastAck"}

\* The send side is still open (trait SendSideOpen).
SendSideOpen == {"Established", "CloseWait"}

WindowState == [wnd: 0..MaxWnd, wl1: SeqPoint, wl2: SeqPoint]

\* TcpReassembly.segments: the length of the segment buffered at each starting point,
\* 0 where there is none.
Reassembly == [SeqPoint -> 0..MaxSegLen]

NoSegments == [s \in SeqPoint |-> 0]

ConnState ==
    [tcp_state: TcpState, snd_nxt: SeqPoint, rcv_nxt: SeqPoint, snd_una: SeqPoint,
     window: WindowState, pending: SUBSET PendingSegment,
     send_buffer: Seq(SeqPoint), segments: Reassembly, fin_seq: SUBSET SeqPoint]
-----------------------------------------------------------------------------
(* Segments and the replies built from a connection.                       *)

Consumed(info) ==
    (IF info.flags \in {"Syn", "SynAck", "FinAck"} THEN 1 ELSE 0) + Len(info.payload)

EndSeq(p) == Add(p.info.seq, Consumed(p.info))

\* Mutant: a segment counts as covered once its first byte is.
CoveredByStart(p, ack) == Precedes(p.info.seq, ack)

\* Mutant: < for <=, a segment acknowledged up to its very end is not covered.
CoveredStrictly(p, ack) == Precedes(EndSeq(p), ack)

IsCoveredBy(p, ack) == PrecedesOrEq(EndSeq(p), ack)

\* Mutant: off by one, the last retry is not made.
ExhaustedEarly(p, max) == p.retries + 1 >= max

ExhaustedRetries(p, max) == p.retries >= max

\* Mutant: retransmitted data below RCV.NXT is taken as in order.
InOrderOrOld(c, seg) == PrecedesOrEq(seg.seq, c.rcv_nxt)

\* SeqCheck::check.
InOrder(c, seg) == seg.seq = c.rcv_nxt
OutOfOrder(c, seg) == seg.seq # c.rcv_nxt /\ InWindow(seg.seq, c.rcv_nxt, RcvWnd)
Acceptable(c, seg) == InOrder(c, seg) \/ OutOfOrder(c, seg)

PureAck(c) == [seq |-> c.snd_nxt, ack |-> c.rcv_nxt, flags |-> "Ack", payload |-> <<>>]

RstFor(seg) == [seq |-> seg.ack, ack |-> 0, flags |-> "Rst", payload |-> <<>>]

SynAckFor(iss, seg) ==
    [seq |-> iss, ack |-> Add(seg.seq, 1), flags |-> "SynAck", payload |-> <<>>]

\* Mutant: a new segment takes the place, and the retry count, of those pending.
PushReplacing(c, info) ==
    [c EXCEPT !.pending = {[info |-> info, retries |-> 0, copy |-> 0]}]

\* Pushing a fresh PendingSegment onto conn.pending.
Push(c, info) ==
    [c EXCEPT !.pending = @ \cup
        {[info |-> info, retries |-> 0,
          copy |-> Cardinality({p \in c.pending : p.info = info})]}]

\* from_syn_ack: the connection right after the SYN-ACK has been made.
FromSynAck(info) ==
    [tcp_state |-> "SynReceived", snd_nxt |-> Add(info.seq, 1),
     rcv_nxt |-> info.ack, snd_una |-> info.seq,
     window |-> [wnd |-> 0, wl1 |-> 0, wl2 |-> 0],    \* SynReceived has none
     pending |-> {[info |-> info, retries |-> 0, copy |-> 0]},
     send_buffer |-> <<>>, segments |-> NoSegments, fin_seq |-> {}]
-----------------------------------------------------------------------------
(* Acknowledgments and the send window.                                    *)

\* Mutant: a window scale nobody negotiated is applied.
WindowFromScaled(seg) == [wnd |-> 2 * seg.wnd, wl1 |-> seg.seq, wl2 |-> seg.ack]

WindowFrom(seg) == [wnd |-> seg.wnd, wl1 |-> seg.seq, wl2 |-> seg.ack]

\* Mutant: ACKs past SND.NXT are accepted.
AckNotOld(c, seg) == PrecedesOrEq(c.snd_una, seg.ack)

AckAcceptable(c, seg) ==
    PrecedesOrEq(c.snd_una, seg.ack) /\ PrecedesOrEq(seg.ack, c.snd_nxt)

\* Mutant: SND.UNA is set one past the acknowledgment.
AckedPast(c, seg) ==
    IF AckAcceptable(c, seg) /\ Precedes(c.snd_una, seg.ack)
    THEN [c EXCEPT !.snd_una = Add(seg.ack, 1),
                   !.pending = {p \in @ : ~IsCoveredBy(p, seg.ack)}]
    ELSE c

\* Mutant: go-back-N, a partial acknowledgment also rewinds SND.NXT.
AckedRewinding(c, seg) ==
    IF AckAcceptable(c, seg) /\ Precedes(c.snd_una, seg.ack)
    THEN [c EXCEPT !.snd_una = seg.ack, !.snd_nxt = seg.ack,
                   !.pending = {p \in @ : ~IsCoveredBy(p, seg.ack)}]
    ELSE c

\* The part of incoming_ack_update that mutates conn in place.
AckedBy(c, seg) ==
    IF AckAcceptable(c, seg) /\ Precedes(c.snd_una, seg.ack)
    THEN [c EXCEPT !.snd_una = seg.ack,
                   !.pending = {p \in @ : ~IsCoveredBy(p, seg.ack)}]
    ELSE c

\* The window that incoming_ack_update returns, for the caller to store.
WindowAfter(c, seg) ==
    IF /\ AckAcceptable(c, seg)
       /\ \/ Precedes(c.window.wl1, seg.seq)
          \/ c.window.wl1 = seg.seq /\ PrecedesOrEq(c.window.wl2, seg.ack)
    THEN WindowFrom(seg)
    ELSE c.window

\* incoming_ack_update with its result stored at once.
AckUpdate(c, seg) == [AckedBy(c, seg) EXCEPT !.window = WindowAfter(c, seg)]

\* usize::try_from(snd_nxt - snd_una) succeeds.
CanDrain(c) == ~Precedes(c.snd_nxt, c.snd_una)

Least(m, n) == IF m <= n THEN m ELSE n

\* Mutant: the whole window is used for every segment, whatever is in flight.
TransmittablePerSegment(c, window) ==
    Least(Least(window.wnd, Len(c.send_buffer)), MaxPayloadLen)

\* How many bytes drain_transmittable takes off the send buffer.
Transmittable(c, window) ==
    LET unacked == Sub(c.snd_nxt, c.snd_una)
        space   == IF window.wnd > unacked THEN window.wnd - unacked ELSE 0
    IN  Least(Least(space, Len(c.send_buffer)), MaxPayloadLen)

Chunk(c, n) == SubSeq(c.send_buffer, 1, n)

Drained(c, n) == [c EXCEPT !.send_buffer = SubSeq(@, n + 1, Len(@))]
-----------------------------------------------------------------------------
(* Handler results: the connection left behind, the reply (at most one),   *)
(* and whether the handler returned Err.                                   *)

Result(c, reply) == [conn |-> c, reply |-> reply, err |-> FALSE]
Failed(c) == [conn |-> c, reply |-> {}, err |-> TRUE]

DataInfo(c, payload, flags) ==
    [seq |-> c.snd_nxt, ack |-> c.rcv_nxt, flags |-> flags, payload |-> payload]

\* Mutant: what is sent is not kept for retransmission.
SentUnrecorded(c, info) == [c EXCEPT !.snd_nxt = Add(@, Consumed(info))]

\* Sending info: SND.NXT moves past it and it becomes pending (data_payload, and
\* the ends of close_wait_or_last_ack and close_established).
Sent(c, info) == Push([c EXCEPT !.snd_nxt = Add(@, Consumed(info))], info)

\* drain_transmittable and, when it yields a payload, data_payload; otherwise the
\* reply is idle.
SendMore(c, idle) ==
    LET n    == Transmittable(c, c.window)
        info == DataInfo(c, Chunk(c, n), "Ack")
    IN  IF ~CanDrain(c) THEN Failed(c)
        ELSE IF n = 0 THEN Result(c, idle)
        ELSE Result(Sent(Drained(c, n), info), {info})

\* Mutant: whether the FIN goes along is decided before the send buffer is drained.
FinAfterLastByte(c, window) ==
    LET n    == Transmittable(c, window)
        d    == [Drained(c, n) EXCEPT !.window = window]
        fin  == DataInfo(c, <<>>, "FinAck")
        data == DataInfo(c, Chunk(c, n), "Ack")
    IN  IF ~CanDrain(c) THEN Failed(c)
        ELSE IF c.send_buffer = <<>>
             THEN Result(Sent([d EXCEPT !.tcp_state = "LastAck"], fin), {fin})
        ELSE IF n = 0
             THEN Result([d EXCEPT !.tcp_state = "CloseWait"], {PureAck(c)})
        ELSE Result(Sent([d EXCEPT !.tcp_state = "CloseWait"], data), {data})

\* Mutant: the FIN goes along with the first bytes, whether or not more are queued.
FinWithFirstBytes(c, window) ==
    LET n   == Transmittable(c, window)
        fin == DataInfo(c, Chunk(c, n), "FinAck")
    IN  IF ~CanDrain(c) THEN Failed(c)
        ELSE Result(Sent([Drained(c, n) EXCEPT !.window = window, !.tcp_state = "LastAck"],
                         fin), {fin})

\* close_wait_or_last_ack.  window is the one inside the CloseWait argument: it is
\* stored with the new state, and only once drain_transmittable has succeeded.
CloseWaitOrLastAck(c, window) ==
    LET n    == Transmittable(c, window)
        d    == [Drained(c, n) EXCEPT !.window = window]
        fin  == DataInfo(c, Chunk(c, n), "FinAck")
        data == DataInfo(c, Chunk(c, n), "Ack")
    IN  IF ~CanDrain(c) THEN Failed(c)
        ELSE IF d.send_buffer = <<>>
             THEN Result(Sent([d EXCEPT !.tcp_state = "LastAck"], fin), {fin})
        ELSE IF n = 0
             THEN Result([d EXCEPT !.tcp_state = "CloseWait"], {PureAck(c)})
        ELSE Result(Sent([d EXCEPT !.tcp_state = "CloseWait"], data), {data})
-----------------------------------------------------------------------------
(* Receiving: delivery to the echo application and reassembly.             *)

\* The n bytes of the client's stream from sequence number p on.
Bytes(p, n) == [i \in 1..n |-> Add(p, i - 1)]

AdvanceRcv(c, n) == [c EXCEPT !.rcv_nxt = Add(@, n)]

\* RCV.NXT moves past n bytes, and the echo application's handle_tcp appends the bytes
\* that were received, those from p on, to send_buffer.
Deliver(c, p, n) ==
    [AdvanceRcv(c, n) EXCEPT !.send_buffer = @ \o Bytes(p, n)]

Buffered(c) == {s \in SeqPoint : c.segments[s] > 0}

\* TcpReassembly::insert keeps the longer of two segments with the same start.
Insert(c, seg) ==
    [c EXCEPT !.segments[seg.seq] = IF seg.len > @ THEN seg.len ELSE @]

MarkFin(c, seg) ==
    IF c.fin_seq = {} THEN [c EXCEPT !.fin_seq = {Add(seg.seq, seg.len)}] ELSE c

FinReached(c) == \E f \in c.fin_seq : PrecedesOrEq(f, c.rcv_nxt)

\* The buffered segments drain_contiguous releases: the least set that holds the
\* one starting at RCV.NXT and, with a segment, the one starting where it ends.
Contiguous(c) ==
    LET S == Buffered(c)
        End(s) == Add(s, c.segments[s])
        Closed(C) == /\ c.rcv_nxt \in S => c.rcv_nxt \in C
                     /\ \A s \in C : End(s) \in S => End(s) \in C
    IN  {s \in S : \A C \in SUBSET S : Closed(C) => s \in C}

\* The value drain_contiguous leaves in rcv_nxt: the furthest end of those.
DrainedTo(c) ==
    LET ends == {c.rcv_nxt} \cup {Add(s, c.segments[s]) : s \in Contiguous(c)}
    IN  CHOOSE e \in ends : \A f \in ends : Sub(f, c.rcv_nxt) <= Sub(e, c.rcv_nxt)

\* Mutant: stale segments stay in the map, only the released ones leave it.
DeliverKeepingStale(c) ==
    [Deliver(c, c.rcv_nxt, Sub(DrainedTo(c), c.rcv_nxt)) EXCEPT
        !.segments = [s \in SeqPoint |-> IF s \in Contiguous(c) THEN 0 ELSE c.segments[s]]]

\* drain_contiguous with every released segment delivered: they start at RCV.NXT and
\* follow on one another.  The segments that start at or before the final RCV.NXT are
\* gone, delivered or discarded as stale.
DeliverContiguous(c) ==
    LET d == Deliver(c, c.rcv_nxt, Sub(DrainedTo(c), c.rcv_nxt))
    IN  [d EXCEPT !.segments = [s \in SeqPoint |->
            IF PrecedesOrEq(s, d.rcv_nxt) THEN 0 ELSE c.segments[s]]]

\* close_on_in_order_fin.
CloseOnInOrderFin(c, seg) ==
    LET d == AdvanceRcv(Deliver(c, seg.seq, seg.len), 1)
    IN  CloseWaitOrLastAck(AckedBy(d, seg), WindowAfter(d, seg))

\* complete_handshake.
CompleteHandshake(c, seg) ==
    [c EXCEPT !.tcp_state = "Established", !.window = WindowFrom(seg),
              !.snd_una = seg.ack, !.pending = {}]

OurFinAcked(c, seg) == seg.ack = c.snd_nxt
=============================================================================
