------------------------------- MODULE Packets -------------------------------
(***************************************************************************)
(* The way of one packet through a worker: parsing (ipv4_packet.rs,        *)
(* ipv4_header.rs and the protocols), the reply, and send_pkt, which       *)
(* writes the reply into a buffer that is never cleared between packets.   *)
(* Packets are sequences of bytes and offsets those of the code.  What a   *)
(* TCP segment is answered with is TcpConnections' business; here it is    *)
(* any SendInfo of TcpReplies.                                             *)
(*                                                                         *)
(* A TraceableResult is a set: empty for Err, a singleton for Ok.          *)
(***************************************************************************)
EXTENDS Integers, Sequences, FiniteSets, Checksum

CONSTANTS
    Mtu,            \* ETHERNET_MTU, the size of the read and write buffers
    App,            \* ServerApp: "Echo" or "Shout"
    Wire,           \* the packets that may arrive
    TcpReplies      \* the SendInfo values decide_reply may return

ASSUME PacketAssumption ==
    /\ ByteMod = 256
    /\ Mtu \in Nat /\ Mtu >= 40 /\ Mtu <= 65535
    /\ App \in {"Echo", "Shout"}

ASSUME WireAssumption == \A data \in Wire : data \in Seq(0..255) /\ Len(data) <= Mtu

\* Sequence numbers have 4 bytes; MAX_PAYLOAD_LEN leaves room for the headers.
ASSUME ReplyAssumption ==
    \A info \in TcpReplies :
        /\ info.seq \in Seq(0..255) /\ Len(info.seq) = 4
        /\ info.ack \in Seq(0..255) /\ Len(info.ack) = 4
        /\ info.flags \in 0..255
        /\ info.payload \in Seq(0..255) /\ Len(info.payload) <= Mtu - 40

VARIABLES
    read_buf,       \* the packet read, <<>> while the worker polls
    status,         \* "poll", "read", or what became of the packet
    write_buf,      \* Server.write_buf
    sent            \* the bytes handed to the device for this packet

vars == <<read_buf, status, write_buf, sent>>

Init ==
    /\ read_buf = <<>> /\ sent = <<>>
    /\ status = "poll"
    /\ write_buf = [i \in 1..Mtu |-> 0]
-----------------------------------------------------------------------------
(* Bytes.                                                                  *)

\* data[i..j], and the big-endian number at offset i.
Slice(data, i, j) == SubSeq(data, i + 1, j)

U16(data, i) == data[i + 1] * 256 + data[i + 2]

BeBytes(n) == <<n \div 256, n % 256>>

\* buf[i..].copy_from_slice(bytes).
Put(buf, i, bytes) ==
    [k \in 1..Len(buf) |-> IF k \in (i + 1)..(i + Len(bytes)) THEN bytes[k - i] ELSE buf[k]]

Icmp == 1
Tcp == 6
Udp == 17
Protocol == {Icmp, Tcp, Udp}

TcpHdrLen == 20
Ipv4HdrLen == 20
HdrLen(proto) == IF proto = Tcp THEN TcpHdrLen ELSE 8
-----------------------------------------------------------------------------
(* Parsing.                                                                *)

\* The header length field may be anything from 0 to 15 words.
IhlBytes(data) == (data[1] % 16) * 4

\* Ipv4Header::inner_parse: the checksum is taken over the fixed part of the header.
ParseIpv4(data) ==
    IF /\ Len(data) >= Ipv4HdrLen
       /\ data[1] \div 16 = 4
       /\ Calculate(Slice(data, 0, Ipv4HdrLen)) = 0
       /\ data[10] \in Protocol
       /\ IhlBytes(data) <= Len(data)
    THEN {[proto |-> data[10], src |-> Slice(data, 12, 16), dst |-> Slice(data, 16, 20),
           payload |-> Slice(data, IhlBytes(data), Len(data))]}
    ELSE {}

\* pseudo_hdr_cksum: Err when data does not fit the buffer.
PseudoHdrCksum(data, src, dst, proto) ==
    IF Len(data) <= Mtu
    THEN {Calculate(src \o dst \o <<0, proto>> \o BeBytes(Len(data)) \o data)}
    ELSE {}

\* Mutant: a missing checksum is taken for a wrong one.
ParseUdpStrict(data, hdr) ==
    IF Len(data) >= 8 /\ PseudoHdrCksum(data, hdr.src, hdr.dst, Udp) = {0}
    THEN {[proto |-> Udp, src |-> hdr.src, dst |-> hdr.dst,
           sport |-> U16(data, 0), dport |-> U16(data, 2), payload |-> Slice(data, 8, Len(data))]}
    ELSE {}

\* Mutant: the checksum is never looked at.
ParseUdpTrusting(data, hdr) ==
    IF Len(data) >= 8
    THEN {[proto |-> Udp, src |-> hdr.src, dst |-> hdr.dst,
           sport |-> U16(data, 0), dport |-> U16(data, 2), payload |-> Slice(data, 8, Len(data))]}
    ELSE {}

\* UdpDatagram::parse.  A checksum field of 0 means that there is none.
ParseUdp(data, hdr) ==
    IF /\ Len(data) >= 8
       /\ U16(data, 6) # 0 => PseudoHdrCksum(data, hdr.src, hdr.dst, Udp) = {0}
    THEN {[proto |-> Udp, src |-> hdr.src, dst |-> hdr.dst,
           sport |-> U16(data, 0), dport |-> U16(data, 2), payload |-> Slice(data, 8, Len(data))]}
    ELSE {}

\* IcmpEchoMsg::parse: an Echo Request has type 8 and code 0.
ParseIcmp(data, hdr) ==
    IF /\ Len(data) >= 8
       /\ Calculate(data) = 0
       /\ data[1] = 8 /\ data[2] = 0
    THEN {[proto |-> Icmp, src |-> hdr.src, dst |-> hdr.dst, type |-> data[1],
           id |-> U16(data, 4), seq |-> U16(data, 6), payload |-> Slice(data, 8, Len(data))]}
    ELSE {}

\* The combinations of ACK (16), RST (4), SYN (2) and FIN (1) with a name in TcpFlags.
FlagBytes == {2, 18, 16, 17, 4, 20}

\* value & MASK: the other bits of the byte are ignored.
MaskedFlags(b) == ((b \div 16) % 2) * 16 + (b % 8)

\* TcpSegment::inner_parse.  An offset past the end leaves no payload.
ParseTcp(data, hdr) ==
    IF /\ Len(data) >= TcpHdrLen
       /\ PseudoHdrCksum(data, hdr.src, hdr.dst, Tcp) = {0}
       /\ MaskedFlags(data[14]) \in FlagBytes
    THEN {[proto |-> Tcp, src |-> hdr.src, dst |-> hdr.dst,
           sport |-> U16(data, 0), dport |-> U16(data, 2),
           seq |-> Slice(data, 4, 8), ack |-> Slice(data, 8, 12),
           flags |-> MaskedFlags(data[14]), window |-> U16(data, 14),
           payload |-> Slice(data, (data[13] \div 16) * 4, Len(data))]}
    ELSE {}

\* Ipv4Packet::parse.
Parse(data) ==
    UNION {CASE h.proto = Icmp -> ParseIcmp(h.payload, h)
             [] h.proto = Tcp  -> ParseTcp(h.payload, h)
             [] h.proto = Udp  -> ParseUdp(h.payload, h) : h \in ParseIpv4(data)}
-----------------------------------------------------------------------------
(* Replies.                                                                *)

\* to_ascii_uppercase.
Upper(b) == IF b \in 97..122 THEN b - 32 ELSE b

HandleUdp(payload) ==
    IF App = "Echo" THEN payload ELSE [i \in 1..Len(payload) |-> Upper(payload[i])]

Swapped(msg) == [msg EXCEPT !.src = msg.dst, !.dst = msg.src]

SwappedPorts(msg) == [Swapped(msg) EXCEPT !.sport = msg.dport, !.dport = msg.sport]

UdpReply(msg) == [SwappedPorts(msg) EXCEPT !.payload = HandleUdp(@)]

IcmpReply(msg) == [Swapped(msg) EXCEPT !.type = 0]

\* from_pairs_and_info: the window is RCV_WND, there are no options.
TcpReply(msg, info) ==
    [SwappedPorts(msg) EXCEPT !.seq = info.seq, !.ack = info.ack, !.flags = info.flags,
                              !.window = 65535, !.payload = info.payload]

\* Ipv4Packet::create_reply: at most one reply, and always one for ICMP and UDP.
CreateReply(msg) ==
    CASE msg.proto = Icmp -> {{IcmpReply(msg)}}
      [] msg.proto = Udp  -> {{UdpReply(msg)}}
      [] msg.proto = Tcp  -> {{}} \cup {{TcpReply(msg, info)} : info \in TcpReplies}
-----------------------------------------------------------------------------
(* Writing.                                                                *)

ProtoLen(msg) == HdrLen(msg.proto) + Len(msg.payload)

\* Mutant: the header is not counted.
TotalLenBare(msg) == ProtoLen(msg)

TotalLen(msg) == Ipv4HdrLen + ProtoLen(msg)

\* Mutant: off by one, the last byte of the buffer is not used.
WritableBelow(msg) == ProtoLen(msg) < Mtu - Ipv4HdrLen

\* try_get_mut succeeds for every range written: the payload's is the last.
Writable(msg) == ProtoLen(msg) <= Mtu - Ipv4HdrLen

Only(S) == CHOOSE x \in S : TRUE

\* UdpDatagram::write_into.
WriteUdp(body, msg) ==
    LET a  == Put(Put(body, 0, BeBytes(msg.sport) \o BeBytes(msg.dport)
                               \o BeBytes(ProtoLen(msg))), 8, msg.payload)
        z  == Put(a, 6, <<0, 0>>)
        ck == Only(PseudoHdrCksum(Slice(z, 0, ProtoLen(msg)), msg.src, msg.dst, Udp))
    IN  Put(z, 6, BeBytes(IF ck = 0 THEN 65535 ELSE ck))

\* IcmpEchoMsg::write_into.
WriteIcmp(body, msg) ==
    LET a == Put(Put(Put(body, 8, msg.payload), 0, <<msg.type, 0>>), 2, <<0, 0>>)
        z == Put(a, 4, BeBytes(msg.id) \o BeBytes(msg.seq))
    IN  Put(z, 2, BeBytes(Calculate(Slice(z, 0, ProtoLen(msg)))))

\* TcpSegment::inner_write_into.
WriteTcp(body, msg) ==
    LET a  == Put(body, 0, BeBytes(msg.sport) \o BeBytes(msg.dport) \o msg.seq \o msg.ack
                           \o <<(TcpHdrLen \div 4) * 16, msg.flags>> \o BeBytes(msg.window))
        b  == Put(Put(a, 18, <<0, 0>>), TcpHdrLen, msg.payload)
        z  == Put(b, 16, <<0, 0>>)
        ck == Only(PseudoHdrCksum(Slice(z, 0, ProtoLen(msg)), msg.src, msg.dst, Tcp))
    IN  Put(z, 16, BeBytes(ck))

WriteBody(body, msg) ==
    CASE msg.proto = Icmp -> WriteIcmp(body, msg)
      [] msg.proto = Tcp  -> WriteTcp(body, msg)
      [] msg.proto = Udp  -> WriteUdp(body, msg)

\* Mutant: the checksum field is not cleared, so the last packet's goes into the sum.
WriteIpv4Uncleared(hdr, msg) ==
    LET z == Put(Put(hdr, 0, <<69, 0>> \o BeBytes(TotalLen(msg))
                             \o <<0, 0, 64, 0, 64, msg.proto>>), 12, msg.src \o msg.dst)
    IN  Put(z, 10, BeBytes(Calculate(z)))

\* Ipv4Header::inner_write_into: version 4, 5 words, Don't Fragment, TTL 64.
WriteIpv4(hdr, msg) ==
    LET z == Put(hdr, 0, <<69, 0>> \o BeBytes(TotalLen(msg))
                         \o <<0, 0, 64, 0, 64, msg.proto, 0, 0>> \o msg.src \o msg.dst)
    IN  Put(z, 10, BeBytes(Calculate(z)))

\* Ipv4Packet::write_into, first the body and then the header.
WriteInto(buf, msg) ==
    LET body == WriteBody(Slice(buf, Ipv4HdrLen, Mtu), msg)
    IN  WriteIpv4(Slice(buf, 0, Ipv4HdrLen), msg) \o body
-----------------------------------------------------------------------------
(* The worker: read, handle_packet, send_pkt.                              *)

Read(data) ==
    /\ status = "poll"
    /\ status' = "read" /\ read_buf' = data
    /\ UNCHANGED <<write_buf, sent>>

\* handle_packet returns Err, which is logged.
Skip ==
    /\ status = "read" /\ Parse(read_buf) = {}
    /\ status' = "skipped"
    /\ UNCHANGED <<read_buf, write_buf, sent>>

\* decide_reply returns Ok(None), or Err when it could not draw a sequence number; either
\* way nothing is sent.
NoReply ==
    /\ status = "read"
    /\ \E msg \in Parse(read_buf) : {} \in CreateReply(msg)
    /\ status' = "noReply"
    /\ UNCHANGED <<read_buf, write_buf, sent>>

\* send_pkt: total_len bytes of the buffer go to the device.
SendPkt ==
    /\ status = "read"
    /\ \E msg \in Parse(read_buf) : \E replies \in CreateReply(msg) : \E reply \in replies :
        /\ Writable(reply)
        /\ write_buf' = WriteInto(write_buf, reply)
        /\ sent' = Slice(write_buf', 0, TotalLen(reply))
    /\ status' = "sent"
    /\ UNCHANGED read_buf

\* write_into returns Err, which ends the worker's loop.
SendPktFails ==
    /\ status = "read"
    /\ \E msg \in Parse(read_buf) : \E replies \in CreateReply(msg) : \E reply \in replies :
        ~Writable(reply)
    /\ status' = "failed"
    /\ UNCHANGED <<read_buf, write_buf, sent>>

Poll ==
    /\ status \in {"skipped", "noReply", "sent"}
    /\ status' = "poll" /\ read_buf' = <<>> /\ sent' = <<>>
    /\ UNCHANGED write_buf

Next ==
    \/ \E data \in Wire : Read(data)
    \/ Skip \/ NoReply \/ SendPkt \/ SendPktFails \/ Poll

Spec == Init /\ [][Next]_vars
-----------------------------------------------------------------------------
(* What the RFCs call a valid packet, written without the code's parser.   *)

Sums(data) == Rfc1071(data) = 0

PseudoHdr(data, body) == Slice(data, 12, 20) \o <<0, data[10]>> \o BeBytes(Len(body))

ValidTransport(data, body) ==
    CASE data[10] = Icmp -> Len(body) >= 8 /\ Sums(body)
      [] data[10] = Udp  -> /\ Len(body) >= 8 /\ U16(body, 4) = Len(body)
                            /\ U16(body, 6) = 0 \/ Sums(PseudoHdr(data, body) \o body)
      [] data[10] = Tcp  -> Len(body) >= 20 /\ Sums(PseudoHdr(data, body) \o body)
      [] OTHER -> FALSE

ValidPacket(data) ==
    /\ Len(data) >= 20 /\ data[1] = 69
    /\ U16(data, 2) = Len(data)
    /\ Sums(Slice(data, 0, 20))
    /\ ValidTransport(data, Slice(data, 20, Len(data)))

\* rep goes back to where req came from.
Returned(req, rep) ==
    /\ rep[10] = req[10]
    /\ Slice(rep, 12, 16) = Slice(req, 16, 20)
    /\ Slice(rep, 16, 20) = Slice(req, 12, 16)
    /\ req[10] # Icmp => /\ U16(rep, 20) = U16(req, 22)
                         /\ U16(rep, 22) = U16(req, 20)

UppercaseOf(a, b) == IF a \in 97..122 THEN b = a - 32 ELSE b = a

\* rep says what the reply to req has to say.
Answers(req, rep) ==
    CASE req[10] = Icmp -> /\ rep[21] = 0 /\ rep[22] = 0
                           /\ Slice(rep, 24, Len(rep)) = Slice(req, 24, Len(req))
      [] req[10] = Udp  -> /\ Len(rep) = Len(req) /\ U16(rep, 26) # 0
                           /\ \A i \in 29..Len(req) :
                                IF App = "Shout" THEN UppercaseOf(req[i], rep[i])
                                ELSE rep[i] = req[i]
      [] req[10] = Tcp  -> \E info \in TcpReplies :
                              /\ Slice(rep, 24, 28) = info.seq /\ Slice(rep, 28, 32) = info.ack
                              /\ rep[33] = 80 /\ rep[34] = info.flags
                              /\ U16(rep, 34) = 65535 /\ Slice(rep, 40, Len(rep)) = info.payload

EchoRequest(data) == data[10] = Icmp => data[21] = 8 /\ data[22] = 0
-----------------------------------------------------------------------------
(* Correctness.                                                            *)

\* The type of the state: a packet handed to the device has room for its headers and
\* comes from within the buffer, and nothing is handed over in any other outcome.
TypeOK ==
    /\ status \in {"poll", "read", "skipped", "noReply", "sent", "failed"}
    /\ read_buf \in Wire \cup {<<>>}
    /\ write_buf \in Seq(0..255) /\ Len(write_buf) = Mtu
    /\ sent \in Seq(0..255)
    /\ IF status = "sent" THEN Len(sent) \in (Ipv4HdrLen + 8)..Mtu ELSE sent = <<>>

\* Whatever the write buffer still holds of earlier and longer replies, a valid request
\* is understood and its reply is a valid packet with the right content, addressed back:
\* handle_packet and send_pkt together, against the RFCs' definition of validity.
AnsweredInFull ==
    status \in {"skipped", "noReply", "sent", "failed"} /\ ValidPacket(read_buf)
        /\ EchoRequest(read_buf) =>
            \/ status = "sent" /\ ValidPacket(sent) /\ Returned(read_buf, sent)
                               /\ Answers(read_buf, sent)
            \/ status = "noReply" /\ read_buf[10] = Tcp
            \/ status = "skipped" /\ read_buf[10] = Tcp /\ MaskedFlags(read_buf[34]) \notin FlagBytes

\* What is odd about an accepted packet (options, a total length that does not match, a
\* missing UDP checksum) does not get into the reply: every packet sent is valid.
RepliesAreValid == status = "sent" => ValidPacket(sent)

OneByteApart(a, b) ==
    Len(a) = Len(b) /\ Cardinality({i \in 1..Len(a) : a[i] # b[i]}) = 1

\* A packet of which one byte was damaged on the way is never accepted, in whichever
\* header field or part of the payload the byte is, unless the damage or the sender
\* switched the UDP checksum off.
DamageIsDetected ==
    status \in {"noReply", "sent", "failed"} =>
        ~ \E orig \in Wire : /\ OneByteApart(orig, read_buf)
                             /\ ValidPacket(orig) /\ EchoRequest(orig)
                             /\ ~(orig[10] = Udp /\ 0 \in {U16(orig, 26), U16(read_buf, 26)})

\* The reply to whatever fits the read buffer fits the write buffer, so that no packet ends
\* the worker's loop, unless its header length field is less than the header: part of the
\* header is then taken for payload and echoed as well.
RepliesFit == status = "failed" => IhlBytes(read_buf) < Ipv4HdrLen

\* run "logs and continues for errors related to parsing and replying to individual
\* packets": no packet ends the worker's loop.
NoPacketEndsTheLoop == status # "failed"
=============================================================================
