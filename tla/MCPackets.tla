----------------------------- MODULE MCPackets ------------------------------
(***************************************************************************)
(* The packets of a small instance of Packets, put together as a client    *)
(* does, with checksums from the definition of RFC 1071.  One lane at a    *)
(* time keeps the sums in TLC's integers.                                  *)
(***************************************************************************)
EXTENDS Packets

Client == <<10, 0, 0, 1>>
Host == <<10, 0, 0, 2>>

\* Header fields with the checksum at offset i filled in.
Summed(bytes, i, covered) == Put(bytes, i, BeBytes(Rfc1071(covered)))

\* An IPv4 packet: vihl is its first byte, opts its options, tot its total length field.
Ip(vihl, proto, opts, body, tot) ==
    LET hdr == <<vihl, 0>> \o BeBytes(tot) \o <<0, 7, 0, 0, 63, proto, 0, 0>> \o Client \o Host
    IN  Summed(hdr, 10, hdr) \o opts \o body

Plain(proto, body) == Ip(69, proto, <<>>, body, 20 + Len(body))

Pseudo(proto, body) == Client \o Host \o <<0, proto>> \o BeBytes(Len(body))

UdpUnsummed(payload) == BeBytes(40000) \o BeBytes(7) \o BeBytes(8 + Len(payload)) \o <<0, 0>> \o payload

UdpBody(payload) ==
    LET d  == UdpUnsummed(payload)
        ck == Rfc1071(Pseudo(Udp, d) \o d)
    IN  Put(d, 6, BeBytes(IF ck = 0 THEN 65535 ELSE ck))

\* The payload that makes the checksum of a datagram with two bytes come out as 0.
ZeroSumPayload == LET d == UdpUnsummed(<<0, 0>>) IN BeBytes(Rfc1071(Pseudo(Udp, d) \o d))

IcmpBody(type, code, payload) ==
    LET m == <<type, code, 0, 0>> \o BeBytes(300) \o BeBytes(1) \o payload IN Summed(m, 2, m)

\* A segment with a data offset of words and a byte of flags.
TcpBody(words, flags, rest) ==
    LET t == BeBytes(40001) \o BeBytes(7) \o <<1, 2, 3, 4, 250, 251, 252, 253, words * 16, flags>>
             \o BeBytes(512) \o <<0, 0, 0, 0>> \o rest
    IN  Summed(t, 16, Pseudo(Tcp, t) \o t)

\* Valid packets: odd and even payloads, one that fills the MTU, a UDP checksum that comes
\* out as 0 and one that is missing, TCP options, flags that the stack ignores and
\* flags that it refuses.
Valid == {
    Plain(Icmp, IcmpBody(8, 0, <<255, 1, 2>>)),
    Plain(Udp, UdpBody(<<97, 10, 122>>)),
    Plain(Udp, UdpBody(ZeroSumPayload)),
    Plain(Udp, UdpUnsummed([i \in 1..(Mtu - 28) |-> 5 * i])),
    Plain(Tcp, TcpBody(5, 2, <<>>)),
    Plain(Tcp, TcpBody(6, 24, <<1, 1, 1, 0, 104>>)),
    Plain(Tcp, TcpBody(5, 3, <<>>))}

\* Packets with something odd about them: other ICMP messages, IPv4 options, a total
\* length that is too large or too small, a header length of 4 words in a packet of
\* full size and in a short one or past the end, an unsupported protocol, another IP
\* version, and packets that end inside a header.
Odd == {
    Plain(Icmp, IcmpBody(0, 0, <<1>>)),
    Ip(70, Icmp, <<0, 0, 0, 0>>, IcmpBody(8, 0, <<3>>), 33),
    Ip(69, Udp, <<>>, UdpBody(<<65>>) \o <<0>>, 29),
    Ip(69, Udp, <<>>, UdpBody(<<66>>), 40),
    Ip(68, Udp, <<>>, <<0, 8, 0, 0>> \o [i \in 1..(Mtu - 24) |-> 120], Mtu),
    Ip(68, Udp, <<>>, <<0, 8, 0, 0>>, 24),
    Ip(79, Udp, <<>>, UdpBody(<<>>), 28),
    Plain(2, <<>>), Ip(101, Udp, <<>>, UdpBody(<<>>), 28),
    Plain(Tcp, <<1, 2, 3>>), Plain(Udp, <<1, 2, 3>>), Plain(Icmp, <<>>), <<69, 0, 0>>, <<>>}

\* The valid packets with one byte damaged.
Damaged ==
    UNION {{[pkt EXCEPT ![i] = b] : i \in 1..Len(pkt), b \in {0, 69, 255}}
           : pkt \in {p \in Valid : Len(p) < Mtu}} \ Valid

\* A SYN-ACK, a data segment, and one that fills the MTU.
MCTcpReplies == {
    [seq |-> <<0, 0, 0, 9>>, ack |-> <<1, 2, 3, 5>>, flags |-> 18, payload |-> <<>>],
    [seq |-> <<9, 8, 7, 6>>, ack |-> <<1, 2, 3, 4>>, flags |-> 17,
     payload |-> [i \in 1..(Mtu - 40) |-> i]]}

MCWire == Valid \cup Odd \cup Damaged
=============================================================================
