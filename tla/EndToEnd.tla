------------------------------ MODULE EndToEnd ------------------------------
(***************************************************************************)
(* One run_connection of the load generator against the echo server: the   *)
(* client connects, writes its payload, shuts its side down and reads to   *)
(* EOF, over a network that loses, duplicates and reorders packets, while  *)
(* the server may be told to shut down.  The server is TcpConnections with *)
(* every handler of it; the client's kernel and the network are external   *)
(* and modelled from what the load generator and the stack need of them.   *)
(*                                                                         *)
(* Both retransmission timers are slow compared with the network: they run *)
(* out when nothing is under way.  A packet that takes longer is late, a   *)
(* fault like the others.                                                  *)
(***************************************************************************)
EXTENDS TcpConnections

CONSTANTS
    Irs,            \* the client's initial sequence number
    N,              \* the length of the payload, in segments of one byte
    Capacity,       \* the client's receive buffer
    MaxFaults,      \* bound: packets lost, doubled or late, and the shutdown
    UpdatesAtRisk   \* whether window updates may be lost and overtaken, as all packets

ASSUME EndToEndAssumption ==
    /\ \E k \in ConnKey : ConnKey = {k}
    /\ Irs \in SeqPoint /\ UpdatesAtRisk \in BOOLEAN
    /\ {N, Capacity} \subseteq Nat \ {0} /\ MaxFaults \in Nat

VARIABLES
    client,         \* the client's socket and its thread, see ClientState
    up, down,       \* the packets under way to the server and to the client
    faults,         \* how many packets have been lost, doubled and late, with the shutdown
    shutdown        \* whether the server has been told to shut down

e2eVars == <<vars, client, up, down, faults, shutdown>>

\* A step of the client or of the network.
ServerIdle == out' = {} /\ UNCHANGED <<table, fault, origin>>

TheKey == CHOOSE k \in ConnKey : TRUE

\* Sequence numbers of the client's side are counted from Irs: 0 is its SYN, 1..N are the
\* bytes of the payload, and N + 1 is its FIN.  have[i] is byte i of the reply, once it has
\* arrived, fin the length of the reply, once the server's FIN has; read bytes of it have
\* been read.
ClientState ==
    [phase: {"connecting", "open", "done", "error"},
     una: 0..(N + 2), nxt: 0..(N + 2), iss: SeqPoint,
     have: [1..N -> SUBSET SeqPoint], fin: SUBSET (0..N), read: 0..N]

E2EInit ==
    /\ Init
    /\ client = [phase |-> "connecting", una |-> 0, nxt |-> 0, iss |-> 0,
                 have |-> [i \in 1..N |-> {}], fin |-> {}, read |-> 0]
    /\ up = {} /\ down = {}
    /\ faults = 0
    /\ shutdown = FALSE
-----------------------------------------------------------------------------
(* The client's socket.                                                    *)

\* The length of the part of the reply that has arrived without a gap.
Arrived(c) == Cardinality({i \in 1..N : \A j \in 1..i : c.have[j] # {}})

Eof(c) == Arrived(c) \in c.fin

\* Both sides have closed and said so: the kernel keeps what is still to be read, and a
\* reset does not reach the socket any more.
TimeWait(c) == Eof(c) /\ c.una = N + 2

AckPoint(c) == Add(c.iss, 1 + Arrived(c) + (IF Eof(c) THEN 1 ELSE 0))

\* The client's segment at sequence number n of its side, or a bare ACK.
Segment(c, n) ==
    [seq |-> Add(Irs, n), ack |-> IF n = 0 THEN 0 ELSE AckPoint(c),
     flags |-> IF n = 0 THEN "Syn" ELSE IF n = N + 1 THEN "FinAck" ELSE "Ack",
     wnd |-> Capacity - (Arrived(c) - c.read), len |-> IF n \in 1..N THEN 1 ELSE 0]

BareAck(c) == [Segment(c, c.nxt) EXCEPT !.flags = "Ack", !.len = 0]

Packet(seg) == [seg |-> seg, update |-> FALSE]
WindowUpdate(c) == [seg |-> BareAck(c), update |-> TRUE]

\* connect, write_all and shutdown(Write): SYN, payload and FIN, each once.
ClientSend ==
    /\ \/ client.phase = "connecting" /\ client.nxt = 0
       \/ client.phase = "open" /\ client.nxt < N + 2
    /\ client' = [client EXCEPT !.nxt = @ + 1]
    /\ up' = up \cup {Packet(Segment(client, client.nxt))}
    /\ ServerIdle /\ UNCHANGED <<down, faults, shutdown>>

\* read_to_end, which begins after shutdown: the buffer is emptied, which opens the window,
\* and at EOF the call returns.
ClientRead ==
    /\ client.phase = "open" /\ client.nxt = N + 2
    /\ client.read < Arrived(client) \/ Eof(client)
    /\ client' = [client EXCEPT !.read = Arrived(client),
                                !.phase = IF Eof(client) THEN "done" ELSE @]
    /\ up' = IF client.read < Arrived(client) THEN up \cup {WindowUpdate(client')} ELSE up
    /\ ServerIdle /\ UNCHANGED <<down, faults, shutdown>>

\* The client's timer runs out: the oldest unacknowledged segment is sent again.
ClientTimer ==
    /\ client.phase # "error" /\ client.una < client.nxt
    /\ up' = up \cup {Packet(Segment(client, client.una))}
    /\ ServerIdle /\ UNCHANGED <<client, down, shutdown>>

\* What acknowledgment and payload of a segment do to the socket.
Absorb(c, info) ==
    LET acked == Sub(info.ack, Irs)
        first == Sub(info.seq, c.iss)
        last  == first + Len(info.payload) - 1
    IN  [c EXCEPT
            !.una = IF acked \in @..c.nxt THEN acked ELSE @,
            !.have = [i \in 1..N |->
                IF @[i] = {} /\ i \in first..last THEN {info.payload[i - first + 1]} ELSE @[i]],
            !.fin = IF info.flags = "FinAck" /\ last \in 0..N THEN {last} ELSE @]

\* The client's answer to a segment of the server, and what becomes of the socket.
ClientReceives(info) ==
    \/ /\ info.flags = "SynAck" /\ client.phase = "connecting" /\ info.ack = Add(Irs, 1)
       /\ client' = [client EXCEPT !.phase = "open", !.una = 1, !.iss = info.seq]
       /\ up' = up \cup {Packet(BareAck(client'))}
    \/ /\ info.flags = "SynAck" /\ client.phase \in {"open", "done"}
       /\ up' = up \cup {Packet(BareAck(client))}
       /\ UNCHANGED client
    \/ /\ info.flags \in {"Ack", "FinAck"} /\ client.phase \in {"open", "done"}
       /\ client' = Absorb(client, info)
       /\ up' = IF info.payload # <<>> \/ info.flags = "FinAck"
                THEN up \cup {Packet(BareAck(client'))} ELSE up
    \/ /\ info.flags = "Rst"
       /\ client' = IF /\ client.phase = "open" /\ info.seq = AckPoint(client)
                       /\ ~TimeWait(client)
                    THEN [client EXCEPT !.phase = "error"] ELSE client
       /\ UNCHANGED up
    \/ /\ \/ client.phase = "error"
          \/ client.phase = "connecting" /\ info.flags \in {"Ack", "FinAck"}
       /\ UNCHANGED <<client, up>>
-----------------------------------------------------------------------------
(* The network and the server.                                             *)

Fault == faults < MaxFaults /\ faults' = faults + 1

\* A packet taken off the network may stay there as a duplicate.
Taken(packets, m, rest) ==
    \/ rest = packets \ {m} /\ UNCHANGED faults
    \/ rest = packets /\ Fault

DeliverDown(info) ==
    /\ ClientReceives(info)
    /\ Taken(down, info, down')
    /\ ServerIdle /\ UNCHANGED shutdown

\* What the server's step has sent.
Replies == {m.info : m \in out'}

DeliverUp(m) ==
    /\ m.update => UpdatesAtRisk \/ up = {m}
    /\ Receive(TheKey, m.seg)
    /\ Taken(up, m, up')
    /\ down' = down \cup Replies
    /\ UNCHANGED <<client, shutdown>>

\* A poll of the server's worker times out, and what is due is sent again or given up.  A
\* segment that was sent before another, and retried no more often, is due no later.
ServerTimer ==
    /\ \E due \in DueChoices :
          /\ \A k \in DOMAIN table : \A q \in due[k] : \A p \in table[k].pending :
                p.retries <= q.retries /\ Precedes(p.info.seq, q.info.seq) => p \in due[k]
          /\ MakeRetransmissions(due)
    /\ down' = down \cup Replies
    /\ UNCHANGED <<client, up, shutdown>>

Quiet == up = {} /\ down = {}

\* The timeouts are longer than a packet takes ...
ClientTimeout == Quiet /\ ClientTimer /\ UNCHANGED faults
ServerTimeout == Quiet /\ ServerTimer /\ UNCHANGED faults

\* ... unless the network delays one: what is sent again crosses the late original.
LatePacket == ~Quiet /\ Fault /\ (ClientTimer \/ ServerTimer)

ShutDown ==
    /\ ~shutdown /\ shutdown' = TRUE
    /\ Fault
    /\ CloseEstablished
    /\ down' = down \cup Replies
    /\ UNCHANGED <<client, up>>

Lose ==
    /\ Fault
    /\ \/ \E m \in up : /\ m.update => UpdatesAtRisk
                        /\ up' = up \ {m} /\ UNCHANGED down
       \/ \E info \in down : down' = down \ {info} /\ UNCHANGED up
    /\ ServerIdle /\ UNCHANGED <<client, shutdown>>

E2ENext ==
    \/ ClientSend \/ ClientRead \/ ClientTimeout
    \/ \E m \in up : DeliverUp(m)
    \/ \E info \in down : DeliverDown(info)
    \/ ServerTimeout \/ LatePacket \/ ShutDown \/ Lose

\* The network does not stop with a packet under way.  While there is one, everything but
\* a delivery happens at most so many times, so this is weak fairness of the deliveries.
PacketsArrive == []<>Quiet \/ []<><<TRUE>>_e2eVars

\* The client's thread runs, packets under way arrive, and timers run out.
E2ESpec ==
    /\ E2EInit /\ [][E2ENext]_e2eVars
    /\ WF_e2eVars(ClientSend) /\ WF_e2eVars(ClientRead)
    /\ WF_e2eVars(ClientTimeout) /\ WF_e2eVars(ServerTimeout)
    /\ PacketsArrive
-----------------------------------------------------------------------------
(* Correctness.                                                            *)

\* What read_to_end has returned, or will return: the reply without its gaps.
Payload(i) == Add(Irs, i)

Verified(c) == c.read = N /\ \A i \in 1..N : c.have[i] = {Payload(i)}

\* Nothing but the payload is ever echoed, each byte in its place, and EOF comes after
\* the last byte of it: a reply that ends early is the work of a shutdown, in which the
\* active close abandons what is queued (close_established).
EofMeansVerified ==
    /\ \A i \in 1..N : client.have[i] \subseteq {Payload(i)}
    /\ client.phase = "done" => Verified(client) \/ shutdown

\* A network no worse than MaxFaults never makes the server give up or refuse a client that
\* is still there: no late, doubled or reordered packet is answered with a reset that the
\* client has to believe.  A shutdown may: in FIN-WAIT the handlers take nothing out of
\* order, and the fallback's reset for such a segment ends a client that still sends.
NoReset == client.phase = "error" => shutdown

\* The stack "is capable of reliable transmission of data in degraded network
\* conditions": run_connection returns, whichever packets are lost, doubled or overtaken,
\* and when the server is shut down as well.  With the two invariants above it returns
\* Verified unless the server is shut down.
ClientReturns == <>(client.phase \in {"done", "error"})
=============================================================================
