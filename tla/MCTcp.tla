-------------------------------- MODULE MCTcp --------------------------------
(***************************************************************************)
(* Small instances of TcpConnections for TLC.  Sequence numbers wrap at 16 *)
(* and both initial sequence numbers are just below the wrap, so that      *)
(* every data byte and both FINs lie across it.                            *)
(***************************************************************************)
EXTENDS TcpConnections

CONSTANTS
    Irs, Iss,       \* the initial sequence numbers of the client and the server
    StreamLen,      \* the bytes the client has to send
    SegLens,        \* the payload lengths of its segments
    Windows,        \* the windows it advertises
    SynOffsets,     \* its SYNs, as offsets from Irs
    RstOffsets,     \* its RSTs and stray SYN-ACKs, as offsets from Irs + 1
    AckOffsets      \* its acknowledgments, as offsets from Iss

Segs(S, A, flags, W, L) == [seq: S, ack: A, flags: flags, wnd: W, len: L]

\* The client's stream is StreamLen bytes starting at Irs + 1.  It may end early, so a
\* FIN may stand after any of them, and plain ACKs may be old or lie past the FIN.
PeerTraffic ==
    LET first == Add(Irs, 1)
        At(p, D) == {Add(p, i) : i \in D}
        acks == At(Iss, AckOffsets)
        Fits(seg) == Sub(seg.seq, first) + seg.len <= StreamLen
    IN  Segs(At(Irs, SynOffsets), {0}, {"Syn"}, {0}, {0})
        \cup {seg \in Segs(At(first, 0..StreamLen), acks, {"Ack", "FinAck"},
                           Windows, SegLens \cup {0}) : Fits(seg)}
        \cup Segs({Irs, Add(first, StreamLen + 1)}, acks, {"Ack"}, Windows, {0})
        \cup Segs(At(first, RstOffsets), {Add(Iss, 1)}, {"Rst", "RstAck", "SynAck"}, {0}, {0})
=============================================================================
