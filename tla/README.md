# Verification of typenet

Typenet is a user-space TCP/IP stack with a server on a TUN device. This directory holds
TLA+ models of it: the TCP connection table, the multi-threaded worker loop with its
shutdown, the retransmission clock, parsing and writing of packets with their checksums, and
the server together with a client of the load generator over a bad network. TLC
configurations check them on small instances, and TLAPS proofs establish every safety
property of the table, the workers, the clock, the checksum and the packets for every size. `PROJECT.json` has the run list, the
map from definitions to source lines, the hazards and the findings.

Run a model: `tlc -workers 2 -config MCTcpSend.cfg MCTcp`. Check a proof:
`tlapm FlightProofs.tla`.

## Inventory of the system

| Component | State | Operations | Hard behaviour |
|---|---|---|---|
| Sequence space (`seq_space.rs`) | none (values) | `+`, `-`, `precedes`, `precedes_or_eq`, `in_window` | u32 wrap; circular order is not transitive, and ambiguous at distance 2^31 |
| Connection (`state.rs`, `send_info.rs`, `pending_segment.rs`) | TCP state with send window, SND.NXT, SND.UNA, RCV.NXT, pending segments, send buffer | one handler per TCP state, `incoming_ack_update`, `drain_transmittable`, `close_wait_or_last_ack` | any segment in any order, stale windows and ACKs, shrinking and zero windows, in-place mutation before `?` |
| Reassembly (`reassembly.rs`) | out-of-order segments, FIN position | `insert`, `mark_fin`, `drain_contiguous`, `fin_reached` | overlap, duplicates, a FIN that overtakes data |
| Connection table (`connections.rs`) | HashMap of connections, RTO settings | insert, remove, `make_retransmissions`, `close_established`, `closing_in_progress` | retries and give-up against late ACKs; active close of everything at once |
| Engine (`engine.rs`) | table, shutdown deadline | `handle_packet`, `make_retransmissions`, `handle_shutdown`, `poll_timeout`, `grace_period_elapsed`, `draining_complete` | what counts as drained, and when it is looked at |
| Worker loop (`server.rs`, `poll.rs`) | `draining`, its engine, its queue | the arms of `Server::run` | EINTR in `poll` or `read`, packet and shutdown together, I/O errors |
| Shutdown signal (`shutdown_signal.rs`) | static flag, eventfd | handler, `load_flag`, `block_sigint_on_this_thread` | handler runs on any thread between any two instructions; Relaxed ordering |
| Main thread (`main.rs`) | worker handles | spawn, mask SIGINT, join | a signal before the mask; one worker failing |
| Application (`application.rs`) | none | `handle_tcp`, `handle_udp` | none |
| Clock (`pending_segment.rs`, `Engine::poll_timeout`, `poll.rs`) | `last_sent_at`, `retries`, shutdown deadline | `time_due`, `is_due`, `retransmit_info`, the timeout of `poll` | saturation and clamping of the backoff; the clock is read three times in a round; rounding to milliseconds |
| Checksum (`checksum.rs`) | none | `calculate`, `pseudo_hdr_cksum`, three slower versions | odd lengths, carries across lanes, an accumulator near its limit |
| IPv4, ICMP, UDP and TCP headers (`ipv4_*.rs`, `icmp_echo.rs`, `udp.rs`, `tcp.rs`, `flags.rs`) | `write_buf`, used again for every packet | parse, reply, `write_into`, `send_pkt` | what earlier packets left in the buffer; replies at the MTU; a UDP checksum of 0; damaged bytes |
| Load generator (`loadgen`) | one socket per connection | `run_connection`: connect, write, shut down, read to EOF, compare | waits for the server, whatever the network does |
| TUN attach, configuration, logging, utilities | none shared | I/O and formatting | none |

A worker owns its engine, and the engine its table, so within a worker everything is
sequential: a packet, a timeout or a shutdown each runs to its end. Workers share only the
flag and the eventfd, which the signal handler writes. What the environment does is
unconstrained in all models but `EndToEnd`: segments of any content, at any
time, repeated, reordered or lost.

What makes each part correct:

* connection: what is unacknowledged is what is pending; SND.UNA, SND.NXT and RCV.NXT only
  move forward and never far apart; the client's bytes come back once, in order and in
  place; our FIN goes out with the last byte; handshakes and closes end;
* table: to its worker it looks like a set of connections moving through the TCP states;
* clock: no worker sleeps through what it has to wake for; a slow peer is not given up early
  nor a dead one kept;
* packets: a valid request gets a valid reply, damage is noticed, no packet ends the loop;
* client and server: a client that sent N bytes reads those N bytes and then EOF;
* workers: one signal reaches all of them; none stops listening without a deadline; they
  leave only after a signal and with nothing mid-close, unless the grace period ended.

## Modules

| Module | Models |
|---|---|
| `SeqSpace` | `seq_space.rs`; the constant `Half` is 2^31 in the code |
| `TcpConn` | one `ConnState` and the functions the handlers are composed of |
| `TcpConnections` | the table: one action per arm of the handlers of `send_info.rs`, the timer, the active close; the TCP properties |
| `Lifecycle` | abstract specification: the TCP state of each key and how it may move |
| `Workers` | main thread, workers, signal, eventfd, poll, grace period; each worker's table is an instance of `Lifecycle` |
| `RetransmitTimer` | the clock of one worker: RTO, poll timeout, retries, grace period |
| `Checksum` | the four implementations of `checksum.rs` and the definition of RFC 1071 |
| `Packets` | one packet after another through parse, reply, write and the reused buffers, on bytes |
| `EndToEnd` | `TcpConnections` with one client of the load generator and a network between them |
| `MCTcp`, `MCWorkers`, `MCTimer`, `MCChecksum`, `MCPackets`, `MCEndToEnd` | instances for TLC; `MCTcp` defines the traffic of an arbitrary peer, `MCPackets` the packets on the wire |
| `TcpConnProofs`, `TcpProofs`, `FlightProofs`, `StreamProofs`, `WorkersProofs`, `TimerProofs`, `ChecksumProofs`, `PacketsProofs` | theorems |

`TcpConnections` implements `Lifecycle` (run `tcp_table`, theorem `RefinesLifecycle`), and `Workers` is written on top of
`Lifecycle`; that is how the two halves are composed.
`EndToEnd` extends `TcpConnections`: its server step is the table's `Receive` with every
handler behind it. `Packets` extends `Checksum` and calls it for every header and body.

### How state and actions correspond to the code

A connection is the record of `ConnState` in `TcpConn`. `window` stands for the
`WindowState` inside `SyncedState<T>`. Since `incoming_ack_update` changes the connection in
place but returns the window for the caller to store, the model has the two parts apart
(`AckedBy`, `WindowAfter`), and a handler that fails in between leaves what the code leaves.
`pending` is a set in which `copy` keeps equal entries of the Vec apart. `Result`/`Failed`
carry the connection left behind, the reply and whether `?` fired.

A byte of the client's stream is represented by its sequence number, so a payload is a start
and a length, and the echo application appends labels. This keeps everything the properties
tell apart: where a byte came from and where it goes back. `Shout` differs only in the value
of the bytes. `drain_contiguous` is given by the set of segments it releases (`Contiguous`)
and prunes what starts at or before the final RCV.NXT.

The arms of several states that share pattern and effect are one action (`FinWaitData`,
`PartialAck`, `FinWaitFinished`, `FinalAck`). `SynRcvTakes`, `EstablishedTakes` and
`FinWaitTakes` collect the patterns of a handler's arms, `Handled` is the dispatch on the
state, and what it does not take goes to `known_conn_common_fallback`.

Time is abstract in `TcpConnections`: whenever the timer is served, any nonempty choice of
pending segments may be due, which covers every RTO (`RetransmitTimer` has the numbers).
`origin` is a history variable with the initial sequence numbers. A failing `random_u32` changes nothing and is left out.

In `Workers` a signal handler runs in two steps (store, write) on any thread that has SIGINT
unblocked, and may or may not interrupt the call that the thread is in. The flag's Relaxed
store and the eventfd write are in program order: the write is a system call, and a reader
comes to load the flag through `poll` on that eventfd. `deadline` is `none`, `set` or
`elapsed`; time passes at any point. In any round any call may fail (`IoError`): `poll` other
than by EINTR, `read`, a write to the device or of a log record; a read on a queue that has
failed must (`ReadBroken`). `broken` is a queue for which `poll` reports POLLERR
only, as the TUN driver does for a detached queue.

`RetransmitTimer` counts time in ticks shorter than a millisecond and keeps each `Instant` as
its distance from now. One round of `Server::run` is split where the code reads the clock:
`poll_timeout`, the entry into `poll`, `grace_period_elapsed`, `make_retransmissions`; each
step, and each waking up, may take up to `MaxLag` ticks. A packet may acknowledge any of a
connection's segments, remove it or add a segment. `ShutDown` is what the worker does when it
first learns of the signal, by EINTR in `poll` or `read`, through the eventfd, or after a packet
(`PollOutcome::Both`, the place `both`). `Interrupted` is every other round that is cut short
in `poll` or `read`: one more SIGINT while draining, or EINTR for another reason. `total`, the time since the first sending, is a history
variable. The bound of `GivenUpInTime` is the sum of the documented timeouts and
`StepsPerService = 5` lags (compute, call, poll, timeout, retransmit) for each round that may
be late with the segment: one for each of its `MaxRetries + 1` sendings, and one for each
packet and each interruption, since these end a round before `make_retransmissions`.
`Backoff` is the timeout in unbounded integers, `Rto` the one of the code.

`Checksum` has the sizes of a byte and of a chunk as parameters. The 128-bit accumulator of
`calculate` cannot overflow (the code asserts it at compile time) and is a plain sum; the
32-bit accumulators of the slower versions wrap.

`Packets` works on bytes, because its properties are about bytes: a `TraceableResult` is a set
with at most one member, `try_get` is the length guard, and `write_buf` is never cleared, as
in the code. TLC calls `Calculate` with one lane per chunk, which keeps sums in its integers;
the theorems have any number of lanes, four as in the code included, and `ChecksumIsRfc1071`
shows that the number makes no difference. Since the header checksum is taken over the first 20 bytes only, a sender whose
checksum covers options other than zeros is refused: `MCWire` has zero options. What TCP
answers is any `SendInfo` of `TcpReplies`; the decision itself is `TcpConnections`'. A payload
in it leaves room for both headers in the MTU (`ReplyAssumption`), as `MAX_PAYLOAD_LEN`
(`state.rs`) does. A datagram whose checksum field is 0 is not checked, so `DamageIsDetected`
excepts the UDP packets in which it is 0, sent so or damaged into it.

`EndToEnd`: the client's program is `run_connection`; its kernel and the network are external
and modelled from what the load generator and the stack need of them (cumulative ACKs, one
retransmission timer, a window that is the free part of the receive buffer, a reset that is
believed when it is in order). Packets under way form a set on each side: any of them may
arrive next, be lost, or arrive and stay. Window updates, the packets by which `read_to_end`
opens a closed window, are marked: with `UpdatesAtRisk = FALSE` they are not lost and
arrive after what was sent before them. Both retransmission timers are slower than the
network and run out when nothing is under way (`ClientTimeout`, `ServerTimeout`), unless a
packet is late: `LatePacket`, a fault like a loss, lets either timer run out with packets under
way, so that a retransmission crosses its original. A timeout of the server finds any of the
pending segments due, but not a later one without the earlier ones that were retried no more
often (`ServerTimer`).

## Runs

| Run | Result | Shows |
|---|---|---|
| `tcp_streams` | pass | `EchoIntegrity`: echo in place under reassembly. `UnackedIsPending`, `PendingIsUnacked`: the retransmission queue is exactly what is unacknowledged. `UnackedBounded`, `NothingStranded`, `DrainNeverFails`, `AckedWasSent`, `NeverBack`, `FinWithLastByte`, `TypeOK` |
| `tcp_table` | pass | `ImplementsLifecycle`: refinement, two keys. `HandshakeEnds`, `LastAckEnds`, provided traffic lulls |
| `workers` | pass | `FlagBeforeEventfd`, `DrainingHasDeadline`, `OrderlyExit`, `TypeOK`; `ShutdownReachesAll`, `WorkersReturnIfQuiet` under fairness |
| `timer` | pass | `NoOversleep`, `GivenUpInTime`, `NotGivenUpEarly`, `TypeOK`; `TimerIsServed`: rounds of `poll(0)` and interruptions come to an end |
| `checksum` | pass | `MatchesRfc1071`: all four versions compute the checksum of RFC 1071 |
| `packets` | pass | `AnsweredInFull`, `RepliesAreValid`, `DamageIsDetected`, `RepliesFit`, `TypeOK` |
| `end_to_end` | pass | `EofMeansVerified`, `NoReset`, `ClientReturns`: the client returns whatever is lost, doubled or overtaken (window updates excepted), and without a shutdown it has the whole echo |
| `closing_fin` | violated | `ClosingFinUnacked`: CLOSING without a pending FIN |
| `antipodal_ack` | violated | `AckedWasSent`: an ACK half the sequence space away moves SND.UNA past SND.NXT |
| `broken_queue` | violated | `DeviceErrorSurfaces`: POLLERR alone taken for shutdown |
| `short_header` | violated | `NoPacketEndsTheLoop`: a packet with a header length below 5 words ends the loop |
| `window_stall` | violated | `ClientReturns` with `UpdatesAtRisk = TRUE`: one lost window update and both sides wait for ever |

The violated runs state what a comment, doc or log line of the repository says; the findings
in `PROJECT.json` quote it.

Limits of the code that the passing properties are worded around:

* The grace period is looked at only when `poll` times out, so a queue that always has a
  packet postpones the exit: `WorkersReturnIfQuiet` asks for traffic to stop. The same holds
  of retransmissions and give-ups: under steady traffic, of any connection, no segment is ever
  sent again or given up, and `HandshakeEnds` and `LastAckEnds` ask for lulls (`Lulls`).
* A handshake that completes while the worker drains is neither closed nor counted as
  mid-close: a worker may leave it ESTABLISHED (`OrderlyExit` speaks of what is mid-close).
* Two numbers 2^31 apart precede each other. With nothing in flight, an ACK that far from
  SND.UNA is therefore taken as new, SND.UNA passes SND.NXT, and the next drain fails
  (run `antipodal_ack`). `DrainNeverFails`, `AckedWasSent` and what follows from them hold
  unless such an ACK arrives: the traffic of the passing runs has none, and the theorems have
  the hypothesis `[][NoAntipodalAck]_vars`.
* A second SYN with another initial number, before the handshake is complete, is answered
  with another SYN-ACK, and each leaves a pending segment: their number has no bound in the
  code (`MaxSynAcks` in the model).
* After SIGINT the handlers of FIN-WAIT take nothing out of order and the fallback answers
  such a segment with RST, which ends a client that still sends; and the active close
  abandons what is queued. `NoReset` and `EofMeansVerified` therefore except a shutdown.
* A packet whose header length field is below 5 words has part of its header echoed and may
  yield a reply beyond the MTU, which ends the loop (run `short_header`). `RepliesFit` names
  the exception: no other packet does.

### Bounds

Sequence numbers wrap at 16 (`Half = 8`), and both initial numbers are 14, so the SYN lies
before the wrap and all data and both FINs across it. Windows are at most 2, segments at most
2 bytes and the receive window 4: with `SizeAssumption` (`MaxWnd + 1 < Half`,
`RcvWnd + MaxSegLen < Half`) these sizes have the proportions of 65535 against 2^31, and no
wanted comparison comes near half the space. `tcp_streams` has a three-byte stream in segments
of 1 and 2 bytes, which gives gaps, overlap from both sides and a FIN after any byte; windows 0
and 2, enough for a partial ACK, a segment cut by the window, a window that closes on what is
in flight and a CLOSE-WAIT that drains in two steps; and a duplicate SYN that adds a second
SYN-ACK (`MaxSynAcks`; the code has no such bound). It gives up at the first retry
(`MaxRetries = 0`), since a retransmission repeats a stored segment and changes only the count.
`tcp_table` has two keys with one byte each, one retry and two pending SYN-ACKs; the window is
0, so that CLOSE-WAIT lasts. `antipodal_ack` adds an ACK at distance `Half` to a one-byte
stream. The MC traffic holds every segment a client with such a stream and windows could ever
have sent, plus stray ones (old ACKs, ACKs of unsent data, RSTs, SYN-ACKs, a segment beyond the
stream), and any of them may arrive at any time. Of the acknowledgment numbers `AckOffsets`
has the SYN's, one inside the echo, one after two bytes and their FIN or after three bytes, and
one past everything, which makes old, partial, full and future ACKs in every state.
`workers` has two workers, one key, two signals and one queue that may fail. In the worker,
timer, packet and end-to-end runs deadlock is not checked, since a process that has ended
stops.

`timer` has two connections with one segment each, `Initial = 2`, clamped to 3..5 ticks with
powers saturating at 3 and products at 5: the first timeout is raised to the minimum, the
last is cut to the maximum, and both saturations occur. A millisecond has two ticks and
`poll` takes at most two of them, so rounding and the limit of `c_int` occur, and a grace
period of 5 ends before, between and after the retries. One packet and three interruptions
(`MaxInterrupts`) are enough for the shutdown, a repeated signal and an EINTR for another
reason to meet any step of a round. `checksum` has bytes of one bit and all strings of up to 17 of them: two whole chunks of four lanes and every remainder, every
pattern of carries and sums beyond the 32-bit accumulator's counterpart. `packets` has an MTU
of 48 (the largest reply fills it), about 20 valid and odd packets and every valid one with
each single byte replaced by 0, 69 or 255, in any order, so that every reply is written over
what every other one left. `end_to_end` has two bytes, a receive buffer of one (so the window
closes after the first byte of the echo) and two faults, each a loss, a duplicate, a late
packet or the shutdown, with as many retries as faults: a timer then never gives up on a network that is
merely bad. There is one initial number on each side, so nothing is said of the connection
that an old SYN with another number would leave behind.

### Fairness

`TcpConnections` has no fair specification. `HandshakeEnds` and `LastAckEnds` state what they
need, `Lulls(k)`: while something of connection k is pending, some timeout of `poll` finds part
of it due in the end. The poll timeout is the earliest due time, so this holds when packets
leave a gap then, and the code does not see to that. Nothing else is asked of the peer.
`Workers!FairSpec` asks weak fairness of each thread's steps, of the handler's steps and of the
clock, and nothing of signals, packets, devices or failing calls (`IoError`), except that a
read on a failed queue returns. `RetransmitTimer!FairSpec`: the loop runs (weak) and time passes (strong, because the
clock stands still while a slow step of the worker is cut off at `MaxLag`); nothing of packets
and signals. `EndToEnd!E2ESpec`: the client's thread runs and both timers run out (weak), and
the network does not stop with a packet under way (`PacketsArrive`), which amounts to weak
fairness of the deliveries; losses are bounded by `MaxFaults`, not by fairness.

## Proofs

Proved for every value of the constants under `HalfAssumption`, `SizeAssumption`,
`TrafficAssumption`, `WorkerAssumption`, `TimerAssumption`, `ChecksumAssumption`,
`PacketAssumption`, `WireAssumption` and `ReplyAssumption`. The theorems cover every
invariant, action property and refinement of all passing runs but `end_to_end`.

**The table.**

* `TcpConnProofs`: arithmetic of the circular space (range and case analysis of `Add` and
  `Sub`; sums and differences of offsets, membership of windows; `AckBracketed`: an
  acknowledgment accepted between SND.UNA and SND.NXT lies at an offset between 0 and the
  flight); every operation on a connection preserves its type, and what it does to the TCP
  state.
* `TcpProofs`: `TypeCorrect` (`Spec => []TypeOK`) and `RefinesLifecycle`
  (`Spec => ImplementsLifecycle`). For the refinement each way a step may end (a connection
  stored, answered, opened, removed, some given up, all closed) is shown to be a step of
  `Lifecycle` or a stutter, and each handler's move to be among the allowed ones; `TypeOK` is
  the only invariant it needs, and no traffic is excluded.
* `FlightProofs`: `FlightBounded`, `HandlersNeverFail` and `OnlySentIsAcked`, that is
  `UnackedBounded`, `DrainNeverFails` and `AckedWasSent`. None of them is inductive: that a
  drain cannot fail needs the flight to be small, and that the flight stays small needs ACKs
  to be judged rightly, which needs it to be small. The inductive invariant `FlightInv`
  takes them together by state: exactly one number in flight in SYN-RECEIVED, at most
  `MaxWnd` while the send side is open, one more (our FIN) after that. A window that shrinks
  does not break it, as the bound is the largest window and `drain_transmittable` saturates
  at 0.
* `StreamProofs`: `EchoIsFaithful` (`EchoIntegrity`),
  `RetransmissionIsComplete` (`UnackedIsPending`), `RetransmissionIsNeeded`
  (`PendingIsUnacked`), `FinGoesLast` (`FinWithLastByte`), `ReassemblyIsComplete`
  (`NothingStranded`) and `StreamsOnlyAdvance` (`NeverBack`). They are parts of one argument,
  the inductive invariant `StreamInv`: on top of `FlightInv`, for each connection the pending
  segments cover the flight, each ends inside it and each carries the echo of its own place;
  in every state up to LAST-ACK the send buffer holds the echo from SND.NXT on and ends at
  the echo of RCV.NXT (one less in CLOSE-WAIT, for the peer's FIN); what reassembly holds
  lies ahead of RCV.NXT within the receive window. The last is what keeps `Contiguous`, a
  union of chains of segments, in front of RCV.NXT: without it a segment behind it could
  move RCV.NXT around the space. The operations (`AckedBy`, `DrainTransmittable`,
  reassembly, the two closes) have a lemma each, and then so do the actions.

The theorems of `FlightProofs` and `StreamProofs` have the form
`Spec /\ [][NoAntipodalAck]_vars => ...`. The hypothesis is about the peer and not about the
code, which accepts such an ACK with nothing in flight and moves SND.UNA past SND.NXT; run
`antipodal_ack` shows that it cannot be dropped. `TypeCorrect` and `RefinesLifecycle` do
without it.

**The workers.** `WorkersProofs`: `WorkersTypeCorrect` (`Spec => []TypeOK`),
`EventfdImpliesFlag`, `NoDeafWorker`, `ExitsAreOrderly`, for any number of workers,
connections and signals. `SafetyInv` adds to the three properties that a handler between its
two steps has stored the flag; `TypeOK` has that only a draining worker has a deadline.

**The clock.** `TimerProofs`: `TimerTypes` (`TypeOK`), `WakesInTime` (`NoOversleep`),
`GivesUpInTime` (`GivenUpInTime`) and `NoHastyGivingUp` (`NotGivenUpEarly`), for any number of
connections and segments, any timeouts, any resolution of `poll` and any lag. `TimerInv` has
two parts besides types. `WakeInv` follows the timeout from where it is computed to where it
is slept: it is due, or it ends before every deadline but for the lag so far. `AgeInv` keeps
an account of each segment, in which every tick since its first sending is charged to a
timeout that has passed, to a round that was late with it (`Allow`), or to the round under way
(`DelayAt`). Neither bound of `Accounted` is inductive alone: the first, by the segment's age,
is what a segment that is not due falls back on when a round ends, and the second, by the
place in the round, is what pays for a retransmission. Both need `WakeInv`: time passes
without a charge only while the worker sleeps. `NoHastyGivingUp` rests on `NotEarlyInv`, the
account from below, and assumes `NeverSaturates`: the power of two saturates only where
`RtoMax` is reached already, or the initial timeout is 0. The server's configuration satisfies
it, since a timeout of at least a millisecond times 2^32 - 1 is above two minutes; with other
constants the theorem would be false.
The proofs of the recursive functions `Pow2` and `BackoffSum` go by a least counterexample
(`AllNumbers`, from the well-foundedness of the naturals) instead of an induction theorem.

**The checksum.** `ChecksumProofs`: `ChecksumIsRfc1071` (`MatchesRfc1071`), for inputs of any
length, any size of a byte and any number of lanes in an addend. `InputSpec` builds up every
input byte by byte. One's complement arithmetic is arithmetic modulo `Ones`, one less than a
lane, with two zeros: `Same(x, t)` says that two numbers are congruent and that both or neither
are 0. A carry out of a lane counts 1 in the next, and a lane is congruent to 1, so a chunk
has the residue of the sum of its words; folding keeps `Same` and ends below a lane. The
three slower versions keep `Same` along with the bound of their accumulator: that of
`naive_wrapping_cksum` does not reach 2^32 up to `DeferredCarriesMaxBytes`, that of
`range_checked_cksum` never does, because it folds before a word could take it there.
The sums, the bytes of a chunk and the folds are recursive functions, and the facts about
them go by a least counterexample, as for the clock.

**The packets.** `PacketsProofs`: `PacketTypeCorrect` (`TypeOK`), `RepliesFitTheBuffer`
(`RepliesFit`; the types include that what is sent is no longer than the MTU), `EveryReplyIsValid` (`RepliesAreValid`), `RequestsAreAnswered`
(`AnsweredInFull`) and `SingleByteDamageIsDetected` (`DamageIsDetected`), for every MTU from 40
to 65535, both applications and every set of packets on the wire. The inductive invariant
`PacketInv` adds `Settled` to the types: when a packet has been dealt with, it was skipped just
if it is not `Accepted`, a condition on its bytes alone; only TCP leaves it unanswered; and
what was sent carries (`PacketOf`) one of the replies to the packet in the read buffer. The
argument is then about one packet:

* what is written (`Layout`, `PacketOf`): each field lies where the RFCs put it, and no byte
  of the reply is left over from before. A field that a checksum covers is 0 while it is taken;
* a checksum written into the field that was 0 makes the whole sum to 0 (`Completed`), in a
  buffer and together with the pseudo-header, whose length is even, so that the words of the
  body stay words. For UDP's 0, which goes out as all ones, this is the second zero;
* a reply is no longer than its request, or than `ReplyAssumption` lets it be, unless the
  header length field points back into the header;
* an accepted packet sums to 0, and so does a valid one; if the two differ in one byte, one
  word of the sum differs by less than `Ones` and not by 0, so both cannot. A change in the
  header shows in the header's checksum, any other leaves the protocol and the lengths alone
  and shows in the checksum of the message.

Model-checked only: `EofMeansVerified` and `NoReset` of `EndToEnd`, whose invariant would have
to speak of every packet under way and of the client's kernel; and all liveness
(`HandshakeEnds`, `LastAckEnds`, `ShutdownReachesAll`, `WorkersReturnIfQuiet`,
`TimerIsServed`, `ClientReturns`), since fairness and ENABLED are out of the prover's reach.

## Not modelled

* TUN attach: one `ioctl` at start-up, no state after it. Its queue is in `Workers`.
* Configuration of server and load generator: environment variables read once and parsed.
* Logging and display: formatting and output; a record is put together by the worker and
  written under the lock of stdout.
* Load generator: the threads that share the connection count, the latency report and the CPU
  meter only measure. Its `run_connection` is in `EndToEnd`.
* Error types and thin wrappers of system calls in the utilities.
* Of the modelled parts: the abort of the process when the eventfd write fails in the signal
  handler; a failing `random_u32`, which changes nothing.

## Plan

1. Done: sequence space, connection, table, lifecycle, workers; their theorems.
2. Done: clock, checksum, packets, client and server; the type theorem of the workers.
3. Done: proofs of the streams, of the refinement of `Lifecycle` and of the clock.
4. Done: proofs of the checksum and of the packets.
5. Left to TLC: `EofMeansVerified` of `EndToEnd`, which a proof would take from `StreamInv` with
   an invariant about the packets under way.
