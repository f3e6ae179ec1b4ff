--------------------------- MODULE RetransmitTimer ---------------------------
(***************************************************************************)
(* The clock of one worker: when a pending segment falls due               *)
(* (pending_segment.rs), how long the worker may block in poll (engine.rs, *)
(* sys/poll.rs), and what it does when the poll times out (server.rs,      *)
(* connections.rs).  The clock is read in several places of one round of   *)
(* the loop, and time passes between them.                                 *)
(*                                                                         *)
(* Time is counted in ticks, shorter than a millisecond, and an Instant is *)
(* kept as its distance from now: last_sent_at as an age, a deadline as    *)
(* the time left.  An Option is a set with at most one member.             *)
(***************************************************************************)
EXTENDS Integers, FiniteSets

CONSTANTS
    Conn, Slot,             \* the connections, and the segments each may have pending
    Initial, RtoMin, RtoMax,    \* RtoConfig
    PowMax,                 \* u32::MAX, where 2^retries saturates
    DurationMax,            \* Duration::MAX, where the product saturates
    MaxRetries,             \* TcpConnections.max_retries
    RetriesMax,             \* u8::MAX, where retries saturates
    GracePeriod,            \* Engine.shutdown_grace_period
    TicksPerMs,             \* ticks in a millisecond, the unit of poll()
    PollMax,                \* c_int::MAX milliseconds, the longest timeout of poll()
    MaxLag,                 \* the ticks that a step of the worker, or its waking up, takes
    MaxPackets,             \* bound: the packets that arrive
    MaxInterrupts           \* bound: the interruptions of this worker

ASSUME TimerAssumption ==
    /\ {Initial, RtoMin, RtoMax, GracePeriod, MaxLag, MaxPackets, MaxInterrupts}
          \subseteq Nat
    /\ {PowMax, DurationMax, RetriesMax, TicksPerMs, PollMax} \subseteq Nat \ {0}
    /\ RtoMin <= RtoMax /\ RtoMax <= DurationMax
    /\ MaxRetries \in 0..RetriesMax
    /\ IsFiniteSet(Conn) /\ IsFiniteSet(Slot)

VARIABLES
    pending,        \* the pending segments: age, retries, and the time since the first sending
    deadline,       \* the time left until Engine.shutdown_deadline
    pc,             \* the worker's next step
    timeout,        \* the timeout computed for poll(), in milliseconds
    sleep,          \* while the worker polls: the time left until poll() times out
    lag,            \* how long the worker has been about its next step
    ready,          \* whether a packet waits
    packets,        \* the packets that have arrived
    interrupts      \* how often poll() or read() was interrupted, or poll() woken by the eventfd

vars == <<pending, deadline, pc, timeout, sleep, lag, ready, packets, interrupts>>

Seg == Conn \X Slot

Init ==
    /\ pending = [s \in {} |-> 0]
    /\ deadline = {} /\ timeout = {} /\ sleep = {}
    /\ pc = "compute" /\ lag = 0
    /\ ready = FALSE /\ packets = 0 /\ interrupts = 0
-----------------------------------------------------------------------------
(* PendingSegment and the deadlines.                                       *)

Least(m, n) == IF m <= n THEN m ELSE n
Most(m, n) == IF m <= n THEN n ELSE m

\* 2^n, for every n that retries may be.
Pow2[n \in 0..RetriesMax] == IF n = 0 THEN 1 ELSE 2 * Pow2[n - 1]

\* Mutant: the backoff is not clamped from below.
RtoUnclamped(retries) == Least(Initial * Least(Pow2[retries], PowMax), RtoMax)

\* The timeout of time_due: saturating, then clamped.
Rto(retries) ==
    Most(RtoMin, Least(RtoMax, Least(Initial * Least(Pow2[retries], PowMax), DurationMax)))

\* The time left until a segment is due.
DueIn(p) == Rto(p.retries) - p.age

IsDue(p) == DueIn(p) <= 0

\* Mutant: > for >=, which a saturated count never reaches.
ExhaustedBeyond(p) == p.retries > MaxRetries

ExhaustedRetries(p) == p.retries >= MaxRetries

Fresh == [age |-> 0, retries |-> 0, total |-> 0]

RetransmitInfo(p) == [p EXCEPT !.retries = Least(@ + 1, RetriesMax), !.age = 0]

\* next_retransmit_deadline and shutdown_deadline, as the time left until each.
Deadlines == {DueIn(pending[s]) : s \in DOMAIN pending} \cup deadline

Earliest(S) == {x \in S : \A y \in S : x <= y}

\* Mutant: once there is a shutdown deadline, it alone is waited for.
PollDeadlineFirst == IF deadline # {} THEN deadline ELSE Earliest(Deadlines)

\* poll_timeout: the earlier of the two.
PollDeadline == Earliest(Deadlines)

\* Mutant: a deadline in the past gives a negative timeout.
TimeoutMsSigned(d) == Least(d \div TicksPerMs, PollMax)

\* saturating_duration_since, then as_millis, which rounds down, and the limit of c_int.
TimeoutMs(d) == Least(Most(d, 0) \div TicksPerMs, PollMax)

\* Mutant: the deadline has to be met exactly.
GraceElapsedExactly == 0 \in deadline

\* grace_period_elapsed.
GraceElapsed == \E d \in deadline : d <= 0
-----------------------------------------------------------------------------
(* The worker.                                                             *)

Step(from, to) ==
    /\ pc = from /\ pc' = to
    /\ lag' = 0

\* poll_timeout(Instant::now()) ...
ComputeTimeout ==
    /\ Step("compute", "call")
    /\ timeout' = {TimeoutMs(d) : d \in PollDeadline}
    /\ UNCHANGED <<pending, deadline, sleep, ready, packets, interrupts>>

\* ... and poll() is entered with the result.
EnterPoll ==
    /\ Step("call", "poll")
    /\ sleep' = {ms * TicksPerMs : ms \in timeout}
    /\ timeout' = {}
    /\ UNCHANGED <<pending, deadline, ready, packets, interrupts>>

PollTimeout ==
    /\ Step("poll", "timeout")
    /\ ~ready /\ \E d \in sleep : d <= 0
    /\ sleep' = {}
    /\ UNCHANGED <<pending, deadline, timeout, ready, packets, interrupts>>

PollReadable ==
    /\ Step("poll", "read")
    /\ ready
    /\ sleep' = {}
    /\ UNCHANGED <<pending, deadline, timeout, ready, packets, interrupts>>

\* The grace period is looked at first, with a clock reading of its own.
GracePeriodElapsed ==
    /\ Step("timeout", "exited")
    /\ GraceElapsed
    /\ UNCHANGED <<pending, deadline, timeout, sleep, ready, packets, interrupts>>

GracePeriodGoesOn ==
    /\ Step("timeout", "retransmit")
    /\ ~GraceElapsed
    /\ UNCHANGED <<pending, deadline, timeout, sleep, ready, packets, interrupts>>

OfConn(c) == {s \in DOMAIN pending : s[1] = c}

\* make_retransmissions, with yet another clock reading.
MakeRetransmissions ==
    /\ Step("retransmit", "compute")
    /\ LET givenUp == {c \in Conn : \E s \in OfConn(c) :
                          IsDue(pending[s]) /\ ExhaustedRetries(pending[s])}
           kept    == {s \in DOMAIN pending : s[1] \notin givenUp}
       IN  pending' = [s \in kept |->
                          IF IsDue(pending[s]) THEN RetransmitInfo(pending[s]) ELSE pending[s]]
    /\ UNCHANGED <<deadline, timeout, sleep, ready, packets, interrupts>>

\* A packet is handled: segments are acknowledged, the connection removed, or one more
\* sent.  A drain that is complete ends the loop; with PollOutcome::Both the shutdown is
\* seen to next.
HandlePacket ==
    /\ \/ Step("read", "compute")
       \/ deadline # {} /\ Step("read", "exited")
       \/ deadline = {} /\ interrupts < MaxInterrupts /\ Step("read", "both")
    /\ ready' = FALSE
    /\ \E c \in Conn : \E kept \in SUBSET OfConn(c), new \in SUBSET ({c} \X Slot) :
          /\ Cardinality(new) <= 1 /\ new \cap kept = {}
          /\ pending' = [s \in (DOMAIN pending \ OfConn(c)) \cup kept \cup new |->
                            IF s \in new THEN Fresh ELSE pending[s]]
    /\ UNCHANGED <<deadline, timeout, sleep, packets, interrupts>>

Interruption ==
    /\ interrupts < MaxInterrupts /\ interrupts' = interrupts + 1
    /\ sleep' = {}

\* The worker learns of the shutdown, from the eventfd or by EINTR: close_established sends
\* the FINs, and if something is mid-close the deadline is set, otherwise the loop ends.
ShutDown(at) ==
    /\ deadline = {} /\ Interruption
    /\ \/ Step(at, "exited") /\ UNCHANGED <<pending, deadline>>
       \/ /\ Step(at, "compute")
          /\ deadline' = {GracePeriod}
          /\ \E fins \in SUBSET (Seg \ DOMAIN pending) :
                pending' = [s \in DOMAIN pending \cup fins |->
                               IF s \in fins THEN Fresh ELSE pending[s]]
    /\ UNCHANGED <<timeout, ready, packets>>

\* One more signal while draining (AlreadyDraining), or EINTR for another reason: the
\* worker polls again, without a look at what is due.
Interrupted(at) ==
    /\ Step(at, "compute") /\ Interruption
    /\ UNCHANGED <<pending, deadline, timeout, ready, packets>>
-----------------------------------------------------------------------------
(* The world around the worker.                                            *)

PacketArrives ==
    /\ ~ready /\ packets < MaxPackets /\ pc # "exited"
    /\ ready' = TRUE /\ packets' = packets + 1
    /\ UNCHANGED <<pending, deadline, pc, timeout, sleep, lag, interrupts>>

\* The worker has something to do and takes at most MaxLag ticks over it.
Runnable == pc # "poll" \/ ready \/ \E d \in sleep : d <= 0

Older(p) == [p EXCEPT !.age = @ + 1, !.total = @ + 1]

Tick ==
    /\ pc # "exited"
    /\ Runnable => lag < MaxLag
    /\ lag' = IF Runnable THEN lag + 1 ELSE 0
    /\ pending' = [s \in DOMAIN pending |-> Older(pending[s])]
    /\ deadline' = {Most(d - 1, -1) : d \in deadline}     \* -1: in the past
    /\ sleep' = {d - 1 : d \in sleep}
    /\ UNCHANGED <<pc, timeout, ready, packets, interrupts>>

LoopStep ==
    \/ ComputeTimeout \/ EnterPoll \/ PollTimeout \/ PollReadable
    \/ GracePeriodElapsed \/ GracePeriodGoesOn \/ MakeRetransmissions \/ HandlePacket
    \/ ShutDown("both")

Next ==
    \/ LoopStep \/ PacketArrives \/ Tick
    \/ \E at \in {"poll", "read"} : ShutDown(at) \/ Interrupted(at)

Spec == Init /\ [][Next]_vars

\* The worker is scheduled and time passes.  Nothing is assumed of packets and signals.
FairSpec == Spec /\ WF_vars(LoopStep) /\ SF_vars(Tick)
-----------------------------------------------------------------------------
(* Correctness.                                                            *)

\* The type of the state.
TypeOK ==
    /\ DOMAIN pending \subseteq Seg
    /\ \A s \in DOMAIN pending : pending[s] \in [age: Nat, retries: 0..MaxRetries, total: Nat]
    /\ Cardinality(deadline) <= 1 /\ deadline \subseteq Int
    /\ Cardinality(sleep) <= 1 /\ sleep \subseteq Int
    /\ Cardinality(timeout) <= 1 /\ timeout \subseteq 0..PollMax
    /\ pc \in {"compute", "call", "poll", "timeout", "retransmit", "read", "both", "exited"}
    /\ lag \in 0..MaxLag /\ ready \in BOOLEAN /\ packets \in 0..MaxPackets
    /\ interrupts \in 0..MaxInterrupts

\* The backoff the code documents, without the widths of its integers.
Backoff(n) == IF Initial * Pow2[n] < RtoMin THEN RtoMin
              ELSE IF Initial * Pow2[n] > RtoMax THEN RtoMax ELSE Initial * Pow2[n]

\* While the worker sleeps it will wake up in time for everything it has to wake up for,
\* each pending segment and the shutdown deadline, but for the time between computing
\* the timeout and entering poll(): no timeout is stale, and rounding to milliseconds
\* and the limit of poll() only make it wake early.
NoOversleep ==
    pc = "poll" =>
        \A d \in {Backoff(pending[s].retries) - pending[s].age : s \in DOMAIN pending}
                 \cup deadline :
            \E wake \in sleep : wake <= 0 \/ wake <= d + MaxLag

BackoffSum[n \in 0..MaxRetries] ==
    Backoff(n) + (IF n = 0 THEN 0 ELSE BackoffSum[n - 1])

\* The steps of a round of the loop: a segment that falls due in the first is served in
\* the last.
StepsPerService == 5

\* make_retransmissions gives a connection up, but not for a peer that is merely slow:
\* one of its segments has been sent MaxRetries + 1 times and was pending for the whole
\* of the backoff, every timeout of it included.
NotGivenUpEarly ==
    [][pc = "retransmit" /\ pc' = "compute" =>
        \A c \in {s[1] : s \in DOMAIN pending \ DOMAIN pending'} :
            \E s \in OfConn(c) : pending[s].total >= BackoffSum[MaxRetries]]_vars

\* Nothing stays pending for longer than the backoff and the time to serve it take: a
\* peer that is gone is given up, whatever packets, signals, early wake-ups and the two
\* clock readings of a round lie in between.  Each sending of the segment costs at most
\* one round that is late, and so do each packet and each interruption that take its place.
GivenUpInTime ==
    \A s \in DOMAIN pending :
        pending[s].total <= BackoffSum[MaxRetries]
            + MaxLag * StepsPerService * (MaxRetries + 1 + packets + interrupts)

\* poll() with a timeout of 0 may return again and again before anything is due, but not
\* for ever: what is pending is acknowledged or given up, and a worker with a shutdown
\* deadline exits.
TimerIsServed ==
    /\ \A s \in Seg : s \in DOMAIN pending ~> s \notin DOMAIN pending \/ pc = "exited"
    /\ deadline # {} ~> pc = "exited"
=============================================================================
