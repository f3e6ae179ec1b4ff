------------------------------- MODULE Workers -------------------------------
(***************************************************************************)
(* The server process: the main thread, one worker thread per queue of the *)
(* TUN device (server.rs, engine.rs, main.rs), and SIGINT (the handler in  *)
(* shutdown_signal.rs), which stores a flag and then writes an eventfd     *)
(* that every worker polls (poll.rs).  The connections of a worker are     *)
(* seen as Lifecycle promises them.                                        *)
(***************************************************************************)
EXTENDS FiniteSets, Naturals

CONSTANTS
    Worker,         \* the worker threads
    ConnKey,        \* the connections each worker may have
    Main,           \* the main thread
    MaxSignals,     \* bound: how many times SIGINT is sent
    Breakable       \* the workers whose device queue or system calls may fail

ASSUME WorkerAssumption ==
    /\ Main \notin Worker
    /\ Breakable \subseteq Worker
    /\ MaxSignals \in Nat

VARIABLES
    flag,           \* SHUTDOWN_FLAG
    eventfd,        \* whether the shutdown eventfd is readable (it stays so)
    signals,        \* SIGINTs sent so far
    handler,        \* per thread: "none", or the handler's next step, "store" or "write"
    interrupted,    \* per worker: the system call it is in will return EINTR
    main,           \* "starting", "spawned" or "masked" (SIGINT blocked, joining)
    pc,             \* per worker: "poll", "read" or "readBoth" (read after PollOutcome::Both)
    exit,           \* per worker: "running" or how its loop ended
    ready,          \* per worker: a packet waits in its queue
    broken,         \* per worker: its device queue has failed
    draining,       \* Server.draining
    deadline,       \* Engine.shutdown_deadline: "none", "set" or "elapsed"
    conns           \* per worker: the TCP state of each of its connections

\* The connection table of worker w.
Table(w) == INSTANCE Lifecycle WITH states <- conns[w]

signalVars == <<flag, eventfd, signals, handler, main>>
loopVars == <<interrupted, pc, exit, ready, draining, deadline, conns>>
vars == <<signalVars, loopVars, broken>>

Thread == Worker \cup {Main}

Init ==
    /\ flag = FALSE /\ eventfd = FALSE /\ signals = 0
    /\ handler = [t \in Thread |-> "none"]
    /\ main = "starting"
    /\ interrupted = [w \in Worker |-> FALSE]
    /\ pc = [w \in Worker |-> "poll"]
    /\ exit = [w \in Worker |-> "running"]
    /\ ready = [w \in Worker |-> FALSE]
    /\ broken = [w \in Worker |-> FALSE]
    /\ draining = [w \in Worker |-> FALSE]
    /\ deadline = [w \in Worker |-> "none"]
    /\ conns = [w \in Worker |-> Table(w)!NoConns]
-----------------------------------------------------------------------------
(* The signal and the threads it may reach.                                *)

Alive(t) == IF t = Main THEN main # "masked" ELSE main # "starting" /\ exit[t] = "running"

\* The kernel runs the handler on some thread that has SIGINT unblocked.  On a worker
\* it may interrupt the system call the worker is in, or come between two of them.
DeliverSignal(t) ==
    /\ signals < MaxSignals
    /\ Alive(t) /\ handler[t] = "none"
    /\ signals' = signals + 1
    /\ handler' = [handler EXCEPT ![t] = "store"]
    /\ IF t = Main THEN UNCHANGED interrupted
       ELSE \E b \in BOOLEAN : interrupted' = [interrupted EXCEPT ![t] = b]
    /\ UNCHANGED <<flag, eventfd, main, pc, exit, ready, broken, draining, deadline, conns>>

\* Mutant: the handler writes the eventfd first.
HandlerWakesFirst(t) ==
    /\ handler[t] = "store"
    /\ eventfd' = TRUE
    /\ handler' = [handler EXCEPT ![t] = "write"]
    /\ UNCHANGED <<flag, signals, main, loopVars, broken>>

HandlerStore(t) ==
    /\ handler[t] = "store"
    /\ flag' = TRUE
    /\ handler' = [handler EXCEPT ![t] = "write"]
    /\ UNCHANGED <<eventfd, signals, main, loopVars, broken>>

HandlerWrite(t) ==
    /\ handler[t] = "write"
    /\ eventfd' = TRUE
    /\ handler' = [handler EXCEPT ![t] = "none"]
    /\ UNCHANGED <<flag, signals, main, loopVars, broken>>

SpawnWorkers ==
    /\ main = "starting" /\ handler[Main] = "none"
    /\ main' = "spawned"
    /\ UNCHANGED <<flag, eventfd, signals, handler, loopVars, broken>>

BlockSigint ==
    /\ main = "spawned" /\ handler[Main] = "none"
    /\ main' = "masked"
    /\ UNCHANGED <<flag, eventfd, signals, handler, loopVars, broken>>
-----------------------------------------------------------------------------
(* The engine's answer to a shutdown signal and to the end of a step.      *)

ClosingInProgress(w, f) == \E k \in ConnKey : f[k] \in Table(w)!MidClose

\* Mutant: a drain begins without a deadline.
InterruptWithoutDeadline(w, f) ==
    LET g == IF deadline[w] = "none" THEN Table(w)!AfterClose(f) ELSE f
    IN  /\ draining' = [draining EXCEPT ![w] = TRUE]
        /\ conns' = [conns EXCEPT ![w] = g]
        /\ UNCHANGED deadline
        /\ IF deadline[w] # "none" \/ ClosingInProgress(w, g) THEN UNCHANGED exit
           ELSE exit' = [exit EXCEPT ![w] = "noConnections"]

\* Mutant: whether there is anything to wait for is decided before the FINs are sent.
InterruptDecidingEarly(w, f) ==
    LET g == IF deadline[w] = "none" THEN Table(w)!AfterClose(f) ELSE f
    IN  /\ draining' = [draining EXCEPT ![w] = TRUE]
        /\ conns' = [conns EXCEPT ![w] = g]
        /\ IF deadline[w] # "none" THEN UNCHANGED <<deadline, exit>>
           ELSE IF ClosingInProgress(w, f)
                THEN deadline' = [deadline EXCEPT ![w] = "set"] /\ UNCHANGED exit
           ELSE exit' = [exit EXCEPT ![w] = "noConnections"] /\ UNCHANGED deadline

\* Mutant: the worker begins to drain and goes on watching the eventfd.
InterruptStillWatching(w, f) ==
    LET g == IF deadline[w] = "none" THEN Table(w)!AfterClose(f) ELSE f
    IN  /\ UNCHANGED draining
        /\ conns' = [conns EXCEPT ![w] = g]
        /\ IF deadline[w] # "none" THEN UNCHANGED <<deadline, exit>>
           ELSE IF ClosingInProgress(w, g)
                THEN deadline' = [deadline EXCEPT ![w] = "set"] /\ UNCHANGED exit
           ELSE exit' = [exit EXCEPT ![w] = "noConnections"] /\ UNCHANGED deadline

\* handle_shutdown_interrupt with the connections of w being f: draining is set; on the
\* first call every established connection is closed, and if none is then mid-close
\* the worker is to exit.
Interrupt(w, f) ==
    LET g == IF deadline[w] = "none" THEN Table(w)!AfterClose(f) ELSE f
    IN  /\ draining' = [draining EXCEPT ![w] = TRUE]
        /\ conns' = [conns EXCEPT ![w] = g]
        /\ IF deadline[w] # "none" THEN UNCHANGED <<deadline, exit>>
           ELSE IF ClosingInProgress(w, g)
                THEN deadline' = [deadline EXCEPT ![w] = "set"] /\ UNCHANGED exit
           ELSE exit' = [exit EXCEPT ![w] = "noConnections"] /\ UNCHANGED deadline

\* EINTR or PollOutcome::Shutdown: react only if shutdown_check says so.
ReactIfFlag(w) ==
    /\ IF flag THEN Interrupt(w, conns[w])
       ELSE UNCHANGED <<draining, conns, deadline, exit>>
    /\ UNCHANGED <<signalVars, ready, broken>>

\* The worker's loop is where its next step is.
At(w, p) ==
    /\ Alive(w) /\ handler[w] = "none"
    /\ pc[w] = p

Exit(w, how) ==
    /\ exit' = [exit EXCEPT ![w] = how]
    /\ UNCHANGED <<signalVars, interrupted, pc, ready, broken, draining, deadline, conns>>
-----------------------------------------------------------------------------
(* poll::readable.  poll() counts the descriptors with any event, errors   *)
(* included; the eventfd is watched only while the worker is not draining. *)

ReadEvents(w) == (IF ready[w] THEN {"POLLIN"} ELSE {})
                 \cup (IF broken[w] THEN {"POLLERR"} ELSE {})

ShutdownReadable(w) == eventfd /\ ~draining[w]

Count(w) == (IF ReadEvents(w) # {} THEN 1 ELSE 0) + (IF ShutdownReadable(w) THEN 1 ELSE 0)

PollOutcome(w) ==
    CASE Count(w) = 0 -> "Timeout"
      [] Count(w) = 1 /\ "POLLIN" \in ReadEvents(w) -> "Readable"
      [] Count(w) = 1 /\ "POLLIN" \notin ReadEvents(w) -> "Shutdown"
      [] OTHER -> "Both"

\* poll_timeout has run out: the shutdown deadline, or a segment pending on some
\* connection, is due.
PollExpired(w) == deadline[w] = "elapsed" \/ \E k \in ConnKey : conns[w][k] # "Closed"
-----------------------------------------------------------------------------
(* The arms of Server::run.                                                *)

PollInterrupted(w) ==
    /\ At(w, "poll") /\ interrupted[w]
    /\ interrupted' = [interrupted EXCEPT ![w] = FALSE]
    /\ ReactIfFlag(w)
    /\ UNCHANGED pc

PollShutdown(w) ==
    /\ At(w, "poll") /\ ~interrupted[w] /\ PollOutcome(w) = "Shutdown"
    /\ ReactIfFlag(w)
    /\ UNCHANGED <<interrupted, pc>>

\* Mutant: the grace period only ends once nothing is mid-close.
GracePeriodPatient(w) ==
    /\ At(w, "poll") /\ ~interrupted[w] /\ PollOutcome(w) = "Timeout"
    /\ deadline[w] = "elapsed" /\ ~ClosingInProgress(w, conns[w])
    /\ Exit(w, "graceElapsed")

GracePeriodElapsed(w) ==
    /\ At(w, "poll") /\ ~interrupted[w] /\ PollOutcome(w) = "Timeout"
    /\ deadline[w] = "elapsed"
    /\ Exit(w, "graceElapsed")

Retransmit(w) ==
    /\ At(w, "poll") /\ ~interrupted[w] /\ PollOutcome(w) = "Timeout"
    /\ PollExpired(w) /\ deadline[w] # "elapsed"
    /\ \E g \in Table(w)!AfterTimer(conns[w]) : conns' = [conns EXCEPT ![w] = g]
    /\ UNCHANGED <<signalVars, interrupted, pc, exit, ready, broken, draining, deadline>>

\* Mutant: Both is handled as Readable, so the shutdown waits for a quiet queue.
PollBothAsReadable(w) ==
    /\ At(w, "poll") /\ ~interrupted[w] /\ PollOutcome(w) \in {"Readable", "Both"}
    /\ pc' = [pc EXCEPT ![w] = "read"]
    /\ UNCHANGED <<signalVars, interrupted, exit, ready, broken, draining, deadline, conns>>

PollReadable(w) ==
    /\ At(w, "poll") /\ ~interrupted[w] /\ PollOutcome(w) \in {"Readable", "Both"}
    /\ pc' = [pc EXCEPT ![w] = IF PollOutcome(w) = "Both" THEN "readBoth" ELSE "read"]
    /\ UNCHANGED <<signalVars, interrupted, exit, ready, broken, draining, deadline, conns>>

Reading(w) == At(w, "read") \/ At(w, "readBoth")

ReadInterrupted(w) ==
    /\ Reading(w) /\ interrupted[w]
    /\ interrupted' = [interrupted EXCEPT ![w] = FALSE]
    /\ pc' = [pc EXCEPT ![w] = "poll"]
    /\ ReactIfFlag(w)

\* read() on a queue that has failed.
ReadBroken(w) ==
    /\ Reading(w) /\ ~interrupted[w] /\ broken[w]
    /\ Exit(w, "ioError")

\* In any round any call may fail: poll() other than by EINTR, read(), the write of a
\* reply, of a retransmission or of a FIN, or the write of a log record.  Each ends the
\* loop; what the round had done to the engine before is gone with it.
IoError(w) ==
    /\ w \in Breakable
    /\ At(w, "poll") \/ Reading(w)
    /\ Exit(w, "ioError")

\* handle_packet, after which the shutdown flag is looked at if the poll said Both, and
\* the loop ends if a drain is complete.  (Both is only reported before the drain has
\* begun; if Interrupt then begins it, some connection is mid-close.)
HandlePacket(w) ==
    /\ Reading(w) /\ ~interrupted[w] /\ ready[w]
    /\ \E b \in BOOLEAN : ready' = [ready EXCEPT ![w] = b]
    /\ pc' = [pc EXCEPT ![w] = "poll"]
    /\ \E f \in Table(w)!AfterPacket(conns[w]) :
          IF pc[w] = "readBoth" /\ flag THEN Interrupt(w, f)
          ELSE /\ conns' = [conns EXCEPT ![w] = f]
               /\ exit' = IF deadline[w] # "none" /\ ~ClosingInProgress(w, f)
                          THEN [exit EXCEPT ![w] = "drained"] ELSE exit
               /\ UNCHANGED <<draining, deadline>>
    /\ UNCHANGED <<signalVars, interrupted, broken>>
-----------------------------------------------------------------------------
(* The world around the process.                                           *)

PacketArrives(w) ==
    /\ ~ready[w] /\ ~broken[w]
    /\ ready' = [ready EXCEPT ![w] = TRUE]
    /\ UNCHANGED <<signalVars, interrupted, pc, exit, broken, draining, deadline, conns>>

DeadlinePasses(w) ==
    /\ deadline[w] = "set"
    /\ deadline' = [deadline EXCEPT ![w] = "elapsed"]
    /\ UNCHANGED <<signalVars, interrupted, pc, exit, ready, broken, draining, conns>>

\* The queue is detached: what waited in it is gone and poll() reports POLLERR.
DeviceBreaks(w) ==
    /\ w \in Breakable /\ ~broken[w]
    /\ broken' = [broken EXCEPT ![w] = TRUE]
    /\ ready' = [ready EXCEPT ![w] = FALSE]
    /\ UNCHANGED <<signalVars, interrupted, pc, exit, draining, deadline, conns>>
-----------------------------------------------------------------------------
HandlerStep(t) == HandlerStore(t) \/ HandlerWrite(t)

LoopStep(w) ==
    \/ PollInterrupted(w) \/ PollShutdown(w) \/ GracePeriodElapsed(w) \/ Retransmit(w)
    \/ PollReadable(w) \/ ReadInterrupted(w) \/ ReadBroken(w) \/ HandlePacket(w)

Next ==
    \/ SpawnWorkers \/ BlockSigint
    \/ \E t \in Thread : DeliverSignal(t) \/ HandlerStep(t)
    \/ \E w \in Worker :
          \/ LoopStep(w) \/ IoError(w)
          \/ PacketArrives(w) \/ DeadlinePasses(w) \/ DeviceBreaks(w)

Spec == Init /\ [][Next]_vars

\* Threads run, handlers return and time passes.  Nothing is assumed of signals,
\* packets or devices, and no call has to fail unless its queue has.
Fairness ==
    /\ WF_vars(SpawnWorkers) /\ WF_vars(BlockSigint)
    /\ \A t \in Thread : WF_vars(HandlerStep(t))
    /\ \A w \in Worker :
        /\ WF_vars(LoopStep(w))
        /\ WF_vars(DeadlinePasses(w))

FairSpec == Spec /\ Fairness
-----------------------------------------------------------------------------
(* Correctness.                                                            *)

\* The type of the state; and only a draining worker has a shutdown deadline: while it
\* waits for it, poll must not watch the eventfd, which is readable for good ("the loop
\* would spin").
TypeOK ==
    /\ flag \in BOOLEAN /\ eventfd \in BOOLEAN /\ signals \in 0..MaxSignals
    /\ handler \in [Thread -> {"none", "store", "write"}]
    /\ main \in {"starting", "spawned", "masked"}
    /\ interrupted \in [Worker -> BOOLEAN]
    /\ pc \in [Worker -> {"poll", "read", "readBoth"}]
    /\ exit \in [Worker -> {"running", "noConnections", "drained", "graceElapsed", "ioError"}]
    /\ ready \in [Worker -> BOOLEAN] /\ broken \in [Worker -> BOOLEAN]
    /\ draining \in [Worker -> BOOLEAN]
    /\ deadline \in [Worker -> {"none", "set", "elapsed"}]
    /\ \A w \in Worker : deadline[w] # "none" => draining[w]
    /\ DOMAIN conns = Worker
    /\ \A w \in Worker : conns[w] \in [ConnKey -> Table(w)!TcpStates]

\* Whoever is woken by the eventfd finds the flag set: the handler stores the flag
\* before it writes, so PollOutcome::Shutdown and Both never read a stale FALSE and
\* send the worker back to a poll that returns at once.
FlagBeforeEventfd == eventfd => flag

\* No worker goes deaf.  Once a worker has stopped watching the eventfd (draining), it
\* has a deadline to wake up for, or it has left its loop.
DrainingHasDeadline ==
    \A w \in Worker : draining[w] /\ exit[w] = "running" => deadline[w] # "none"

\* A worker leaves its loop in good order only after a shutdown signal, and, unless the
\* grace period ended, with none of its connections in the middle of closing.
OrderlyExit ==
    \A w \in Worker :
        /\ exit[w] \in {"noConnections", "drained", "graceElapsed"} => flag /\ draining[w]
        /\ exit[w] \in {"noConnections", "drained"} => ~ClosingInProgress(w, conns[w])

\* A signal reaches every worker, whichever thread it was delivered to and whatever that
\* thread and the others were doing: all of them begin to drain or exit.
ShutdownReachesAll ==
    flag ~> \A w \in Worker : draining[w] \/ exit[w] # "running"

\* run() "waits up to config.grace_period" for the connections "to finish before
\* returning": after a shutdown signal every worker returns.
WorkersReturn == flag ~> \A w \in Worker : exit[w] # "running"

\* They do once the traffic stops and if no queue has failed: no connection, deadline or
\* late signal keeps a worker from returning then.
WorkersReturnIfQuiet == <>[](\A w \in Worker : ~ready[w] /\ ~broken[w]) => WorkersReturn

\* run() "returns Err for errors related to packet I/O": a worker whose device queue has
\* failed does not go on running.
DeviceErrorSurfaces ==
    \A w \in Worker : broken[w] ~> exit[w] # "running"
=============================================================================
