---------------------------- MODULE WorkersProofs ----------------------------
(***************************************************************************)
(* Theorems about the worker threads and the shutdown signal, for any      *)
(* number of workers, connections and signals.                             *)
(***************************************************************************)
EXTENDS Workers, TLAPS

\* A worker drains only when the flag is set, has a deadline only if it drains, and has
\* one if it drains and runs; it ends in good order only if it drains, and only the grace
\* period ends it with a connection mid-close.
WorkerSafe(w) ==
    /\ draining[w] => flag
    /\ deadline[w] # "none" => draining[w]
    /\ draining[w] /\ exit[w] = "running" => deadline[w] # "none"
    /\ exit[w] \in {"noConnections", "drained", "graceElapsed"} => draining[w]
    /\ exit[w] \in {"noConnections", "drained"} => ~ClosingInProgress(w, conns[w])

\* A handler that is about to write the eventfd has stored the flag.
SignalSafe ==
    /\ eventfd => flag
    /\ \A t \in Thread : handler[t] = "write" => flag

\* The inductive invariant.
SafetyInv == TypeOK /\ SignalSafe /\ \A w \in Worker : WorkerSafe(w)

\* What a table may become is a table.
LEMMA TableType ==
    ASSUME NEW w \in Worker, NEW f \in [ConnKey -> Table(w)!TcpStates]
    PROVE  /\ Table(w)!AfterClose(f) \in [ConnKey -> Table(w)!TcpStates]
           /\ \A g \in Table(w)!AfterTimer(f) : g \in [ConnKey -> Table(w)!TcpStates]
           /\ \A g \in Table(w)!AfterPacket(f) : g \in [ConnKey -> Table(w)!TcpStates]
<1>1. Table(w)!AfterClose(f) \in [ConnKey -> Table(w)!TcpStates]
  BY DEF Table!AfterClose, Table!TcpStates
<1>2. \A g \in Table(w)!AfterTimer(f) : g \in [ConnKey -> Table(w)!TcpStates]
  BY DEF Table!AfterTimer, Table!TcpStates
<1>3. \A g \in Table(w)!AfterPacket(f) : g \in [ConnKey -> Table(w)!TcpStates]
  BY DEF Table!AfterPacket, Table!PacketMoves, Table!TcpStates
<1> QED
  BY <1>1, <1>2, <1>3

\* The tables of the workers, one by one.
LEMMA ConnsUpdate ==
    ASSUME TypeOK, NEW w \in Worker, NEW g \in [ConnKey -> Table(w)!TcpStates],
           conns' = [conns EXCEPT ![w] = g]
    PROVE  /\ DOMAIN conns' = Worker
           /\ \A x \in Worker : conns'[x] = IF x = w THEN g ELSE conns[x]
           /\ \A x \in Worker : conns'[x] \in [ConnKey -> Table(x)!TcpStates]
<1>1. DOMAIN conns' = Worker /\ \A x \in Worker : conns'[x] = IF x = w THEN g ELSE conns[x]
  BY DEF TypeOK
<1>2. \A x \in Worker : conns[x] \in [ConnKey -> Table(x)!TcpStates]
  BY DEF TypeOK
<1> QED
  BY <1>1, <1>2, Zenon

\* handle_shutdown_interrupt, called with the flag set: the worker drains, and it has a
\* deadline or has left its loop with nothing mid-close.
LEMMA InterruptSafe ==
    ASSUME SafetyInv, flag, NEW w \in Worker, exit[w] = "running",
           NEW f \in [ConnKey -> Table(w)!TcpStates], Interrupt(w, f)
    PROVE  /\ draining' \in [Worker -> BOOLEAN]
           /\ deadline' \in [Worker -> {"none", "set", "elapsed"}]
           /\ exit' \in [Worker -> {"running", "noConnections", "drained",
                                    "graceElapsed", "ioError"}]
           /\ DOMAIN conns' = Worker
           /\ \A x \in Worker : conns'[x] \in [ConnKey -> Table(x)!TcpStates]
           /\ draining'[w]
           /\ exit'[w] = "running" => deadline'[w] # "none"
           /\ exit'[w] \in {"running", "noConnections"}
           /\ exit'[w] = "noConnections" => ~ClosingInProgress(w, conns'[w])
           /\ \A x \in Worker \ {w} :
                /\ draining'[x] = draining[x] /\ deadline'[x] = deadline[x]
                /\ exit'[x] = exit[x] /\ conns'[x] = conns[x]
<1> DEFINE g == IF deadline[w] = "none" THEN Table(w)!AfterClose(f) ELSE f
<1>1. /\ draining \in [Worker -> BOOLEAN]
      /\ deadline \in [Worker -> {"none", "set", "elapsed"}]
      /\ exit \in [Worker -> {"running", "noConnections", "drained", "graceElapsed", "ioError"}]
  BY DEF SafetyInv, TypeOK
<1>2. /\ draining' = [draining EXCEPT ![w] = TRUE]
      /\ conns' = [conns EXCEPT ![w] = g]
      /\ IF deadline[w] # "none" THEN UNCHANGED <<deadline, exit>>
         ELSE IF ClosingInProgress(w, g)
              THEN deadline' = [deadline EXCEPT ![w] = "set"] /\ UNCHANGED exit
         ELSE exit' = [exit EXCEPT ![w] = "noConnections"] /\ UNCHANGED deadline
  BY Zenon DEF Interrupt
<1>3. g \in [ConnKey -> Table(w)!TcpStates]
  BY TableType, Zenon
<1> HIDE DEF g
<1>4. /\ DOMAIN conns' = Worker
      /\ \A x \in Worker : conns'[x] = IF x = w THEN g ELSE conns[x]
      /\ \A x \in Worker : conns'[x] \in [ConnKey -> Table(x)!TcpStates]
  BY <1>2, <1>3, ConnsUpdate DEF SafetyInv
<1>5. draining' \in [Worker -> BOOLEAN] /\ draining'[w]
      /\ \A x \in Worker \ {w} : draining'[x] = draining[x]
  BY <1>1, <1>2
<1>6. CASE deadline[w] # "none"
  <2>1. UNCHANGED <<deadline, exit>>
    BY <1>2, <1>6
  <2> QED
    BY <1>1, <1>4, <1>5, <1>6, <2>1, Zenon
<1>7. CASE deadline[w] = "none" /\ ClosingInProgress(w, g)
  <2>1. deadline' = [deadline EXCEPT ![w] = "set"] /\ UNCHANGED exit
    BY <1>2, <1>7
  <2>2. /\ deadline' \in [Worker -> {"none", "set", "elapsed"}] /\ deadline'[w] = "set"
        /\ \A x \in Worker \ {w} : deadline'[x] = deadline[x]
    BY <1>1, <2>1
  <2> QED
    BY <1>1, <1>4, <1>5, <2>1, <2>2, Zenon
<1>8. CASE deadline[w] = "none" /\ ~ClosingInProgress(w, g)
  <2>1. exit' = [exit EXCEPT ![w] = "noConnections"] /\ UNCHANGED deadline
    BY <1>2, <1>8
  <2>2. /\ exit' \in [Worker -> {"running", "noConnections", "drained",
                                 "graceElapsed", "ioError"}]
        /\ exit'[w] = "noConnections"
        /\ \A x \in Worker \ {w} : exit'[x] = exit[x]
    BY <1>1, <2>1
  <2>3. conns'[w] = g
    BY <1>4
  <2> QED
    BY <1>1, <1>4, <1>5, <1>8, <2>1, <2>2, <2>3, Zenon
<1> QED
  BY <1>6, <1>7, <1>8
-----------------------------------------------------------------------------
(* The steps, grouped by what they change.                                 *)

\* The variables that WorkerSafe does not look at, and their types.
OtherTypes ==
    /\ flag \in BOOLEAN /\ eventfd \in BOOLEAN /\ signals \in 0..MaxSignals
    /\ handler \in [Thread -> {"none", "store", "write"}]
    /\ main \in {"starting", "spawned", "masked"}
    /\ interrupted \in [Worker -> BOOLEAN]
    /\ pc \in [Worker -> {"poll", "read", "readBoth"}]
    /\ ready \in [Worker -> BOOLEAN] /\ broken \in [Worker -> BOOLEAN]

\* A step that leaves draining, deadline, exit and conns alone.
LEMMA QuietStep ==
    ASSUME SafetyInv, OtherTypes', SignalSafe', flag => flag',
           UNCHANGED <<draining, deadline, exit, conns>>
    PROVE  SafetyInv'
<1>1. TypeOK'
  BY DEF SafetyInv, TypeOK, OtherTypes
<1>2. \A w \in Worker : WorkerSafe(w)'
  BY Zenon DEF SafetyInv, WorkerSafe
<1> QED
  BY <1>1, <1>2 DEF SafetyInv

\* A step of worker w that leaves the signal variables and the other workers alone.
LEMMA WorkerStep ==
    ASSUME SafetyInv, NEW w \in Worker, OtherTypes', UNCHANGED signalVars,
           exit' \in [Worker -> {"running", "noConnections", "drained",
                                 "graceElapsed", "ioError"}],
           draining' \in [Worker -> BOOLEAN],
           deadline' \in [Worker -> {"none", "set", "elapsed"}],
           DOMAIN conns' = Worker,
           \A x \in Worker : conns'[x] \in [ConnKey -> Table(x)!TcpStates],
           WorkerSafe(w)',
           \A x \in Worker \ {w} :
                /\ draining'[x] = draining[x] /\ deadline'[x] = deadline[x]
                /\ exit'[x] = exit[x] /\ conns'[x] = conns[x]
    PROVE  SafetyInv'
<1>1. \A x \in Worker \ {w} : WorkerSafe(x)'
  BY Zenon DEF SafetyInv, WorkerSafe, signalVars
<1>2. \A x \in Worker : WorkerSafe(x)'
  BY <1>1, Zenon
<1>3. TypeOK'
  <2>1. \A x \in Worker : deadline'[x] # "none" => draining'[x]
    BY <1>2, Zenon DEF WorkerSafe
  <2> QED
    BY <2>1 DEF TypeOK, OtherTypes
<1>4. SignalSafe'
  BY DEF SafetyInv, SignalSafe, signalVars
<1> QED
  BY <1>2, <1>3, <1>4, Zenon DEF SafetyInv

\* The signal and its handler.
LEMMA SignalStep ==
    ASSUME SafetyInv,
           \/ SpawnWorkers \/ BlockSigint
           \/ \E t \in Thread : DeliverSignal(t) \/ HandlerStep(t)
    PROVE  SafetyInv'
<1>0. SignalSafe /\ OtherTypes
  BY DEF SafetyInv, TypeOK, OtherTypes
<1>1. CASE SpawnWorkers \/ BlockSigint
  <2>1. OtherTypes' /\ SignalSafe'
    BY <1>0, <1>1 DEF SpawnWorkers, BlockSigint, loopVars, OtherTypes, SignalSafe
  <2>2. flag' = flag /\ UNCHANGED <<draining, deadline, exit, conns>>
    BY <1>1 DEF SpawnWorkers, BlockSigint, loopVars
  <2> QED
    BY <2>1, <2>2, QuietStep
<1>2. ASSUME NEW t \in Thread, DeliverSignal(t) PROVE SafetyInv'
  <2>1. interrupted' \in [Worker -> BOOLEAN]
    <3>1. CASE t = Main
      BY <1>0, <1>2, <3>1 DEF DeliverSignal, OtherTypes
    <3>2. CASE t # Main
      <4>1. PICK b \in BOOLEAN : interrupted' = [interrupted EXCEPT ![t] = b]
        BY <1>2, <3>2 DEF DeliverSignal
      <4> QED
        BY <1>0, <4>1 DEF OtherTypes
    <3> QED
      BY <3>1, <3>2
  <2>2. signals' \in 0..MaxSignals
    BY <1>0, <1>2, WorkerAssumption, SMT DEF DeliverSignal, OtherTypes
  <2>3. handler' = [handler EXCEPT ![t] = "store"] /\ flag' = flag /\ eventfd' = eventfd
    BY <1>2 DEF DeliverSignal
  <2>4. OtherTypes'
    BY <1>0, <1>2, <2>1, <2>2, <2>3 DEF DeliverSignal, OtherTypes
  <2>5. SignalSafe'
    BY <1>0, <2>3 DEF SignalSafe, OtherTypes
  <2> QED
    BY <1>2, <2>3, <2>4, <2>5, QuietStep DEF DeliverSignal
<1>3. ASSUME NEW t \in Thread, HandlerStore(t) PROVE SafetyInv'
  <2>1. OtherTypes' /\ SignalSafe' /\ flag'
    BY <1>0, <1>3 DEF HandlerStore, OtherTypes, SignalSafe, loopVars
  <2> QED
    BY <1>3, <2>1, QuietStep DEF HandlerStore, loopVars
<1>4. ASSUME NEW t \in Thread, HandlerWrite(t) PROVE SafetyInv'
  <2>1. OtherTypes' /\ SignalSafe' /\ flag'
    BY <1>0, <1>4 DEF HandlerWrite, OtherTypes, SignalSafe, loopVars
  <2> QED
    BY <1>4, <2>1, QuietStep DEF HandlerWrite, loopVars
<1> QED
  BY <1>1, <1>2, <1>3, <1>4 DEF HandlerStep

\* Packets arriving and devices failing.
LEMMA WorldStep ==
    ASSUME SafetyInv, NEW w \in Worker,
           PacketArrives(w) \/ DeviceBreaks(w) \/ DeadlinePasses(w)
    PROVE  SafetyInv'
<1>0. SignalSafe /\ OtherTypes /\ TypeOK /\ WorkerSafe(w)
  BY DEF SafetyInv, TypeOK, OtherTypes
<1>1. OtherTypes' /\ UNCHANGED signalVars
  BY <1>0 DEF OtherTypes, PacketArrives, DeviceBreaks, DeadlinePasses, signalVars
<1>2. CASE PacketArrives(w) \/ DeviceBreaks(w)
  BY <1>0, <1>1, <1>2, QuietStep DEF PacketArrives, DeviceBreaks, signalVars, SignalSafe
<1>3. CASE DeadlinePasses(w)
  <2>1. /\ deadline' = [deadline EXCEPT ![w] = "elapsed"] /\ deadline[w] = "set"
        /\ UNCHANGED <<draining, exit, conns>>
    BY <1>3 DEF DeadlinePasses
  <2>2. /\ deadline' \in [Worker -> {"none", "set", "elapsed"}] /\ deadline'[w] = "elapsed"
        /\ \A x \in Worker \ {w} : deadline'[x] = deadline[x]
    BY <1>0, <2>1 DEF TypeOK
  <2>3. WorkerSafe(w)'
    BY <1>0, <1>1, <2>1, <2>2 DEF WorkerSafe, signalVars
  <2> QED
    BY <1>0, <1>1, <2>1, <2>2, <2>3, WorkerStep DEF TypeOK
<1> QED
  BY <1>2, <1>3

\* The loop of one worker.
LEMMA LoopSafe ==
    ASSUME SafetyInv, NEW w \in Worker, LoopStep(w) \/ IoError(w)
    PROVE  SafetyInv'
<1> USE DEF At, Reading
<1>0. SignalSafe /\ OtherTypes /\ TypeOK /\ WorkerSafe(w)
  BY DEF SafetyInv, TypeOK, OtherTypes
<1>1. w # Main /\ conns[w] \in [ConnKey -> Table(w)!TcpStates]
  BY <1>0, WorkerAssumption DEF TypeOK
<1>2. exit[w] = "running"
  BY <1>1 DEF LoopStep, PollInterrupted, PollShutdown, GracePeriodElapsed, Retransmit,
     PollReadable, ReadInterrupted, ReadBroken, IoError, HandlePacket, Alive
<1>3. ASSUME ReactIfFlag(w),
             interrupted' \in [Worker -> BOOLEAN], pc' \in [Worker -> {"poll", "read", "readBoth"}]
      PROVE  SafetyInv'
  <2>1. UNCHANGED signalVars /\ UNCHANGED <<ready, broken>>
    BY <1>3 DEF ReactIfFlag
  <2>2. OtherTypes'
    BY <1>0, <1>3, <2>1 DEF OtherTypes, signalVars
  <2>3. CASE ~flag
    <3>1. UNCHANGED <<draining, conns, deadline, exit>>
      BY <1>3, <2>3 DEF ReactIfFlag
    <3>2. SignalSafe' /\ flag' = flag
      BY <1>0, <2>1 DEF SignalSafe, signalVars
    <3> QED
      BY <2>2, <3>1, <3>2, QuietStep
  <2>4. CASE flag
    <3>1. Interrupt(w, conns[w])
      BY <1>3, <2>4 DEF ReactIfFlag
    <3> HIDE DEF At, Reading
    <3>2. /\ draining' \in [Worker -> BOOLEAN]
          /\ deadline' \in [Worker -> {"none", "set", "elapsed"}]
          /\ exit' \in [Worker -> {"running", "noConnections", "drained",
                                   "graceElapsed", "ioError"}]
          /\ DOMAIN conns' = Worker
          /\ \A x \in Worker : conns'[x] \in [ConnKey -> Table(x)!TcpStates]
          /\ draining'[w]
          /\ exit'[w] = "running" => deadline'[w] # "none"
          /\ exit'[w] \in {"running", "noConnections"}
          /\ exit'[w] = "noConnections" => ~ClosingInProgress(w, conns'[w])
          /\ \A x \in Worker \ {w} :
                /\ draining'[x] = draining[x] /\ deadline'[x] = deadline[x]
                /\ exit'[x] = exit[x] /\ conns'[x] = conns[x]
      BY <1>1, <1>2, <2>4, <3>1, InterruptSafe
    <3>3. WorkerSafe(w)'
      BY <2>1, <2>4, <3>2 DEF WorkerSafe, signalVars
    <3> QED
      BY <2>1, <2>2, <3>2, <3>3, WorkerStep
  <2> QED
    BY <2>3, <2>4
<1>4. CASE PollInterrupted(w)
  BY <1>0, <1>3, <1>4 DEF PollInterrupted, OtherTypes
<1>5. CASE PollShutdown(w)
  BY <1>0, <1>3, <1>5 DEF PollShutdown, OtherTypes
<1>6. CASE ReadInterrupted(w)
  BY <1>0, <1>3, <1>6 DEF ReadInterrupted, OtherTypes
<1>7. ASSUME NEW how \in {"graceElapsed", "ioError"}, Exit(w, how),
             how = "graceElapsed" => deadline[w] = "elapsed"
      PROVE  SafetyInv'
  <2>1. /\ exit' = [exit EXCEPT ![w] = how]
        /\ UNCHANGED <<signalVars, interrupted, pc, ready, broken, draining, deadline, conns>>
    BY <1>7 DEF Exit
  <2>2. /\ exit' \in [Worker -> {"running", "noConnections", "drained",
                                 "graceElapsed", "ioError"}]
        /\ exit'[w] = how /\ \A x \in Worker \ {w} : exit'[x] = exit[x]
    BY <1>0, <2>1 DEF TypeOK
  <2>3. OtherTypes'
    BY <1>0, <2>1 DEF OtherTypes, signalVars
  <2>4. WorkerSafe(w)'
    BY <1>0, <1>7, <2>1, <2>2 DEF WorkerSafe, signalVars
  <2>5. /\ draining' \in [Worker -> BOOLEAN]
        /\ deadline' \in [Worker -> {"none", "set", "elapsed"}]
        /\ DOMAIN conns' = Worker
        /\ \A x \in Worker : conns'[x] \in [ConnKey -> Table(x)!TcpStates]
    BY <1>0, <2>1 DEF TypeOK
  <2> QED
    BY <2>1, <2>2, <2>3, <2>4, <2>5, WorkerStep
<1>8. CASE GracePeriodElapsed(w)
  BY <1>7, <1>8 DEF GracePeriodElapsed
<1>9. CASE ReadBroken(w) \/ IoError(w)
  BY <1>7, <1>9 DEF ReadBroken, IoError
<1>10. CASE Retransmit(w)
  <2>1. PICK g \in Table(w)!AfterTimer(conns[w]) : conns' = [conns EXCEPT ![w] = g]
    BY <1>10 DEF Retransmit
  <2>2. UNCHANGED <<signalVars, interrupted, pc, exit, ready, broken, draining, deadline>>
    BY <1>10 DEF Retransmit
  <2>3. g \in [ConnKey -> Table(w)!TcpStates]
    BY <1>1, <2>1, TableType
  <2>4. /\ DOMAIN conns' = Worker
        /\ \A x \in Worker : conns'[x] = IF x = w THEN g ELSE conns[x]
        /\ \A x \in Worker : conns'[x] \in [ConnKey -> Table(x)!TcpStates]
    BY <1>0, <2>1, <2>3, ConnsUpdate
  <2>5. OtherTypes'
    BY <1>0, <2>2 DEF OtherTypes, signalVars
  <2>6. WorkerSafe(w)'
    BY <1>0, <1>2, <2>2 DEF WorkerSafe, signalVars
  <2>7. /\ draining' \in [Worker -> BOOLEAN]
        /\ deadline' \in [Worker -> {"none", "set", "elapsed"}]
        /\ exit' \in [Worker -> {"running", "noConnections", "drained",
                                 "graceElapsed", "ioError"}]
    BY <1>0, <2>2 DEF TypeOK
  <2> QED
    BY <2>2, <2>4, <2>5, <2>6, <2>7, WorkerStep
<1>11. CASE PollReadable(w)
  <2>1. OtherTypes' /\ SignalSafe' /\ flag' = flag
    BY <1>0, <1>11 DEF PollReadable, OtherTypes, SignalSafe, signalVars
  <2> QED
    BY <1>11, <2>1, QuietStep DEF PollReadable
<1>12. CASE HandlePacket(w)
  <2>1. /\ UNCHANGED <<signalVars, interrupted, broken>>
        /\ pc' = [pc EXCEPT ![w] = "poll"]
        /\ \E b \in BOOLEAN : ready' = [ready EXCEPT ![w] = b]
    BY <1>12 DEF HandlePacket
  <2>2. OtherTypes'
    BY <1>0, <2>1 DEF OtherTypes, signalVars
  <2>3. PICK f \in Table(w)!AfterPacket(conns[w]) :
          IF pc[w] = "readBoth" /\ flag THEN Interrupt(w, f)
          ELSE /\ conns' = [conns EXCEPT ![w] = f]
               /\ exit' = IF deadline[w] # "none" /\ ~ClosingInProgress(w, f)
                          THEN [exit EXCEPT ![w] = "drained"] ELSE exit
               /\ UNCHANGED <<draining, deadline>>
    BY <1>12, Zenon DEF HandlePacket
  <2>4. f \in [ConnKey -> Table(w)!TcpStates]
    BY <1>1, <2>3, TableType
  <2> HIDE DEF At, Reading
  <2>5. CASE pc[w] = "readBoth" /\ flag
    <3>1. Interrupt(w, f)
      BY <2>3, <2>5
    <3>2. /\ draining' \in [Worker -> BOOLEAN]
          /\ deadline' \in [Worker -> {"none", "set", "elapsed"}]
          /\ exit' \in [Worker -> {"running", "noConnections", "drained",
                                   "graceElapsed", "ioError"}]
          /\ DOMAIN conns' = Worker
          /\ \A x \in Worker : conns'[x] \in [ConnKey -> Table(x)!TcpStates]
          /\ draining'[w]
          /\ exit'[w] = "running" => deadline'[w] # "none"
          /\ exit'[w] \in {"running", "noConnections"}
          /\ exit'[w] = "noConnections" => ~ClosingInProgress(w, conns'[w])
          /\ \A x \in Worker \ {w} :
                /\ draining'[x] = draining[x] /\ deadline'[x] = deadline[x]
                /\ exit'[x] = exit[x] /\ conns'[x] = conns[x]
      BY <1>2, <2>4, <2>5, <3>1, InterruptSafe
    <3>3. WorkerSafe(w)'
      BY <2>1, <2>5, <3>2 DEF WorkerSafe, signalVars
    <3> QED
      BY <2>1, <2>2, <3>2, <3>3, WorkerStep
  <2>6. CASE ~(pc[w] = "readBoth" /\ flag)
    <3>1. /\ conns' = [conns EXCEPT ![w] = f]
          /\ exit' = IF deadline[w] # "none" /\ ~ClosingInProgress(w, f)
                     THEN [exit EXCEPT ![w] = "drained"] ELSE exit
          /\ UNCHANGED <<draining, deadline>>
      BY <2>3, <2>6
    <3>2. /\ DOMAIN conns' = Worker
          /\ \A x \in Worker : conns'[x] = IF x = w THEN f ELSE conns[x]
          /\ \A x \in Worker : conns'[x] \in [ConnKey -> Table(x)!TcpStates]
      BY <1>0, <2>4, <3>1, ConnsUpdate
    <3>3. /\ exit' \in [Worker -> {"running", "noConnections", "drained",
                                   "graceElapsed", "ioError"}]
          /\ \A x \in Worker \ {w} : exit'[x] = exit[x]
          /\ \/ exit'[w] = "running"
             \/ exit'[w] = "drained" /\ deadline[w] # "none" /\ ~ClosingInProgress(w, f)
      BY <1>0, <1>2, <3>1 DEF TypeOK
    <3>4. conns'[w] = f
      BY <3>2
    <3>5. WorkerSafe(w)'
      BY <1>0, <1>2, <2>1, <3>1, <3>3, <3>4, Zenon DEF WorkerSafe, signalVars
    <3>6. /\ draining' \in [Worker -> BOOLEAN]
          /\ deadline' \in [Worker -> {"none", "set", "elapsed"}]
      BY <1>0, <3>1 DEF TypeOK
    <3> QED
      BY <2>1, <2>2, <3>1, <3>2, <3>3, <3>5, <3>6, WorkerStep
  <2> QED
    BY <2>5, <2>6
<1> QED
  BY <1>4, <1>5, <1>6, <1>8, <1>9, <1>10, <1>11, <1>12, LoopStep(w) \/ IoError(w)
     DEF LoopStep

\* The invariant holds of every reachable state.
LEMMA SafetyInvariant == Spec => []SafetyInv
<1>1. Init => SafetyInv
  <2> SUFFICES ASSUME Init PROVE SafetyInv
    OBVIOUS
  <2>1. \A w \in Worker : Table(w)!NoConns \in [ConnKey -> Table(w)!TcpStates]
    BY DEF Table!NoConns, Table!TcpStates
  <2>2. DOMAIN conns = Worker /\ \A w \in Worker : conns[w] = Table(w)!NoConns
    BY DEF Init
  <2>3. TypeOK
    <3>1. signals \in 0..MaxSignals
      BY WorkerAssumption, SMT DEF Init
    <3>2. \A w \in Worker : conns[w] \in [ConnKey -> Table(w)!TcpStates]
      BY <2>1, <2>2, Zenon
    <3> QED
      BY <2>2, <3>1, <3>2, Zenon DEF Init, TypeOK
  <2>4. SignalSafe /\ \A w \in Worker : WorkerSafe(w)
    BY DEF Init, SignalSafe, WorkerSafe
  <2> QED
    BY <2>3, <2>4 DEF SafetyInv
<1>2. SafetyInv /\ [Next]_vars => SafetyInv'
  <2>1. ASSUME SafetyInv, Next PROVE SafetyInv'
    <3>1. \/ SpawnWorkers \/ BlockSigint
          \/ \E t \in Thread : DeliverSignal(t) \/ HandlerStep(t)
          \/ \E w \in Worker :
                \/ LoopStep(w) \/ IoError(w)
                \/ PacketArrives(w) \/ DeviceBreaks(w) \/ DeadlinePasses(w)
      BY <2>1, Zenon DEF Next
    <3> QED
      BY <2>1, <3>1, SignalStep, WorldStep, LoopSafe, Zenon
  <2>2. ASSUME SafetyInv, UNCHANGED vars PROVE SafetyInv'
    <3>1. OtherTypes' /\ SignalSafe' /\ flag' = flag
      BY <2>2 DEF vars, signalVars, loopVars, SafetyInv, TypeOK, SignalSafe, OtherTypes
    <3> QED
      BY <2>2, <3>1, QuietStep DEF vars, loopVars
  <2> QED
    BY <2>1, <2>2
<1> QED
  BY <1>1, <1>2, PTL DEF Spec

\* The program counters, deadlines and tables of all workers stay well formed, for any
\* number of workers, connections and signals.
THEOREM WorkersTypeCorrect == Spec => []TypeOK
<1>1. SafetyInv => TypeOK
  BY DEF SafetyInv
<1> QED
  BY <1>1, SafetyInvariant, PTL

\* Whichever thread a SIGINT lands on, the eventfd never becomes readable before the flag
\* is set: no worker is woken and sent back to a poll that returns at once.
THEOREM EventfdImpliesFlag == Spec => []FlagBeforeEventfd
<1>1. SafetyInv => FlagBeforeEventfd
  BY DEF SafetyInv, SignalSafe, FlagBeforeEventfd
<1> QED
  BY <1>1, SafetyInvariant, PTL

\* A worker that has stopped watching the eventfd has a deadline to wake up for.
THEOREM NoDeafWorker == Spec => []DrainingHasDeadline
<1>1. SafetyInv => DrainingHasDeadline
  BY DEF SafetyInv, WorkerSafe, DrainingHasDeadline
<1> QED
  BY <1>1, SafetyInvariant, PTL

\* A worker ends in good order only after a signal, and only the end of the grace period
\* makes it leave a connection mid-close.
THEOREM ExitsAreOrderly == Spec => []OrderlyExit
<1>1. SafetyInv => OrderlyExit
  BY DEF SafetyInv, WorkerSafe, OrderlyExit
<1> QED
  BY <1>1, SafetyInvariant, PTL
=============================================================================
