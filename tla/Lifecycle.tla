------------------------------ MODULE Lifecycle ------------------------------
(***************************************************************************)
(* What the connection table promises to the worker that owns it: the      *)
(* connections and the TCP state each one is in.  TcpConnections           *)
(* implements this specification; Workers is written on top of it.         *)
(***************************************************************************)
EXTENDS Naturals

CONSTANT ConnKey

VARIABLE states     \* the TCP state of each key, "Closed" when not in the table

TcpStates == {"Closed", "SynReceived", "Established", "FinWait1", "FinWait2",
              "CloseWait", "Closing", "LastAck"}

\* closing_in_progress: a FIN has been sent or received, the teardown is not over.
MidClose == {"FinWait1", "FinWait2", "CloseWait", "Closing", "LastAck"}

\* The moves one incoming segment can cause on its connection: the typed transitions
\* of state.rs, those a handler makes two or three of in a row, and the removals.
PacketMoves ==
    {<<"Closed", "SynReceived">>,
     <<"SynReceived", "Established">>, <<"SynReceived", "CloseWait">>,
     <<"SynReceived", "LastAck">>,
     <<"Established", "CloseWait">>, <<"Established", "LastAck">>,
     <<"CloseWait", "LastAck">>,
     <<"FinWait1", "FinWait2">>, <<"FinWait1", "Closing">>}
    \cup {<<s, "Closed">> : s \in TcpStates \ {"Closed"}}

\* The tables that may follow f when a packet has been handled: unchanged, or with one
\* connection moved.
AfterPacket(f) ==
    {f} \cup {[f EXCEPT ![m[1]] = m[2][2]] :
                m \in {n \in ConnKey \X PacketMoves : f[n[1]] = n[2][1]}}

\* ... when the timer has been served: connections that exhausted their retries are gone.
AfterTimer(f) ==
    {[k \in ConnKey |-> IF k \in G THEN "Closed" ELSE f[k]] :
        G \in SUBSET {k \in ConnKey : f[k] # "Closed"}}

\* ... when every established connection has been actively closed.
AfterClose(f) ==
    [k \in ConnKey |-> IF f[k] = "Established" THEN "FinWait1" ELSE f[k]]

NoConns == [k \in ConnKey |-> "Closed"]

Init == states = NoConns

Next == \/ states' \in AfterPacket(states)
        \/ states' \in AfterTimer(states)
        \/ states' = AfterClose(states)

Spec == Init /\ [][Next]_states
=============================================================================
