---------------------------- MODULE SessionEvents ----------------------------
(***************************************************************************)
(* What the engine promises an ITransPortEngineRecv: a session is announced  *)
(* once (CONNECT) under an id no other connected session has, its data is    *)
(* handed over only while it is connected, and its end is announced at most  *)
(* once (DISCONNECT), after which nothing more comes from it.                *)
(***************************************************************************)
EXTENDS Naturals

CONSTANTS
  Session,    \* the connections
  SessionId,  \* what the application knows a connected session by
  NoId        \* not an id

VARIABLES
  phase,   \* what the application knows of a session
  id,      \* the id it knows it by while connected
  got      \* how many pieces of data it has received from it

vars == <<phase, id, got>>

Init ==
  /\ phase = [s \in Session |-> "unknown"]
  /\ id = [s \in Session |-> NoId]
  /\ got = [s \in Session |-> 0]

\* OnTransPortEngineNotify(i, CONNECT)
Connect(s, i) ==
  /\ phase[s] = "unknown"
  /\ \A t \in Session : id[t] # i
  /\ phase' = [phase EXCEPT ![s] = "connected"]
  /\ id' = [id EXCEPT ![s] = i]
  /\ UNCHANGED got

\* OnTransPortEngineRecv(id[s], ...)
Receive(s) ==
  /\ phase[s] = "connected"
  /\ got' = [got EXCEPT ![s] = @ + 1]
  /\ UNCHANGED <<phase, id>>

\* OnTransPortEngineNotify(id[s], DISCONNECT)
Disconnect(s) ==
  /\ phase[s] = "connected"
  /\ phase' = [phase EXCEPT ![s] = "disconnected"]
  /\ id' = [id EXCEPT ![s] = NoId]
  /\ UNCHANGED got

Next ==
  \E s \in Session :
    \/ \E i \in SessionId : Connect(s, i)
    \/ Receive(s)
    \/ Disconnect(s)

Spec == Init /\ [][Next]_vars
=============================================================================
