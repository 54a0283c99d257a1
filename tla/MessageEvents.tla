---------------------------- MODULE MessageEvents ----------------------------
(***************************************************************************)
(* What one end of a connection with heads gets of the messages that the     *)
(* other end sends: each of them once, whole, and in the order in which they *)
(* were sent, data and heartbeats together. A data message is its body. A    *)
(* heartbeat counts as a sign of life, and a server answers it, before       *)
(* anything that was sent behind it has an effect.                           *)
(***************************************************************************)
EXTENDS Naturals, Sequences

CONSTANT Body  \* the bodies of data messages

VARIABLES
  answers,   \* does this end answer heartbeats, as the server does?
  data,      \* the bodies that were sent
  after,     \* how many heartbeats were sent before each of them
  beats,     \* how many heartbeats were sent
  received,  \* the bodies the application was given
  counted,   \* how many heartbeats counted
  answered   \* how many were answered

vars == <<answers, data, after, beats, received, counted, answered>>

Init ==
  /\ answers \in BOOLEAN
  /\ data = <<>> /\ after = <<>> /\ beats = 0
  /\ received = <<>> /\ counted = 0 /\ answered = 0

\* TcpSession_SendData or TcpClient_SendData
Send(body) ==
  /\ data' = Append(data, body) /\ after' = Append(after, beats)
  /\ UNCHANGED <<answers, beats, received, counted, answered>>

\* TcpClient_KeepSessionAlive
SendHeartbeat ==
  /\ beats' = beats + 1
  /\ UNCHANGED <<answers, data, after, received, counted, answered>>

\* OnTransPortEngineRecv, when the heartbeats before this message have been dealt with
Receive ==
  /\ Len(received) < Len(data)
  /\ after[Len(received) + 1] = counted /\ (answers => answered = counted)
  /\ received' = Append(received, data[Len(received) + 1])
  /\ UNCHANGED <<answers, data, after, beats, counted, answered>>

\* The messages before the next heartbeat have been received.
HeartbeatNext ==
  /\ counted < beats
  /\ \A i \in DOMAIN data : i > Len(received) => after[i] > counted

\* Its answer, when it has a body that is still to come
Answer ==
  /\ answers /\ HeartbeatNext /\ answered = counted
  /\ answered' = answered + 1
  /\ UNCHANGED <<answers, data, after, beats, received, counted>>

\* TcpSession_HeadleHB or TcpClient_HandleHB
Count ==
  /\ HeartbeatNext /\ counted' = counted + 1
  /\ answered' = IF answers THEN counted + 1 ELSE answered
  /\ UNCHANGED <<answers, data, after, beats, received>>

Next ==
  \/ \E body \in Body : Send(body)
  \/ SendHeartbeat \/ Receive \/ Answer \/ Count

Spec == Init /\ [][Next]_vars
=============================================================================
