----------------------------- MODULE ClientEvents -----------------------------
(***************************************************************************)
(* What an ITransPortEngineRecv may rely on when it is given to               *)
(* TransPortEngine_CreateClient: CONNECT and DISCONNECT alternate; data comes *)
(* from the connection announced last, and still may when its DISCONNECT has   *)
(* been announced, but no more when the next CONNECT is, nor when the client   *)
(* has been destroyed, which is announced by nothing. The one exception is a   *)
(* message that a connection left unfinished: its beginning may come later,    *)
(* once, as the first part of data that ends in the current connection.        *)
(***************************************************************************)
EXTENDS Naturals

CONSTANT Conn  \* the connections, numbered from 1

VARIABLES
  link,      \* the notice given last, "DISCONNECT" before the first
  from,      \* the connection data may come from, 0 if there is none
  kept,      \* the connections of which an unfinished message is kept
  received,  \* the data the application has been given
  gone       \* has the client been destroyed?

vars == <<link, from, kept, received, gone>>

Init ==
  /\ link = "DISCONNECT" /\ from = 0 /\ kept = {} /\ received = {} /\ gone = FALSE

\* OnTransPortEngineNotify(CONNECT), for a connection not heard of before
Connect(c) ==
  /\ ~gone /\ link = "DISCONNECT" /\ from = 0
  /\ c \notin kept /\ \A d \in received : d.sock # c
  /\ link' = "CONNECT" /\ from' = c
  /\ UNCHANGED <<kept, received, gone>>

\* The connection delivers part of a message.
Keep ==
  /\ from # 0 /\ kept' = kept \cup {from}
  /\ UNCHANGED <<link, from, received, gone>>

\* What is kept turns out to be nothing for the application.
Drop ==
  /\ from # 0 /\ kept' = {}
  /\ UNCHANGED <<link, from, received, gone>>

\* OnTransPortEngineRecv
Receive ==
  /\ from # 0
  /\ \E data \in SUBSET received' :
       /\ received' = received \cup data
       /\ \E d \in data : d.sock = from
       /\ \A d \in data : d.sock = from \/ d.sock \in kept
  /\ kept' = {}
  /\ UNCHANGED <<link, from, gone>>

\* OnTransPortEngineNotify(DISCONNECT)
Disconnect ==
  /\ link = "CONNECT" /\ link' = "DISCONNECT"
  /\ UNCHANGED <<from, kept, received, gone>>

\* No more data will come from the connection.
Silence ==
  /\ link = "DISCONNECT" /\ from' = 0
  /\ UNCHANGED <<link, kept, received, gone>>

\* TransPortEngine_DestroyClient returns.
Destroy ==
  /\ ~gone /\ gone' = TRUE /\ from' = 0
  /\ UNCHANGED <<link, kept, received>>

Next ==
  \/ \E c \in Conn : Connect(c)
  \/ Keep \/ Drop \/ Receive \/ Disconnect \/ Silence \/ Destroy

Spec == Init /\ [][Next]_vars
=============================================================================
