------------------------------ MODULE TcpClient ------------------------------
(***************************************************************************)
(* The life of a Linux CTcpClient: the application's thread in CreateClient  *)
(* (TcpClient_SocketInit) and DestroyClient (TcpClient_SocketUnit), the      *)
(* heartbeat thread (TcpClient_KeepSessionAlive), which connects and          *)
(* reconnects, and the receive thread of each connection                      *)
(* (TcpClient_Recvfrom).                                                      *)
(*                                                                           *)
(* A connection carries units. A heartbeat is Size of them, a head is Size and *)
(* so is a body. recv returns any number of them up to what it is asked for,  *)
(* and a connection may end after any of them, in the middle of a head too.   *)
(***************************************************************************)
EXTENDS Integers, FiniteSets, Sequences

CONSTANTS
  Timeout,  \* HEARTBEAT_TIMEOUT in intervals of the heartbeat thread's sleep
  Size,     \* sizeof(HEAD_MSG_T) in units, and the length of a body
  MaxLen,   \* bound: the longest body a head announces that is misread
  MaxSock,  \* bound: how many sockets the process may create
  MaxSent,  \* bound: how many data messages a peer sends on a connection
  MaxWire   \* bound: how many units a connection holds

ASSUME ClientAssumption ==
  /\ Timeout \in Nat \ {0}
  /\ Size \in Nat \ {0}
  /\ MaxLen \in Nat
  /\ MaxSock \in Nat \ {0}
  /\ MaxSent \in Nat
  /\ MaxWire \in Nat

VARIABLES
  m_bIsHaveHB, m_bIsHaveHead,     \* the arguments of CreateClient
  m_bHeartbeatFlag, m_bRecvFlag,  \* the flags that keep the two loops going
  m_nLinkStatus,                  \* set together with the notice of it
  m_nSocket,                      \* 0 before the first socket(), -1 if it failed
  m_tRecvThread,                  \* the thread pthread_create gave, 0 before
  m_bIsRecvHead,                  \* does the parser wait for a body?
  m_nMsgType, m_nNeedRecvDataLen, \* of which type, and how long is it? "none" and 0
                                  \* stand for what is left in them when there is none
  m_RecvBufs,                     \* the units kept of an unfinished head or body
  age,      \* intervals slept since m_tHeartbeatTimeStamp, while connected
  apc,      \* where the application's thread is
  hpc,      \* where the heartbeat thread is
  rpc,      \* where the receive thread made for a socket is
  reading,  \* the socket it has called recv for
  joined,   \* the receive threads that have been joined
  sock,     \* the sockets: "none", "open", "linked", "closed"
  peer,     \* the other ends: "up", "closed" (the stream ends), "lost" (silence),
            \* "reset" (the stream ends, and sending fails)
  wire,     \* the units that have arrived and have not been read
  asked,    \* is a heartbeat unanswered?
  nsent,    \* how many data messages a peer has sent
  delivered, \* the units given to OnTransPortEngineRecv
  broken,   \* the threads that ended inside a message
  killed,   \* has SIGPIPE ended the process?
  noThread, \* has a pthread_create failed?
  fault     \* was a thread joined that is not there to be joined?

modes   == <<m_bIsHaveHB, m_bIsHaveHead>>
flags   == <<m_bHeartbeatFlag, m_bRecvFlag>>
cache   == <<m_bIsRecvHead, m_nMsgType, m_nNeedRecvDataLen, m_RecvBufs>>
parse   == <<cache, delivered, broken>>
threads == <<m_tRecvThread, rpc, reading, joined, noThread>>
peers   == <<peer, wire, asked, nsent, killed>>
link    == <<m_nLinkStatus, m_nSocket, sock>>
vars    == <<modes, flags, parse, threads, peers, link, age, apc, hpc, fault>>

Sock == 1 .. MaxSock
Unit == [sock : Sock, kind : {"hb", "head", "body"}, part : 1 .. Size]

Init ==
  /\ m_bIsHaveHB \in BOOLEAN /\ m_bIsHaveHead \in BOOLEAN
  /\ m_bHeartbeatFlag = TRUE /\ m_bRecvFlag = TRUE
  /\ m_nLinkStatus = "DISCONNECT" /\ m_nSocket = 0 /\ m_tRecvThread = 0
  /\ m_bIsRecvHead = FALSE /\ m_nMsgType = "none" /\ m_nNeedRecvDataLen = 0
  /\ m_RecvBufs = <<>> /\ age = 0
  /\ apc = "new" /\ hpc = "none"
  /\ rpc = [s \in Sock |-> "none"] /\ reading = [s \in Sock |-> 0] /\ joined = {}
  /\ sock = [s \in Sock |-> "none"] /\ peer = [s \in Sock |-> "up"]
  /\ wire = [s \in Sock |-> <<>>] /\ asked = [s \in Sock |-> FALSE]
  /\ nsent = [s \in Sock |-> 0] /\ killed = FALSE
  /\ delivered = {} /\ broken = {} /\ noThread = FALSE /\ fault = FALSE

\* A crash ends every thread of the process, and so does SIGPIPE.
Crashed == apc = "crashed" \/ hpc = "crashed" \/ killed

-----------------------------------------------------------------------------
(* The other ends of the connections.                                        *)

\* The receive threads that run. What comes earlier waits for them, what comes
\* later is read by nobody, so peers send while there is one.
Live == {t \in Sock : rpc[t] \notin {"none", "ended"}}
Reachable(s) == s \in Live /\ peer[s] = "up" /\ ~Crashed

\* The units of a heartbeat, of a head or of a body.
Item(s, kind) == [i \in 1 .. Size |-> [sock |-> s, kind |-> kind, part |-> i]]

\* The server answers a heartbeat.
PeerReply(s) ==
  /\ Reachable(s) /\ asked[s] /\ Len(wire[s]) + Size <= MaxWire
  /\ asked' = [asked EXCEPT ![s] = FALSE]
  /\ wire' = [wire EXCEPT ![s] = @ \o Item(s, "hb")]
  /\ UNCHANGED <<modes, flags, parse, threads, peer, nsent, killed, link, age, apc, hpc, fault>>

PeerSend(s) ==
  /\ Reachable(s) /\ nsent[s] < MaxSent /\ Len(wire[s]) + 2 * Size <= MaxWire
  /\ nsent' = [nsent EXCEPT ![s] = @ + 1]
  /\ wire' = [wire EXCEPT ![s] = (@ \o Item(s, "head")) \o Item(s, "body")]
  /\ UNCHANGED <<modes, flags, parse, threads, peer, asked, killed, link, age, apc, hpc, fault>>

\* The connection ends: nothing comes after the first n units, or not even the
\* news that nothing comes.
PeerEnds(s) ==
  /\ Reachable(s) \/ (sock[s] = "linked" /\ peer[s] = "up" /\ noThread)
  /\ \E n \in 0 .. Len(wire[s]) : wire' = [wire EXCEPT ![s] = SubSeq(@, 1, n)]
  /\ \E how \in {"closed", "lost", "reset"} : peer' = [peer EXCEPT ![s] = how]
  /\ UNCHANGED <<modes, flags, parse, threads, asked, nsent, killed, link, age, apc, hpc, fault>>

Peers == \E s \in Sock : PeerReply(s) \/ PeerSend(s) \/ PeerEnds(s)

-----------------------------------------------------------------------------
(* What the application's thread and the heartbeat thread have in common.    *)

\* socket() gives a new descriptor. Nobody deals any more with the other ends of
\* earlier ones, so what became of them is forgotten.
SocketMade ==
  \E s \in Sock :
    /\ \A t \in 1 .. s - 1 : sock[t] # "none"
    /\ sock[s] = "none"
    /\ m_nSocket' = s
    /\ sock' = [sock EXCEPT ![s] = "open"]
    /\ peer' = [t \in Sock |-> "up"] /\ nsent' = [t \in Sock |-> 0]
    /\ UNCHANGED <<m_nLinkStatus, wire, asked, killed>>

SocketFailed == m_nSocket' = -1 /\ UNCHANGED <<m_nLinkStatus, sock, peers>>

\* connect() succeeds; the status is set and CONNECT announced.
Connected ==
  /\ m_nLinkStatus' = "CONNECT"
  /\ sock' = [sock EXCEPT ![m_nSocket] = "linked"]
  /\ UNCHANGED m_nSocket

\* m_bRecvFlag is set and the receive thread made. pthread_create returns a
\* positive number when it fails, which the code takes for success.
Spawn ==
  /\ m_bRecvFlag' = TRUE
  /\ \/ /\ m_tRecvThread' = m_nSocket
        /\ rpc' = [rpc EXCEPT ![m_nSocket] = "test"]
        /\ UNCHANGED noThread
     \/ noThread' = TRUE /\ UNCHANGED <<m_tRecvThread, rpc>>
  /\ UNCHANGED <<m_bHeartbeatFlag, reading, joined>>

\* A receive thread that pthread_join can wait for.
Joinable == m_tRecvThread # 0 /\ m_tRecvThread \notin joined

\* pthread_join(m_tRecvThread): done, or undefined.
JoinRecv ==
  \/ /\ Joinable /\ rpc[m_tRecvThread] = "ended"
     /\ joined' = joined \cup {m_tRecvThread}
     /\ UNCHANGED fault
  \/ ~Joinable /\ fault' = TRUE /\ UNCHANGED joined

\* close(m_nSocket). A thread inside recv on that socket stays inside.
CloseSocket ==
  /\ sock' = [s \in Sock |-> IF s = m_nSocket THEN "closed" ELSE sock[s]]
  /\ UNCHANGED <<m_nLinkStatus, m_nSocket>>

\* send(m_nSocket, ..., 0) without MSG_NOSIGNAL. To an end that has gone it may
\* bring a reset. After a reset, and on a socket that was never connected, it
\* raises SIGPIPE, which ends the process, or fails: the kernel reports an error
\* it has waiting first, and the application may ignore the signal.
Send ==
  \/ UNCHANGED <<peer, killed>>
  \/ /\ m_nSocket \in Sock /\ sock[m_nSocket] = "linked"
     /\ peer[m_nSocket] \in {"closed", "lost"}
     /\ peer' = [peer EXCEPT ![m_nSocket] = "reset"]
     /\ UNCHANGED killed
  \/ /\ m_nSocket \in Sock
     /\ sock[m_nSocket] = "open" \/ (sock[m_nSocket] = "linked" /\ peer[m_nSocket] = "reset")
     /\ killed' = TRUE
     /\ UNCHANGED peer

-----------------------------------------------------------------------------
(* The application's thread in CreateClient: TcpClient_SocketInit.           *)

\* With heartbeats: only the heartbeat thread is made.
AppStartHeartbeat ==
  /\ apc = "new" /\ m_bIsHaveHB
  /\ \/ hpc' = "test" /\ UNCHANGED noThread
     \/ noThread' = TRUE /\ UNCHANGED hpc
  /\ apc' = "run"
  /\ UNCHANGED <<modes, flags, parse, m_tRecvThread, rpc, reading, joined, peers, link, age, fault>>

AppSocket ==
  /\ apc = "new" /\ ~m_bIsHaveHB
  /\ \/ SocketMade /\ apc' = "connect"
     \/ SocketFailed /\ apc' = "failed"
  /\ UNCHANGED <<modes, flags, parse, threads, age, hpc, fault>>

AppConnect ==
  /\ apc = "connect"
  /\ \/ Connected /\ apc' = "spawn"
     \/ CloseSocket /\ apc' = "failed"
  /\ UNCHANGED <<modes, flags, parse, threads, peers, age, hpc, fault>>

AppSpawn ==
  /\ apc = "spawn" /\ Spawn
  /\ apc' = "run"
  /\ UNCHANGED <<modes, parse, peers, link, age, hpc, fault>>

\* Mutant: what the application sends keeps the connection alive.
AppSendStamps ==
  /\ apc \in {"run", "joinHb", "stopRecv", "joinRecv"} /\ ~Crashed
  /\ Send /\ age' = 0
  /\ UNCHANGED <<modes, flags, parse, threads, wire, asked, nsent, link, apc, hpc, fault>>

\* TcpClient_SendData, called by the application or in one of its callbacks, as
\* long as there is a client.
AppSend ==
  /\ apc \in {"run", "joinHb", "stopRecv", "joinRecv"} /\ ~Crashed
  /\ Send
  /\ UNCHANGED <<modes, flags, parse, threads, wire, asked, nsent, link, age, apc, hpc, fault>>

-----------------------------------------------------------------------------
(* The application's thread in DestroyClient: TcpClient_SocketUnit.          *)

\* m_bHeartbeatFlag is TRUE from the constructor on, whoever reads it.
AppStopHeartbeat ==
  /\ apc = "run" /\ ~Crashed
  /\ m_bHeartbeatFlag' = FALSE
  /\ apc' = "joinHb"
  /\ UNCHANGED <<modes, m_bRecvFlag, parse, threads, peers, link, age, hpc, fault>>

\* Without heartbeats m_tHeartbeatThread was never set.
AppJoinHeartbeat ==
  /\ apc = "joinHb"
  /\ \/ hpc = "ended" /\ apc' = "stopRecv" /\ UNCHANGED fault
     \/ hpc = "none" /\ apc' \in {"stopRecv", "crashed"} /\ fault' = TRUE
  /\ UNCHANGED <<modes, flags, parse, threads, peers, link, age, hpc>>

\* Mutant: the receive thread is told to stop and not waited for.
AppStopRecvOnly ==
  /\ apc = "stopRecv"
  /\ m_bRecvFlag' = FALSE
  /\ apc' = "close"
  /\ UNCHANGED <<modes, m_bHeartbeatFlag, parse, threads, peers, link, age, hpc, fault>>

AppStopRecv ==
  /\ apc = "stopRecv"
  /\ m_bRecvFlag' = FALSE
  /\ apc' = IF m_bRecvFlag THEN "joinRecv" ELSE "close"
  /\ UNCHANGED <<modes, m_bHeartbeatFlag, parse, threads, peers, link, age, hpc, fault>>

AppJoinRecv ==
  /\ apc = "joinRecv" /\ JoinRecv
  /\ apc' \in IF Joinable THEN {"close"} ELSE {"close", "crashed"}
  /\ UNCHANGED <<modes, flags, parse, m_tRecvThread, rpc, reading, noThread, peers, link, age, hpc>>

\* The client is closed and deleted.
AppClose ==
  /\ apc = "close" /\ CloseSocket
  /\ apc' = "gone"
  /\ UNCHANGED <<modes, flags, parse, threads, peers, age, hpc, fault>>

AppCreate  == ~killed /\ (AppStartHeartbeat \/ AppSocket \/ AppConnect \/ AppSpawn)
AppDestroy == ~killed /\ (AppJoinHeartbeat \/ AppStopRecv \/ AppJoinRecv \/ AppClose)

-----------------------------------------------------------------------------
(* The heartbeat thread: TcpClient_KeepSessionAlive.                         *)

HbTest ==
  /\ hpc = "test"
  /\ hpc' = IF m_bHeartbeatFlag THEN "sleep" ELSE "ended"
  /\ UNCHANGED <<modes, flags, parse, threads, peers, link, age, apc, fault>>

HbSleep ==
  /\ hpc = "sleep"
  /\ age' = IF m_nLinkStatus = "CONNECT" THEN age + 1 ELSE age
  /\ hpc' = "wake"
  /\ UNCHANGED <<modes, flags, parse, threads, peers, link, apc, fault>>

HbSocket ==
  /\ hpc = "wake" /\ m_nLinkStatus = "DISCONNECT"
  /\ \/ SocketMade /\ hpc' = "connect"
     \/ SocketFailed /\ hpc' = "test"
  /\ UNCHANGED <<modes, flags, parse, threads, age, apc, fault>>

\* When connect() fails the socket stays open.
HbConnect ==
  /\ hpc = "connect"
  /\ \/ Connected /\ hpc' = "spawn"
     \/ hpc' = "test" /\ UNCHANGED link
  /\ UNCHANGED <<modes, flags, parse, threads, peers, age, apc, fault>>

HbSpawn ==
  /\ hpc = "spawn" /\ Spawn
  /\ hpc' = "stamp"
  /\ UNCHANGED <<modes, parse, peers, link, age, apc, fault>>

\* Send a heartbeat with TcpClient_SocketSendMsg. It stays unanswered when the
\* server works without heads.
Ask ==
  /\ Send
  /\ asked' = [asked EXCEPT ![m_nSocket] = m_bIsHaveHead]
  /\ UNCHANGED <<wire, nsent>>

HbStamp ==
  /\ hpc = "stamp" /\ Ask
  /\ age' = 0
  /\ hpc' = "test"
  /\ UNCHANGED <<modes, flags, parse, threads, link, apc, fault>>

\* Mutant: a connection has timed out only when it is older than the limit.
SessionTimeoutLate == age > Timeout

\* TcpClient_SessionTimeout
SessionTimeout == age >= Timeout

HbBeat ==
  /\ hpc = "wake" /\ m_nLinkStatus = "CONNECT" /\ ~SessionTimeout
  /\ Ask
  /\ hpc' = "test"
  /\ UNCHANGED <<modes, flags, parse, threads, link, age, apc, fault>>

\* The status is set and DISCONNECT announced.
HbTimeout ==
  /\ hpc = "wake" /\ m_nLinkStatus = "CONNECT" /\ SessionTimeout
  /\ m_nLinkStatus' = "DISCONNECT"
  /\ hpc' = "close"
  /\ UNCHANGED <<modes, flags, parse, threads, peers, m_nSocket, sock, age, apc, fault>>

\* Mutant: m_bRecvFlag is left as it is.
HbCloseOnly ==
  /\ hpc = "close" /\ CloseSocket
  /\ hpc' = "join"
  /\ UNCHANGED <<modes, flags, parse, threads, peers, age, apc, fault>>

\* Mutant: the socket is left open.
HbStopOnly ==
  /\ hpc = "close"
  /\ m_bRecvFlag' = FALSE
  /\ hpc' = "join"
  /\ UNCHANGED <<modes, m_bHeartbeatFlag, parse, threads, peers, link, age, apc, fault>>

HbClose ==
  /\ hpc = "close" /\ CloseSocket
  /\ m_bRecvFlag' = FALSE
  /\ hpc' = "join"
  /\ UNCHANGED <<modes, m_bHeartbeatFlag, parse, threads, peers, age, apc, fault>>

\* Mutant: the receive thread is not waited for.
HbJoinNot ==
  /\ hpc = "join"
  /\ hpc' = "test"
  /\ UNCHANGED <<modes, flags, parse, threads, peers, link, age, apc, fault>>

HbJoin ==
  /\ hpc = "join" /\ JoinRecv
  /\ hpc' \in IF Joinable THEN {"test"} ELSE {"test", "crashed"}
  /\ UNCHANGED <<modes, flags, parse, m_tRecvThread, rpc, reading, noThread, peers, link, age, apc>>

Heartbeat ==
  /\ ~killed
  /\ \/ HbTest \/ HbSleep \/ HbSocket \/ HbConnect \/ HbSpawn \/ HbStamp
     \/ HbBeat \/ HbTimeout \/ HbClose \/ HbJoin

-----------------------------------------------------------------------------
(* A receive thread: TcpClient_Recvfrom.                                     *)

\* Thread t leaves its loop. The parser stays as it is, with what it has kept of
\* a message, and what comes in from now on is read by nobody.
Leave(t) ==
  /\ rpc' = [rpc EXCEPT ![t] = "ended"]
  /\ broken' = IF m_bIsRecvHead \/ m_RecvBufs # <<>> THEN broken \cup {t} ELSE broken
  /\ wire' = [wire EXCEPT ![t] = <<>>]
  /\ asked' = [asked EXCEPT ![t] = FALSE]
  /\ UNCHANGED <<cache, delivered, reading, peer, nsent, killed>>

RecvTest(t) ==
  /\ rpc[t] = "test" /\ ~Crashed
  /\ \/ m_bRecvFlag /\ rpc' = [rpc EXCEPT ![t] = "call"] /\ UNCHANGED <<parse, reading, peers>>
     \/ ~m_bRecvFlag /\ Leave(t)
  /\ UNCHANGED <<modes, flags, m_tRecvThread, joined, noThread, link, age, apc, hpc, fault>>

\* recv(m_nSocket, ...) begins, or fails because that is no connected socket.
RecvCall(t) ==
  /\ rpc[t] = "call"
  /\ \/ /\ m_nSocket \in Sock /\ sock[m_nSocket] = "linked"
        /\ rpc' = [rpc EXCEPT ![t] = "recv"]
        /\ reading' = [reading EXCEPT ![t] = m_nSocket]
        /\ UNCHANGED <<parse, peers>>
     \/ (m_nSocket \in Sock => sock[m_nSocket] # "linked") /\ Leave(t)
  /\ UNCHANGED <<modes, flags, m_tRecvThread, joined, noThread, link, age, apc, hpc, fault>>

\* The units of a piece.
Units(piece) == {piece[i] : i \in 1 .. Len(piece)}

Deliver(piece) == delivered' = delivered \cup Units(piece)

\* Is q one whole heartbeat, or one whole head?
IsWhole(q, kind) == \A i \in 1 .. Len(q) : q[i].kind = kind /\ q[i].part = i

\* What a head says that has been put together from q: the truth, or, if q is
\* not from one head, whatever its bytes happen to say.
Readings(q) ==
  IF IsWhole(q, "hb") THEN [type : {"hb"}, len : {0}]
  ELSE IF IsWhole(q, "head") THEN [type : {"data"}, len : {Size}]
  ELSE [type : {"hb", "data"}, len : 0 .. MaxLen] \cup [type : {"none"}, len : {0}]

Await(type, len) ==
  /\ m_bIsRecvHead' = (len > 0)
  /\ m_nMsgType' = IF len > 0 THEN type ELSE "none"
  /\ m_nNeedRecvDataLen' = len

\* A heartbeat sets the time stamp, a head announces a body, and what is neither
\* is dropped.
TakeHead(q) ==
  /\ \E head \in Readings(q) :
       /\ Await(head.type, head.len)
       /\ age' = IF head.type = "hb" /\ head.len = 0 THEN 0 ELSE age
  /\ UNCHANGED delivered

\* A body, or what stands in its place, is delivered or is a heartbeat's.
UseBody(q) ==
  \/ m_nMsgType = "hb" /\ age' = 0 /\ UNCHANGED delivered
  \/ m_nMsgType = "data" /\ Deliver(q) /\ UNCHANGED age

\* Mutant: the parser goes on waiting for bodies.
TakeBodies(q) == UseBody(q) /\ Await(m_nMsgType, m_nNeedRecvDataLen)

TakeBody(q) == UseBody(q) /\ Await("none", 0)

\* What the head or the body that is being read still lacks.
Missing == (IF m_bIsRecvHead THEN m_nNeedRecvDataLen ELSE Size) - Len(m_RecvBufs)

\* Without heads everything is delivered; else a piece is kept until it completes
\* a head or a body.
Take(piece) ==
  \/ ~m_bIsHaveHead /\ Deliver(piece) /\ UNCHANGED <<cache, age>>
  \/ /\ m_bIsHaveHead /\ Len(piece) < Missing
     /\ m_RecvBufs' = m_RecvBufs \o piece
     /\ UNCHANGED <<m_bIsRecvHead, m_nMsgType, m_nNeedRecvDataLen, delivered, age>>
  \/ /\ m_bIsHaveHead /\ Len(piece) = Missing
     /\ m_RecvBufs' = <<>>
     /\ \/ m_bIsRecvHead /\ TakeBody(m_RecvBufs \o piece)
        \/ ~m_bIsRecvHead /\ TakeHead(m_RecvBufs \o piece)

\* recv returns some of what has arrived; with heads no more than is missing.
RecvPiece(t) ==
  /\ rpc[t] = "recv"
  /\ \E n \in 1 .. Len(wire[reading[t]]) :
       /\ wire' = [wire EXCEPT ![reading[t]] = SubSeq(@, n + 1, Len(@))]
       /\ Take(SubSeq(wire[reading[t]], 1, n))
  /\ rpc' = [rpc EXCEPT ![t] = "test"]
  /\ UNCHANGED <<modes, flags, broken, m_tRecvThread, reading, joined, noThread,
                 peer, asked, nsent, killed, link, apc, hpc, fault>>

Ended(t) ==
  rpc[t] = "recv" /\ wire[reading[t]] = <<>> /\ peer[reading[t]] \in {"closed", "reset"}

\* Mutant: the loop goes on when the stream has ended.
RecvAgain(t) ==
  /\ Ended(t)
  /\ rpc' = [rpc EXCEPT ![t] = "test"]
  /\ UNCHANGED <<modes, flags, parse, m_tRecvThread, reading, joined, noThread,
                 peers, link, age, apc, hpc, fault>>

\* recv returns 0 or -1.
RecvEnd(t) ==
  /\ Ended(t) /\ Leave(t)
  /\ UNCHANGED <<modes, flags, m_tRecvThread, joined, noThread, link, age, apc, hpc, fault>>

Receive(t) == ~killed /\ (RecvTest(t) \/ RecvCall(t) \/ RecvPiece(t) \/ RecvEnd(t))

-----------------------------------------------------------------------------

Next == \/ Peers \/ AppCreate \/ AppSend \/ AppStopHeartbeat \/ AppDestroy \/ Heartbeat
        \/ \E t \in Sock : Receive(t)

Spec == Init /\ [][Next]_vars

\* Every thread is scheduled. The application need not destroy its client, and
\* nothing is assumed of the peers.
FairSpec ==
  /\ Spec
  /\ WF_vars(AppCreate) /\ WF_vars(AppDestroy) /\ WF_vars(Heartbeat)
  /\ \A t \in Sock : WF_vars(Receive(t))

-----------------------------------------------------------------------------
(* Correctness. *)

\* The types of the flags, of the threads' state, and of the connections.
FlagTypeOK ==
  /\ m_bIsHaveHB \in BOOLEAN /\ m_bIsHaveHead \in BOOLEAN
  /\ m_bHeartbeatFlag \in BOOLEAN /\ m_bRecvFlag \in BOOLEAN
  /\ m_bIsRecvHead \in BOOLEAN /\ noThread \in BOOLEAN /\ fault \in BOOLEAN
  /\ killed \in BOOLEAN
ClientTypeOK ==
  /\ m_nLinkStatus \in {"CONNECT", "DISCONNECT"}
  /\ m_nSocket \in -1 .. MaxSock /\ m_tRecvThread \in 0 .. MaxSock
  /\ age \in 0 .. Timeout
  /\ apc \in {"new", "connect", "spawn", "failed", "run", "joinHb", "stopRecv",
              "joinRecv", "close", "gone", "crashed"}
  /\ hpc \in {"none", "test", "sleep", "wake", "connect", "spawn", "stamp",
              "close", "join", "ended", "crashed"}
  /\ rpc \in [Sock -> {"none", "test", "call", "recv", "ended"}]
  /\ reading \in [Sock -> 0 .. MaxSock]
  /\ joined \subseteq Sock /\ broken \subseteq Sock
PeerTypeOK ==
  /\ sock \in [Sock -> {"none", "open", "linked", "closed"}]
  /\ peer \in [Sock -> {"up", "closed", "lost", "reset"}]
  /\ asked \in [Sock -> BOOLEAN] /\ nsent \in [Sock -> 0 .. MaxSent]
StreamTypeOK ==
  /\ wire \in [Sock -> Seq(Unit)] /\ delivered \subseteq Unit
  /\ m_RecvBufs \in Seq(Unit) /\ m_nNeedRecvDataLen \in Nat
  /\ m_nMsgType \in {"none", "hb", "data"}

\* Every variable keeps its type; in particular no connection gets older than
\* the limit before TcpClient_KeepSessionAlive looks at its age.
TypeOK == FlagTypeOK /\ ClientTypeOK /\ PeerTypeOK /\ StreamTypeOK

\* Two threads never read at the same time, over all reconnects: they would take
\* turns at one socket and at one parser that has no lock for it.
OneReceiver == Cardinality(Live) <= 1

\* With heartbeats, and once a connection was made, TcpClient_SocketUnit and the
\* heartbeat thread join no thread that is not there, whichever of the two ended
\* the last connection (m_bRecvFlag is how they agree on it).
JoinsStarted == fault => ~m_bIsHaveHB \/ m_tRecvThread = 0 \/ noThread

\* When DestroyClient deletes the client, no thread of it runs any more.
GoneIsQuiet == apc = "gone" => hpc \in {"none", "ended"} /\ Live = {}

\* No connection is left open behind a destroyed client, and of the ones it went
\* through only those that never came about.
NoConnectionLeft == apc = "gone" => \A s \in Sock : sock[s] # "linked"

\* With heads the application gets bodies and nothing else, unless an earlier
\* connection ended inside a message, be it inside its head: then the parser goes
\* on there in the new stream (TcpClient_KeepSessionAlive resets neither
\* m_bIsRecvHead nor m_RecvBufs).
BodiesOnly ==
  m_bIsHaveHead =>
    \A u \in delivered : u.kind # "body" => \E t \in broken : t < u.sock

\* The connection the receive thread works for, or will.
From == IF apc # "gone" /\ (m_nLinkStatus = "CONNECT" \/ hpc \in {"close", "join"})
        THEN m_nSocket ELSE 0

\* The connections a part of whose messages is kept.
Kept == {u.sock : u \in Units(m_RecvBufs)}

Events == INSTANCE ClientEvents WITH
  Conn <- Sock, link <- m_nLinkStatus, from <- From,
  kept <- Kept,
  received <- delivered, gone <- (apc = "gone")

\* The application is told of connections as ClientEvents promises. DISCONNECT
\* comes before the receive thread has ended (CTcpClient.cpp:513), so data may
\* follow it; by the next CONNECT that thread has been joined, and all that is
\* left of its connection is what m_RecvBufs keeps.
ImplementsClientEvents == Events!Spec

Leaving == apc \notin {"new", "connect", "spawn", "run"}

\* With heartbeats, the end of a connection is announced, also if the peer went
\* without a word, unless sending into a connection that was reset has ended the
\* process before.
LossNoticed ==
  (m_bIsHaveHB /\ m_nLinkStatus = "CONNECT" /\ peer[m_nSocket] # "up")
    ~> (m_nLinkStatus = "DISCONNECT" \/ Leaving \/ (killed /\ peer[m_nSocket] = "reset"))

\* A receive thread ends when its stream ends, so whoever joins it gets on.
ClosedConnectionEnds ==
  (\E t \in Live : peer[t] \in {"closed", "reset"}) ~> (Live = {} \/ Crashed)

\* DestroyClient returns, unless SIGPIPE ends the process in the meantime.
DestroyClientReturns == (apc = "joinHb") ~> (apc = "gone" \/ fault \/ killed)

-----------------------------------------------------------------------------
(* The inductive invariant. *)

\* The heartbeat thread is in KeepSessionAlive's loop for a connection.
Serving ==
  \/ hpc \in {"test", "sleep", "wake", "stamp"} /\ m_nLinkStatus = "CONNECT"
  \/ hpc \in {"close", "join"}

Preparing(place) == apc = place \/ hpc = place

\* Which threads there are at all.
ThreadInv ==
  /\ m_bIsHaveHB => apc \notin {"connect", "spawn", "failed"}
  /\ ~m_bIsHaveHB \/ apc = "new" => hpc = "none"
  /\ apc = "new" => ~fault
  /\ m_bIsHaveHB /\ apc # "new" /\ hpc = "none" => noThread
  /\ apc \in {"stopRecv", "joinRecv", "close", "gone"} => hpc \in {"none", "ended"}
  /\ apc = "new" \/ apc = "connect" \/ hpc \in {"connect", "close", "join"}
       => m_nLinkStatus = "DISCONNECT"
  /\ Preparing("spawn") => m_nLinkStatus = "CONNECT" /\ Live = {}

\* A socket being connected is a new one without a receive thread, and at most
\* the last one is connected.
SocketInv ==
  /\ \A s \in Sock : sock[s] = "none" => rpc[s] = "none"
  /\ Preparing("connect") \/ Preparing("spawn") =>
       m_nSocket \in Sock /\ sock[m_nSocket] # "none" /\ rpc[m_nSocket] = "none"
  /\ \A t \in joined : rpc[t] = "ended"
  /\ \A s \in Sock : sock[s] = "linked" =>
       s = m_nSocket /\ (m_nLinkStatus = "CONNECT" \/ hpc = "close") /\ apc # "gone"

\* The one thread that may live is the one m_tRecvThread names, it reads the
\* socket it was made for, and it can still be joined.
ReceiverInv ==
  \A t \in Live :
    /\ t = m_tRecvThread /\ t = m_nSocket
    /\ rpc[t] = "recv" => reading[t] = t

\* It lives only while somebody will still join it.
QuietInv ==
  /\ m_nLinkStatus = "DISCONNECT" /\ hpc \notin {"close", "join"} => Live = {}
  /\ ~m_bRecvFlag /\ hpc # "join" /\ apc # "joinRecv" => Live = {}
  /\ apc \in {"close", "gone"} => Live = {}

\* What the flags say of the joins to come.
JoinInv ==
  /\ hpc = "join" \/ apc = "joinRecv" => ~m_bRecvFlag
  /\ m_bIsHaveHB /\ fault => noThread \/ hpc = "ended"
  /\ Serving => Joinable \/ noThread
  /\ m_bIsHaveHB /\ (m_bRecvFlag \/ apc = "joinRecv") =>
       Joinable \/ m_tRecvThread = 0 \/ noThread

\* A connection is looked at before it is older than the limit.
AgeInv == hpc \in {"test", "sleep"} /\ m_nLinkStatus = "CONNECT" => age < Timeout

\* recv is never asked for nothing, which would end the thread like the end of
\* the stream; a body is waited for only after a head, and only with heads.
CacheInv ==
  /\ Missing > 0
  /\ m_bIsRecvHead <=> m_nMsgType # "none"
  /\ ~m_bIsHaveHead => m_RecvBufs = <<>> /\ ~m_bIsRecvHead

\* All of it together is inductive: whose socket, whose thread and which flag
\* belong together in CTcpClient over any number of reconnects.
ClientInv ==
  /\ TypeOK /\ ThreadInv /\ SocketInv /\ ReceiverInv /\ QuietInv /\ JoinInv
  /\ AgeInv /\ CacheInv /\ JoinsStarted
=============================================================================
