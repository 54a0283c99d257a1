--------------------------- MODULE TcpClient_proofs ---------------------------
(***************************************************************************)
(* Proofs about TcpClient, for any time-out, any number of sockets and any   *)
(* traffic, with and without heartbeats and heads.                           *)
(***************************************************************************)
EXTENDS TcpClient, SequenceLemmas

App == AppCreate \/ AppSend \/ AppStopHeartbeat \/ AppDestroy

\* The actions of the heartbeat thread that make no socket and no thread, and
\* wait for none.
Ticking == HbTest \/ HbSleep \/ HbBeat \/ HbTimeout \/ HbClose \/ HbStamp

-----------------------------------------------------------------------------
(* What peers and receive threads can change. *)

\* A peer changes its own state and the stream, nothing of the client's.
LEMMA PeersKeep ==
  ASSUME Peers
  PROVE  UNCHANGED <<modes, flags, parse, threads, link, age, apc, hpc, fault>>
  BY DEF Peers, PeerReply, PeerSend, PeerEnds

\* The units of one item, in order.
LEMMA ItemFacts ==
  ASSUME NEW s \in Sock, NEW kind \in {"hb", "head", "body"}
  PROVE  /\ Item(s, kind) \in Seq(Unit) /\ Len(Item(s, kind)) = Size
         /\ \A i \in 1 .. Size : Item(s, kind)[i] = [sock |-> s, kind |-> kind, part |-> i]
  <1>1. \A i \in 1 .. Size : [sock |-> s, kind |-> kind, part |-> i] \in Unit
    BY DEF Unit
  <1>2. Size \in Nat
    BY ClientAssumption
  <1> QED
    BY <1>1, <1>2 DEF Item

\* What is taken from a stream changes the parser, the time stamp and what has
\* been delivered, and keeps their types.
LEMMA TakeKeeps ==
  ASSUME StreamTypeOK, m_bIsRecvHead \in BOOLEAN, NEW piece \in Seq(Unit), Take(piece)
  PROVE  /\ m_RecvBufs' \in Seq(Unit) /\ m_nNeedRecvDataLen' \in Nat
         /\ m_nMsgType' \in {"none", "hb", "data"} /\ m_bIsRecvHead' \in BOOLEAN
         /\ delivered' \subseteq Unit /\ age' \in {age, 0}
  <1>1. m_RecvBufs \o piece \in Seq(Unit)
    BY ConcatProperties DEF StreamTypeOK
  <1>2. Units(piece) \subseteq Unit /\ Units(m_RecvBufs \o piece) \subseteq Unit
    BY <1>1 DEF Units
  <1>3. CASE ~m_bIsHaveHead /\ Deliver(piece) /\ UNCHANGED <<cache, age>>
    BY <1>2, <1>3 DEF StreamTypeOK, Deliver, cache
  <1>4. CASE /\ m_RecvBufs' = m_RecvBufs \o piece
             /\ UNCHANGED <<m_bIsRecvHead, m_nMsgType, m_nNeedRecvDataLen, delivered, age>>
    BY <1>1, <1>4 DEF StreamTypeOK
  <1>5. CASE m_RecvBufs' = <<>> /\ TakeBody(m_RecvBufs \o piece)
    BY <1>2, <1>5 DEF StreamTypeOK, TakeBody, UseBody, Await, Deliver
  <1>6. CASE m_RecvBufs' = <<>> /\ TakeHead(m_RecvBufs \o piece)
    <2>1. PICK head \in Readings(m_RecvBufs \o piece) :
            /\ Await(head.type, head.len)
            /\ age' = IF head.type = "hb" /\ head.len = 0 THEN 0 ELSE age
      BY <1>6 DEF TakeHead
    <2>2. head.type \in {"none", "hb", "data"} /\ head.len \in Nat
      BY ClientAssumption DEF Readings
    <2> QED
      BY <1>6, <2>1, <2>2 DEF StreamTypeOK, Await, TakeHead
  <1> QED
    BY <1>3, <1>4, <1>5, <1>6 DEF Take

\* What a receive thread reads, and what it leaves on the wire.
LEMMA PieceTaken ==
  ASSUME ClientInv, NEW t \in Sock, RecvPiece(t)
  PROVE  /\ t \in Live /\ reading[t] = t /\ wire[t] \in Seq(Unit)
         /\ \E n \in 1 .. Len(wire[t]) :
              /\ wire' = [wire EXCEPT ![t] = SubSeq(@, n + 1, Len(@))]
              /\ Take(SubSeq(wire[t], 1, n))
              /\ SubSeq(wire[t], 1, n) \in Seq(Unit)
              /\ SubSeq(wire[t], n + 1, Len(wire[t])) \in Seq(Unit)
  <1>1. t \in Live /\ reading[t] = t
    BY DEF ClientInv, RecvPiece, ReceiverInv, Live
  <1>2. wire[t] \in Seq(Unit)
    BY DEF ClientInv, TypeOK, StreamTypeOK
  <1>3. PICK n \in 1 .. Len(wire[t]) :
          /\ wire' = [wire EXCEPT ![t] = SubSeq(@, n + 1, Len(@))]
          /\ Take(SubSeq(wire[t], 1, n))
    BY <1>1 DEF RecvPiece
  <1>4. n \in 0 .. Len(wire[t])
    OBVIOUS
  <1> QED
    BY <1>1, <1>2, <1>3, <1>4, CutInTwo

\* A receive thread changes its own place and the parser, and can only end.
LEMMA ReceiveKeeps ==
  ASSUME ClientInv, NEW t \in Sock, Receive(t)
  PROVE  /\ UNCHANGED <<modes, flags, link, m_tRecvThread, joined, noThread>>
         /\ UNCHANGED <<apc, hpc, fault, peer, killed>>
         /\ t \in Live /\ Live' \subseteq Live
         /\ \A s \in Sock : s # t => rpc'[s] = rpc[s] /\ reading'[s] = reading[s]
         /\ rpc'[t] = "recv" => reading'[t] = m_nSocket
         /\ age' \in {age, 0}
  <1> USE DEF ClientInv, TypeOK, ClientTypeOK, Live
  <1>1. CASE RecvTest(t)
    BY <1>1 DEF RecvTest, Leave, parse, peers
  <1>2. CASE RecvCall(t)
    BY <1>2 DEF RecvCall, Leave, parse, peers
  <1>3. CASE RecvPiece(t)
    <2>1. age' \in {age, 0}
      BY <1>3, PieceTaken, TakeKeeps DEF FlagTypeOK
    <2> QED
      BY <1>3, <2>1 DEF RecvPiece
  <1>4. CASE RecvEnd(t)
    BY <1>4 DEF RecvEnd, Ended, Leave
  <1> QED
    BY <1>1, <1>2, <1>3, <1>4 DEF Receive

-----------------------------------------------------------------------------
(* Types. *)

\* The flags, the modes and the history are Booleans.
LEMMA FlagTypeStep ==
  ASSUME ClientInv, Next PROVE FlagTypeOK'
  <1> USE DEF ClientInv, TypeOK, FlagTypeOK, modes, flags, parse, cache, threads, peers
  <1>1. CASE Peers
    BY <1>1, PeersKeep DEF Peers, PeerReply, PeerSend, PeerEnds
  <1>2. CASE AppCreate
    BY <1>2 DEF AppCreate, AppStartHeartbeat, AppSocket, AppConnect, AppSpawn, Spawn,
                SocketMade, SocketFailed
  <1>3. CASE AppStopHeartbeat \/ AppDestroy
    BY <1>3 DEF AppStopHeartbeat, AppDestroy, AppJoinHeartbeat, AppStopRecv, AppJoinRecv,
                AppClose, JoinRecv
  <1>4. CASE Ticking
    BY <1>4 DEF Ticking, HbTest, HbSleep, HbBeat, HbTimeout, HbClose, HbStamp, Ask, Send
  <1>5. CASE HbSocket \/ HbConnect \/ HbSpawn \/ HbJoin
    BY <1>5 DEF HbSocket, HbConnect, HbSpawn, HbJoin, Spawn, JoinRecv, SocketMade, SocketFailed
  <1>6. CASE \E t \in Sock : Receive(t)
    <2>1. PICK t \in Sock : Receive(t)
      BY <1>6
    <2>2. m_bIsRecvHead' \in BOOLEAN
      <3>1. CASE RecvPiece(t)
        BY <3>1, PieceTaken, TakeKeeps
      <3>2. CASE ~RecvPiece(t)
        BY <2>1, <3>2 DEF Receive, RecvTest, RecvCall, RecvEnd, Leave
      <3> QED
        BY <3>1, <3>2
    <2> QED
      BY <2>1, <2>2, ReceiveKeeps
  <1>7. CASE AppSend
    BY <1>7 DEF AppSend, Send
  <1> QED
    BY <1>1, <1>2, <1>3, <1>4, <1>5, <1>6, <1>7 DEF Next, Heartbeat, Ticking

\* A step of a receive thread keeps the types of the threads' state.
LEMMA ReceiveClientType ==
  ASSUME ClientInv, NEW t \in Sock, Receive(t) PROVE ClientTypeOK'
  <1>1. ClientTypeOK /\ t \in Live /\ m_nSocket = t
    BY ReceiveKeeps DEF ClientInv, TypeOK, ReceiverInv
  <1> USE <1>1 DEF ClientTypeOK, parse
  <1>2. rpc' \in [Sock -> {"none", "test", "call", "recv", "ended"}]
    BY DEF Receive, RecvTest, RecvCall, RecvPiece, RecvEnd, Leave
  <1>3. reading' \in [Sock -> 0 .. MaxSock]
    <2>1. m_nSocket \in 0 .. MaxSock
      BY <1>1, ClientAssumption DEF Sock
    <2>2. reading' \in {reading, [reading EXCEPT ![t] = m_nSocket]}
      BY DEF Receive, RecvTest, RecvCall, RecvPiece, RecvEnd, Leave
    <2> QED
      BY <2>1, <2>2
  <1>4. broken' \subseteq Sock
    BY DEF Receive, RecvTest, RecvCall, RecvPiece, RecvEnd, Leave
  <1>5. age' \in 0 .. Timeout
    BY ReceiveKeeps, ClientAssumption
  <1> QED
    BY <1>2, <1>3, <1>4, <1>5, ReceiveKeeps DEF modes, flags, link

\* So does one of the application's thread, or of the heartbeat thread.
LEMMA ClientTypeStep ==
  ASSUME ClientInv, App \/ Heartbeat PROVE ClientTypeOK'
  <1> USE ClientAssumption DEF ClientInv, TypeOK, ClientTypeOK, Sock
  <1> USE DEF parse, threads, link
  <1>1. CASE AppStartHeartbeat
    BY <1>1 DEF AppStartHeartbeat
  <1>2. CASE AppSocket
    BY <1>2 DEF AppSocket, SocketMade, SocketFailed
  <1>3. CASE HbSocket
    BY <1>3 DEF HbSocket, SocketMade, SocketFailed
  <1>4. CASE AppConnect
    BY <1>4 DEF AppConnect, Connected, CloseSocket
  <1>5. CASE HbConnect
    BY <1>5 DEF HbConnect, Connected
  <1>6. CASE AppSpawn \/ HbSpawn
    <2>1. m_nSocket \in Sock /\ Spawn
      BY <1>6 DEF AppSpawn, HbSpawn, SocketInv, Preparing
    <2>2. rpc' \in [Sock -> {"none", "test", "call", "recv", "ended"}]
      BY <2>1 DEF Spawn
    <2>3. m_tRecvThread' \in 0 .. MaxSock /\ UNCHANGED <<reading, joined>>
      BY <2>1 DEF Spawn
    <2> QED
      BY <1>6, <2>2, <2>3 DEF AppSpawn, HbSpawn
  <1>7. CASE AppStopHeartbeat \/ AppJoinHeartbeat \/ AppStopRecv
    BY <1>7 DEF AppStopHeartbeat, AppJoinHeartbeat, AppStopRecv
  <1>8. CASE AppClose \/ AppSend
    BY <1>8 DEF AppClose, AppSend, CloseSocket
  <1>9. CASE AppJoinRecv \/ HbJoin
    <2>1. joined' \subseteq Sock
      <3>1. joined' = joined \/ (m_tRecvThread # 0 /\ joined' = joined \cup {m_tRecvThread})
        BY <1>9 DEF AppJoinRecv, HbJoin, JoinRecv, Joinable
      <3>2. m_tRecvThread # 0 => m_tRecvThread \in Sock
        OBVIOUS
      <3> QED
        BY <3>1, <3>2
    <2>2. apc' \in {apc, "close", "crashed"} /\ hpc' \in {hpc, "test", "crashed"}
      BY <1>9 DEF AppJoinRecv, HbJoin
    <2> QED
      BY <1>9, <2>1, <2>2 DEF AppJoinRecv, HbJoin
  <1>10. CASE Ticking
    <2>1. age' \in 0 .. Timeout
      BY <1>10 DEF Ticking, HbTest, HbSleep, HbBeat, HbTimeout, HbClose, HbStamp, AgeInv
    <2>2. UNCHANGED <<threads, broken, m_nSocket, apc>>
      BY <1>10 DEF Ticking, HbTest, HbSleep, HbBeat, HbTimeout, HbClose, HbStamp, CloseSocket
    <2>3. m_nLinkStatus' \in {m_nLinkStatus, "DISCONNECT"}
      BY <1>10 DEF Ticking, HbTest, HbSleep, HbBeat, HbTimeout, HbClose, HbStamp, CloseSocket
    <2>4. hpc' \in {"sleep", "ended", "wake", "test", "close", "join"}
      BY <1>10 DEF Ticking, HbTest, HbSleep, HbBeat, HbTimeout, HbClose, HbStamp
    <2> QED
      BY <2>1, <2>2, <2>3, <2>4
  <1> QED
    BY <1>1, <1>2, <1>3, <1>4, <1>5, <1>6, <1>7, <1>8, <1>9, <1>10
    DEF App, AppCreate, AppDestroy, Heartbeat, Ticking

\* Every step keeps the types of the connections.
LEMMA PeerTypeStep ==
  ASSUME ClientInv, Next PROVE PeerTypeOK'
  <1> USE ClientAssumption DEF ClientInv, TypeOK, PeerTypeOK, peers, link
  <1>1. CASE Peers
    <2>1. PICK s \in Sock : PeerReply(s) \/ PeerSend(s) \/ PeerEnds(s)
      BY <1>1 DEF Peers
    <2>2. CASE PeerReply(s)
      BY <2>2 DEF PeerReply
    <2>3. CASE PeerSend(s)
      BY <2>3 DEF PeerSend
    <2>4. CASE PeerEnds(s)
      BY <2>4 DEF PeerEnds
    <2> QED
      BY <2>1, <2>2, <2>3, <2>4
  <1>2. CASE AppCreate
    BY <1>2 DEF AppCreate, AppStartHeartbeat, AppSocket, AppConnect, AppSpawn,
                SocketMade, SocketFailed, Connected, CloseSocket
  <1>3. CASE AppStopHeartbeat \/ AppDestroy
    BY <1>3 DEF AppStopHeartbeat, AppDestroy, AppJoinHeartbeat, AppStopRecv, AppJoinRecv,
                AppClose, CloseSocket
  <1>4. CASE Ticking
    <2>1. CASE HbBeat \/ HbStamp
      <3>1. UNCHANGED link /\ Ask
        BY <2>1 DEF HbBeat, HbStamp
      <3> QED
        BY <3>1 DEF Ask, Send, FlagTypeOK
    <2>2. CASE HbTest \/ HbSleep \/ HbTimeout \/ HbClose
      BY <2>2 DEF HbTest, HbSleep, HbTimeout, HbClose, CloseSocket
    <2> QED
      BY <1>4, <2>1, <2>2 DEF Ticking
  <1>5. CASE HbSocket \/ HbConnect \/ HbSpawn \/ HbJoin
    BY <1>5 DEF HbSocket, HbConnect, HbSpawn, HbJoin, SocketMade, SocketFailed, Connected
  <1>6. CASE \E t \in Sock : Receive(t)
    <2>1. PICK t \in Sock : Receive(t)
      BY <1>6
    <2>2. UNCHANGED <<peer, nsent, sock>> /\ asked' \in [Sock -> BOOLEAN]
      BY <2>1 DEF Receive, RecvTest, RecvCall, RecvPiece, RecvEnd, Leave
    <2> QED
      BY <2>2
  <1>7. CASE AppSend
    BY <1>7 DEF AppSend, Send
  <1> QED
    BY <1>1, <1>2, <1>3, <1>4, <1>5, <1>6, <1>7 DEF Next, Heartbeat, Ticking

\* The stream stays a sequence of units wherever it is cut, read or dropped.
LEMMA StreamTypeStep ==
  ASSUME ClientInv, Next PROVE StreamTypeOK'
  <1> USE DEF ClientInv, TypeOK, StreamTypeOK, peers, parse, cache
  <1>1. CASE Peers
    <2>1. PICK s \in Sock : PeerReply(s) \/ PeerSend(s) \/ PeerEnds(s)
      BY <1>1 DEF Peers
    <2>2. wire[s] \in Seq(Unit) /\ UNCHANGED parse
      BY <1>1, PeersKeep
    <2>3. wire' \in [Sock -> Seq(Unit)]
      <3>1. CASE PeerReply(s)
        <4>1. wire[s] \o Item(s, "hb") \in Seq(Unit)
          BY <2>2, ItemFacts, ConcatProperties
        <4> QED
          BY <3>1, <4>1 DEF PeerReply
      <3>2. CASE PeerSend(s)
        <4>1. wire[s] \o Item(s, "head") \in Seq(Unit)
          BY <2>2, ItemFacts, ConcatProperties
        <4>2. (wire[s] \o Item(s, "head")) \o Item(s, "body") \in Seq(Unit)
          BY <4>1, ItemFacts, ConcatProperties
        <4> QED
          BY <3>2, <4>2 DEF PeerSend
      <3>3. CASE PeerEnds(s)
        <4>1. PICK n \in 0 .. Len(wire[s]) : wire' = [wire EXCEPT ![s] = SubSeq(@, 1, n)]
          BY <3>3 DEF PeerEnds
        <4>2. SubSeq(wire[s], 1, n) \in Seq(Unit)
          BY <2>2, CutInTwo
        <4> QED
          BY <4>1, <4>2
      <3> QED
        BY <2>1, <3>1, <3>2, <3>3
    <2> QED
      BY <2>2, <2>3
  <1>2. CASE App
    BY <1>2 DEF App, AppCreate, AppStartHeartbeat, AppSocket, AppConnect, AppSpawn, AppSend,
                SocketMade, SocketFailed, AppStopHeartbeat, AppDestroy, AppJoinHeartbeat,
                AppStopRecv, AppJoinRecv, AppClose
  <1>3. CASE Heartbeat
    BY <1>3 DEF Heartbeat, HbTest, HbSleep, HbSocket, HbConnect, HbSpawn, HbStamp, HbBeat,
                HbTimeout, HbClose, HbJoin, Ask, SocketMade, SocketFailed
  <1>4. CASE \E t \in Sock : Receive(t)
    <2>1. PICK t \in Sock : Receive(t)
      BY <1>4
    <2>2. CASE RecvTest(t) \/ RecvCall(t) \/ RecvEnd(t)
      <3>1. wire' \in {wire, [wire EXCEPT ![t] = <<>>]} /\ UNCHANGED <<cache, delivered>>
        BY <2>2 DEF RecvTest, RecvCall, RecvEnd, Leave
      <3>2. <<>> \in Seq(Unit)
        OBVIOUS
      <3> QED
        BY <3>1, <3>2
    <2>3. CASE RecvPiece(t)
      <3>1. PICK n \in 1 .. Len(wire[t]) :
              /\ wire' = [wire EXCEPT ![t] = SubSeq(@, n + 1, Len(@))]
              /\ Take(SubSeq(wire[t], 1, n))
              /\ SubSeq(wire[t], 1, n) \in Seq(Unit)
              /\ SubSeq(wire[t], n + 1, Len(wire[t])) \in Seq(Unit)
        BY <2>3, PieceTaken
      <3>2. m_bIsRecvHead \in BOOLEAN
        BY DEF FlagTypeOK
      <3>3. wire' \in [Sock -> Seq(Unit)]
        BY <3>1
      <3> QED
        BY <3>1, <3>2, <3>3, TakeKeeps
    <2> QED
      BY <2>1, <2>2, <2>3 DEF Receive
  <1> QED
    BY <1>1, <1>2, <1>3, <1>4 DEF Next, App

-----------------------------------------------------------------------------
(* The invariant, over the steps of peers and receive threads. *)

\* A peer's step disturbs nothing the client relies on.
LEMMA PeersStep ==
  ASSUME ClientInv, Peers
  PROVE  /\ ThreadInv' /\ SocketInv' /\ ReceiverInv' /\ QuietInv' /\ JoinInv'
         /\ AgeInv' /\ CacheInv' /\ JoinsStarted'
  <1>1. /\ UNCHANGED <<m_bIsHaveHB, m_bRecvFlag, m_nLinkStatus, m_nSocket, sock>>
        /\ UNCHANGED <<m_tRecvThread, rpc, reading, joined, noThread, age, apc, hpc, fault>>
    BY PeersKeep DEF modes, flags, threads, link
  <1>2. CacheInv'
    BY PeersKeep DEF modes, parse, cache, ClientInv, CacheInv, Missing
  <1> QED
    BY <1>1, <1>2 DEF ClientInv, ThreadInv, SocketInv, ReceiverInv, QuietInv, JoinInv, AgeInv,
                JoinsStarted, Preparing, Live, Joinable, Serving

\* The parser asks for what a head or a body still lacks, also when it has read a
\* head or a body, or a part of one.
LEMMA CacheStep ==
  ASSUME ClientInv, NEW t \in Sock, Receive(t) PROVE CacheInv'
  <1> USE DEF ClientInv, CacheInv, Missing
  <1>1. m_bIsHaveHead' = m_bIsHaveHead /\ Size \in Nat \ {0} /\ Len(<<>>) = 0
    BY ReceiveKeeps, ClientAssumption, EmptySeq DEF modes
  <1>2. ASSUME UNCHANGED cache PROVE CacheInv'
    BY <1>1, <1>2 DEF cache
  <1>3. CASE RecvPiece(t)
    <2>1. PICK n \in 1 .. Len(wire[t]) :
            Take(SubSeq(wire[t], 1, n)) /\ SubSeq(wire[t], 1, n) \in Seq(Unit)
      BY <1>3, PieceTaken
    <2> DEFINE piece == SubSeq(wire[t], 1, n)
               q     == m_RecvBufs \o piece
    <2>2. /\ m_RecvBufs \in Seq(Unit) /\ q \in Seq(Unit) /\ Len(m_RecvBufs) \in Nat
          /\ Len(q) = Len(m_RecvBufs) + Len(piece) /\ Len(piece) \in Nat
          /\ m_nNeedRecvDataLen \in Nat /\ m_nMsgType \in {"none", "hb", "data"}
      BY <2>1, ConcatProperties DEF TypeOK, StreamTypeOK
    <2> HIDE DEF piece, q
    <2>3. Take(piece)
      BY <2>1 DEF piece
    <2>4. CASE /\ m_bIsHaveHead /\ Len(piece) < Missing /\ m_RecvBufs' = q
               /\ UNCHANGED <<m_bIsRecvHead, m_nMsgType, m_nNeedRecvDataLen>>
      BY <1>1, <2>2, <2>4
    <2>5. CASE m_bIsHaveHead /\ m_RecvBufs' = <<>> /\ m_bIsRecvHead /\ TakeBody(q)
      <3>1. Len(m_RecvBufs') = 0
        BY <1>1, <2>5, Zenon
      <3>2. ~m_bIsRecvHead' /\ m_nMsgType' = "none"
        <4>1. m_bIsRecvHead' = (0 > 0) /\ m_nMsgType' = IF 0 > 0 THEN "none" ELSE "none"
          BY <2>5, Zenon DEF TakeBody, Await
        <4>2. ~(0 > 0)
          OBVIOUS
        <4> QED
          BY <4>1, <4>2, Zenon
      <3>3. Missing' > 0
        BY <1>1, <3>1, <3>2
      <3> QED
        BY <1>1, <2>5, <3>2, <3>3
    <2>6. CASE m_bIsHaveHead /\ m_RecvBufs' = <<>> /\ TakeHead(q)
      <3>1. PICK head \in Readings(q) : Await(head.type, head.len)
        BY <2>6 DEF TakeHead
      <3>2. head.len \in Nat /\ (head.len > 0 => head.type # "none")
        BY <1>1, ClientAssumption DEF Readings
      <3>3. Len(m_RecvBufs') = 0
        BY <1>1, <2>6, Zenon
      <3>4. CASE head.len > 0
        <4>1. m_bIsRecvHead' /\ m_nMsgType' # "none" /\ m_nNeedRecvDataLen' = head.len
          BY <3>1, <3>2, <3>4 DEF Await
        <4>2. Missing' > 0
          <5>1. Missing' = m_nNeedRecvDataLen' - Len(m_RecvBufs')
            BY <4>1, Zenon
          <5>2. head.len - 0 > 0
            BY <3>2, <3>4
          <5> QED
            BY <3>3, <4>1, <5>1, <5>2, Zenon
        <4> QED
          BY <1>1, <2>6, <4>1, <4>2
      <3>5. CASE ~(head.len > 0)
        <4>1. ~m_bIsRecvHead' /\ m_nMsgType' = "none"
          BY <3>1, <3>5 DEF Await
        <4>2. Missing' > 0
          BY <1>1, <3>3, <4>1
        <4> QED
          BY <1>1, <2>6, <4>1, <4>2
      <3> QED
        BY <3>4, <3>5
    <2> QED
      BY <1>2, <2>3, <2>4, <2>5, <2>6 DEF Take, q
  <1>4. CASE ~RecvPiece(t)
    BY <1>2, <1>4 DEF Receive, RecvTest, RecvCall, RecvEnd, Leave, parse
  <1> QED
    BY <1>3, <1>4

\* Nor does a step of a receive thread, whose thread only can end.
LEMMA ReceiveStep ==
  ASSUME ClientInv, NEW t \in Sock, Receive(t)
  PROVE  /\ ThreadInv' /\ SocketInv' /\ ReceiverInv' /\ QuietInv' /\ JoinInv'
         /\ AgeInv' /\ CacheInv' /\ JoinsStarted'
  <1>1. /\ UNCHANGED <<m_bIsHaveHB, m_bRecvFlag, m_nLinkStatus, m_nSocket, sock>>
        /\ UNCHANGED <<m_tRecvThread, joined, noThread, apc, hpc, fault>>
        /\ t \in Live /\ Live' \subseteq Live
        /\ \A s \in Sock : s # t => rpc'[s] = rpc[s] /\ reading'[s] = reading[s]
        /\ rpc'[t] = "recv" => reading'[t] = m_nSocket
        /\ age' \in {age, 0}
    BY ReceiveKeeps DEF ClientInv, TypeOK, modes, flags, link
  <1>2. t = m_nSocket
    BY <1>1 DEF ClientInv, ReceiverInv
  <1> USE DEF ClientInv
  <1>3. ThreadInv'
    BY <1>1 DEF ThreadInv, Preparing
  <1>4. SocketInv'
    <2>1. rpc[t] \notin {"none", "ended"}
      BY <1>1 DEF Live
    <2> QED
      BY <1>1, <1>2, <2>1 DEF SocketInv, Preparing, TypeOK, ClientTypeOK
  <1>5. ReceiverInv'
    BY <1>1, <1>2 DEF ReceiverInv, Live
  <1>6. QuietInv'
    BY <1>1 DEF QuietInv
  <1>7. JoinInv'
    BY <1>1 DEF JoinInv, Joinable, Serving
  <1>8. AgeInv'
    BY <1>1, ClientAssumption DEF AgeInv
  <1>9. JoinsStarted'
    BY <1>1 DEF JoinsStarted
  <1>10. CacheInv'
    BY CacheStep
  <1> QED
    BY <1>3, <1>4, <1>5, <1>6, <1>7, <1>8, <1>9, <1>10

-----------------------------------------------------------------------------
(* The invariant, over the steps of the application's and the heartbeat       *)
(* thread, one conjunct at a time.                                           *)

\* Only the heartbeat thread connects in one mode, only CreateClient in the other.
LEMMA ThreadStep ==
  ASSUME ClientInv, App \/ Heartbeat PROVE ThreadInv'
  <1> USE DEF ClientInv, TypeOK, FlagTypeOK, ClientTypeOK, ThreadInv, Preparing, modes
  <1> USE DEF threads, link, Live
  <1>1. CASE AppStartHeartbeat
    BY <1>1 DEF AppStartHeartbeat
  <1>2. CASE AppSocket
    BY <1>2 DEF AppSocket, SocketMade, SocketFailed
  <1>3. CASE AppConnect
    BY <1>3 DEF AppConnect, Connected, CloseSocket, QuietInv
  <1>4. CASE AppSpawn
    BY <1>4 DEF AppSpawn, Spawn
  <1>5. CASE AppStopHeartbeat \/ AppSend
    BY <1>5 DEF AppStopHeartbeat, AppSend
  <1>6. CASE AppDestroy
    BY <1>6 DEF AppDestroy, AppJoinHeartbeat, AppStopRecv, AppJoinRecv, AppClose, CloseSocket
  <1>7. CASE Ticking
    BY <1>7 DEF Ticking, HbTest, HbSleep, HbBeat, HbTimeout, HbClose, HbStamp, CloseSocket
  <1>8. CASE HbSocket
    BY <1>8 DEF HbSocket, SocketMade, SocketFailed
  <1>9. CASE HbConnect
    BY <1>9 DEF HbConnect, Connected, QuietInv
  <1>10. CASE HbSpawn
    BY <1>10 DEF HbSpawn, Spawn
  <1>11. CASE HbJoin
    BY <1>11 DEF HbJoin
  <1> QED
    BY <1>1, <1>2, <1>3, <1>4, <1>5, <1>6, <1>7, <1>8, <1>9, <1>10, <1>11
    DEF App, AppCreate, Heartbeat, Ticking

\* A socket is connected once, and closed before the next is made.
LEMMA SocketStep ==
  ASSUME ClientInv, App \/ Heartbeat PROVE SocketInv'
  <1> USE DEF ClientInv, TypeOK, ClientTypeOK, PeerTypeOK, ThreadInv, SocketInv, Preparing
  <1> USE DEF threads, link
  <1>1. CASE AppStartHeartbeat
    BY <1>1 DEF AppStartHeartbeat
  <1>2. CASE AppSocket
    BY <1>2 DEF AppSocket, SocketMade, SocketFailed
  <1>3. CASE AppConnect
    BY <1>3 DEF AppConnect, Connected, CloseSocket
  <1>4. CASE AppSpawn \/ HbSpawn
    <2>1. /\ UNCHANGED <<link, joined>>
          /\ rpc' \in {rpc, [rpc EXCEPT ![m_nSocket] = "test"]}
          /\ m_nSocket \in Sock /\ sock[m_nSocket] # "none" /\ rpc[m_nSocket] = "none"
          /\ ~Preparing("connect")' /\ ~Preparing("spawn")'
      BY <1>4 DEF AppSpawn, HbSpawn, Spawn
    <2>2. (apc' # "gone" /\ (hpc = "close" => hpc' = "close")) \/ UNCHANGED apc
      BY <1>4 DEF AppSpawn, HbSpawn
    <2> QED
      BY <1>4, <2>1, <2>2 DEF AppSpawn, HbSpawn
  <1>5. CASE AppStopHeartbeat \/ AppJoinHeartbeat \/ AppStopRecv \/ AppSend
    BY <1>5 DEF AppStopHeartbeat, AppJoinHeartbeat, AppStopRecv, AppSend
  <1>6. CASE AppJoinRecv \/ HbJoin
    <2>1. UNCHANGED <<link, rpc>> /\ \A t \in joined' : rpc[t] = "ended"
      BY <1>6 DEF AppJoinRecv, HbJoin, JoinRecv, Joinable
    <2> QED
      BY <1>6, <2>1 DEF AppJoinRecv, HbJoin
  <1>7. CASE AppClose
    BY <1>7 DEF AppClose, CloseSocket
  <1>8. CASE HbClose
    BY <1>8 DEF HbClose, CloseSocket
  <1>9. CASE HbTest \/ HbSleep \/ HbBeat \/ HbTimeout \/ HbStamp
    BY <1>9 DEF HbTest, HbSleep, HbBeat, HbTimeout, HbStamp
  <1>10. CASE HbSocket
    BY <1>10 DEF HbSocket, SocketMade, SocketFailed
  <1>11. CASE HbConnect
    BY <1>11 DEF HbConnect, Connected
  <1> QED
    BY <1>1, <1>2, <1>3, <1>4, <1>5, <1>6, <1>7, <1>8, <1>9, <1>10, <1>11
    DEF App, AppCreate, AppDestroy, Heartbeat

\* The new receive thread is the only one, and is the one m_tRecvThread names.
LEMMA ReceiverStep ==
  ASSUME ClientInv, App \/ Heartbeat PROVE ReceiverInv'
  <1> USE DEF ClientInv, TypeOK, ClientTypeOK, ReceiverInv, Live, threads, link
  <1>1. CASE AppStartHeartbeat
    BY <1>1 DEF AppStartHeartbeat
  <1>2. CASE AppSocket \/ HbSocket
    <2>1. Live = {}
      BY <1>2 DEF AppSocket, HbSocket, QuietInv, ThreadInv
    <2> QED
      BY <1>2, <2>1 DEF AppSocket, HbSocket
  <1>3. CASE AppConnect \/ HbConnect
    BY <1>3 DEF AppConnect, HbConnect, Connected, CloseSocket
  <1>4. CASE AppSpawn \/ HbSpawn
    <2>1. Live = {} /\ Spawn /\ m_nSocket' = m_nSocket /\ m_nSocket \in Sock
      BY <1>4 DEF AppSpawn, HbSpawn, ThreadInv, SocketInv, Preparing
    <2> QED
      BY <2>1 DEF Spawn
  <1>5. CASE AppStopHeartbeat \/ AppSend
    BY <1>5 DEF AppStopHeartbeat, AppSend
  <1>6. CASE AppDestroy
    BY <1>6 DEF AppDestroy, AppJoinHeartbeat, AppStopRecv, AppJoinRecv, AppClose, CloseSocket
  <1>7. CASE Ticking
    BY <1>7 DEF Ticking, HbTest, HbSleep, HbBeat, HbTimeout, HbClose, HbStamp, CloseSocket
  <1>8. CASE HbJoin
    BY <1>8 DEF HbJoin
  <1> QED
    BY <1>1, <1>2, <1>3, <1>4, <1>5, <1>6, <1>7, <1>8 DEF App, AppCreate, Heartbeat, Ticking

\* After pthread_join, whether it was defined or not, no receive thread lives.
LEMMA NoneAfterJoin ==
  ASSUME ClientInv, JoinRecv PROVE Live = {}
  BY DEF ClientInv, JoinRecv, Joinable, ReceiverInv, SocketInv, Live, Sock

\* A receive thread lives while the connection does, its flag is up, or a join is
\* due.
LEMMA QuietStep ==
  ASSUME ClientInv, App \/ Heartbeat PROVE QuietInv'
  <1> USE DEF ClientInv, TypeOK, ClientTypeOK, QuietInv, ThreadInv, threads, flags, link, Live
  <1>1. CASE AppStartHeartbeat
    BY <1>1 DEF AppStartHeartbeat
  <1>2. CASE AppSocket
    BY <1>2 DEF AppSocket, SocketMade, SocketFailed
  <1>3. CASE AppConnect
    BY <1>3 DEF AppConnect, Connected, CloseSocket
  <1>4. CASE AppSpawn \/ HbSpawn
    <2>1. m_nLinkStatus' = "CONNECT" /\ m_bRecvFlag' = TRUE /\ apc' \notin {"close", "gone"}
      BY <1>4 DEF AppSpawn, HbSpawn, Spawn, Preparing
    <2> QED
      BY <2>1
  <1>5. CASE AppStopHeartbeat \/ AppJoinHeartbeat \/ AppSend
    BY <1>5 DEF AppStopHeartbeat, AppJoinHeartbeat, AppSend
  <1>6. CASE AppStopRecv
    BY <1>6 DEF AppStopRecv
  <1>7. CASE AppJoinRecv \/ HbJoin
    <2>1. Live' = {}
      BY <1>7, NoneAfterJoin DEF AppJoinRecv, HbJoin
    <2> QED
      BY <2>1
  <1>8. CASE AppClose
    BY <1>8 DEF AppClose, CloseSocket
  <1>9. CASE Ticking
    BY <1>9 DEF Ticking, HbTest, HbSleep, HbBeat, HbTimeout, HbClose, HbStamp, CloseSocket
  <1>10. CASE HbSocket
    BY <1>10 DEF HbSocket, SocketMade, SocketFailed
  <1>11. CASE HbConnect
    BY <1>11 DEF HbConnect, Connected
  <1> QED
    BY <1>1, <1>2, <1>3, <1>4, <1>5, <1>6, <1>7, <1>8, <1>9, <1>10, <1>11
    DEF App, AppCreate, AppDestroy, Heartbeat, Ticking

\* A thread just made has not been joined, unless it could not be made.
LEMMA JoinableAfterSpawn ==
  ASSUME ClientInv, AppSpawn \/ HbSpawn PROVE Joinable' \/ noThread'
  <1>1. m_nSocket \in Sock /\ m_nSocket \notin joined
    BY DEF AppSpawn, HbSpawn, ClientInv, SocketInv, Preparing
  <1> QED
    BY <1>1 DEF AppSpawn, HbSpawn, Spawn, Joinable, Sock

\* The flag tells DestroyClient whether the heartbeat thread has joined already.
LEMMA JoinStep ==
  ASSUME ClientInv, App \/ Heartbeat PROVE JoinInv'
  <1> USE DEF ClientInv, TypeOK, FlagTypeOK, ClientTypeOK, JoinInv, Joinable, Serving
  <1> USE DEF ThreadInv, modes, threads, flags, link
  <1>1. CASE AppStartHeartbeat
    BY <1>1 DEF AppStartHeartbeat
  <1>2. CASE AppSocket
    BY <1>2 DEF AppSocket
  <1>3. CASE AppConnect
    BY <1>3 DEF AppConnect
  <1>4. CASE AppSpawn \/ HbSpawn
    <2>1. hpc' # "join" /\ apc' # "joinRecv"
      BY <1>4 DEF AppSpawn, HbSpawn
    <2>2. m_bIsHaveHB' /\ fault' => noThread'
      BY <1>4 DEF AppSpawn, HbSpawn, Spawn
    <2> QED
      BY <1>4, <2>1, <2>2, JoinableAfterSpawn
  <1>5. CASE AppStopHeartbeat \/ AppJoinHeartbeat \/ AppSend
    BY <1>5 DEF AppStopHeartbeat, AppJoinHeartbeat, AppSend
  <1>6. CASE AppStopRecv
    BY <1>6 DEF AppStopRecv
  <1>7. CASE AppJoinRecv
    BY <1>7 DEF AppJoinRecv, JoinRecv
  <1>8. CASE AppClose
    BY <1>8 DEF AppClose, CloseSocket
  <1>9. CASE Ticking
    BY <1>9 DEF Ticking, HbTest, HbSleep, HbBeat, HbTimeout, HbClose, HbStamp, CloseSocket
  <1>10. CASE HbSocket
    BY <1>10 DEF HbSocket, SocketMade, SocketFailed
  <1>11. CASE HbConnect
    BY <1>11 DEF HbConnect
  <1>12. CASE HbJoin
    BY <1>12 DEF HbJoin, JoinRecv
  <1> QED
    BY <1>1, <1>2, <1>3, <1>4, <1>5, <1>6, <1>7, <1>8, <1>9, <1>10, <1>11, <1>12
    DEF App, AppCreate, AppDestroy, Heartbeat, Ticking

\* The heartbeat thread sleeps on a connection only if it has found it young.
LEMMA AgeStep ==
  ASSUME ClientInv, App \/ Heartbeat PROVE AgeInv'
  <1> USE ClientAssumption DEF ClientInv, TypeOK, ClientTypeOK, AgeInv, ThreadInv, link
  <1>1. CASE AppCreate
    BY <1>1 DEF AppCreate, AppStartHeartbeat, AppSocket, AppConnect, AppSpawn,
                SocketMade, SocketFailed
  <1>2. CASE AppSend \/ AppStopHeartbeat \/ AppDestroy
    BY <1>2 DEF AppSend, AppStopHeartbeat, AppDestroy, AppJoinHeartbeat, AppStopRecv, AppJoinRecv,
                AppClose, CloseSocket
  <1>3. CASE Ticking
    BY <1>3 DEF Ticking, HbTest, HbSleep, HbBeat, HbTimeout, HbClose, HbStamp, SessionTimeout
  <1>4. CASE HbSocket \/ HbConnect \/ HbSpawn \/ HbJoin
    BY <1>4 DEF HbSocket, HbConnect, HbSpawn, HbJoin, SocketMade, SocketFailed
  <1> QED
    BY <1>1, <1>2, <1>3, <1>4 DEF App, Heartbeat, Ticking

\* So every join is of a thread that is there.
LEMMA JoinsStartedStep ==
  ASSUME ClientInv, App \/ Heartbeat PROVE JoinsStarted'
  <1> USE DEF ClientInv, TypeOK, FlagTypeOK, JoinsStarted, modes, threads
  <1>1. CASE AppCreate
    BY <1>1 DEF AppCreate, AppStartHeartbeat, AppSocket, AppConnect, AppSpawn, Spawn, ThreadInv
  <1>2. CASE AppJoinHeartbeat
    BY <1>2 DEF AppJoinHeartbeat, ThreadInv
  <1>3. CASE AppJoinRecv
    BY <1>3 DEF AppJoinRecv, JoinRecv, JoinInv
  <1>4. CASE AppStopHeartbeat \/ AppStopRecv \/ AppClose \/ AppSend
    BY <1>4 DEF AppStopHeartbeat, AppStopRecv, AppClose, AppSend
  <1>5. CASE Ticking
    BY <1>5 DEF Ticking, HbTest, HbSleep, HbBeat, HbTimeout, HbClose, HbStamp
  <1>6. CASE HbSocket \/ HbConnect
    BY <1>6 DEF HbSocket, HbConnect
  <1>7. CASE HbSpawn
    <2>1. fault => ~m_bIsHaveHB \/ noThread
      BY <1>7 DEF HbSpawn, JoinInv
    <2>2. noThread => noThread'
      BY <1>7 DEF HbSpawn, Spawn
    <2> QED
      BY <1>7, <2>1, <2>2 DEF HbSpawn
  <1>8. CASE HbJoin
    BY <1>8 DEF HbJoin, JoinRecv, JoinInv, Serving
  <1> QED
    BY <1>1, <1>2, <1>3, <1>4, <1>5, <1>6, <1>7, <1>8 DEF App, AppDestroy, Heartbeat, Ticking

\* The parser is the receive thread's.
LEMMA ThreadsCache ==
  ASSUME ClientInv, App \/ Heartbeat PROVE UNCHANGED parse /\ CacheInv'
  <1>1. UNCHANGED <<modes, parse>>
    BY DEF App, AppCreate, AppStartHeartbeat, AppSocket, AppConnect, AppSpawn, AppSend,
           AppStopHeartbeat, AppDestroy, AppJoinHeartbeat, AppStopRecv, AppJoinRecv, AppClose,
           Heartbeat, HbTest, HbSleep, HbSocket, HbConnect, HbSpawn, HbStamp, HbBeat,
           HbTimeout, HbClose, HbJoin
  <1> QED
    BY <1>1 DEF modes, parse, cache, ClientInv, CacheInv, Missing

-----------------------------------------------------------------------------
(* The theorems. *)

\* Nothing changes: the invariant stays.
LEMMA StutterStep ==
  ASSUME ClientInv, UNCHANGED vars PROVE ClientInv'
  <1> USE DEF vars, modes, flags, parse, cache, threads, peers, link, Live
  <1>1. TypeOK'
    BY DEF ClientInv, TypeOK, FlagTypeOK, ClientTypeOK, PeerTypeOK, StreamTypeOK
  <1>2. ThreadInv' /\ SocketInv' /\ ReceiverInv' /\ QuietInv'
    BY DEF ClientInv, ThreadInv, SocketInv, ReceiverInv, QuietInv, Preparing
  <1>3. JoinInv' /\ AgeInv' /\ CacheInv' /\ JoinsStarted'
    BY DEF ClientInv, JoinInv, Joinable, Serving, AgeInv, CacheInv, Missing, JoinsStarted
  <1> QED
    BY <1>1, <1>2, <1>3 DEF ClientInv

\* Over any number of reconnects, time-outs and failures, CTcpClient's socket,
\* receive thread and flags belong together (TcpClient_SocketInit,
\* TcpClient_KeepSessionAlive, TcpClient_Recvfrom and TcpClient_SocketUnit).
THEOREM Invariance == Spec => []ClientInv
  <1>1. Init => ClientInv
    <2> SUFFICES ASSUME Init PROVE ClientInv
      OBVIOUS
    <2> USE ClientAssumption DEF Init, Live
    <2>1. FlagTypeOK
      BY DEF FlagTypeOK
    <2>2. ClientTypeOK
      BY DEF ClientTypeOK
    <2>3. PeerTypeOK /\ StreamTypeOK
      BY EmptySeq DEF PeerTypeOK, StreamTypeOK
    <2>4. ThreadInv /\ SocketInv /\ ReceiverInv /\ QuietInv
      BY DEF ThreadInv, SocketInv, ReceiverInv, QuietInv, Preparing
    <2>5. JoinInv /\ AgeInv /\ CacheInv /\ JoinsStarted
      BY EmptySeq DEF JoinInv, Joinable, Serving, AgeInv, CacheInv, Missing, JoinsStarted
    <2> QED
      BY <2>1, <2>2, <2>3, <2>4, <2>5 DEF ClientInv, TypeOK
  <1>2. ClientInv /\ [Next]_vars => ClientInv'
    <2> SUFFICES ASSUME ClientInv, [Next]_vars PROVE ClientInv'
      OBVIOUS
    <2>1. CASE Peers
      <3>1. ClientTypeOK'
        BY <2>1, PeersKeep DEF ClientInv, TypeOK, ClientTypeOK, parse, threads, link
      <3> QED
        BY <2>1, <3>1, PeersStep, FlagTypeStep, PeerTypeStep, StreamTypeStep
        DEF Next, ClientInv, TypeOK
    <2>2. CASE App \/ Heartbeat
      <3>1. TypeOK'
        BY <2>2, ClientTypeStep, FlagTypeStep, PeerTypeStep, StreamTypeStep
        DEF Next, App, TypeOK
      <3> QED
        BY <2>2, <3>1, ThreadStep, SocketStep, ReceiverStep, QuietStep, JoinStep, AgeStep,
           ThreadsCache, JoinsStartedStep
        DEF ClientInv
    <2>3. CASE \E t \in Sock : Receive(t)
      <3>1. TypeOK'
        BY <2>3, ReceiveClientType, FlagTypeStep, PeerTypeStep, StreamTypeStep
        DEF Next, TypeOK
      <3> QED
        BY <2>3, <3>1, ReceiveStep DEF ClientInv
    <2>4. CASE UNCHANGED vars
      BY <2>4, StutterStep
    <2> QED
      BY <2>1, <2>2, <2>3, <2>4 DEF Next, App
  <1> QED
    BY <1>1, <1>2, PTL DEF Spec

\* Every variable keeps its type; no connection gets older than the limit before
\* TcpClient_SessionTimeout looks at it.
THEOREM TypeCorrect == Spec => []TypeOK
  BY Invariance, PTL DEF ClientInv

\* Two receive threads never run at the same time, however often the heartbeat
\* thread reconnects.
THEOREM OneReceiverOnly == Spec => []OneReceiver
  <1>1. ClientInv => OneReceiver
    <2> SUFFICES ASSUME ClientInv PROVE Cardinality(Live) <= 1
      BY DEF OneReceiver
    <2>1. Live \subseteq {m_tRecvThread}
      BY DEF ClientInv, ReceiverInv
    <2>2. IsFiniteSet({m_tRecvThread}) /\ Cardinality({m_tRecvThread}) = 1
      BY FS_Singleton
    <2>3. Cardinality(Live) <= Cardinality({m_tRecvThread})
      BY <2>1, <2>2, FS_Subset
    <2> QED
      BY <2>2, <2>3
  <1> QED
    BY <1>1, Invariance, PTL

\* With heartbeats and after a first connection, no pthread_join is of a thread
\* that is not there.
THEOREM JoinsAreOfThreads == Spec => []JoinsStarted
  BY Invariance, PTL DEF ClientInv

\* DestroyClient deletes the client only after its threads have ended.
THEOREM DeletedWhenQuiet == Spec => []GoneIsQuiet
  <1>1. ClientInv => GoneIsQuiet
    BY DEF ClientInv, ThreadInv, QuietInv, GoneIsQuiet
  <1> QED
    BY <1>1, Invariance, PTL

\* No connection stays open behind a destroyed client.
THEOREM ConnectionsClosed == Spec => []NoConnectionLeft
  <1>1. ClientInv => NoConnectionLeft
    BY DEF ClientInv, SocketInv, NoConnectionLeft
  <1> QED
    BY <1>1, Invariance, PTL

-----------------------------------------------------------------------------
(* The implementation of ClientEvents. *)

\* What arrives on a connection is its own, and nothing is delivered or kept from
\* one that had no receive thread yet.
HeardInv ==
  /\ \A s \in Sock : \A u \in Units(wire[s]) : u.sock = s
  /\ \A u \in delivered \cup Units(m_RecvBufs) : rpc[u.sock] # "none"

\* An empty piece holds no unit.
LEMMA UnitsEmpty == Units(<<>>) = {}
  BY DEF Units

\* The units of pieces that are cut, and of pieces that are put together.
LEMMA UnitsFacts ==
  ASSUME NEW a \in Seq(Unit)
  PROVE  /\ Units(a) \subseteq Unit
         /\ \A i \in 1 .. Len(a) : a[i] \in Units(a)
         /\ \A b \in Seq(Unit) : Units(a \o b) = Units(a) \cup Units(b)
         /\ \A n \in 0 .. Len(a) : /\ Units(SubSeq(a, 1, n)) \subseteq Units(a)
                                   /\ Units(SubSeq(a, n + 1, Len(a))) \subseteq Units(a)
                                   /\ n > 0 => Units(SubSeq(a, 1, n)) # {}
  <1>1. Units(a) \subseteq Unit /\ \A i \in 1 .. Len(a) : a[i] \in Units(a)
    BY DEF Units
  <1>2. ASSUME NEW b \in Seq(Unit) PROVE Units(a \o b) = Units(a) \cup Units(b)
    <2> DEFINE c == a \o b
    <2>1. /\ Len(c) = Len(a) + Len(b) /\ Len(a) \in Nat /\ Len(b) \in Nat
          /\ \A i \in 1 .. Len(a) : c[i] = a[i]
          /\ \A i \in 1 .. Len(b) : c[Len(a) + i] = b[i]
      BY ConcatProperties
    <2> HIDE DEF c
    <2>2. \A i \in 1 .. Len(c) : c[i] \in Units(a) \cup Units(b)
      <3> SUFFICES ASSUME NEW i \in 1 .. Len(c) PROVE c[i] \in Units(a) \cup Units(b)
        OBVIOUS
      <3>1. CASE i \in 1 .. Len(a)
        BY <2>1, <3>1 DEF Units
      <3>2. CASE i \notin 1 .. Len(a)
        <4>1. i - Len(a) \in 1 .. Len(b) /\ i = Len(a) + (i - Len(a))
          BY <2>1, <3>2
        <4>2. c[i] = b[i - Len(a)]
          BY <2>1, <4>1
        <4> QED
          BY <4>1, <4>2 DEF Units
      <3> QED
        BY <3>1, <3>2
    <2>3. \A i \in 1 .. Len(a) : a[i] \in Units(c)
      BY <2>1 DEF Units
    <2>4. \A i \in 1 .. Len(b) : b[i] \in Units(c)
      <3> SUFFICES ASSUME NEW i \in 1 .. Len(b) PROVE b[i] \in Units(c)
        OBVIOUS
      <3>1. Len(a) + i \in 1 .. Len(c) /\ c[Len(a) + i] = b[i]
        BY <2>1
      <3> QED
        BY <3>1 DEF Units
    <2>5. Units(c) = Units(a) \cup Units(b)
      BY <2>2, <2>3, <2>4 DEF Units
    <2> QED
      BY <2>5 DEF c
  <1>3. ASSUME NEW n \in 0 .. Len(a)
        PROVE  /\ Units(SubSeq(a, 1, n)) \subseteq Units(a)
               /\ Units(SubSeq(a, n + 1, Len(a))) \subseteq Units(a)
               /\ n > 0 => Units(SubSeq(a, 1, n)) # {}
    <2> DEFINE x == SubSeq(a, 1, n)
               y == SubSeq(a, n + 1, Len(a))
    <2>1. /\ x \in Seq(Unit) /\ y \in Seq(Unit) /\ Len(a) \in Nat
          /\ Len(x) = n /\ Len(y) = Len(a) - n
          /\ \A i \in 1 .. n : x[i] = a[i]
          /\ \A i \in 1 .. Len(a) - n : y[i] = a[n + i]
      OBVIOUS
    <2> HIDE DEF x, y
    <2>2. Units(x) \subseteq Units(a)
      BY <2>1 DEF Units
    <2>3. Units(y) \subseteq Units(a)
      <3>1. ASSUME NEW i \in 1 .. Len(y) PROVE y[i] \in Units(a)
        <4>1. n + i \in 1 .. Len(a) /\ y[i] = a[n + i]
          BY <2>1
        <4> QED
          BY <4>1 DEF Units
      <3> QED
        BY <3>1 DEF Units
    <2>4. n > 0 => x[1] \in Units(x)
      BY <2>1 DEF Units
    <2> QED
      BY <2>2, <2>3, <2>4 DEF x, y
  <1> QED
    BY <1>1, <1>2, <1>3

\* What is kept and delivered comes from what was kept and what was read.
LEMMA TakeGives ==
  ASSUME StreamTypeOK, NEW piece \in Seq(Unit), Take(piece)
  PROVE  /\ Units(m_RecvBufs') \subseteq Units(m_RecvBufs) \cup Units(piece)
         /\ delivered' \subseteq delivered \cup Units(m_RecvBufs) \cup Units(piece)
  <1>1. /\ m_RecvBufs \in Seq(Unit) /\ Units(<<>>) = {}
        /\ Units(m_RecvBufs \o piece) = Units(m_RecvBufs) \cup Units(piece)
    BY UnitsFacts, UnitsEmpty DEF StreamTypeOK
  <1>2. m_RecvBufs' \in {m_RecvBufs, m_RecvBufs \o piece, <<>>}
    BY DEF Take, cache
  <1>3. \/ delivered' = delivered
        \/ delivered' = delivered \cup Units(piece)
        \/ delivered' = delivered \cup Units(m_RecvBufs \o piece)
    BY DEF Take, Deliver, TakeHead, TakeBody, UseBody
  <1> QED
    BY <1>1, <1>2, <1>3

\* Every step leaves a connection what is its own.
LEMMA HeardStep ==
  ASSUME ClientInv, HeardInv, Next PROVE HeardInv'
  <1> USE DEF ClientInv, TypeOK, StreamTypeOK, peers, parse, cache, threads
  <1>1. \A u \in delivered \cup Units(m_RecvBufs) : u \in Unit /\ u.sock \in Sock
    <2>1. Units(m_RecvBufs) \subseteq Unit
      BY UnitsFacts
    <2> QED
      BY <2>1 DEF Unit
  <1>2. CASE Peers
    <2>1. PICK s \in Sock : PeerReply(s) \/ PeerSend(s) \/ PeerEnds(s)
      BY <1>2 DEF Peers
    <2>2. /\ wire[s] \in Seq(Unit) /\ wire \in [Sock -> Seq(Unit)]
          /\ \A k \in {"hb", "head", "body"} : Item(s, k) \in Seq(Unit)
          /\ \A k \in {"hb", "head", "body"} : \A u \in Units(Item(s, k)) : u.sock = s
      <3>1. \A k \in {"hb", "head", "body"} : Item(s, k) \in Seq(Unit)
        BY ItemFacts
      <3>2. ASSUME NEW k \in {"hb", "head", "body"}, NEW u \in Units(Item(s, k))
            PROVE  u.sock = s
        <4>1. PICK i \in 1 .. Len(Item(s, k)) : u = Item(s, k)[i]
          BY <3>2 DEF Units
        <4>2. u = [sock |-> s, kind |-> k, part |-> i]
          BY <4>1, ItemFacts
        <4> QED
          BY <4>2
      <3> QED
        BY <3>1, <3>2
    <2>3. \A u \in Units(wire'[s]) : u.sock = s
      <3>1. CASE PeerReply(s)
        <4>1. Units(wire'[s]) = Units(wire[s]) \cup Units(Item(s, "hb"))
          BY <2>2, <3>1, UnitsFacts DEF PeerReply
        <4> QED
          BY <2>2, <4>1 DEF HeardInv
      <3>2. CASE PeerSend(s)
        <4>1. wire[s] \o Item(s, "head") \in Seq(Unit)
          BY <2>2, ConcatProperties
        <4>2. Units(wire[s] \o Item(s, "head")) = Units(wire[s]) \cup Units(Item(s, "head"))
          BY <2>2, UnitsFacts
        <4>3. Units((wire[s] \o Item(s, "head")) \o Item(s, "body"))
                = Units(wire[s] \o Item(s, "head")) \cup Units(Item(s, "body"))
          BY <2>2, <4>1, UnitsFacts
        <4>4. wire'[s] = (wire[s] \o Item(s, "head")) \o Item(s, "body")
          BY <2>2, <3>2 DEF PeerSend
        <4> QED
          BY <2>2, <4>2, <4>3, <4>4 DEF HeardInv
      <3>3. CASE PeerEnds(s)
        <4>1. PICK n \in 0 .. Len(wire[s]) : wire' = [wire EXCEPT ![s] = SubSeq(@, 1, n)]
          BY <3>3 DEF PeerEnds
        <4>2. Units(wire'[s]) \subseteq Units(wire[s])
          BY <2>2, <4>1, UnitsFacts
        <4> QED
          BY <4>2 DEF HeardInv
      <3> QED
        BY <2>1, <3>1, <3>2, <3>3
    <2>4. \A r \in Sock : r # s => wire'[r] = wire[r]
      BY <2>1, <2>2 DEF PeerReply, PeerSend, PeerEnds
    <2>5. UNCHANGED <<delivered, m_RecvBufs, rpc>>
      BY <1>2, PeersKeep
    <2> QED
      BY <2>3, <2>4, <2>5 DEF HeardInv
  <1>3. CASE App \/ Heartbeat
    <2>1. UNCHANGED <<wire, delivered, m_RecvBufs>>
      BY <1>3 DEF App, AppCreate, AppStartHeartbeat, AppSocket, AppConnect, AppSpawn, AppSend,
                  AppStopHeartbeat, AppDestroy, AppJoinHeartbeat, AppStopRecv, AppJoinRecv,
                  AppClose, Heartbeat, HbTest, HbSleep, HbSocket, HbConnect, HbSpawn, HbStamp,
                  HbBeat, HbTimeout, HbClose, HbJoin, Ask, SocketMade, SocketFailed
    <2>2. rpc' \in {rpc, [rpc EXCEPT ![m_nSocket] = "test"]}
      BY <1>3 DEF App, AppCreate, AppStartHeartbeat, AppSocket, AppConnect, AppSpawn, Spawn,
                  AppSend, AppStopHeartbeat, AppDestroy, AppJoinHeartbeat, AppStopRecv,
                  AppJoinRecv, AppClose, Heartbeat, HbTest, HbSleep, HbSocket, HbConnect,
                  HbSpawn, HbStamp, HbBeat, HbTimeout, HbClose, HbJoin
    <2> QED
      BY <1>1, <2>1, <2>2 DEF HeardInv, ClientTypeOK
  <1>4. CASE \E t \in Sock : Receive(t)
    <2>1. PICK t \in Sock : Receive(t)
      BY <1>4
    <2>2. rpc[t] # "none" /\ \A s \in Sock : rpc[s] # "none" => rpc'[s] # "none"
      BY <2>1, ReceiveKeeps DEF Receive, RecvTest, RecvCall, RecvPiece, RecvEnd, Ended, Leave, Live,
                                ClientTypeOK
    <2>3. CASE RecvTest(t) \/ RecvCall(t) \/ RecvEnd(t)
      <3>1. wire' \in {wire, [wire EXCEPT ![t] = <<>>]} /\ UNCHANGED <<delivered, m_RecvBufs>>
        BY <2>3 DEF RecvTest, RecvCall, RecvEnd, Leave
      <3>2. Units(<<>>) = {}
        BY UnitsEmpty
      <3> QED
        BY <1>1, <2>2, <3>1, <3>2 DEF HeardInv
    <2>4. CASE RecvPiece(t)
      <3>1. PICK n \in 1 .. Len(wire[t]) :
              /\ wire' = [wire EXCEPT ![t] = SubSeq(@, n + 1, Len(@))]
              /\ Take(SubSeq(wire[t], 1, n))
              /\ SubSeq(wire[t], 1, n) \in Seq(Unit)
        BY <2>4, PieceTaken
      <3>2. wire[t] \in Seq(Unit) /\ n \in 0 .. Len(wire[t])
        OBVIOUS
      <3>3. /\ Units(SubSeq(wire[t], 1, n)) \subseteq Units(wire[t])
            /\ Units(wire'[t]) \subseteq Units(wire[t])
        BY <3>1, <3>2, UnitsFacts
      <3>4. \A s \in Sock : s # t => wire'[s] = wire[s]
        BY <3>1
      <3>5. delivered' \cup Units(m_RecvBufs')
              \subseteq delivered \cup Units(m_RecvBufs) \cup Units(wire[t])
        BY <3>1, <3>3, TakeGives
      <3>6. \A u \in Units(wire[t]) : u.sock = t
        BY DEF HeardInv
      <3>7. \A u \in delivered' \cup Units(m_RecvBufs') : rpc'[u.sock] # "none"
        BY <1>1, <2>2, <3>5, <3>6 DEF HeardInv
      <3> QED
        BY <3>3, <3>4, <3>7 DEF HeardInv
    <2> QED
      BY <2>1, <2>3, <2>4 DEF Receive
  <1> QED
    BY <1>2, <1>3, <1>4 DEF Next, App

\* The application's and the heartbeat thread: what they announce.
LEMMA AnnounceStep ==
  ASSUME ClientInv, HeardInv, App \/ Heartbeat PROVE [Events!Next]_(Events!vars)
  <1> USE DEF ClientInv, TypeOK, ClientTypeOK, ThreadInv, Preparing, From, Kept, parse, cache
  <1> USE DEF Events!vars
  <1>1. CASE AppConnect \/ HbConnect
    <2>1. m_nSocket \in Sock /\ rpc[m_nSocket] = "none" /\ UNCHANGED parse
      BY <1>1 DEF AppConnect, HbConnect, SocketInv
    <2>2. CASE Connected
      <3>1. m_nSocket \notin Kept /\ \A u \in delivered : u.sock # m_nSocket
        BY <2>1 DEF HeardInv
      <3>2. Events!Connect(m_nSocket)
        BY <1>1, <2>1, <2>2, <3>1 DEF AppConnect, HbConnect, Connected, Events!Connect
      <3> QED
        BY <2>1, <3>2 DEF Events!Next
    <2>3. CASE ~Connected
      BY <1>1, <2>3 DEF AppConnect, HbConnect, CloseSocket, link
    <2> QED
      BY <2>2, <2>3
  <1>2. CASE HbTimeout
    BY <1>2 DEF HbTimeout, Events!Next, Events!Disconnect
  <1>3. CASE HbJoin
    BY <1>3 DEF HbJoin, link, Events!Next, Events!Silence
  <1>4. CASE AppClose
    BY <1>4 DEF AppClose, CloseSocket, Events!Next, Events!Destroy
  <1>5. CASE AppStartHeartbeat \/ AppSocket
    BY <1>5 DEF AppStartHeartbeat, AppSocket, SocketMade, SocketFailed, link
  <1>6. CASE HbSocket \/ HbClose
    BY <1>6 DEF HbSocket, SocketMade, SocketFailed, HbClose, CloseSocket, QuietInv
  <1>7. CASE AppSpawn \/ HbSpawn \/ AppSend
    BY <1>7 DEF AppSpawn, HbSpawn, AppSend, link
  <1>8. CASE AppStopHeartbeat \/ AppJoinHeartbeat \/ AppStopRecv \/ AppJoinRecv
    BY <1>8 DEF AppStopHeartbeat, AppJoinHeartbeat, AppStopRecv, AppJoinRecv, link
  <1>9. CASE HbTest \/ HbSleep \/ HbStamp \/ HbBeat
    BY <1>9 DEF HbTest, HbSleep, HbStamp, HbBeat, link
  <1> QED
    BY <1>1, <1>2, <1>3, <1>4, <1>5, <1>6, <1>7, <1>8, <1>9
    DEF App, AppCreate, AppDestroy, Heartbeat

\* A receive thread: what becomes of a piece it has read.
LEMMA PieceTold ==
  ASSUME ClientInv, HeardInv, NEW t \in Sock, RecvPiece(t),
         From = t, UNCHANGED <<m_nLinkStatus, From, apc>>
  PROVE  Events!Next
  <1>1. PICK n \in 1 .. Len(wire[t]) :
          /\ Take(SubSeq(wire[t], 1, n)) /\ SubSeq(wire[t], 1, n) \in Seq(Unit)
          /\ wire[t] \in Seq(Unit)
    BY PieceTaken
  <1> DEFINE piece == SubSeq(wire[t], 1, n)
             q     == m_RecvBufs \o piece
  <1>2. piece \in Seq(Unit) /\ Units(piece) # {} /\ \A u \in Units(piece) : u.sock = t
    <2>1. n \in 0 .. Len(wire[t]) /\ n > 0
      BY <1>1
    <2>2. Units(piece) # {} /\ Units(piece) \subseteq Units(wire[t])
      BY <1>1, <2>1, UnitsFacts
    <2> QED
      BY <1>1, <2>2 DEF HeardInv
  <1>3. Units(q) = Units(m_RecvBufs) \cup Units(piece) /\ Units(<<>>) = {}
    BY <1>2, UnitsFacts, UnitsEmpty DEF ClientInv, TypeOK, StreamTypeOK
  <1>4. Take(piece)
    BY <1>1
  <1> HIDE DEF piece, q
  <1>5. t # 0
    BY DEF Sock
  <1>6. CASE ~m_bIsHaveHead /\ Deliver(piece) /\ UNCHANGED <<cache, age>>
    <2>1. Kept = {} /\ Kept' = {}
      BY <1>3, <1>6 DEF ClientInv, CacheInv, Kept, cache
    <2>2. Events!Receive
      BY <1>2, <1>5, <1>6, <2>1 DEF Deliver, Events!Receive
    <2> QED
      BY <2>2 DEF Events!Next
  <1>7. CASE m_RecvBufs' = q /\ delivered' = delivered
    <2>1. Kept' = Kept \cup {t}
      BY <1>2, <1>3, <1>7 DEF Kept
    <2>2. Events!Keep
      BY <1>5, <1>7, <2>1 DEF Events!Keep
    <2> QED
      BY <2>2 DEF Events!Next
  <1>8. CASE m_RecvBufs' = <<>> /\ (delivered' = delivered \/ Deliver(q))
    <2>1. Kept' = {}
      BY <1>3, <1>8 DEF Kept
    <2>2. CASE delivered' = delivered
      BY <1>5, <2>1, <2>2 DEF Events!Next, Events!Drop
    <2>3. CASE Deliver(q)
      <3>1. \A u \in Units(q) : u.sock = t \/ u.sock \in Kept
        BY <1>2, <1>3 DEF Kept
      <3>2. Events!Receive
        BY <1>2, <1>3, <1>5, <2>1, <2>3, <3>1 DEF Deliver, Events!Receive
      <3> QED
        BY <3>2 DEF Events!Next
    <2> QED
      BY <1>8, <2>2, <2>3
  <1> QED
    BY <1>4, <1>6, <1>7, <1>8 DEF Take, TakeHead, TakeBody, UseBody, q

\* CTcpClient keeps what ClientEvents promises: its data comes from the
\* connection it announced last, and none after the next CONNECT, except for what
\* m_RecvBufs keeps of a message that was not finished.
THEOREM Refinement == Spec => ImplementsClientEvents
  <1>1. Init => Events!Init /\ HeardInv
    <2>1. Units(<<>>) = {}
      BY UnitsEmpty
    <2> QED
      BY <2>1 DEF Init, Events!Init, From, Kept, HeardInv
  <1>2. ClientInv /\ HeardInv /\ [Next]_vars => HeardInv'
    <2>1. HeardInv /\ UNCHANGED vars => HeardInv'
      BY DEF HeardInv, vars, peers, parse, cache, threads
    <2> QED
      BY <2>1, HeardStep
  <1>3. ClientInv /\ HeardInv /\ [Next]_vars => [Events!Next]_(Events!vars)
    <2> SUFFICES ASSUME ClientInv, HeardInv, [Next]_vars PROVE [Events!Next]_(Events!vars)
      OBVIOUS
    <2>1. CASE Peers
      BY <2>1, PeersKeep DEF Events!vars, From, Kept, parse, cache, link
    <2>2. CASE App \/ Heartbeat
      BY <2>2, AnnounceStep
    <2>3. CASE \E t \in Sock : Receive(t)
      <3>1. PICK t \in Sock : Receive(t)
        BY <2>3
      <3>2. UNCHANGED <<m_nLinkStatus, m_nSocket, apc, hpc>> /\ t \in Live /\ t = m_nSocket
        BY <3>1, ReceiveKeeps DEF ClientInv, ReceiverInv, link
      <3>3. From = t /\ From' = t
        BY <3>2 DEF ClientInv, TypeOK, ClientTypeOK, QuietInv, From
      <3>4. CASE RecvTest(t) \/ RecvCall(t) \/ RecvEnd(t)
        BY <3>2, <3>3, <3>4 DEF RecvTest, RecvCall, RecvEnd, Leave, parse, cache, Kept, Events!vars
      <3>5. CASE RecvPiece(t)
        BY <3>2, <3>3, <3>5, PieceTold
      <3> QED
        BY <3>1, <3>4, <3>5 DEF Receive
    <2>4. CASE UNCHANGED vars
      BY <2>4 DEF vars, Events!vars, From, Kept, parse, cache, link
    <2> QED
      BY <2>1, <2>2, <2>3, <2>4 DEF Next, App
  <1> QED
    BY <1>1, <1>2, <1>3, Invariance, PTL DEF Spec, ImplementsClientEvents, Events!Spec

-----------------------------------------------------------------------------
(* The parser over reconnects. *)

\* Sockets are made in order, m_nSocket is the last, and where a thread broke off
\* is an earlier one; a connection nobody reads has nothing on the wire.
OrderInv ==
  /\ \A s, t \in Sock : sock[s] = "none" /\ s < t => sock[t] = "none"
  /\ m_nSocket \in Sock =>
       sock[m_nSocket] # "none" /\ \A t \in Sock : t > m_nSocket => sock[t] = "none"
  /\ \A t \in broken : rpc[t] = "ended"
  /\ \A s \in Sock : s \notin Live => wire[s] = <<>>
  /\ (m_bIsRecvHead \/ m_RecvBufs # <<>>) /\ Live = {} => broken # {}

\* A stream consists of whole heartbeats, heads and bodies, a body behind each
\* head and nowhere else, except that it may begin anywhere; and while the peer
\* is up it does not stop inside a message.
Follows(u, v) ==
  IF u.part < Size THEN v.kind = u.kind /\ v.part = u.part + 1
  ELSE v.part = 1 /\ (v.kind = "body" <=> u.kind = "head")
Framed(seq) == \A i \in 2 .. Len(seq) : Follows(seq[i - 1], seq[i])
Whole(seq)  == seq # <<>> => seq[Len(seq)].part = Size /\ seq[Len(seq)].kind # "head"
FramedInv == \A s \in Sock : Framed(wire[s]) /\ (peer[s] = "up" => Whole(wire[s]))

\* The parser is where the stream is, ...
Kinds == {"hb", "head", "body"}
Inside(kind, t) ==
  /\ kind = "body" <=> m_bIsRecvHead
  /\ IsWhole(m_RecvBufs, kind)
  /\ wire[t] # <<>> => wire[t][1].kind = kind /\ wire[t][1].part = Len(m_RecvBufs) + 1
Placed(t) ==
  /\ m_bIsRecvHead => m_nMsgType = "data" /\ m_nNeedRecvDataLen = Size
  /\ \E kind \in Kinds : Inside(kind, t)
  /\ wire[t] = <<>> /\ peer[t] = "up" => ~m_bIsRecvHead /\ m_RecvBufs = <<>>

\* ... unless it lost its place in an earlier one.
LostBefore(s) == \E b \in broken : b < s
PlacedInv == m_bIsHaveHead => \A t \in Live : Placed(t) \/ LostBefore(t)

\* What it has kept of a body is a body's, unless it came after that.
KeptInv ==
  m_bIsHaveHead /\ m_bIsRecvHead =>
    \A u \in Units(m_RecvBufs) : u.kind = "body" \/ LostBefore(u.sock)

ParserInv == OrderInv /\ FramedInv /\ PlacedInv /\ KeptInv /\ BodiesOnly

\* One item is a stream of its own, from its first part to its last.
LEMMA FramedItem ==
  ASSUME NEW s \in Sock, NEW kind \in Kinds
  PROVE  /\ Item(s, kind) \in Seq(Unit) /\ Item(s, kind) # <<>> /\ Framed(Item(s, kind))
         /\ Item(s, kind)[1].kind = kind /\ Item(s, kind)[1].part = 1
         /\ Item(s, kind)[Len(Item(s, kind))].kind = kind
         /\ Item(s, kind)[Len(Item(s, kind))].part = Size
  <1> DEFINE q == Item(s, kind)
  <1>1. /\ q \in Seq(Unit) /\ Len(q) = Size
        /\ \A i \in 1 .. Size : q[i] = [sock |-> s, kind |-> kind, part |-> i]
    BY ItemFacts DEF Kinds
  <1> HIDE DEF q
  <1>2. Size \in Nat \ {0} /\ Len(<<>>) = 0
    BY ClientAssumption, EmptySeq
  <1>3. q # <<>>
    BY <1>1, <1>2
  <1>4. \A i \in 1 .. Size : q[i].kind = kind /\ q[i].part = i
    BY <1>1
  <1>5. Framed(q)
    <2> SUFFICES ASSUME NEW i \in 2 .. Len(q) PROVE Follows(q[i - 1], q[i])
      BY DEF Framed
    <2>1. i \in 1 .. Size /\ i - 1 \in 1 .. Size /\ i - 1 < Size /\ i = (i - 1) + 1
      BY <1>1, <1>2
    <2>2. q[i].kind = kind /\ q[i].part = i /\ q[i - 1].kind = kind /\ q[i - 1].part = i - 1
      BY <1>4, <2>1
    <2> QED
      BY <2>1, <2>2 DEF Follows
  <1>6. q[1].kind = kind /\ q[1].part = 1 /\ q[Len(q)].kind = kind /\ q[Len(q)].part = Size
    BY <1>1, <1>2, <1>4
  <1> QED
    BY <1>1, <1>3, <1>5, <1>6 DEF q

\* Streams that fit together are one stream.
LEMMA FramedConcat ==
  ASSUME NEW a \in Seq(Unit), NEW b \in Seq(Unit), Framed(a), Framed(b), b # <<>>,
         a # <<>> => Follows(a[Len(a)], b[1])
  PROVE  /\ a \o b \in Seq(Unit) /\ a \o b # <<>> /\ Framed(a \o b)
         /\ (a \o b)[Len(a \o b)] = b[Len(b)]
         /\ a = <<>> => (a \o b)[1] = b[1]
         /\ a # <<>> => (a \o b)[1] = a[1]
  <1> DEFINE c == a \o b
  <1>1. /\ c \in Seq(Unit) /\ Len(c) = Len(a) + Len(b) /\ Len(a) \in Nat /\ Len(b) \in Nat
        /\ \A i \in 1 .. Len(a) : c[i] = a[i]
    BY ConcatProperties
  <1>2. \A i \in 1 .. Len(b) : c[Len(a) + i] = b[i]
    BY ConcatProperties
  <1> HIDE DEF c
  <1>3. Len(b) > 0 /\ Len(<<>>) = 0 /\ (a # <<>> => Len(a) > 0)
    BY EmptySeq
  <1>4. c # <<>>
    BY <1>1, <1>3
  <1>5. Framed(c)
    <2> SUFFICES ASSUME NEW i \in 2 .. Len(c) PROVE Follows(c[i - 1], c[i])
      BY DEF Framed
    <2>1. CASE i <= Len(a)
      <3>1. i \in 2 .. Len(a) /\ i \in 1 .. Len(a) /\ i - 1 \in 1 .. Len(a)
        BY <1>1, <2>1
      <3> QED
        BY <1>1, <3>1 DEF Framed
    <2>2. CASE i = Len(a) + 1
      <3>1. c[i] = b[1] /\ c[i - 1] = a[Len(a)] /\ a # <<>>
        <4>1. /\ Len(a) \in 1 .. Len(a) /\ i - 1 = Len(a) /\ Len(a) # 0
              /\ 1 \in 1 .. Len(b)
          BY <1>1, <1>3, <2>2
        <4>2. a # <<>>
          BY <1>3, <4>1, Zenon
        <4>3. c[i - 1] = a[Len(a)] /\ c[i] = b[1]
          BY <1>1, <1>2, <2>2, <4>1
        <4> QED
          BY <4>2, <4>3
      <3> QED
        BY <3>1
    <2>3. CASE i > Len(a) + 1
      <3>1. /\ i - Len(a) \in 2 .. Len(b) /\ i - Len(a) \in 1 .. Len(b)
            /\ i - Len(a) - 1 \in 1 .. Len(b)
            /\ i = Len(a) + (i - Len(a)) /\ i - 1 = Len(a) + (i - Len(a) - 1)
        BY <1>1, <2>3
      <3>2. c[i] = b[i - Len(a)] /\ c[i - 1] = b[i - Len(a) - 1]
        BY <1>2, <3>1
      <3> QED
        BY <3>1, <3>2 DEF Framed
    <2> QED
      BY <1>1, <2>1, <2>2, <2>3
  <1>6. c[Len(c)] = b[Len(b)]
    BY <1>1, <1>2, <1>3
  <1>7. a = <<>> => c[1] = b[1]
    BY <1>1, <1>2, <1>3
  <1>8. a # <<>> => c[1] = a[1]
    BY <1>1, <1>3
  <1> QED
    BY <1>1, <1>4, <1>5, <1>6, <1>7, <1>8 DEF c

\* A stream that is cut leaves two.
LEMMA FramedCut ==
  ASSUME NEW a \in Seq(Unit), Framed(a), NEW n \in 0 .. Len(a)
  PROVE  /\ Framed(SubSeq(a, 1, n)) /\ Framed(SubSeq(a, n + 1, Len(a)))
         /\ SubSeq(a, 1, n) # <<>> => a # <<>> /\ SubSeq(a, 1, n)[1] = a[1]
         /\ Whole(a) => Whole(SubSeq(a, n + 1, Len(a)))
         /\ SubSeq(a, n + 1, Len(a)) = <<>> => n = Len(a)
         /\ SubSeq(a, n + 1, Len(a)) # <<>> =>
              n + 1 \in 1 .. Len(a) /\ SubSeq(a, n + 1, Len(a))[1] = a[n + 1]
  <1> DEFINE x == SubSeq(a, 1, n)
             y == SubSeq(a, n + 1, Len(a))
  <1>1. /\ x \in Seq(Unit) /\ y \in Seq(Unit) /\ Len(a) \in Nat /\ n \in Nat /\ n <= Len(a)
        /\ Len(x) = n /\ Len(y) = Len(a) - n
        /\ \A i \in 1 .. n : x[i] = a[i]
    OBVIOUS
  <1>2. \A i \in 1 .. Len(a) - n : y[i] = a[n + i]
    OBVIOUS
  <1> HIDE DEF x, y
  <1>3. /\ Len(<<>>) = 0 /\ (x # <<>> => n > 0) /\ (y # <<>> => Len(a) - n > 0)
        /\ (n > 0 => a # <<>>)
    BY <1>1, EmptySeq
  <1>4. Framed(x)
    <2> SUFFICES ASSUME NEW i \in 2 .. Len(x) PROVE Follows(x[i - 1], x[i])
      BY DEF Framed
    <2>1. i \in 2 .. Len(a) /\ x[i] = a[i] /\ x[i - 1] = a[i - 1]
      BY <1>1
    <2> QED
      BY <2>1 DEF Framed
  <1>5. Framed(y)
    <2> SUFFICES ASSUME NEW i \in 2 .. Len(y) PROVE Follows(y[i - 1], y[i])
      BY DEF Framed
    <2>1. /\ n + i \in 2 .. Len(a) /\ i \in 1 .. Len(a) - n /\ i - 1 \in 1 .. Len(a) - n
          /\ n + (i - 1) = (n + i) - 1
      BY <1>1
    <2>2. y[i] = a[n + i] /\ y[i - 1] = a[(n + i) - 1]
      BY <1>2, <2>1
    <2> QED
      BY <2>1, <2>2 DEF Framed
  <1>6. x # <<>> => a # <<>> /\ x[1] = a[1]
    BY <1>1, <1>3
  <1>7. y = <<>> => n = Len(a)
    BY <1>1, <1>3
  <1>8. y # <<>> => n + 1 \in 1 .. Len(a) /\ y[1] = a[n + 1]
    BY <1>1, <1>2, <1>3
  <1>9. ASSUME Whole(a), y # <<>> PROVE y[Len(y)].part = Size /\ y[Len(y)].kind # "head"
    <2>1. Len(y) \in 1 .. Len(a) - n /\ n + Len(y) = Len(a) /\ a # <<>>
      BY <1>1, <1>3, <1>9
    <2>2. y[Len(y)] = a[Len(a)]
      BY <1>2, <2>1
    <2> QED
      BY <1>9, <2>1, <2>2 DEF Whole
  <1>10. Whole(a) => Whole(y)
    BY <1>9 DEF Whole
  <1> QED
    BY <1>4, <1>5, <1>6, <1>7, <1>8, <1>10 DEF x, y

\* As long as an item is not at its end, the stream goes on with it.
LEMMA InItem ==
  ASSUME NEW a \in Seq(Unit), Framed(a), a # <<>>, NEW n \in Nat, n <= Len(a),
         a[1].part + n <= Size + 1
  PROVE  \A i \in 1 .. n : a[i].kind = a[1].kind /\ a[i].part = a[1].part + (i - 1)
  <1> DEFINE Fits(m) ==
        m <= n => \A i \in 1 .. m : a[i].kind = a[1].kind /\ a[i].part = a[1].part + (i - 1)
      T == {m \in Nat : Fits(m)}
  <1>1. a[1].part \in Nat /\ Size \in Nat /\ Len(a) \in Nat /\ Len(a) > 0
    <2>1. Len(a) \in Nat /\ Len(a) > 0
      OBVIOUS
    <2>2. a[1] \in Unit
      BY <2>1
    <2>3. a[1].part \in 1 .. Size
      BY <2>2 DEF Unit
    <2> QED
      BY <2>1, <2>3, ClientAssumption
  <1>2. 0 \in T
    OBVIOUS
  <1>3. ASSUME NEW m \in T PROVE m + 1 \in T
    <2> SUFFICES ASSUME m + 1 <= n, NEW i \in 1 .. m + 1
                 PROVE  a[i].kind = a[1].kind /\ a[i].part = a[1].part + (i - 1)
      OBVIOUS
    <2>1. m \in Nat /\ m <= n
      OBVIOUS
    <2>2. \A j \in 1 .. m : a[j].kind = a[1].kind /\ a[j].part = a[1].part + (j - 1)
      BY <2>1
    <2>3. CASE i \in 1 .. m
      BY <2>2, <2>3
    <2>4. CASE i = 1
      BY <1>1, <2>4
    <2>5. CASE i = m + 1 /\ m > 0
      <3>1. i \in 2 .. Len(a) /\ m \in 1 .. m /\ i - 1 = m
        BY <1>1, <2>1, <2>5
      <3>2. a[m].kind = a[1].kind /\ a[m].part = a[1].part + (m - 1) /\ a[m].part < Size
        BY <1>1, <2>1, <2>2, <3>1
      <3>3. Follows(a[m], a[i])
        BY <3>1 DEF Framed
      <3>4. a[i].kind = a[m].kind /\ a[i].part = a[m].part + 1
        BY <3>2, <3>3 DEF Follows
      <3> QED
        BY <1>1, <2>1, <2>5, <3>2, <3>4
    <2>6. i \in 1 .. m \/ i = 1 \/ (i = m + 1 /\ m > 0)
      BY <2>1
    <2> QED
      BY <2>3, <2>4, <2>5, <2>6
  <1>4. n \in T
    <2> HIDE DEF T
    <2>1. T \in SUBSET Nat
      BY DEF T
    <2> QED
      BY <1>2, <1>3, <2>1, NatSetInduction
  <1> QED
    BY <1>4

\* A peer sends whole messages, and its stream ends anywhere.
LEMMA PeersParser ==
  ASSUME ClientInv, ParserInv, Peers PROVE ParserInv'
  <1>1. PICK s \in Sock : PeerReply(s) \/ PeerSend(s) \/ PeerEnds(s)
    BY DEF Peers
  <1>2. /\ UNCHANGED <<m_bIsHaveHead, m_nSocket, sock, rpc, broken, delivered, cache>>
        /\ Live' = Live
    BY PeersKeep DEF modes, flags, parse, threads, link, Live
  <1>3. /\ wire[s] \in Seq(Unit) /\ wire \in [Sock -> Seq(Unit)]
        /\ peer \in [Sock -> {"up", "closed", "lost", "reset"}]
        /\ Framed(wire[s]) /\ (peer[s] = "up" => Whole(wire[s]))
    BY DEF ClientInv, TypeOK, StreamTypeOK, PeerTypeOK, ParserInv, FramedInv
  <1> USE DEF ParserInv
  <1>4. ASSUME NEW w \in Seq(Unit), wire' = [wire EXCEPT ![s] = w], Framed(w),
               peer'[s] = "up" => Whole(w),
               \A r \in Sock : r # s => peer'[r] = peer[r],
               s \in Live \/ w = <<>>, Placed(s) => Placed(s)'
        PROVE  ParserInv'
    <2>1. FramedInv'
      BY <1>3, <1>4 DEF FramedInv
    <2>2. OrderInv'
      BY <1>2, <1>3, <1>4 DEF OrderInv, cache
    <2>3. \A r \in Sock : r # s => (Placed(r) => Placed(r)')
      BY <1>2, <1>3, <1>4 DEF Placed, Inside, cache
    <2>4. PlacedInv'
      BY <1>2, <1>4, <2>3 DEF PlacedInv, LostBefore, Live
    <2> QED
      BY <1>2, <2>1, <2>2, <2>4 DEF KeptInv, BodiesOnly, LostBefore, cache
  <1>5. ASSUME NEW b \in Seq(Unit), b # <<>>, b[1].part = 1, b[1].kind \in {"hb", "head"},
               peer[s] = "up", peer' = peer, wire' = [wire EXCEPT ![s] = @ \o b],
               wire[s] # <<>> => (wire[s] \o b)[1] = wire[s][1],
               wire[s] = <<>> => (wire[s] \o b)[1] = b[1], wire[s] \o b # <<>>
        PROVE  Placed(s) => Placed(s)'
    <2> DEFINE w == wire[s] \o b
    <2>1. wire'[s] = w
      BY <1>3, <1>5
    <2> HIDE DEF w
    <2>2. ASSUME wire[s] # <<>>, NEW kind \in Kinds, Inside(kind, s) PROVE Inside(kind, s)'
      BY <1>2, <1>5, <2>1, <2>2 DEF Inside, cache, w
    <2>3. ASSUME wire[s] = <<>>, ~m_bIsRecvHead, m_RecvBufs = <<>> PROVE Inside(b[1].kind, s)'
      <3>1. m_RecvBufs' = <<>> /\ ~m_bIsRecvHead' /\ Len(<<>>) = 0
        BY <1>2, <2>3, EmptySeq DEF cache
      <3>2. wire'[s][1] = b[1]
        BY <1>5, <2>1, <2>3 DEF w
      <3> QED
        BY <1>5, <3>1, <3>2 DEF Inside, IsWhole
    <2>4. wire'[s] # <<>>
      BY <1>5, <2>1 DEF w
    <2>5. ASSUME Placed(s) PROVE \E kind \in Kinds : Inside(kind, s)'
      <3>1. CASE wire[s] = <<>>
        BY <1>5, <2>3, <2>5, <3>1 DEF Placed, Kinds
      <3>2. CASE wire[s] # <<>>
        BY <2>2, <2>5, <3>2 DEF Placed
      <3> QED
        BY <3>1, <3>2
    <2> QED
      BY <1>2, <2>4, <2>5 DEF Placed, cache
  <1>6. CASE PeerReply(s)
    <2> DEFINE b == Item(s, "hb")
    <2>1. /\ b \in Seq(Unit) /\ b # <<>> /\ Framed(b) /\ b[1].kind = "hb" /\ b[1].part = 1
          /\ b[Len(b)].kind = "hb" /\ b[Len(b)].part = Size
      BY FramedItem DEF Kinds
    <2>2. s \in Live /\ peer[s] = "up" /\ peer' = peer /\ wire' = [wire EXCEPT ![s] = @ \o b]
      BY <1>6 DEF PeerReply, Reachable
    <2> HIDE DEF b
    <2>3. wire[s] # <<>> => Follows(wire[s][Len(wire[s])], b[1])
      BY <1>3, <2>1, <2>2, ClientAssumption DEF Follows, Whole
    <2>4. /\ wire[s] \o b \in Seq(Unit) /\ wire[s] \o b # <<>> /\ Framed(wire[s] \o b)
          /\ (wire[s] \o b)[Len(wire[s] \o b)] = b[Len(b)]
          /\ wire[s] = <<>> => (wire[s] \o b)[1] = b[1]
          /\ wire[s] # <<>> => (wire[s] \o b)[1] = wire[s][1]
      BY <1>3, <2>1, <2>3, FramedConcat
    <2>5. Whole(wire[s] \o b)
      BY <2>1, <2>4 DEF Whole
    <2>6. Placed(s) => Placed(s)'
      BY <1>5, <2>1, <2>2, <2>4
    <2> QED
      BY <1>3, <1>4, <2>2, <2>4, <2>5, <2>6
  <1>7. CASE PeerSend(s)
    <2> DEFINE h == Item(s, "head")
               d == Item(s, "body")
               v == wire[s] \o h
    <2>1. /\ h \in Seq(Unit) /\ h # <<>> /\ Framed(h) /\ h[1].kind = "head" /\ h[1].part = 1
          /\ h[Len(h)].kind = "head" /\ h[Len(h)].part = Size
      BY FramedItem DEF Kinds
    <2>2. /\ d \in Seq(Unit) /\ d # <<>> /\ Framed(d) /\ d[1].kind = "body" /\ d[1].part = 1
          /\ d[Len(d)].kind = "body" /\ d[Len(d)].part = Size
      BY FramedItem DEF Kinds
    <2>3. /\ s \in Live /\ peer[s] = "up" /\ peer' = peer
          /\ wire' = [wire EXCEPT ![s] = v \o d]
      BY <1>7 DEF PeerSend, Reachable
    <2> HIDE DEF h, d
    <2>4. wire[s] # <<>> => Follows(wire[s][Len(wire[s])], h[1])
      BY <1>3, <2>1, <2>3, ClientAssumption DEF Follows, Whole
    <2>5. /\ v \in Seq(Unit) /\ v # <<>> /\ Framed(v) /\ v[Len(v)] = h[Len(h)]
          /\ wire[s] = <<>> => v[1] = h[1]
          /\ wire[s] # <<>> => v[1] = wire[s][1]
      BY <1>3, <2>1, <2>4, FramedConcat
    <2> HIDE DEF v
    <2>6. Follows(v[Len(v)], d[1])
      BY <2>1, <2>2, <2>5, ClientAssumption DEF Follows
    <2>7. /\ v \o d \in Seq(Unit) /\ v \o d # <<>> /\ Framed(v \o d)
          /\ (v \o d)[Len(v \o d)] = d[Len(d)] /\ (v \o d)[1] = v[1]
      BY <2>2, <2>5, <2>6, FramedConcat
    <2>8. Whole(v \o d)
      BY <2>2, <2>7 DEF Whole
    <2>9. h \o d \in Seq(Unit) /\ h \o d # <<>> /\ (h \o d)[1] = h[1]
          /\ v \o d = wire[s] \o (h \o d)
      <3>1. Follows(h[Len(h)], d[1])
        BY <2>1, <2>2, ClientAssumption DEF Follows
      <3>2. h \o d \in Seq(Unit) /\ h \o d # <<>> /\ (h \o d)[1] = h[1]
        BY <2>1, <2>2, <3>1, FramedConcat
      <3>3. v \o d = wire[s] \o (h \o d)
        BY <1>3, <2>1, <2>2, ConcatThree DEF v
      <3> QED
        BY <3>2, <3>3
    <2>10. Placed(s) => Placed(s)'
      BY <1>5, <2>1, <2>3, <2>5, <2>7, <2>9
    <2> QED
      BY <1>3, <1>4, <2>3, <2>7, <2>8, <2>10
  <1>8. CASE PeerEnds(s)
    <2>1. PICK n \in 0 .. Len(wire[s]) : wire' = [wire EXCEPT ![s] = SubSeq(@, 1, n)]
      BY <1>8 DEF PeerEnds
    <2> DEFINE w == SubSeq(wire[s], 1, n)
    <2>2. w \in Seq(Unit) /\ Framed(w) /\ (w # <<>> => wire[s] # <<>> /\ w[1] = wire[s][1])
      BY <1>3, CutInTwo, FramedCut
    <2>3. wire' = [wire EXCEPT ![s] = w] /\ wire'[s] = w
      BY <1>3, <2>1
    <2> HIDE DEF w
    <2>4. peer'[s] # "up" /\ \A r \in Sock : r # s => peer'[r] = peer[r]
      BY <1>3, <1>8 DEF PeerEnds
    <2>5. \A kind \in Kinds : Inside(kind, s) => Inside(kind, s)'
      BY <1>2, <2>2, <2>3 DEF Inside, cache
    <2>6. Placed(s) => Placed(s)'
      BY <1>2, <2>4, <2>5 DEF Placed, cache
    <2>7. s \in Live \/ w = <<>>
      BY <2>2 DEF OrderInv
    <2> QED
      BY <1>4, <2>2, <2>3, <2>4, <2>6, <2>7
  <1> QED
    BY <1>1, <1>6, <1>7, <1>8

\* A piece of the stream the parser is placed in, put behind what was kept, is a
\* part of one heartbeat, head or body, and the stream goes on behind it.
LEMMA PieceFits ==
  ASSUME ClientInv, ParserInv, NEW t \in Sock, NEW kind \in Kinds, Inside(kind, t),
         m_bIsRecvHead => m_nNeedRecvDataLen = Size,
         NEW n \in 1 .. Len(wire[t]), n <= Missing
  PROVE  LET piece == SubSeq(wire[t], 1, n)
             rest  == SubSeq(wire[t], n + 1, Len(wire[t]))
         IN  /\ IsWhole(m_RecvBufs \o piece, kind)
             /\ Len(m_RecvBufs \o piece) = Len(m_RecvBufs) + n
             /\ n < Missing /\ rest # <<>> =>
                  rest[1].kind = kind /\ rest[1].part = Len(m_RecvBufs) + n + 1
             /\ n = Missing /\ rest # <<>> =>
                  rest[1].part = 1 /\ (rest[1].kind = "body" <=> kind = "head")
             /\ rest = <<>> /\ peer[t] = "up" => n = Missing /\ kind # "head"
  <1> DEFINE a     == wire[t]
             piece == SubSeq(a, 1, n)
             rest  == SubSeq(a, n + 1, Len(a))
             k     == Len(m_RecvBufs)
             q     == m_RecvBufs \o piece
  <1>1. a \in Seq(Unit) /\ Framed(a) /\ (peer[t] = "up" => Whole(a))
    BY DEF ClientInv, TypeOK, StreamTypeOK, ParserInv, FramedInv
  <1>2. Len(a) \in Nat /\ n \in 1 .. Len(a) /\ n \in 0 .. Len(a) /\ Len(<<>>) = 0 /\ n \in Nat
    BY <1>1, EmptySeq
  <1>3. a # <<>>
    BY <1>2
  <1>4. a[1].kind = kind /\ a[1].part = k + 1
    BY <1>3 DEF Inside
  <1>5. k \in Nat /\ Size \in Nat /\ Missing = Size - k
    BY ClientAssumption DEF ClientInv, TypeOK, StreamTypeOK, Missing
  <1>6. /\ piece \in Seq(Unit) /\ Len(piece) = n /\ \A i \in 1 .. n : piece[i] = a[i]
        /\ m_RecvBufs \in Seq(Unit)
    BY <1>1, <1>2 DEF ClientInv, TypeOK, StreamTypeOK
  <1>7. /\ rest = <<>> => n = Len(a)
        /\ rest # <<>> => n + 1 \in 1 .. Len(a) /\ rest[1] = a[n + 1]
    BY <1>1, <1>2, FramedCut
  <1>8. \A i \in 1 .. k : m_RecvBufs[i].kind = kind /\ m_RecvBufs[i].part = i
    BY DEF Inside, IsWhole
  <1> HIDE DEF a, piece, rest, k, q
  <1>9. \A i \in 1 .. n : a[i].kind = kind /\ a[i].part = k + i
    <2>1. a[1].part + n <= Size + 1
      BY <1>2, <1>4, <1>5
    <2>2. \A i \in 1 .. n : a[i].kind = a[1].kind /\ a[i].part = a[1].part + (i - 1)
      BY <1>1, <1>2, <1>3, <2>1, InItem
    <2> QED
      BY <1>2, <1>4, <1>5, <2>2
  <1>10. /\ Len(q) = k + n /\ \A i \in 1 .. k : q[i] = m_RecvBufs[i]
    BY <1>6, ConcatProperties DEF q, k
  <1>11. \A i \in 1 .. n : q[k + i] = piece[i]
    BY <1>6, ConcatProperties DEF q, k
  <1>12. IsWhole(q, kind)
    <2> SUFFICES ASSUME NEW i \in 1 .. Len(q) PROVE q[i].kind = kind /\ q[i].part = i
      BY DEF IsWhole
    <2>1. CASE i \in 1 .. k
      BY <1>8, <1>10, <2>1
    <2>2. CASE i \notin 1 .. k
      <3>1. i - k \in 1 .. n /\ i = k + (i - k)
        BY <1>2, <1>5, <1>10, <2>2
      <3>2. q[i] = a[i - k]
        BY <1>6, <1>11, <3>1
      <3> QED
        BY <1>9, <3>1, <3>2
    <2> QED
      BY <2>1, <2>2
  <1>13. a[n].kind = kind /\ a[n].part = k + n
    BY <1>2, <1>9
  <1>14. rest # <<>> => Follows(a[n], rest[1])
    <2>1. n + 1 \in 1 .. Len(a) => n + 1 \in 2 .. Len(a) /\ (n + 1) - 1 = n
      BY <1>2
    <2> QED
      BY <1>1, <1>7, <2>1 DEF Framed
  <1>15. n < Missing /\ rest # <<>> => rest[1].kind = kind /\ rest[1].part = k + n + 1
    BY <1>2, <1>5, <1>13, <1>14 DEF Follows
  <1>16. n = Missing /\ rest # <<>> =>
           rest[1].part = 1 /\ (rest[1].kind = "body" <=> kind = "head")
    BY <1>2, <1>5, <1>13, <1>14 DEF Follows
  <1>17. rest = <<>> /\ peer[t] = "up" => n = Missing /\ kind # "head"
    BY <1>1, <1>2, <1>3, <1>5, <1>7, <1>13 DEF Whole
  <1> QED
    BY <1>10, <1>12, <1>15, <1>16, <1>17 DEF a, piece, rest, k, q

\* With nothing kept, the parser is placed in a stream that goes on with what the
\* last item lets it wait for.
LEMMA PlacedNext ==
  ASSUME NEW t \in Sock, NEW kind \in Kinds, m_RecvBufs' = <<>>,
         m_bIsRecvHead' <=> kind = "head",
         m_bIsRecvHead' => m_nMsgType' = "data" /\ m_nNeedRecvDataLen' = Size,
         wire'[t] # <<>> => wire'[t][1].kind \in Kinds,
         wire'[t] # <<>> => wire'[t][1].part = 1 /\ (wire'[t][1].kind = "body" <=> kind = "head"),
         wire'[t] = <<>> /\ peer'[t] = "up" => kind # "head"
  PROVE  Placed(t)'
  <1>1. Len(<<>>) = 0 /\ 0 + 1 = 1
    BY EmptySeq
  <1>2. Len(m_RecvBufs') = 0
    BY <1>1, Zenon
  <1>3. CASE wire'[t] # <<>>
    <2>1. PICK k \in Kinds : k = wire'[t][1].kind
      BY <1>3
    <2>2. Inside(k, t)'
      BY <1>1, <1>2, <1>3, <2>1 DEF Inside, IsWhole
    <2> QED
      BY <1>3, <2>2 DEF Placed
  <1>4. CASE wire'[t] = <<>>
    <2> DEFINE k == IF kind = "head" THEN "body" ELSE "hb"
    <2>1. k \in Kinds /\ (k = "body" <=> kind = "head")
      BY DEF Kinds
    <2>2. Inside(k, t)'
      BY <1>2, <1>4, <2>1 DEF Inside, IsWhole
    <2> QED
      BY <1>4, <2>1, <2>2 DEF Placed
  <1> QED
    BY <1>3, <1>4

\* The parser takes a piece of the stream and keeps its place, and whatever place
\* it has, it keeps and delivers bodies only, or what came after a lost place.
LEMMA PieceParser ==
  ASSUME ClientInv, HeardInv, ParserInv, m_bIsHaveHead, NEW t \in Sock, RecvPiece(t)
  PROVE  (Placed(t) => Placed(t)') /\ KeptInv' /\ BodiesOnly'
  <1>1. /\ t \in Live /\ wire[t] \in Seq(Unit)
        /\ UNCHANGED <<m_bIsHaveHead, broken, peer>>
    BY PieceTaken DEF RecvPiece, modes
  <1>2. PICK n \in 1 .. Len(wire[t]) :
          /\ wire' = [wire EXCEPT ![t] = SubSeq(@, n + 1, Len(@))]
          /\ Take(SubSeq(wire[t], 1, n))
          /\ SubSeq(wire[t], 1, n) \in Seq(Unit)
          /\ SubSeq(wire[t], n + 1, Len(wire[t])) \in Seq(Unit)
    BY PieceTaken
  <1> DEFINE piece == SubSeq(wire[t], 1, n)
             rest  == SubSeq(wire[t], n + 1, Len(wire[t]))
             k     == Len(m_RecvBufs)
             q     == m_RecvBufs \o piece
             Fine(u) == u.kind = "body" \/ LostBefore(u.sock)
  <1>3. n \in Nat /\ n > 0 /\ n \in 0 .. Len(wire[t]) /\ Len(piece) = n /\ Take(piece)
    BY <1>1, <1>2
  <1>4. wire'[t] = rest /\ rest \in Seq(Unit)
    BY <1>2 DEF ClientInv, TypeOK, StreamTypeOK
  <1>5. /\ k \in Nat /\ Size \in Nat /\ Size > 0 /\ m_bIsRecvHead \in BOOLEAN
        /\ Missing \in Int /\ (~m_bIsRecvHead => Missing = Size - k)
        /\ m_bIsRecvHead /\ m_nNeedRecvDataLen = Size => Missing = Size - k
    BY ClientAssumption DEF ClientInv, TypeOK, StreamTypeOK, FlagTypeOK, Missing
  <1>6. Units(q) = Units(m_RecvBufs) \cup Units(piece) /\ \A u \in Units(piece) : u.sock = t
    <2>1. m_RecvBufs \in Seq(Unit) /\ piece \in Seq(Unit)
      BY <1>2 DEF ClientInv, TypeOK, StreamTypeOK
    <2>2. Units(q) = Units(m_RecvBufs) \cup Units(piece)
      BY <2>1, UnitsFacts
    <2>3. Units(piece) \subseteq Units(wire[t])
      BY <1>1, <1>3, UnitsFacts
    <2> QED
      BY <2>2, <2>3 DEF HeardInv
  <1>7. ASSUME NEW kind \in Kinds, Inside(kind, t),
               m_bIsRecvHead => m_nNeedRecvDataLen = Size, n <= Missing
        PROVE  /\ IsWhole(q, kind) /\ Len(q) = k + n
               /\ n < Missing /\ rest # <<>> => rest[1].kind = kind /\ rest[1].part = k + n + 1
               /\ n = Missing /\ rest # <<>> =>
                    rest[1].part = 1 /\ (rest[1].kind = "body" <=> kind = "head")
               /\ rest = <<>> /\ peer[t] = "up" => n = Missing /\ kind # "head"
    BY <1>7, PieceFits
  <1>8. rest # <<>> => rest[1].kind \in Kinds
    BY <1>4 DEF Unit, Kinds
  <1> HIDE DEF piece, rest, k, q
  <1>9. n <= Missing
    BY <1>3, <1>5 DEF Take
  <1>10. ASSUME m_bIsRecvHead PROVE \A u \in Units(q) : Fine(u)
    <2>1. CASE LostBefore(t)
      BY <1>6, <1>10, <2>1 DEF ParserInv, KeptInv
    <2>2. CASE Placed(t)
      <3>1. PICK kind \in Kinds : Inside(kind, t)
        BY <2>2 DEF Placed
      <3>2. kind = "body" /\ m_nNeedRecvDataLen = Size
        BY <1>10, <2>2, <3>1 DEF Placed, Inside
      <3>3. IsWhole(q, "body")
        BY <1>7, <1>9, <3>1, <3>2
      <3> QED
        BY <3>3 DEF IsWhole, Units
    <2> QED
      BY <1>1, <2>1, <2>2 DEF ParserInv, PlacedInv
  <1>11. KeptInv'
    <2>1. CASE m_RecvBufs' = q /\ UNCHANGED m_bIsRecvHead
      BY <1>1, <1>10, <2>1 DEF KeptInv, LostBefore
    <2>2. CASE m_RecvBufs' = <<>>
      BY <1>1, <2>2, UnitsEmpty DEF KeptInv
    <2> QED
      BY <1>3, <2>1, <2>2 DEF Take, q
  <1>12. BodiesOnly'
    <2>1. delivered' = delivered \/ (m_bIsRecvHead /\ delivered' = delivered \cup Units(q))
      BY <1>3 DEF Take, TakeHead, TakeBody, UseBody, Deliver, q
    <2> QED
      BY <1>1, <1>10, <2>1 DEF ParserInv, BodiesOnly, LostBefore
  <1>13. ASSUME Placed(t) PROVE Placed(t)'
    <2>1. PICK kind \in Kinds : Inside(kind, t)
      BY <1>13 DEF Placed
    <2>2. (kind = "body" <=> m_bIsRecvHead) /\ (m_bIsRecvHead => m_nNeedRecvDataLen = Size)
          /\ (m_bIsRecvHead => m_nMsgType = "data")
      BY <1>13, <2>1 DEF Placed, Inside
    <2>3. /\ IsWhole(q, kind) /\ Len(q) = k + n
          /\ n < Missing /\ rest # <<>> => rest[1].kind = kind /\ rest[1].part = k + n + 1
          /\ n = Missing /\ rest # <<>> =>
               rest[1].part = 1 /\ (rest[1].kind = "body" <=> kind = "head")
          /\ rest = <<>> /\ peer[t] = "up" => n = Missing /\ kind # "head"
      BY <1>7, <1>9, <2>1, <2>2
    <2>4. CASE /\ n < Missing /\ m_RecvBufs' = q
               /\ UNCHANGED <<m_bIsRecvHead, m_nMsgType, m_nNeedRecvDataLen>>
      <3>1. Inside(kind, t)'
        BY <1>4, <2>2, <2>3, <2>4 DEF Inside
      <3>2. ~(wire'[t] = <<>> /\ peer'[t] = "up")
        BY <1>1, <1>3, <1>4, <1>5, <2>2, <2>3, <2>4
      <3> QED
        BY <2>2, <2>4, <3>1, <3>2 DEF Placed
    <2>5. ASSUME n = Missing, m_RecvBufs' = <<>>, m_bIsRecvHead' <=> kind = "head",
                 m_bIsRecvHead' => m_nMsgType' = "data" /\ m_nNeedRecvDataLen' = Size
          PROVE  Placed(t)'
      BY <1>1, <1>4, <1>8, <2>3, <2>5, PlacedNext
    <2>6. CASE n = Missing /\ m_RecvBufs' = <<>> /\ m_bIsRecvHead /\ TakeBody(q)
      <3>1. m_bIsRecvHead' = (0 > 0)
        BY <2>6, Zenon DEF TakeBody, Await
      <3>2. ~(0 > 0)
        OBVIOUS
      <3>3. ~m_bIsRecvHead'
        BY <3>1, <3>2, Zenon
      <3>4. kind # "head"
        BY <2>2, <2>6
      <3> QED
        BY <2>5, <2>6, <3>3, <3>4
    <2>7. CASE n = Missing /\ m_RecvBufs' = <<>> /\ ~m_bIsRecvHead /\ TakeHead(q)
      <3>1. PICK head \in Readings(q) : Await(head.type, head.len)
        BY <2>7 DEF TakeHead
      <3>2. Len(q) = Size /\ kind \in {"hb", "head"}
        BY <1>5, <2>2, <2>3, <2>7 DEF Kinds
      <3>3. CASE kind = "hb"
        <4>1. Readings(q) = [type : {"hb"}, len : {0}]
          BY <2>3, <3>3 DEF Readings
        <4>2. ~(head.len > 0)
          BY <3>1, <4>1
        <4>3. ~m_bIsRecvHead'
          BY <3>1, <4>2, Zenon DEF Await
        <4> QED
          BY <2>5, <2>7, <3>3, <4>3
      <3>4. CASE kind = "head"
        <4>1. q[1].kind = "head"
          BY <1>5, <2>3, <3>2, <3>4 DEF IsWhole
        <4>2. ~IsWhole(q, "hb")
          BY <1>5, <3>2, <4>1 DEF IsWhole
        <4>3. Readings(q) = [type : {"data"}, len : {Size}]
          BY <2>3, <3>4, <4>2 DEF Readings
        <4>4. head.len = Size /\ head.type = "data"
          BY <3>1, <4>3
        <4>5. m_bIsRecvHead' /\ m_nMsgType' = "data" /\ m_nNeedRecvDataLen' = Size
          BY <1>5, <3>1, <4>4 DEF Await
        <4> QED
          BY <2>5, <2>7, <3>4, <4>5
      <3> QED
        BY <3>2, <3>3, <3>4
    <2> QED
      BY <1>3, <2>4, <2>6, <2>7 DEF Take, q
  <1> QED
    BY <1>11, <1>12, <1>13

\* A receive thread reads on, or ends and leaves the parser as it is.
LEMMA ReceiveParser ==
  ASSUME ClientInv, HeardInv, ParserInv, NEW t \in Sock, Receive(t) PROVE ParserInv'
  <1>1. /\ UNCHANGED <<m_bIsHaveHead, m_nSocket, sock, peer>> /\ t \in Live /\ Live' \subseteq Live
        /\ \A s \in Sock : s # t => rpc'[s] = rpc[s]
        /\ rpc[t] = "recv" => reading[t] = t
    BY ReceiveKeeps DEF ClientInv, ReceiverInv, modes, link, Live
  <1>2. /\ Live = {t} /\ wire \in [Sock -> Seq(Unit)] /\ wire[t] \in Seq(Unit)
        /\ rpc[t] \notin {"none", "ended"}
        /\ rpc \in [Sock -> {"none", "test", "call", "recv", "ended"}]
    BY <1>1 DEF ClientInv, ReceiverInv, TypeOK, ClientTypeOK, StreamTypeOK, Live
  <1> USE DEF ParserInv
  <1>3. ASSUME Leave(t) PROVE ParserInv'
    <2>1. /\ wire' = [wire EXCEPT ![t] = <<>>] /\ rpc' = [rpc EXCEPT ![t] = "ended"]
          /\ UNCHANGED <<cache, delivered>>
          /\ broken' = IF m_bIsRecvHead \/ m_RecvBufs # <<>> THEN broken \cup {t} ELSE broken
      BY <1>3 DEF Leave
    <2>2. Live' = {} /\ rpc'[t] = "ended"
      BY <1>2, <2>1 DEF Live
    <2>3. FramedInv'
      <3>1. Framed(<<>>) /\ Whole(<<>>)
        BY EmptySeq DEF Framed, Whole
      <3> QED
        BY <1>1, <1>2, <2>1, <3>1 DEF FramedInv
    <2>4. OrderInv'
      <3>1. \A b \in broken' : rpc'[b] = "ended"
        BY <1>2, <2>1, <2>2 DEF OrderInv
      <3>2. m_bIsRecvHead' \/ m_RecvBufs' # <<>> => broken' # {}
        BY <2>1 DEF cache
      <3>3. \A s \in Sock : s \notin Live' => wire'[s] = <<>>
        BY <1>2, <2>1 DEF OrderInv
      <3> QED
        BY <1>1, <3>1, <3>2, <3>3 DEF OrderInv
    <2>5. broken \subseteq broken'
      BY <2>1
    <2>6. KeptInv'
      BY <1>1, <2>1, <2>5 DEF KeptInv, LostBefore, cache
    <2>7. BodiesOnly'
      BY <1>1, <2>1, <2>5 DEF BodiesOnly
    <2> QED
      BY <2>2, <2>3, <2>4, <2>6, <2>7 DEF PlacedInv
  <1>4. ASSUME UNCHANGED <<parse, wire>>, Live' = Live, rpc'[t] # "ended" PROVE ParserInv'
    <2>1. Placed(t) => Placed(t)'
      BY <1>1, <1>4 DEF Placed, Inside, parse, cache
    <2>2. OrderInv'
      <3>1. \A b \in broken : b \in Sock /\ b # t /\ rpc'[b] = "ended"
        BY <1>1, <1>2 DEF OrderInv, ClientInv, TypeOK, ClientTypeOK
      <3> QED
        BY <1>1, <1>4, <3>1 DEF OrderInv, parse, cache
    <2> QED
      BY <1>1, <1>2, <1>4, <2>1, <2>2
      DEF FramedInv, PlacedInv, KeptInv, LostBefore, BodiesOnly, parse, cache
  <1>5. CASE RecvTest(t)
    <2>1. CASE rpc' = [rpc EXCEPT ![t] = "call"] /\ UNCHANGED <<parse, peers>>
      <3>1. Live' = Live /\ rpc'[t] # "ended"
        BY <1>2, <2>1 DEF Live
      <3> QED
        BY <1>4, <2>1, <3>1 DEF peers
    <2> QED
      BY <1>3, <1>5, <2>1 DEF RecvTest
  <1>6. CASE RecvCall(t)
    <2>1. CASE rpc' = [rpc EXCEPT ![t] = "recv"] /\ UNCHANGED <<parse, peers>>
      <3>1. Live' = Live /\ rpc'[t] # "ended"
        BY <1>2, <2>1 DEF Live
      <3> QED
        BY <1>4, <2>1, <3>1 DEF peers
    <2> QED
      BY <1>3, <1>6, <2>1 DEF RecvCall
  <1>7. CASE RecvEnd(t)
    BY <1>3, <1>7 DEF RecvEnd
  <1>8. CASE RecvPiece(t)
    <2>1. PICK n \in 1 .. Len(wire[t]) :
            /\ wire' = [wire EXCEPT ![t] = SubSeq(@, n + 1, Len(@))]
            /\ Take(SubSeq(wire[t], 1, n))
      BY <1>8, PieceTaken
    <2>2. rpc' = [rpc EXCEPT ![t] = "test"] /\ broken' = broken
      BY <1>8 DEF RecvPiece
    <2>3. Live' = {t} /\ rpc'[t] = "test"
      BY <1>2, <2>2 DEF Live
    <2>4. FramedInv'
      <3> DEFINE rest == SubSeq(wire[t], n + 1, Len(wire[t]))
      <3>1. Framed(rest) /\ (Whole(wire[t]) => Whole(rest))
        <4>1. n \in 0 .. Len(wire[t])
          BY <1>2
        <4>2. Framed(wire[t])
          BY DEF FramedInv
        <4> QED
          BY <1>2, <4>1, <4>2, FramedCut
      <3>2. wire' = [wire EXCEPT ![t] = rest]
        BY <2>1
      <3> HIDE DEF rest
      <3> QED
        BY <1>1, <1>2, <3>1, <3>2 DEF FramedInv
    <2>5. OrderInv'
      <3>1. \A s \in Sock : s \notin Live' => wire'[s] = <<>>
        BY <1>2, <2>1, <2>3 DEF OrderInv
      <3>2. \A b \in broken' : rpc'[b] = "ended"
        BY <1>1, <1>2, <2>2 DEF OrderInv
      <3> QED
        BY <1>1, <2>3, <3>1, <3>2 DEF OrderInv
    <2>6. m_bIsHaveHead => (Placed(t) => Placed(t)') /\ KeptInv' /\ BodiesOnly'
      BY <1>8, PieceParser
    <2>7. PlacedInv'
      BY <1>1, <2>2, <2>3, <2>6 DEF PlacedInv, LostBefore
    <2>8. KeptInv' /\ BodiesOnly'
      BY <1>1, <2>6 DEF KeptInv, BodiesOnly
    <2> QED
      BY <2>4, <2>5, <2>7, <2>8
  <1> QED
    BY <1>5, <1>6, <1>7, <1>8 DEF Receive

\* The other threads make sockets in order, each with a peer that is up and
\* nothing on the wire.
LEMMA ThreadsOrder ==
  ASSUME ClientInv, ParserInv, App \/ Heartbeat
  PROVE  /\ \A s, t \in Sock : sock'[s] = "none" /\ s < t => sock'[t] = "none"
         /\ m_nSocket' \in Sock =>
              sock'[m_nSocket'] # "none" /\ \A t \in Sock : t > m_nSocket' => sock'[t] = "none"
  <1> USE ClientAssumption
      DEF ParserInv, OrderInv, ClientInv, TypeOK, ClientTypeOK, PeerTypeOK, Sock
  <1>1. UNCHANGED <<m_nSocket, sock>> \/ SocketMade \/ SocketFailed \/ Connected \/ CloseSocket
    BY DEF App, AppCreate, AppStartHeartbeat, AppSocket, AppConnect, AppSpawn, AppSend,
           AppStopHeartbeat, AppDestroy, AppJoinHeartbeat, AppStopRecv, AppJoinRecv, AppClose,
           Heartbeat, HbTest, HbSleep, HbSocket, HbConnect, HbSpawn, HbStamp, HbBeat,
           HbTimeout, HbClose, HbJoin, link
  <1>2. CASE UNCHANGED <<m_nSocket, sock>>
    BY <1>2
  <1>3. CASE SocketMade
    BY <1>3 DEF SocketMade
  <1>4. CASE SocketFailed
    BY <1>4 DEF SocketFailed
  <1>5. CASE Connected
    BY <1>5 DEF Connected
  <1>6. CASE CloseSocket
    BY <1>6 DEF CloseSocket
  <1> QED
    BY <1>1, <1>2, <1>3, <1>4, <1>5, <1>6

\* A new socket is made when no thread reads any more, and no send wakes a peer.
LEMMA ThreadsPeer ==
  ASSUME ClientInv, App \/ Heartbeat
  PROVE  wire' = wire /\ (Live = {} \/ \A s \in Sock : peer'[s] = "up" => peer[s] = "up")
  <1> USE DEF ClientInv, TypeOK, PeerTypeOK, peers
  <1>1. CASE SocketMade /\ (AppSocket \/ HbSocket)
    <2>1. Live = {}
      BY <1>1 DEF AppSocket, HbSocket, QuietInv, ThreadInv
    <2> QED
      BY <1>1, <2>1 DEF SocketMade
  <1>2. CASE ~(SocketMade /\ (AppSocket \/ HbSocket))
    <2>1. wire' = wire
      BY <1>2 DEF App, AppCreate, AppStartHeartbeat, AppSocket, AppConnect, AppSpawn, AppSend,
           AppStopHeartbeat, AppDestroy, AppJoinHeartbeat, AppStopRecv, AppJoinRecv, AppClose,
           Heartbeat, HbTest, HbSleep, HbSocket, HbConnect, HbSpawn, HbStamp, HbBeat,
           HbTimeout, HbClose, HbJoin, Ask, SocketFailed
    <2>2. peer' = peer \/ peer' = [peer EXCEPT ![m_nSocket] = "reset"]
      BY <1>2 DEF App, AppCreate, AppStartHeartbeat, AppSocket, AppConnect, AppSpawn, AppSend,
           AppStopHeartbeat, AppDestroy, AppJoinHeartbeat, AppStopRecv, AppJoinRecv, AppClose,
           Heartbeat, HbTest, HbSleep, HbSocket, HbConnect, HbSpawn, HbStamp, HbBeat,
           HbTimeout, HbClose, HbJoin, Ask, Send, SocketFailed
    <2> QED
      BY <2>1, <2>2
  <1> QED
    BY <1>1, <1>2

\* They give a new receive thread an empty stream, and a parser at the start of a
\* message unless an earlier thread has lost its place.
LEMMA ThreadsParser ==
  ASSUME ClientInv, ParserInv, App \/ Heartbeat PROVE ParserInv'
  <1>1. /\ UNCHANGED <<m_bIsHaveHead, wire, parse>>
        /\ Live = {} \/ \A s \in Sock : peer'[s] = "up" => peer[s] = "up"
    <2>1. UNCHANGED modes
      BY DEF App, AppCreate, AppStartHeartbeat, AppSocket, AppConnect, AppSpawn, AppSend,
           AppStopHeartbeat, AppDestroy, AppJoinHeartbeat, AppStopRecv, AppJoinRecv, AppClose,
           Heartbeat, HbTest, HbSleep, HbSocket, HbConnect, HbSpawn, HbStamp, HbBeat,
           HbTimeout, HbClose, HbJoin
    <2> QED
      BY <2>1, ThreadsPeer, ThreadsCache DEF modes
  <1>2. KeptInv' /\ BodiesOnly'
    BY <1>1 DEF ParserInv, KeptInv, BodiesOnly, LostBefore, parse, cache
  <1>3. FramedInv'
    <2>1. CASE Live = {}
      <3>1. \A s \in Sock : wire'[s] = <<>>
        BY <1>1, <2>1 DEF ParserInv, OrderInv
      <3> QED
        BY <1>1, <3>1 DEF ParserInv, FramedInv, Whole
    <2>2. CASE Live # {}
      BY <1>1, <2>2 DEF ParserInv, FramedInv
    <2> QED
      BY <2>1, <2>2
  <1>4. OrderInv' /\ PlacedInv'
    <2>1. CASE (AppSpawn \/ HbSpawn) /\ rpc' # rpc
      <3>1. Preparing("spawn") /\ rpc' = [rpc EXCEPT ![m_nSocket] = "test"] /\ UNCHANGED link
        BY <2>1 DEF AppSpawn, HbSpawn, Spawn, Preparing
      <3>2. /\ m_nSocket \in Sock /\ rpc[m_nSocket] = "none" /\ Live = {}
            /\ rpc \in [Sock -> {"none", "test", "call", "recv", "ended"}]
        BY <3>1 DEF ClientInv, SocketInv, ThreadInv, TypeOK, ClientTypeOK
      <3>3. Live' = {m_nSocket} /\ \A s \in Sock : s # m_nSocket => rpc'[s] = rpc[s]
        BY <3>1, <3>2 DEF Live
      <3>4. \A b \in broken : b # m_nSocket /\ b \in Sock /\ sock[b] # "none"
        BY <3>2 DEF ParserInv, OrderInv, ClientInv, TypeOK, ClientTypeOK, SocketInv
      <3>5. \A b \in broken : b < m_nSocket
        BY <3>2, <3>4, ClientAssumption DEF ParserInv, OrderInv, Sock
      <3>6. wire[m_nSocket] = <<>>
        BY <3>2 DEF ParserInv, OrderInv
      <3>7. OrderInv'
        <4>1. \A b \in broken : rpc'[b] = "ended"
          BY <3>3, <3>4 DEF ParserInv, OrderInv
        <4>2. \A s \in Sock : s \notin Live' => wire'[s] = <<>>
          BY <1>1, <3>2 DEF ParserInv, OrderInv
        <4> QED
          BY <1>1, <3>3, <4>1, <4>2, ThreadsOrder DEF OrderInv, parse
      <3>8. PlacedInv'
        <4>1. CASE broken # {}
          BY <1>1, <3>3, <3>5, <4>1 DEF PlacedInv, LostBefore, parse
        <4>2. CASE broken = {}
          <5>1. ~m_bIsRecvHead /\ m_RecvBufs = <<>> /\ Len(<<>>) = 0
            BY <3>2, <4>2, EmptySeq DEF ParserInv, OrderInv
          <5>2. ~m_bIsRecvHead' /\ m_RecvBufs' = <<>> /\ Len(m_RecvBufs') = 0
            BY <1>1, <5>1 DEF parse, cache
          <5>3. wire'[m_nSocket] = <<>>
            BY <1>1, <3>6
          <5>4. "hb" \in Kinds
            BY DEF Kinds
          <5>5. \A s \in Sock : wire'[s] = <<>> => Inside("hb", s)'
            BY <5>2 DEF Inside, IsWhole
          <5>6. \A s \in Sock : wire'[s] = <<>> => Placed(s)'
            BY <5>2, <5>4, <5>5 DEF Placed
          <5> QED
            BY <3>2, <3>3, <5>3, <5>6 DEF PlacedInv
        <4> QED
          BY <4>1, <4>2
      <3> QED
        BY <3>7, <3>8
    <2>2. CASE rpc' = rpc
      <3>1. Live' = Live
        BY <2>2 DEF Live
      <3>2. OrderInv'
        BY <1>1, <2>2, <3>1, ThreadsOrder DEF ParserInv, OrderInv, parse, cache
      <3>3. \A t \in Live : Placed(t) => Placed(t)'
        <4>1. ASSUME NEW t \in Live PROVE t \in Sock /\ (peer'[t] = "up" => peer[t] = "up")
          BY <1>1, <4>1 DEF Live
        <4> QED
          BY <1>1, <4>1 DEF Placed, Inside, parse, cache
      <3> QED
        BY <1>1, <3>1, <3>2, <3>3 DEF ParserInv, PlacedInv, LostBefore, parse
    <2>3. rpc' = rpc \/ AppSpawn \/ HbSpawn
      BY DEF App, AppCreate, AppStartHeartbeat, AppSocket, AppConnect, AppSend,
           AppStopHeartbeat, AppDestroy, AppJoinHeartbeat, AppStopRecv, AppJoinRecv, AppClose,
           Heartbeat, HbTest, HbSleep, HbSocket, HbConnect, HbStamp, HbBeat,
           HbTimeout, HbClose, HbJoin, threads
    <2> QED
      BY <2>1, <2>2, <2>3
  <1> QED
    BY <1>2, <1>3, <1>4 DEF ParserInv

\* With heads the application gets bodies and nothing else, unless an earlier
\* connection ended inside a message, or inside its head: for any number of
\* connections, any traffic on them and any way to cut it into pieces.
THEOREM BodiesAlways == Spec => []BodiesOnly
  <1>1. Init => HeardInv /\ ParserInv
    <2> SUFFICES ASSUME Init PROVE HeardInv /\ ParserInv
      OBVIOUS
    <2>1. HeardInv
      BY UnitsEmpty DEF Init, HeardInv
    <2>2. Framed(<<>>) /\ Whole(<<>>)
      BY EmptySeq DEF Framed, Whole
    <2>3. OrderInv
      BY ClientAssumption DEF Init, OrderInv, Sock
    <2>4. FramedInv
      BY <2>2 DEF Init, FramedInv
    <2> QED
      BY <2>1, <2>3, <2>4 DEF Init, ParserInv, PlacedInv, KeptInv, BodiesOnly, Live
  <1>2. ClientInv /\ HeardInv /\ ParserInv /\ [Next]_vars => HeardInv' /\ ParserInv'
    <2>1. HeardInv /\ UNCHANGED vars => HeardInv'
      BY DEF HeardInv, vars, peers, parse, cache, threads
    <2>2. ASSUME ParserInv, UNCHANGED vars PROVE ParserInv'
      <3>1. /\ UNCHANGED <<m_bIsHaveHead, m_nSocket, sock, rpc, broken, delivered, wire, peer>>
            /\ UNCHANGED cache /\ Live' = Live
        BY <2>2 DEF vars, modes, peers, parse, threads, link, Live
      <3>2. \A t \in Sock : Placed(t) => Placed(t)'
        BY <3>1 DEF Placed, Inside, cache
      <3>3. OrderInv' /\ FramedInv'
        BY <2>2, <3>1 DEF ParserInv, OrderInv, FramedInv, cache
      <3>4. PlacedInv'
        BY <2>2, <3>1, <3>2 DEF ParserInv, PlacedInv, LostBefore, Live
      <3> QED
        BY <2>2, <3>1, <3>3, <3>4 DEF ParserInv, KeptInv, LostBefore, BodiesOnly, cache
    <2> QED
      BY <2>1, <2>2, HeardStep, PeersParser, ReceiveParser, ThreadsParser DEF Next, App
  <1>3. ParserInv => BodiesOnly
    BY DEF ParserInv
  <1> QED
    BY <1>1, <1>2, <1>3, Invariance, PTL DEF Spec
=============================================================================
