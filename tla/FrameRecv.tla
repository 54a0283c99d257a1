------------------------------ MODULE FrameRecv ------------------------------
(***************************************************************************)
(* How the two Linux ends take messages with heads (bIsHaveHead) out of a    *)
(* TCP stream: the server in CTcpSession::TcpSession_IORecv, which reads     *)
(* whatever has arrived, and the client in CTcpClient::TcpClient_Recvfrom,   *)
(* which asks recv for exactly what the current head or body still lacks.    *)
(*                                                                           *)
(* A message is a head of HeadLen units and the body its head announces.     *)
(* The network delivers the units in order and in pieces of any size: a read *)
(* returns any nonempty part, up to its limit, of what has not been read.    *)
(*                                                                           *)
(* The client sends with one send() of a blocking socket. The server writes   *)
(* in a loop (CTcpSession::TcpSession_IOSend), as much as there is room for,   *)
(* and several of its threads may be in that loop for one session: workers     *)
(* that answer heartbeats, and the application's. Only TcpSession_SendData puts *)
(* a head before the application's bytes; AcceptSession_SendData does not.     *)
(***************************************************************************)
EXTENDS Integers, FiniteSets, SequencesExt

CONSTANTS
  HeadLen,  \* sizeof(HEAD_MSG_T)
  MaxRead,  \* sizeof(szRecvBuf) in the server
  Room,     \* what the buffers between the two ends hold
  Sender,   \* the server's threads that send
  MaxBody,  \* bound: the longest body a peer sends
  MaxSent   \* bound: how many messages a peer sends

ASSUME FrameAssumption ==
  /\ HeadLen \in Nat \ {0}
  /\ MaxRead \in Nat \ {0}
  /\ Room \in Nat \ {0}
  /\ MaxBody \in Nat
  /\ MaxSent \in Nat

VARIABLES
  end,                \* which end reads: "server" or "client"
  sent,               \* the messages the peer has begun to send
  writing,            \* what the server's threads have yet to write of theirs
  mixed,              \* was anything written into the middle of a message, or
                      \* without a head?
  closed,             \* has the peer closed the connection?
  stream,             \* their units that have not been read yet
  m_bIsRecvHead,      \* has the head of the current message been received?
  m_nNeedRecvDataLen, \* the length of the body that head announced
  m_nRecvDataType,    \* its type (m_nMsgType in the client)
  m_RecvBufs,         \* the part of the current head or body read so far
  delivered,          \* the bodies given to OnTransPortEngineRecv
  refreshed,          \* how often m_tHeartbeatTimeStamp was set
  replied,            \* how many heartbeat heads were sent back
  status              \* "reading", or "ended" once the loop was left

parser == <<m_bIsRecvHead, m_nNeedRecvDataLen, m_nRecvDataType, m_RecvBufs>>
told   == <<delivered, refreshed, replied>>
sends  == <<sent, writing, mixed>>
vars   == <<end, sends, closed, stream, parser, told, status>>

MsgType == {"HB", "DT"}   \* HEART_BEAT, RECV_DATA
Message == [type : MsgType, len : 0 .. MaxBody]

\* The units of the peer's i-th message.
HeadOf(i) == [u \in 1 .. HeadLen |-> [msg |-> i, unit |-> u]]
BodyOf(i, len) == [u \in 1 .. len |-> [msg |-> i, unit |-> HeadLen + u]]

Init ==
  /\ end \in {"server", "client"}
  /\ sent = <<>> /\ closed = FALSE /\ stream = <<>>
  /\ writing = [t \in Sender |-> <<>>] /\ mixed = FALSE
  /\ m_bIsRecvHead = FALSE /\ m_nNeedRecvDataLen = 0
  /\ m_nRecvDataType = "DT" /\ m_RecvBufs = <<>>
  /\ delivered = <<>> /\ refreshed = 0 /\ replied = 0
  /\ status = "reading"

-----------------------------------------------------------------------------
(* The peer. *)

\* The client sends a message with one call, its head before its body.
PeerSend(msg) ==
  /\ end = "server" /\ ~closed /\ Len(sent) < MaxSent
  /\ sent' = Append(sent, msg)
  /\ stream' = stream \o HeadOf(Len(sent) + 1) \o BodyOf(Len(sent) + 1, msg.len)
  /\ UNCHANGED <<end, writing, mixed, closed, parser, told, status>>

\* Mutant: what is written next starts at szData again.
WriteAgain(t, units) ==
  LET n == Min({Room - Len(stream), Len(units)}) IN
  /\ n > 0
  /\ stream' = stream \o SubSeq(units, 1, n)
  /\ writing' = [writing EXCEPT ![t] = SubSeq(units, 1, Len(units) - n)]
  /\ mixed' = (mixed \/ \E u \in Sender \ {t} : writing[u] # <<>>)

\* write() takes what there is room for; without any it is tried again later.
Write(t, units) ==
  LET n == Min({Room - Len(stream), Len(units)}) IN
  /\ n > 0
  /\ stream' = stream \o SubSeq(units, 1, n)
  /\ writing' = [writing EXCEPT ![t] = SubSeq(units, n + 1, Len(units))]
  /\ mixed' = (mixed \/ \E u \in Sender \ {t} : writing[u] # <<>>)

\* The server's thread t sends a message (TransPortEngine_ServerSendTo, or the
\* answer to a heartbeat): the first write, and in IOSend the ones after it.
SendData(t, msg) ==
  /\ end = "client" /\ ~closed /\ Len(sent) < MaxSent /\ writing[t] = <<>>
  /\ sent' = Append(sent, msg)
  /\ Write(t, HeadOf(Len(sent) + 1) \o BodyOf(Len(sent) + 1, msg.len))
  /\ UNCHANGED <<end, closed, parser, told, status>>

IOSend(t) ==
  /\ ~closed /\ writing[t] # <<>> /\ Write(t, writing[t])
  /\ UNCHANGED <<end, sent, closed, parser, told, status>>

\* The application sends with TransPortEngine_ServerSendData: what it gives is
\* written without a head, and from there on heads are not where they are sought.
SendRaw(t) ==
  /\ end = "client" /\ ~closed /\ writing[t] = <<>>
  /\ mixed' = TRUE
  /\ UNCHANGED <<end, sent, writing, closed, stream, parser, told, status>>

\* The writes that are left then fail.
PeerClose ==
  /\ ~closed /\ closed' = TRUE
  /\ UNCHANGED <<end, sends, stream, parser, told, status>>

-----------------------------------------------------------------------------
(* What both ends do with a piece that was read. *)

\* What the current head or body lacks: negative once too much was kept.
Lacks ==
  (IF m_bIsRecvHead THEN m_nNeedRecvDataLen ELSE HeadLen) - Len(m_RecvBufs)

\* Mutant: only the last piece is used.
AssembleLast(piece) == piece

\* GetRecvCacheBuf and the piece after it.
Assemble(piece) == m_RecvBufs \o piece

Keep(piece) ==
  /\ m_RecvBufs' = m_RecvBufs \o piece
  /\ UNCHANGED <<m_bIsRecvHead, m_nNeedRecvDataLen, m_nRecvDataType, told>>

\* Mutant: the length is taken without ntohl.
TakeHeadSwapped(head) ==
  LET msg == sent[head[1].msg] IN
  /\ m_RecvBufs' = <<>>
  /\ m_nRecvDataType' = msg.type
  /\ m_nNeedRecvDataLen' = 256 * msg.len
  /\ m_bIsRecvHead' = (msg.len > 0)
  /\ UNCHANGED told

\* The head is complete: it announces a body, or is a message of its own.
TakeHead(head) ==
  LET msg == sent[head[1].msg] IN
  /\ m_RecvBufs' = <<>>
  /\ m_nRecvDataType' = msg.type
  /\ m_nNeedRecvDataLen' = msg.len
  /\ m_bIsRecvHead' = (msg.len > 0)
  /\ refreshed' = IF msg.type = "HB" /\ msg.len = 0 THEN refreshed + 1 ELSE refreshed
  /\ replied' = IF msg.type = "HB" /\ end = "server" THEN replied + 1 ELSE replied
  /\ UNCHANGED delivered

\* The body is complete: HeadleHB (HandleHB) or OnTransPortEngineRecv.
TakeBody(body) ==
  /\ m_RecvBufs' = <<>>
  /\ m_bIsRecvHead' = FALSE
  /\ \/ /\ m_nRecvDataType = "HB"
        /\ refreshed' = refreshed + 1
        /\ UNCHANGED delivered
     \/ /\ m_nRecvDataType = "DT"
        /\ delivered' = Append(delivered, body)
        /\ UNCHANGED refreshed
  /\ UNCHANGED <<m_nRecvDataType, replied>>

\* read() or recv() returns n units.
Read(n) == /\ status = "reading"
           /\ n <= Len(stream)
           /\ stream' = SubSeq(stream, n + 1, Len(stream))

Piece(n) == SubSeq(stream, 1, n)

\* It returns 0: the server returns -1, the client's thread leaves its loop.
RecvNothing ==
  /\ status = "reading" /\ closed /\ stream = <<>>
  /\ status' = "ended"
  /\ UNCHANGED <<end, sends, closed, stream, parser, told>>

-----------------------------------------------------------------------------
(* The server: CTcpSession::TcpSession_IORecv. *)

\* Exactly the rest of the head completes it, less of it is kept.
ServerRecvHead(n) ==
  /\ ~m_bIsRecvHead /\ Read(n)
  /\ \/ n = Lacks /\ TakeHead(Assemble(Piece(n)))
     \/ n < Lacks /\ Keep(Piece(n))
  /\ UNCHANGED <<end, sends, closed, status>>

\* The head came with a part of what follows it: -1.
ServerRefusesHead(n) ==
  /\ ~m_bIsRecvHead /\ Read(n) /\ n > Lacks
  /\ status' = "ended"
  /\ UNCHANGED <<end, sends, closed, parser, told>>

\* Mutant: once too much is kept, the next piece completes the body.
ServerRecvBodyLate(n) ==
  /\ m_bIsRecvHead /\ Read(n)
  /\ \/ /\ n = Lacks \/ Lacks < 0
        /\ TakeBody(Assemble(Piece(n))) /\ m_nNeedRecvDataLen' = 0
     \/ n > Lacks /\ Lacks >= 0 /\ Keep(Piece(n))
  /\ UNCHANGED <<end, sends, closed, status>>

\* Exactly the rest of the body completes it, MORE than the rest is kept.
ServerRecvBody(n) ==
  /\ m_bIsRecvHead /\ Read(n)
  /\ \/ /\ n = Lacks /\ TakeBody(Assemble(Piece(n)))
        /\ m_nNeedRecvDataLen' = 0
     \/ n > Lacks /\ Keep(Piece(n))
  /\ UNCHANGED <<end, sends, closed, status>>

\* LESS than the rest of the body came: -1.
ServerRefusesBody(n) ==
  /\ m_bIsRecvHead /\ Read(n) /\ n < Lacks
  /\ status' = "ended"
  /\ UNCHANGED <<end, sends, closed, parser, told>>

ServerRecv ==
  /\ end = "server"
  /\ \/ \E n \in 1 .. MaxRead : \/ ServerRecvHead(n) \/ ServerRefusesHead(n)
                                \/ ServerRecvBody(n) \/ ServerRefusesBody(n)
     \/ RecvNothing

-----------------------------------------------------------------------------
(* The client: CTcpClient::TcpClient_Recvfrom. *)

\* recv returns no more than it is asked for, so the branches for more are dead.
ClientRecvHead(n) ==
  /\ ~m_bIsRecvHead /\ Read(n)
  /\ \/ n = Lacks /\ TakeHead(Assemble(Piece(n)))
     \/ n < Lacks /\ Keep(Piece(n))
  /\ UNCHANGED <<end, sends, closed, status>>

\* Mutant: less than the rest of the body is an error, as it is in the server.
ClientRefusesBody(n) ==
  /\ m_bIsRecvHead /\ Read(n)
  /\ \/ /\ n = Lacks /\ TakeBody(Assemble(Piece(n)))
        /\ UNCHANGED <<m_nNeedRecvDataLen, status>>
     \/ n < Lacks /\ status' = "ended" /\ UNCHANGED <<parser, told>>
  /\ UNCHANGED <<end, sends, closed>>

ClientRecvBody(n) ==
  /\ m_bIsRecvHead /\ Read(n)
  /\ \/ n = Lacks /\ TakeBody(Assemble(Piece(n))) /\ UNCHANGED m_nNeedRecvDataLen
     \/ n < Lacks /\ Keep(Piece(n))
  /\ UNCHANGED <<end, sends, closed, status>>

\* What it makes of a stream that is not one whole message after the other is not
\* followed.
ClientRecv ==
  /\ end = "client" /\ ~mixed
  /\ \/ \E n \in 1 .. Lacks : ClientRecvHead(n) \/ ClientRecvBody(n)
     \/ RecvNothing

-----------------------------------------------------------------------------

Next ==
  \/ \E msg \in Message : PeerSend(msg) \/ \E t \in Sender : SendData(t, msg)
  \/ \E t \in Sender : IOSend(t) \/ SendRaw(t)
  \/ PeerClose \/ ServerRecv \/ ClientRecv

Spec == Init /\ [][Next]_vars

\* The reading thread goes on while there is something to read, the writing ones
\* while there is room.
FairSpec ==
  /\ Spec
  /\ WF_vars(ServerRecv) /\ WF_vars(ClientRecv)
  /\ \A t \in Sender : WF_vars(IOSend(t))

-----------------------------------------------------------------------------
(* Correctness. *)

Unit == [msg : 1 .. MaxSent, unit : 1 .. HeadLen + MaxBody]

\* Every variable keeps its type.
TypeOK ==
  /\ end \in {"server", "client"} /\ closed \in BOOLEAN
  /\ sent \in Seq(Message) /\ writing \in [Sender -> Seq(Unit)] /\ mixed \in BOOLEAN
  /\ stream \in Seq(Unit) /\ m_RecvBufs \in Seq(Unit)
  /\ m_bIsRecvHead \in BOOLEAN
  /\ m_nNeedRecvDataLen \in 0 .. MaxBody /\ m_nRecvDataType \in MsgType
  /\ delivered \in Seq(Seq(Unit)) /\ refreshed \in Nat /\ replied \in Nat
  /\ status \in {"reading", "ended"}

\* The units of the first k messages, the data bodies and the heartbeats in them.
Wire(k) == FlattenSeq([i \in 1 .. k |-> HeadOf(i) \o BodyOf(i, sent[i].len)])
IsData(i) == sent[i].type = "DT" /\ sent[i].len > 0
DataBodies(k) ==
  FlattenSeq([i \in 1 .. k |-> IF IsData(i) THEN <<BodyOf(i, sent[i].len)>> ELSE <<>>])
Heartbeats(k) == Cardinality({i \in 1 .. k : sent[i].type = "HB"})

\* More was kept than the message needs.
Overrun == Lacks < 0

\* What the server's threads have left to write, one at a time unless mixed.
Unwritten == FlattenSeq(SetToSeq({writing[t] : t \in Sender}))

\* While an end reads and has not kept too much, its parser has taken exactly
\* the first k messages off the stream, however the network cut it into pieces:
\* it delivered their data, counted their heartbeats, and answered each one at
\* its head (TcpSession_IORecv and TcpClient_Recvfrom). And however often
\* TcpSession_IOSend had to go on, by whichever threads, as long as none of them
\* began while another one was half way through a message, and the application
\* used TransPortEngine_ServerSendTo, never TransPortEngine_ServerSendData, whose
\* bytes have no head.
ParsedExactly ==
  status = "reading" /\ ~Overrun /\ ~mixed =>
    \E k \in 0 .. Len(sent) :
      LET begun == IF m_bIsRecvHead THEN k + 1 ELSE k IN
      /\ m_bIsRecvHead =>
           /\ begun <= Len(sent)
           /\ sent[begun] = [type |-> m_nRecvDataType, len |-> m_nNeedRecvDataLen]
      /\ Wire(k) \o (IF m_bIsRecvHead THEN HeadOf(begun) ELSE <<>>)
           \o m_RecvBufs \o stream \o Unwritten = Wire(Len(sent))
      /\ delivered = DataBodies(k)
      /\ refreshed = Heartbeats(k)
      /\ end = "server" => replied = Heartbeats(begun)

\* Whatever happens to the connection, the application never gets a body that is
\* cut or out of order, nor, until the server's threads mix them or write without
\* a head, one that has parts of another in it.
DeliveredIsPrefix == IsPrefix(delivered, DataBodies(Len(sent)))

\* Once the server keeps too much (the comparisons of the body's length are the
\* wrong way round) nothing the peer sends has any effect any more: not even its
\* heartbeats count, so that the sweep will close the session.
OverrunIsFinal == [][Overrun => Overrun' /\ UNCHANGED told]_vars

\* The client loses nothing of whole messages: it never keeps too much, and its
\* thread leaves the loop only when all that was sent has been read.
ClientLosesNothing ==
  end = "client" => ~Overrun /\ (status = "ended" => closed /\ stream = <<>>)

\* Every data message that has a head (TransPortEngine_ServerSendTo) reaches the
\* client's application, unless messages get mixed, bytes without a head
\* (TransPortEngine_ServerSendData) get among them, or the server ends the
\* connection before the message is written.
ClientDelivers ==
  \A n \in 1 .. MaxSent :
    (end = "client" /\ Len(DataBodies(Len(sent))) >= n) ~>
      (Len(delivered) >= n \/ mixed \/ (closed /\ Unwritten # <<>>))

\* The server takes every message an SDK client sends (a heartbeat has no body):
\* TcpSession_IORecv does not return -1 on a connection that is open and carries
\* nothing but such messages.
ServerTakesMessages ==
  /\ end = "server" /\ status = "ended"
  /\ \A i \in DOMAIN sent : sent[i].type = "HB" => sent[i].len = 0
  => closed /\ stream = <<>>

\* How many heartbeats were sent before each data message.
After(k) ==
  FlattenSeq([i \in 1 .. k |-> IF IsData(i) THEN <<Heartbeats(i)>> ELSE <<>>])

Events == INSTANCE MessageEvents WITH
  Body <- {BodyOf(i, len) : i \in 1 .. MaxSent, len \in 1 .. MaxBody},
  answers <- (end = "server"),
  data <- DataBodies(Len(sent)), after <- After(Len(sent)), beats <- Heartbeats(Len(sent)),
  received <- delivered, counted <- refreshed, answered <- replied

\* Each end takes the messages as MessageEvents promises, until it stops to take
\* any, or the stream is no longer one whole message after the other: it handles
\* each one once, in the order they were sent, heartbeats among the data
\* (TcpSession_IORecv and TcpClient_Recvfrom).
ImplementsMessageEvents == Events!Spec

-----------------------------------------------------------------------------
(* The inductive invariant. *)

\* Whatever is under way is a unit of a message that was sent.
SentUnit == [msg : 1 .. Len(sent), unit : 1 .. HeadLen + MaxBody]
UnitInv ==
  /\ Len(sent) <= MaxSent
  /\ stream \in Seq(SentUnit) /\ m_RecvBufs \in Seq(SentUnit)
  /\ writing \in [Sender -> Seq(SentUnit)]

\* What the parser lacks: it never keeps a whole head, it waits for a body only
\* if there is one, and only the server's can have too much of it.
LackInv ==
  /\ ~m_bIsRecvHead => Len(m_RecvBufs) < HeadLen
  /\ m_bIsRecvHead => m_nNeedRecvDataLen > 0
  /\ end = "client" => Lacks > 0

\* Until messages are mixed at most one thread is half way through one, and a
\* server's reading has nothing to do with what it writes.
WriteInv ==
  /\ end = "server" => ~mixed /\ \A t \in Sender : writing[t] = <<>>
  /\ ~mixed => \A t, u \in Sender : t # u => writing[t] = <<>> \/ writing[u] = <<>>

\* The client ends when there is nothing left to read.
EndInv == end = "client" /\ status = "ended" => closed /\ stream = <<>>

\* Whatever became of the parser, the bodies delivered are those of the first
\* k messages.
DeliveryInv == \E k \in 0 .. Len(sent) : delivered = DataBodies(k)

\* The steps above preserve it (CTcpSession::TcpSession_IORecv,
\* TcpSession_IOSend and CTcpClient::TcpClient_Recvfrom).
FrameInv ==
  /\ TypeOK /\ UnitInv /\ LackInv /\ WriteInv /\ EndInv
  /\ ParsedExactly /\ DeliveryInv
=============================================================================
