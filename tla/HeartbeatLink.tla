---------------------------- MODULE HeartbeatLink ----------------------------
(***************************************************************************)
(* The two time-outs of a connection against each other, second by second:   *)
(* the client's heartbeats (TcpClient_KeepSessionAlive) and the server's      *)
(* sweep (TcpSessionMgr_HeartbeatDetection), which each end the connection    *)
(* when the time stamp of their own end is too old.                           *)
(*                                                                           *)
(* One client and a server that sweeps. The steps of EpollServer and          *)
(* TcpClient between two sleeps take no time here, up to Lag; what the sleeps  *)
(* are is what counts. No clock is kept, only the time since things happened. *)
(***************************************************************************)
EXTENDS Integers

CONSTANTS
  HEARTBEAT_TIMEOUT, \* of both ends, in seconds
  SweepSleep,        \* what the sweep sleeps, in seconds
  Interval,          \* the values of m_nHeartBeatInterval, in seconds
  Delay,             \* what arrives does so in this time, and is handled
  Lag,               \* a sleep is longer than asked for by at most this time
  MaxConn,           \* bound: how many connections there are at a time
  Cap                \* bound: where the counts of seconds stop

\* A session that has heard nothing is swept in this time.
SweepTime == HEARTBEAT_TIMEOUT + SweepSleep + Lag

\* Cap is longer than any time the properties speak of.
ASSUME LinkAssumption ==
  /\ HEARTBEAT_TIMEOUT \in Nat \ {0}
  /\ SweepSleep \in Nat \ {0}
  /\ Interval \subseteq Nat \ {0}
  /\ Delay \in Nat /\ Lag \in Nat
  /\ MaxConn \in Nat \ {0}
  /\ Cap \in Nat
  /\ \A i \in Interval : Cap > SweepTime + i + 2 * Delay

VARIABLES
  m_bIsHaveHead,        \* does the server work with heads?
  m_bIsHaveHB,          \* does the client beat?
  m_nHeartBeatInterval, \* and how often, in what sleep takes for seconds
  talks,                \* does its application send messages with heads, too?
  m_nLinkStatus,        \* the client's status
  conn,                 \* the client's last connection, 0 before the first
  lost,                 \* may its parser have lost its place in the stream?
  cpc,                  \* where its threads are: see CPC
  slept,                \* how long that thread has slept
  cage,                 \* time since the client's m_tHeartbeatTimeStamp
  up,                   \* does the server's process run?
  napped,               \* how long the sweep has slept
  session,              \* the server's end: "none", "backlog", "live", or "deaf"
                        \* when nobody reads it any more
  sage,                 \* time since its m_tHeartbeatTimeStamp, or in the backlog
  life,                 \* time since the session was made, if it is starved
  cut,                  \* does nothing arrive on the connection any more?
  beats,                \* how long the heartbeats to the server are under way
  replies,              \* and those to the client
  apart                 \* how long just one end has had the connection

modes     == <<m_bIsHaveHead, m_bIsHaveHB, m_nHeartBeatInterval, talks>>
client    == <<m_nLinkStatus, conn, cpc, lost>>
server    == <<up, session>>
network   == <<cut, beats, replies>>
stamps    == <<cage, sage, life>>
vars == <<modes, client, server, network, stamps, slept, napped, apart>>

Conn == 1 .. MaxConn

Count(n) == IF n < Cap THEN n + 1 ELSE n

Init ==
  /\ m_bIsHaveHead \in BOOLEAN /\ m_bIsHaveHB \in BOOLEAN
  /\ m_nHeartBeatInterval \in Interval /\ talks \in {FALSE, m_bIsHaveHead}
  /\ m_nLinkStatus = "DISCONNECT" /\ conn = 0 /\ lost = FALSE
  /\ cpc = IF m_bIsHaveHB THEN "sleep" ELSE "create"
  /\ slept = 0 /\ cage = 0 /\ up = TRUE /\ napped = 0
  /\ session = [c \in Conn |-> "none"]
  /\ sage = [c \in Conn |-> 0] /\ life = [c \in Conn |-> 0]
  /\ cut = [c \in Conn |-> FALSE]
  /\ beats = [c \in Conn |-> {}] /\ replies = [c \in Conn |-> {}]
  /\ apart = [c \in Conn |-> 0]

\* The heartbeat thread sleeps, or waits for the receive thread to end. Without
\* heartbeats there is CreateClient and then only a thread that receives.
CPC == {"create", "receive", "sleep", "join", "gone"}

\* The two ends of a connection: does the server hold a session for it, does the
\* client take it for connected?
Held(c)   == session[c] # "none"
Linked(c) == m_nLinkStatus = "CONNECT" /\ conn = c

\* Heartbeats that the server takes for such.
Beating == m_bIsHaveHead /\ m_bIsHaveHB

\* Sessions the server gets no heartbeat of, or not the second one.
Starved == ~Beating \/ m_nHeartBeatInterval > SweepTime + 2 * Delay

-----------------------------------------------------------------------------
(* Time. *)

\* Whoever must act by now does so before time goes on.
NothingDue ==
  /\ cpc = "sleep" => slept < m_nHeartBeatInterval + Lag
  /\ up => napped < SweepSleep + Lag
  /\ \A c \in Conn : /\ session[c] = "backlog" => sage[c] < Delay
                     /\ \A a \in beats[c] \cup replies[c] : a < Delay

\* A second goes by. What is over counts no more.
Tick ==
  /\ NothingDue
  /\ slept' = IF cpc = "sleep" THEN slept + 1 ELSE 0
  /\ cage' = IF m_nLinkStatus = "CONNECT" THEN Count(cage) ELSE 0
  /\ napped' = IF up THEN napped + 1 ELSE 0
  /\ sage' = [c \in Conn |-> IF Held(c) THEN Count(sage[c]) ELSE 0]
  /\ life' = [c \in Conn |-> IF Starved /\ Held(c) THEN Count(life[c]) ELSE 0]
  /\ beats' = [c \in Conn |-> {a + 1 : a \in beats[c]}]
  /\ replies' = [c \in Conn |-> {a + 1 : a \in replies[c]}]
  /\ apart' = [c \in Conn |-> IF Held(c) <=> Linked(c) THEN 0 ELSE Count(apart[c])]
  /\ UNCHANGED <<modes, client, server, cut>>

-----------------------------------------------------------------------------
(* The client. *)

\* connect() succeeds: the server's kernel has the connection, its accept
\* thread will make the session. The time stamp is set, the first beat sent.
Connect(c) ==
  /\ up /\ ~Held(c) /\ \A d \in 1 .. c - 1 : Held(d)
  /\ m_nLinkStatus' = "CONNECT" /\ conn' = c /\ cage' = 0
  /\ session' = [session EXCEPT ![c] = "backlog"]
  /\ sage' = [sage EXCEPT ![c] = 0] /\ life' = [life EXCEPT ![c] = 0]
  /\ apart' = [apart EXCEPT ![c] = 0]
  /\ cut' = [cut EXCEPT ![c] = FALSE]
  /\ beats' = [beats EXCEPT ![c] = IF m_bIsHaveHB THEN {0} ELSE {}]
  /\ replies' = [replies EXCEPT ![c] = {}]
  /\ UNCHANGED <<modes, lost, up, napped>>

\* Without heartbeats, in TcpClient_SocketInit.
AppConnect ==
  /\ cpc = "create"
  /\ \/ cpc' = "receive" /\ \E c \in Conn : Connect(c)
     \/ cpc' = "gone" /\ UNCHANGED <<modes, m_nLinkStatus, conn, lost, server, network, stamps,
                                 napped, apart>>
  /\ UNCHANGED slept

\* TcpClient_KeepSessionAlive after its sleep; it sleeps again afterwards.
Awake ==
  /\ cpc = "sleep" /\ slept >= m_nHeartBeatInterval
  /\ slept' = 0

HbConnect ==
  /\ Awake /\ m_nLinkStatus = "DISCONNECT"
  /\ \/ \E c \in Conn : Connect(c)
     \/ UNCHANGED <<modes, m_nLinkStatus, conn, lost, server, network, stamps, napped, apart>>
  /\ UNCHANGED cpc

\* Mutant: a connection has timed out only when it is older than the limit.
SessionTimeoutLate == cage > HEARTBEAT_TIMEOUT

\* TcpClient_SessionTimeout
SessionTimeout == cage >= HEARTBEAT_TIMEOUT

\* Somebody will read what is sent on c.
Heard(c) == session[c] \in {"backlog", "live"} /\ ~cut[c]

\* A beat is lost when the server has no session for it, or reads it no more.
HbBeat ==
  /\ Awake /\ m_nLinkStatus = "CONNECT" /\ ~SessionTimeout
  /\ beats' = [beats EXCEPT ![conn] = IF Heard(conn) THEN @ \cup {0} ELSE @]
  /\ UNCHANGED <<modes, client, server, cut, replies, stamps, napped, apart>>

\* The receive thread is in recv, and close does not wake it.
HbTimeout ==
  /\ Awake /\ m_nLinkStatus = "CONNECT" /\ SessionTimeout
  /\ m_nLinkStatus' = "DISCONNECT" /\ cpc' = "join"
  /\ replies' = [replies EXCEPT ![conn] = {}]
  /\ UNCHANGED <<modes, conn, lost, server, cut, beats, stamps, napped, apart>>

\* It ends when something arrives: data, or the end of the stream.
HbJoin ==
  /\ cpc = "join" /\ ~cut[conn] /\ session[conn] # "backlog"
  /\ cpc' = "sleep"
  /\ UNCHANGED <<modes, m_nLinkStatus, conn, lost, server, network, stamps, slept, napped, apart>>

\* Mutant: an answer leaves the time stamp as it is.
HandleHBOnly(a) ==
  /\ m_nLinkStatus = "CONNECT" /\ a \in replies[conn]
  /\ replies' = [replies EXCEPT ![conn] = @ \ {a}]
  /\ UNCHANGED <<modes, client, server, cut, beats, stamps, slept, napped, apart>>

\* TcpClient_HandleHB. A parser that has lost its place may take the answer for
\* something else.
HandleHB(a) ==
  /\ m_nLinkStatus = "CONNECT" /\ a \in replies[conn]
  /\ replies' = [replies EXCEPT ![conn] = @ \ {a}]
  /\ cage' = 0 \/ (lost /\ cage' = cage)
  /\ UNCHANGED <<modes, client, server, cut, beats, sage, life, slept, napped, apart>>

Client ==
  \/ AppConnect \/ HbConnect \/ HbBeat \/ HbTimeout \/ HbJoin
  \/ \E a \in 0 .. Delay : HandleHB(a)

-----------------------------------------------------------------------------
(* The server. *)

\* TcpSession_IORecv reads all there is. More than the rest of one head, two beats
\* at once or a message that comes with its head, is more than it can take.
TooMuch(c) == m_bIsHaveHead /\ (talks \/ \E a, b \in beats[c] : a # b)

\* A session is made, with a fresh time stamp. If reading fails at once, what was
\* read is lost, and the accept thread's second arming has the session read on.
Accept(c) ==
  /\ session[c] = "backlog"
  /\ session' = [session EXCEPT ![c] = "live"]
  /\ sage' = [sage EXCEPT ![c] = 0] /\ life' = [life EXCEPT ![c] = 0]
  /\ \E refused \in SUBSET beats[c] :
       /\ refused # {} => TooMuch(c)
       /\ beats' = [beats EXCEPT ![c] = @ \ refused]
  /\ UNCHANGED <<modes, client, up, cut, replies, cage, slept, napped, apart>>

\* Mutant: whatever comes in sets the time stamp.
IORecvStamps(c, a) ==
  /\ session[c] = "live" /\ a \in beats[c]
  /\ beats' = [beats EXCEPT ![c] = @ \ {a}]
  /\ sage' = [sage EXCEPT ![c] = 0]
  /\ replies' = IF m_bIsHaveHead /\ Linked(c) THEN [replies EXCEPT ![c] = @ \cup {0}]
                 ELSE replies
  /\ UNCHANGED <<modes, client, server, cut, cage, life, slept, napped, apart>>

\* TcpSession_IORecv takes a heartbeat: with heads it sets the time stamp and
\* sends the head back, without heads it is data for the application.
IORecv(c, a) ==
  /\ session[c] = "live" /\ a \in beats[c]
  /\ beats' = [beats EXCEPT ![c] = @ \ {a}]
  /\ sage' = IF m_bIsHaveHead THEN [sage EXCEPT ![c] = 0] ELSE sage
  /\ replies' = IF m_bIsHaveHead /\ Linked(c) THEN [replies EXCEPT ![c] = @ \cup {0}]
                 ELSE replies
  /\ UNCHANGED <<modes, client, server, cut, cage, life, slept, napped, apart>>

\* TcpSession_IORecv returns -1, without arming the session's descriptor again,
\* and its caller ends nothing in a server that sweeps (or it keeps what it will
\* never take for a message): no later heartbeat sets the time stamp.
IORecvFails(c) ==
  /\ session[c] = "live" /\ TooMuch(c)
  /\ session' = [session EXCEPT ![c] = "deaf"]
  /\ beats' = [beats EXCEPT ![c] = {}]
  /\ UNCHANGED <<modes, client, up, cut, replies, stamps, slept, napped, apart>>

\* Mutant: a session has timed out when it is as old as the limit.
IsHeartbeatTimeOutEarly(c) == sage[c] >= HEARTBEAT_TIMEOUT

\* TcpSession_IsHeartbeatTimeOut
IsHeartbeatTimeOut(c) == sage[c] > HEARTBEAT_TIMEOUT

\* TcpSessionMgr_HeartbeatDetection after its sleep.
Sweep ==
  /\ up /\ napped >= SweepSleep
  /\ napped' = 0
  /\ LET swept == {c \in Conn : session[c] \in {"live", "deaf"} /\ IsHeartbeatTimeOut(c)} IN
     /\ session' = [c \in Conn |-> IF c \in swept THEN "none" ELSE session[c]]
     /\ beats' = [c \in Conn |-> IF c \in swept THEN {} ELSE beats[c]]
  /\ UNCHANGED <<modes, client, up, cut, replies, stamps, slept, apart>>

Server ==
  \/ Sweep
  \/ \E c \in Conn : Accept(c) \/ IORecvFails(c) \/ \E a \in 0 .. Delay : IORecv(c, a)

-----------------------------------------------------------------------------
(* What goes wrong. *)

\* The connection carries nothing any more, and neither end is told.
Cut(c) ==
  /\ ~cut[c] /\ (Held(c) \/ conn = c)
  /\ cut' = [cut EXCEPT ![c] = TRUE]
  /\ beats' = [beats EXCEPT ![c] = {}]
  /\ replies' = [replies EXCEPT ![c] = {}]
  /\ UNCHANGED <<modes, client, server, stamps, slept, napped, apart>>

\* The client's parser loses its place: the server's application has sent bytes
\* without a head (AcceptSession_SendData), or a connection has ended inside a
\* message. CTcpClient never finds it again for certain, and may take what comes
\* for an answer.
LosePlace ==
  /\ m_bIsHaveHead /\ conn # 0
  /\ lost' = TRUE
  /\ \/ UNCHANGED replies
     \/ /\ Linked(conn) /\ session[conn] \in {"live", "deaf"} /\ ~cut[conn]
        /\ replies' = [replies EXCEPT ![conn] = @ \cup {0}]
  /\ UNCHANGED <<modes, m_nLinkStatus, conn, cpc, server, cut, beats, stamps, slept, napped,
                 apart>>

\* The client's process ends, also by the SIGPIPE of a beat it sends to an end that
\* has gone. The end of the stream does not end a session of a server that sweeps.
ClientDies ==
  /\ cpc # "gone"
  /\ cpc' = "gone" /\ m_nLinkStatus' = "DISCONNECT"
  /\ replies' = [c \in Conn |-> {}]
  /\ UNCHANGED <<modes, conn, lost, server, cut, beats, stamps, slept, napped, apart>>

\* The server's process ends, also by the SIGPIPE of an answer it writes, and is
\* started again.
ServerDies ==
  /\ up /\ up' = FALSE
  /\ session' = [c \in Conn |-> "none"]
  /\ beats' = [c \in Conn |-> {}]
  /\ UNCHANGED <<modes, client, cut, replies, stamps, slept, napped, apart>>

ServerStarts ==
  /\ ~up /\ up' = TRUE /\ napped' = 0
  /\ UNCHANGED <<modes, client, session, network, stamps, slept, apart>>

Faults == LosePlace \/ ClientDies \/ ServerDies \/ ServerStarts \/ \E c \in Conn : Cut(c)

Next == Tick \/ Client \/ Server \/ Faults

Spec == Init /\ [][Next]_vars

-----------------------------------------------------------------------------
(* Correctness. *)

\* The types of the ends, and of the times.
LinkTypeOK ==
  /\ m_bIsHaveHead \in BOOLEAN /\ m_bIsHaveHB \in BOOLEAN
  /\ m_nHeartBeatInterval \in Interval /\ talks \in BOOLEAN
  /\ m_nLinkStatus \in {"CONNECT", "DISCONNECT"} /\ lost \in BOOLEAN
  /\ conn \in 0 .. MaxConn /\ cpc \in CPC /\ up \in BOOLEAN
  /\ session \in [Conn -> {"none", "backlog", "live", "deaf"}] /\ cut \in [Conn -> BOOLEAN]
TimeTypeOK ==
  /\ slept \in Nat /\ napped \in Nat /\ cage \in 0 .. Cap
  /\ sage \in [Conn -> 0 .. Cap] /\ life \in [Conn -> 0 .. Cap]
  /\ apart \in [Conn -> 0 .. Cap]
  /\ beats \in [Conn -> SUBSET (0 .. Delay)] /\ replies \in [Conn -> SUBSET (0 .. Delay)]

\* Every variable keeps its type; in particular nothing is under way for longer
\* than Delay.
TypeOK == LinkTypeOK /\ TimeTypeOK

\* Beats that come one at a time, in time for the server, and answers in time for
\* the client.
Spaced == Beating /\ m_nHeartBeatInterval > Delay
InTimeForServer == Spaced /\ m_nHeartBeatInterval + Lag + Delay <= HEARTBEAT_TIMEOUT
InTimeForClient == Spaced /\ m_nHeartBeatInterval + Lag + 2 * Delay < HEARTBEAT_TIMEOUT

\* Reading can fail when the application sends as well, for then two things may
\* come in together: one message with its head is enough (the run
\* framing_server shows it).
Deaf(c) == talks /\ session[c] = "deaf"

\* A client that beats in time keeps its connection: the server (TcpSession_
\* IsHeartbeatTimeOut, which asks for MORE than the limit) does not sweep it, and
\* the client (TcpClient_SessionTimeout, which asks for the limit) does not give
\* it up, until the network fails or one of the two processes ends. The client
\* needs its answer in time as well, hence the second Delay. It does lose it when
\* its application's data has made the server deaf, and may when it cannot find
\* the answers in the stream.
LinkStays ==
  [][\A c \in Conn :
       Held(c) /\ Linked(c) /\ ~Deaf(c) =>
         \/ cut'[c] \/ ~up' \/ cpc' = "gone"
         \/ /\ InTimeForServer /\ Linked(c)' => Held(c)'
            /\ InTimeForClient /\ ~lost => Linked(c)']_vars

\* The ends do not disagree for long about a connection, whatever failed and
\* whoever ended it: a session whose client has gone is swept, and a client that
\* beats gives up a connection its server has ended (or lost in a restart).
HalfOpenBounded ==
  \A c \in Conn :
    /\ Held(c) /\ ~Linked(c) => apart[c] <= SweepTime + Delay
    /\ Linked(c) /\ ~Held(c) /\ m_bIsHaveHB =>
         apart[c] < HEARTBEAT_TIMEOUT + m_nHeartBeatInterval + Lag + Delay

\* A starved session ends soon after it was made, however much its client sends:
\* data does not set the time stamp, and a server without heads takes heartbeats
\* for data (TcpServerTest runs like that). The client's sleep takes its interval
\* for seconds, TcpClient gives it in milliseconds: 5000 is such an interval.
StarvedIsSwept ==
  Starved => \A c \in Conn : Held(c) => life[c] <= SweepTime + Delay

-----------------------------------------------------------------------------
(* The inductive invariant. *)

\* What the sleeps and the delays allow, and which threads there are.
DueInv ==
  /\ cpc \in {"sleep", "join"} => slept <= m_nHeartBeatInterval + Lag
  /\ napped <= SweepSleep + Lag
  /\ cpc \in {"sleep", "join"} => m_bIsHaveHB
  /\ cpc \in {"create", "receive"} => ~m_bIsHaveHB
  /\ m_nLinkStatus = "CONNECT" => cpc \in {"sleep", "receive"}
  /\ m_nLinkStatus = "CONNECT" \/ cpc = "join" => conn \in Conn

\* Where heartbeats and answers are under way at all.
UnderWayInv ==
  \A c \in Conn :
    /\ session[c] = "backlog" => sage[c] <= Delay
    /\ beats[c] # {} => session[c] \in {"backlog", "live"} /\ m_bIsHaveHB
    /\ m_nHeartBeatInterval > Delay => /\ \A a, b \in beats[c] : a = b
                                       /\ Linked(c) => \A a \in beats[c] : a = slept
                                       /\ session[c] = "deaf" => talks
    /\ replies[c] # {} => Linked(c) /\ m_bIsHaveHead
    /\ ~up => ~Held(c)

\* How old the stamps get before they are looked at.
StampInv ==
  /\ \A c \in Conn :
       session[c] \in {"live", "deaf"} => sage[c] <= HEARTBEAT_TIMEOUT + napped
  /\ m_nLinkStatus = "CONNECT" /\ m_bIsHaveHB => cage < HEARTBEAT_TIMEOUT + slept

\* One end has been alone for hardly longer than its stamp is old: nothing of
\* the other end is younger.
AloneInv(c) ==
  /\ Held(c) /\ Linked(c) => apart[c] = 0
  /\ ~(Held(c) <=> Linked(c)) => \A a \in beats[c] \cup replies[c] : apart[c] <= a
  /\ session[c] = "backlog" => apart[c] <= sage[c]
  /\ session[c] \in {"live", "deaf"} => apart[c] <= sage[c] + Delay
  /\ Linked(c) /\ ~Held(c) => apart[c] <= cage + Delay

\* While both ends beat and listen, the stamps are no older than the last beat,
\* the one before it, or the answer to that.
Period == m_nHeartBeatInterval + Lag
BeatInv(c) ==
  Spaced /\ Linked(c) /\ Heard(c) =>
    /\ session[c] = "backlog" => /\ beats[c] # {} /\ replies[c] = {}
                                 /\ slept <= sage[c] /\ cage <= slept
    /\ session[c] = "live" => \/ beats[c] = {} /\ sage[c] <= slept
                              \/ \E a \in beats[c] : sage[c] <= a + Period
    /\ \/ lost
       \/ beats[c] = {} /\ replies[c] = {} /\ cage <= slept
       \/ replies[c] = {} /\ \E a \in beats[c] : cage <= a + Period
       \/ \E a \in replies[c] : cage <= a + Delay + Period

\* A starved session has its stamp from its first seconds.
StarvedInv(c) ==
  Starved /\ Held(c) =>
    /\ session[c] = "backlog" => life[c] = sage[c]
    /\ life[c] <= sage[c] + Delay
    /\ ~Beating => life[c] = sage[c]
    /\ Beating => /\ \A a \in beats[c] : life[c] <= a
                  /\ Linked(c) => slept <= life[c] + Delay
                  /\ Linked(c) /\ session[c] = "backlog" => slept <= sage[c]

ConnInv == \A c \in Conn : AloneInv(c) /\ BeatInv(c) /\ StarvedInv(c)

\* All of it together is inductive: how old each stamp can be, given how long the
\* threads have slept and what is under way.
LinkInv == TypeOK /\ DueInv /\ UnderWayInv /\ StampInv /\ ConnInv
=============================================================================
