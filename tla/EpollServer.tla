----------------------------- MODULE EpollServer -----------------------------
(***************************************************************************)
(* The Linux server of the transport engine, from CreateServer having       *)
(* returned to DestroyServer returning: the accept thread                   *)
(* (CAcceptSession), the epoll worker threads (CNetEventModleEpoll and      *)
(* CTcpSession::TcpSession_IORecv), the heartbeat detection thread          *)
(* (CTcpSessionMgr), an application thread that sends by session id and     *)
(* the application thread that destroys the server.                         *)
(*                                                                          *)
(* A Session stands for one TCP connection and the CTcpSession object that  *)
(* serves it; a Socket is a file descriptor, which the kernel hands out     *)
(* again once it is closed.  A step of a thread runs from one point where   *)
(* the other threads can interfere to the next.                             *)
(***************************************************************************)
EXTENDS Integers, Sequences, FiniteSets

CONSTANTS
  Session,      \* connections, each with the CTcpSession made for it
  Socket,       \* descriptors accept() may return
  NoSession,    \* the null pointer, an empty map slot
  NoSocket,     \* -1, the value of m_nSocket once it is closed
  ModleCount,   \* m_nEventModleCount, the number of epoll modules
  ThreadCount,  \* m_nNetEventModleThreadCount, the threads of a module
  MaxChunk,     \* bound: segments one peer sends
  bIsHaveHB,    \* is the heartbeat detection thread running?
  bIsHaveHead,  \* do messages carry a HEAD_MSG_T?
  AddMayFail    \* may epoll_ctl(EPOLL_CTL_ADD) fail (ENOMEM, ENOSPC)?

ASSUME ConstantsAssumption ==
  /\ NoSession \notin Session
  /\ NoSocket \notin Socket
  /\ ModleCount \in Nat \ {0}
  /\ ThreadCount \in Nat \ {0}
  /\ MaxChunk \in Nat
  /\ bIsHaveHB \in BOOLEAN
  /\ bIsHaveHead \in BOOLEAN
  /\ AddMayFail \in BOOLEAN

Modle == 0 .. ModleCount - 1

\* A worker is the i-th thread of a module.
Worker == Modle \X (1 .. ThreadCount)

VARIABLES
  \* the peers and the kernel's side of their connections
  peer, sent, nread, conn, watch,
  \* the CTcpSession objects
  mem, m_nSocket, modle, stale,
  \* CTcpSessionMgr and CNetEventModleMgr
  m_TcpSessions, m_TcpSessionMgrLock, m_NetEventModleLock, modles,
  \* the flags DestroyServer clears to stop the threads
  m_bAcceptThreadFlag, bWorkThreadFlag, m_bIsHeartbeat,
  \* the threads: where each is and its local variables
  apc, asess, asock, m_nAcceptIndex,
  wpc, wtodo, wsess, wchunk,
  hpc, hvisit, hsess,
  ppc, psess,
  dpc,
  \* what the application was told, and what went wrong
  notices, delivered, doubled, fault

peerVars    == <<peer, sent>>
netVars     == <<nread, conn, watch>>
objectVars  == <<mem, m_nSocket, modle, stale>>
mgrVars     == <<m_TcpSessions, m_TcpSessionMgrLock>>
modleVars   == <<m_NetEventModleLock, modles>>
flagVars    == <<m_bAcceptThreadFlag, bWorkThreadFlag, m_bIsHeartbeat>>
acceptVars  == <<apc, asess, asock, m_nAcceptIndex>>
workerVars  == <<wpc, wtodo, wsess, wchunk>>
hbVars      == <<hpc, hvisit, hsess>>
appVars     == <<ppc, psess>>
historyVars == <<notices, delivered, doubled>>

vars == <<peerVars, netVars, objectVars, mgrVars, modleVars, flagVars,
          acceptVars, workerVars, hbVars, appVars, dpc, historyVars, fault>>

-----------------------------------------------------------------------------
(* State the properties and the actions share. *)

Unread(s) == nread[s] < sent[s]

\* Connections the listening socket holds and nobody has accepted.
Backlog == {s \in Session : peer[s] # "none" /\ mem[s] = "none"}

FreeSocket == {k \in Socket : conn[k] = NoSession}

\* The descriptor kept in the object is the object's own open connection.
OwnsSocket(s) == m_nSocket[s] \in Socket /\ conn[m_nSocket[s]] = s

\* The descriptor kept in the object was closed and is another's by now.
Alien(s) == m_nSocket[s] \in Socket /\ conn[m_nSocket[s]] \notin {s, NoSession}

\* epoll_wait would report the session: armed, and data or an end to report.
Ready(s) == watch[s] = "armed" /\ (Unread(s) \/ peer[s] \in {"closed", "reset"})

\* Worker w has fetched an event of s that it has not finished handling.
Holds(w, s) == wsess[w] = s \/ s \in wtodo[w]

Registered == {m_TcpSessions[k] : k \in Socket} \ {NoSession}

\* close(m_nSocket): the descriptor is free again and leaves its epoll.
Close(s) ==
  /\ conn' = [k \in Socket |-> IF k = m_nSocket[s] THEN NoSession ELSE conn[k]]
  /\ watch' = [watch EXCEPT ![s] = "off"]

\* Mutant: Fini forgets OnTransPortEngineNotify(DISCONNECT).
FiniWithoutNotice(s) ==
  /\ Close(s)
  /\ m_nSocket' = [m_nSocket EXCEPT ![s] = NoSocket]
  /\ mem' = [mem EXCEPT ![s] = "deleted"]
  /\ UNCHANGED notices

\* TcpSession_Fini (DISCONNECT, close, m_nSocket = -1) and delete, by a thread
\* no other can interfere with.
FiniAndDelete(s) ==
  /\ notices' = [notices EXCEPT ![s] = @ + 1]
  /\ Close(s)
  /\ m_nSocket' = [m_nSocket EXCEPT ![s] = NoSocket]
  /\ mem' = [mem EXCEPT ![s] = "deleted"]

\* Mutant: the registration keeps the events it had, so it stays disarmed.
ModEventKeeps(s) == watch[s] # "off" /\ UNCHANGED watch

\* NetEventModleEpoll_ModEvent of a registered descriptor arms it again.
ModEvent(s) == watch[s] # "off" /\ watch' = [watch EXCEPT ![s] = "armed"]

AcceptPC  == {"top", "wait", "insert", "add", "recv",
              "undoevent", "undoinsert", "undosession", "exited"}
WorkerPC  == {"top", "wait", "dispatch", "read", "handle", "rearm", "fail", "exited"}
HbPC      == {"top", "sleep", "visit", "delevent", "notify", "close", "clear",
              "delete", "exited"}
DestroyPC == {"idle", "accept", "workers", "heartbeat", "joinheartbeat",
              "sessions", "done"}

\* Where the accept thread, a worker and the heartbeat thread have a session.
Accepting   == {"insert", "add", "recv", "undoevent", "undoinsert", "undosession"}
Handling    == {"read", "handle", "rearm", "fail"}
TearingDown == {"delevent", "notify", "close", "clear", "delete"}

Thread    == {"accept", "worker", "heartbeat", "app"}

-----------------------------------------------------------------------------
(* The server as CreateServer leaves it: AcceptSession_Init has made the     *)
(* managers, the modules with their threads, and the accept thread.          *)

Init ==
  /\ peer = [s \in Session |-> "none"]
  /\ sent = [s \in Session |-> 0]
  /\ nread = [s \in Session |-> 0]
  /\ conn = [k \in Socket |-> NoSession]
  /\ watch = [s \in Session |-> "off"]
  /\ mem = [s \in Session |-> "none"]
  /\ m_nSocket = [s \in Session |-> NoSocket]
  /\ modle = [s \in Session |-> 0]
  /\ stale = [s \in Session |-> FALSE]
  /\ m_TcpSessions = [k \in Socket |-> NoSession]
  /\ m_TcpSessionMgrLock = "free"
  /\ m_NetEventModleLock = "free"
  /\ modles = TRUE
  /\ m_bAcceptThreadFlag = TRUE
  /\ bWorkThreadFlag = [w \in Worker |-> TRUE]
  /\ m_bIsHeartbeat = bIsHaveHB
  /\ apc = "top" /\ asess = NoSession /\ asock = NoSocket /\ m_nAcceptIndex = 0
  /\ wpc = [w \in Worker |-> "top"]
  /\ wtodo = [w \in Worker |-> {}]
  /\ wsess = [w \in Worker |-> NoSession]
  /\ wchunk = [w \in Worker |-> 0]
  /\ hpc = "top" /\ hvisit = {} /\ hsess = NoSession
  /\ ppc = "idle" /\ psess = NoSession
  /\ dpc = "idle"
  /\ notices = [s \in Session |-> 0]
  /\ delivered = [s \in Session |-> <<>>]
  /\ doubled = [s \in Session |-> FALSE]
  /\ fault = "none"

-----------------------------------------------------------------------------
(* The peers. *)

PeerUnchanged == UNCHANGED <<netVars, objectVars, mgrVars, modleVars, flagVars,
                   acceptVars, workerVars, hbVars, appVars, dpc, historyVars, fault>>

PeerConnect(s) ==
  /\ peer[s] = "none"
  /\ peer' = [peer EXCEPT ![s] = "open"]
  /\ UNCHANGED sent /\ PeerUnchanged

PeerSend(s) ==
  /\ peer[s] = "open" /\ sent[s] < MaxChunk /\ mem[s] # "deleted"
  /\ sent' = [sent EXCEPT ![s] = @ + 1]
  /\ UNCHANGED peer /\ PeerUnchanged

\* A closed peer shows as end of file, a reset one as EPOLLHUP and ECONNRESET.
PeerLeave(s) ==
  /\ peer[s] = "open" /\ mem[s] # "deleted"
  /\ \E how \in {"closed", "reset"} : peer' = [peer EXCEPT ![s] = how]
  /\ UNCHANGED sent /\ PeerUnchanged

\* More than HEARTBEAT_TIMEOUT seconds pass with m_tHeartbeatTimeStamp as it is.
Expire(s) ==
  /\ bIsHaveHB /\ mem[s] = "live" /\ ~stale[s]
  /\ stale' = [stale EXCEPT ![s] = TRUE]
  /\ UNCHANGED <<peerVars, netVars, mem, m_nSocket, modle, mgrVars, modleVars,
       flagVars, acceptVars, workerVars, hbVars, appVars, dpc, historyVars, fault>>

Environment(s) == PeerConnect(s) \/ PeerSend(s) \/ PeerLeave(s) \/ Expire(s)

-----------------------------------------------------------------------------
(* The accept thread: CAcceptSession::AcceptSession_Accept. *)

AcceptUnchanged == UNCHANGED <<peerVars, nread, modleVars, flagVars, workerVars,
                     hbVars, appVars, dpc, delivered, fault>>

AcceptTop ==
  /\ apc = "top"
  /\ apc' = IF m_bAcceptThreadFlag THEN "wait" ELSE "exited"
  /\ UNCHANGED <<asess, asock, m_nAcceptIndex, conn, watch, objectVars, mgrVars,
       notices, doubled>>
  /\ AcceptUnchanged

\* epoll_wait times out, or accept fails because no descriptor is left.
AcceptNone ==
  /\ apc = "wait"
  /\ Backlog = {} \/ FreeSocket = {}
  /\ apc' = "top"
  /\ UNCHANGED <<asess, asock, m_nAcceptIndex, conn, watch, objectVars, mgrVars,
       notices, doubled>>
  /\ AcceptUnchanged

\* m_nAcceptIndex++ and the module it selects; only the remainder matters.
NextModle == (m_nAcceptIndex + 1) % ModleCount

\* accept(), new CTcpSession, FindModle and TcpSession_Init, which notifies
\* CONNECT; no other thread can see the object yet.
AcceptNew(s, k) ==
  /\ apc = "wait" /\ s \in Backlog /\ k \in FreeSocket
  /\ m_nAcceptIndex' = NextModle
  /\ conn' = [conn EXCEPT ![k] = s]
  /\ mem' = [mem EXCEPT ![s] = "live"]
  /\ m_nSocket' = [m_nSocket EXCEPT ![s] = k]
  /\ modle' = [modle EXCEPT ![s] = NextModle]
  /\ notices' = [notices EXCEPT ![s] = @ + 1]
  /\ asess' = s /\ asock' = k /\ apc' = "insert"
  /\ UNCHANGED <<watch, stale, mgrVars, doubled>>
  /\ AcceptUnchanged

\* TcpSessionMgr_AddSession: std::map::insert keeps an entry that is there.
AcceptInsert ==
  /\ apc = "insert" /\ mem[asess] = "live" /\ m_TcpSessionMgrLock = "free"
  /\ m_TcpSessions' = IF m_TcpSessions[m_nSocket[asess]] = NoSession
                      THEN [m_TcpSessions EXCEPT ![m_nSocket[asess]] = asess]
                      ELSE m_TcpSessions
  /\ apc' = "add"
  /\ UNCHANGED <<asess, asock, m_nAcceptIndex, conn, watch, objectVars,
       m_TcpSessionMgrLock, notices, doubled>>
  /\ AcceptUnchanged

\* NetEventModleEpoll_AddEvent: from here on the workers may handle the session.
AcceptAddEvent ==
  /\ apc = "add" /\ mem[asess] = "live" /\ OwnsSocket(asess)
  /\ watch' = [watch EXCEPT ![asess] = "armed"]
  /\ apc' = "recv"
  /\ UNCHANGED <<asess, asock, m_nAcceptIndex, conn, objectVars, mgrVars,
       notices, doubled>>
  /\ AcceptUnchanged

AcceptAddEventFails ==
  /\ apc = "add" /\ mem[asess] = "live"
  /\ AddMayFail \/ ~OwnsSocket(asess)
  /\ apc' = "undoinsert"
  /\ UNCHANGED <<asess, asock, m_nAcceptIndex, conn, watch, objectVars, mgrVars,
       notices, doubled>>
  /\ AcceptUnchanged

\* TcpSession_IORecv(1) re-arms the one-shot registration with ModEvent,
\* whether or not a worker has taken the event AddEvent armed.
AcceptIORecv ==
  /\ apc = "recv" /\ mem[asess] = "live"
  /\ IF watch[asess] # "off"
     THEN /\ ModEvent(asess)
          /\ doubled' = [doubled EXCEPT ![asess] = \E w \in Worker : Holds(w, asess)]
          /\ asess' = NoSession /\ asock' = NoSocket /\ apc' = "top"
     ELSE /\ apc' = "undoevent"
          /\ UNCHANGED <<watch, doubled, asess, asock>>
  /\ UNCHANGED <<m_nAcceptIndex, conn, objectVars, mgrVars, notices>>
  /\ AcceptUnchanged

\* The failed IORecv(1) is undone from NetEventModleEpoll_DelEvent on.
AcceptUndoEvent ==
  /\ apc = "undoevent" /\ mem[asess] = "live"
  /\ watch' = [watch EXCEPT ![asess] = "off"]
  /\ apc' = "undoinsert"
  /\ UNCHANGED <<asess, asock, m_nAcceptIndex, conn, objectVars, mgrVars,
       notices, doubled>>
  /\ AcceptUnchanged

\* TcpSessionMgr_DelSession(nAcceptSock).
AcceptUndoInsert ==
  /\ apc = "undoinsert" /\ m_TcpSessionMgrLock = "free"
  /\ m_TcpSessions' = [m_TcpSessions EXCEPT ![asock] = NoSession]
  /\ apc' = "undosession"
  /\ UNCHANGED <<asess, asock, m_nAcceptIndex, conn, watch, objectVars,
       m_TcpSessionMgrLock, notices, doubled>>
  /\ AcceptUnchanged

\* TcpSession_Fini (notify DISCONNECT, close) and delete.
AcceptUndoSession ==
  /\ apc = "undosession" /\ mem[asess] = "live"
  /\ FiniAndDelete(asess)
  /\ asess' = NoSession /\ asock' = NoSocket /\ apc' = "top"
  /\ UNCHANGED <<m_nAcceptIndex, modle, stale, mgrVars, doubled>>
  /\ AcceptUnchanged

AcceptThread ==
  \/ AcceptTop \/ AcceptNone
  \/ \E s \in Session, k \in Socket : AcceptNew(s, k)
  \/ AcceptInsert \/ AcceptAddEvent \/ AcceptAddEventFails \/ AcceptIORecv
  \/ AcceptUndoEvent \/ AcceptUndoInsert \/ AcceptUndoSession

-----------------------------------------------------------------------------
(* A worker thread: CNetEventModleEpoll::NetEventModleEpoll_HandleData, with *)
(* CTcpSession::TcpSession_IORecv for the sessions it is handed.             *)

WorkerUnchanged == UNCHANGED <<peerVars, conn, mem, m_nSocket, modle, mgrVars,
                     modleVars, flagVars, acceptVars, hbVars, appVars, dpc,
                     notices, doubled, fault>>

GoTo(w, label) == wpc' = [wpc EXCEPT ![w] = label]

\* Mutant: the loop does not look at bWorkThreadFlag.
WorkerTopForever(w) ==
  /\ wpc[w] = "top"
  /\ GoTo(w, "wait")
  /\ UNCHANGED <<wtodo, wsess, wchunk, nread, watch, stale, delivered>>
  /\ WorkerUnchanged

WorkerTop(w) ==
  /\ wpc[w] = "top"
  /\ GoTo(w, IF bWorkThreadFlag[w] THEN "wait" ELSE "exited")
  /\ UNCHANGED <<wtodo, wsess, wchunk, nread, watch, stale, delivered>>
  /\ WorkerUnchanged

WorkerReady(w) == {s \in Session : Ready(s) /\ modle[s] = w[1]}

WorkerTimeout(w) ==
  /\ wpc[w] = "wait" /\ WorkerReady(w) = {}
  /\ GoTo(w, "top")
  /\ UNCHANGED <<wtodo, wsess, wchunk, nread, watch, stale, delivered>>
  /\ WorkerUnchanged

\* Mutant: the registration is not one-shot (EPOLLONESHOT dropped).
DisarmNothing(E) == UNCHANGED watch

\* What a one-shot registration does when its event is handed out.
Disarm(E) == watch' = [s \in Session |-> IF s \in E THEN "disarmed" ELSE watch[s]]

\* epoll_wait hands out events and disarms their one-shot registrations.  An
\* event with EPOLLHUP or EPOLLERR is skipped: nobody will re-arm the session.
WorkerFetch(w) ==
  /\ wpc[w] = "wait"
  /\ \E E \in SUBSET WorkerReady(w) :
       /\ E # {}
       /\ Disarm(E)
       /\ wtodo' = [wtodo EXCEPT ![w] = {s \in E : peer[s] # "reset"}]
  /\ GoTo(w, "dispatch")
  /\ UNCHANGED <<wsess, wchunk, nread, stale, delivered>>
  /\ WorkerUnchanged

WorkerDispatch(w) ==
  /\ wpc[w] = "dispatch"
  /\ \/ /\ wtodo[w] = {}
        /\ GoTo(w, "top")
        /\ UNCHANGED <<wtodo, wsess>>
     \/ \E s \in wtodo[w] :
          /\ wtodo' = [wtodo EXCEPT ![w] = @ \ {s}]
          /\ wsess' = [wsess EXCEPT ![w] = s]
          /\ GoTo(w, "read")
  /\ UNCHANGED <<wchunk, nread, watch, stale, delivered>>
  /\ WorkerUnchanged

\* read(): a segment; EAGAIN when there is none; 0 or an error at the end of
\* the connection or when the heartbeat thread has closed the descriptor.
WorkerRead(w) ==
  LET s == wsess[w] IN
  /\ wpc[w] = "read" /\ mem[s] = "live" /\ ~Alien(s)
  /\ \/ /\ OwnsSocket(s) /\ Unread(s)
        /\ nread' = [nread EXCEPT ![s] = @ + 1]
        /\ wchunk' = [wchunk EXCEPT ![w] = nread[s] + 1]
        /\ GoTo(w, "handle")
     \/ /\ OwnsSocket(s) /\ ~Unread(s) /\ peer[s] = "open"
        /\ GoTo(w, "rearm")
        /\ UNCHANGED <<nread, wchunk>>
     \/ /\ ~OwnsSocket(s) \/ (~Unread(s) /\ peer[s] # "open")
        /\ GoTo(w, "fail")
        /\ UNCHANGED <<nread, wchunk>>
  /\ UNCHANGED <<wtodo, wsess, watch, stale, delivered>>
  /\ WorkerUnchanged

\* The segment goes to OnTransPortEngineRecv; with heads it may also be a
\* heartbeat (which refreshes the time stamp), be kept for later, or be
\* refused, which ends IORecv with an error.
WorkerHandle(w) ==
  LET s == wsess[w] IN
  /\ wpc[w] = "handle" /\ mem[s] = "live" /\ ~Alien(s)
  /\ \/ /\ delivered' = [delivered EXCEPT ![s] = Append(@, wchunk[w])]
        /\ GoTo(w, "read") /\ UNCHANGED stale
     \/ /\ bIsHaveHead
        /\ stale' = [stale EXCEPT ![s] = FALSE]
        /\ GoTo(w, "read") /\ UNCHANGED delivered
     \/ /\ bIsHaveHead
        /\ GoTo(w, "read") /\ UNCHANGED <<stale, delivered>>
     \/ /\ bIsHaveHead
        /\ GoTo(w, "fail") /\ UNCHANGED <<stale, delivered>>
  /\ wchunk' = [wchunk EXCEPT ![w] = 0]
  /\ UNCHANGED <<wtodo, wsess, nread, watch>>
  /\ WorkerUnchanged

\* IORecv's closing NetEventModleEpoll_ModEvent.
WorkerRearm(w) ==
  LET s == wsess[w] IN
  /\ wpc[w] = "rearm" /\ mem[s] = "live" /\ ~Alien(s)
  /\ IF watch[s] # "off"
     THEN /\ ModEvent(s)
          /\ wsess' = [wsess EXCEPT ![w] = NoSession]
          /\ GoTo(w, "dispatch")
     ELSE /\ GoTo(w, "fail")
          /\ UNCHANGED <<watch, wsess>>
  /\ UNCHANGED <<wtodo, wchunk, nread, stale, delivered>>
  /\ WorkerUnchanged

\* TcpSessionMgr_DelSession(nSock), where nSock = data.fd is the low half of
\* the pointer stored over it in data.ptr: no session has that key, DelSession
\* returns -1 and the worker moves on without tearing the session down.
WorkerFail(w) ==
  /\ wpc[w] = "fail" /\ m_TcpSessionMgrLock = "free"
  /\ wsess' = [wsess EXCEPT ![w] = NoSession]
  /\ GoTo(w, "dispatch")
  /\ UNCHANGED <<wtodo, wchunk, nread, watch, stale, delivered>>
  /\ WorkerUnchanged

WorkerThread(w) ==
  \/ WorkerTop(w) \/ WorkerTimeout(w) \/ WorkerFetch(w) \/ WorkerDispatch(w)
  \/ WorkerRead(w) \/ WorkerHandle(w) \/ WorkerRearm(w) \/ WorkerFail(w)

-----------------------------------------------------------------------------
(* The heartbeat detection thread:                                           *)
(* CTcpSessionMgr::TcpSessionMgr_HeartbeatDetection.                         *)

HbUnchanged == UNCHANGED <<peerVars, nread, modle, stale, modleVars, flagVars,
                 acceptVars, workerVars, appVars, dpc, delivered, doubled>>

HbTop ==
  /\ hpc = "top"
  /\ hpc' = IF m_bIsHeartbeat THEN "sleep" ELSE "exited"
  /\ UNCHANGED <<hvisit, hsess, conn, watch, mem, m_nSocket, mgrVars, notices, fault>>
  /\ HbUnchanged

\* sleep(10), then the sweep takes the lock it holds to its end.
HbBegin ==
  /\ hpc = "sleep" /\ m_TcpSessionMgrLock = "free"
  /\ m_TcpSessionMgrLock' = "heartbeat"
  /\ hvisit' = Registered /\ hpc' = "visit"
  /\ UNCHANGED <<hsess, conn, watch, mem, m_nSocket, m_TcpSessions, notices, fault>>
  /\ HbUnchanged

HbSkip(s) ==
  /\ hpc = "visit" /\ s \in hvisit /\ ~stale[s]
  /\ hvisit' = hvisit \ {s}
  /\ UNCHANGED <<hpc, hsess, conn, watch, mem, m_nSocket, mgrVars, notices, fault>>
  /\ HbUnchanged

\* Mutant: the sweep forgets m_TcpSessions.erase.
EraseNothing(s) == UNCHANGED m_TcpSessions

\* m_TcpSessions.erase of the entry that leads to s.
Erase(s) ==
  m_TcpSessions' = [k \in Socket |-> IF m_TcpSessions[k] = s THEN NoSession
                                      ELSE m_TcpSessions[k]]

\* TcpSession_IsHeartbeatTimeOut: erase the entry and tear the session down.
HbErase(s) ==
  /\ hpc = "visit" /\ s \in hvisit /\ stale[s]
  /\ hvisit' = hvisit \ {s} /\ hsess' = s /\ hpc' = "delevent"
  /\ Erase(s)
  /\ UNCHANGED <<conn, watch, mem, m_nSocket, m_TcpSessionMgrLock, notices, fault>>
  /\ HbUnchanged

\* FindModle(m_nEventModleIndex)->DelEvent, an index Init leaves 0 on Linux:
\* a session of another module stays registered until its descriptor closes.
HbDelEvent ==
  /\ hpc = "delevent" /\ modles /\ m_NetEventModleLock = "free"
  /\ watch' = IF modle[hsess] = 0 THEN [watch EXCEPT ![hsess] = "off"] ELSE watch
  /\ hpc' = "notify"
  /\ UNCHANGED <<hvisit, hsess, conn, mem, m_nSocket, mgrVars, notices, fault>>
  /\ HbUnchanged

\* The module manager is gone: FindModle works on freed memory.
HbNoModle ==
  /\ hpc = "delevent" /\ ~modles
  /\ fault' = "heartbeat"
  /\ UNCHANGED <<hbVars, conn, watch, mem, m_nSocket, mgrVars, notices>>
  /\ HbUnchanged

\* Mutant: TcpSession_Fini does not notify.
HbNotifyNobody ==
  /\ hpc = "notify"
  /\ hpc' = "close"
  /\ UNCHANGED <<hvisit, hsess, conn, watch, mem, m_nSocket, mgrVars, notices, fault>>
  /\ HbUnchanged

\* TcpSession_Fini, in its order: DISCONNECT, close, m_nSocket = -1.
HbNotify ==
  /\ hpc = "notify"
  /\ notices' = [notices EXCEPT ![hsess] = @ + 1]
  /\ hpc' = "close"
  /\ UNCHANGED <<hvisit, hsess, conn, watch, mem, m_nSocket, mgrVars, fault>>
  /\ HbUnchanged

HbClose ==
  /\ hpc = "close"
  /\ Close(hsess)
  /\ hpc' = "clear"
  /\ UNCHANGED <<hvisit, hsess, mem, m_nSocket, mgrVars, notices, fault>>
  /\ HbUnchanged

HbClear ==
  /\ hpc = "clear"
  /\ m_nSocket' = [m_nSocket EXCEPT ![hsess] = NoSocket]
  /\ hpc' = "delete"
  /\ UNCHANGED <<hvisit, hsess, conn, watch, mem, mgrVars, notices, fault>>
  /\ HbUnchanged

\* delete pTcpSession, although workers may still hold the pointer.
HbDelete ==
  /\ hpc = "delete"
  /\ mem' = [mem EXCEPT ![hsess] = "deleted"]
  /\ hsess' = NoSession /\ hpc' = "visit"
  /\ UNCHANGED <<hvisit, conn, watch, m_nSocket, mgrVars, notices, fault>>
  /\ HbUnchanged

HbEnd ==
  /\ hpc = "visit" /\ hvisit = {}
  /\ m_TcpSessionMgrLock' = "free" /\ hpc' = "top"
  /\ UNCHANGED <<hvisit, hsess, conn, watch, mem, m_nSocket, m_TcpSessions,
       notices, fault>>
  /\ HbUnchanged

HbThread ==
  \/ HbTop \/ HbBegin
  \/ \E s \in Session : HbSkip(s) \/ HbErase(s)
  \/ HbDelEvent \/ HbNoModle \/ HbNotify \/ HbClose \/ HbClear \/ HbDelete \/ HbEnd

-----------------------------------------------------------------------------
(* An application thread in TransPortEngine_ServerSendData: the session is   *)
(* looked up under the lock and written to after the lock is released.       *)

AppUnchanged == UNCHANGED <<peerVars, netVars, objectVars, mgrVars, modleVars,
                  flagVars, acceptVars, workerVars, hbVars, dpc, historyVars, fault>>

AppFindSession(k) ==
  /\ ppc = "idle" /\ dpc = "idle" /\ m_TcpSessionMgrLock = "free"
  /\ m_TcpSessions[k] # NoSession
  /\ psess' = m_TcpSessions[k] /\ ppc' = "send"
  /\ AppUnchanged

AppIOSend ==
  /\ ppc = "send" /\ mem[psess] = "live" /\ ~Alien(psess)
  /\ psess' = NoSession /\ ppc' = "idle"
  /\ AppUnchanged

-----------------------------------------------------------------------------
(* TransPortEngine_DestroyServer: AcceptSession_Fini and the Fini of each    *)
(* manager.  The application makes no other call once it has started.        *)

DestroyUnchanged == UNCHANGED <<peerVars, nread, modle, stale, acceptVars,
                      workerVars, hbVars, appVars, delivered, doubled, fault>>

DestroyStart ==
  /\ dpc = "idle" /\ ppc = "idle"
  /\ m_bAcceptThreadFlag' = FALSE
  /\ dpc' = "accept"
  /\ UNCHANGED <<bWorkThreadFlag, m_bIsHeartbeat, modleVars, mgrVars, conn, watch,
       mem, m_nSocket, notices>>
  /\ DestroyUnchanged

\* Mutant: AcceptSession_Fini does not join the accept thread.
AcceptJoinedNotWaited == TRUE

\* pthread_join(m_tAcceptPthread).
AcceptJoined == apc = "exited"

\* Mutant: NetEventModleEpoll_Fini does not join its threads.
JoinedNotWaited(w) == ~bWorkThreadFlag[w]

\* bWorkThreadFlag = false and pthread_join(tWorkThread).
Joined(w) == ~bWorkThreadFlag[w] /\ wpc[w] = "exited"

\* Accept thread joined; NetEventModleMgr_Fini takes the lock it keeps.
DestroyJoinAccept ==
  /\ dpc = "accept" /\ AcceptJoined /\ m_NetEventModleLock = "free"
  /\ m_NetEventModleLock' = "destroy"
  /\ dpc' = "workers"
  /\ UNCHANGED <<flagVars, modles, mgrVars, conn, watch, mem, m_nSocket, notices>>
  /\ DestroyUnchanged

\* NetEventModleEpoll_Fini stops a thread and joins it before the next one.
DestroyStopWorker(w) ==
  /\ dpc = "workers" /\ bWorkThreadFlag[w]
  /\ \A v \in Worker : bWorkThreadFlag[v] \/ Joined(v)
  /\ bWorkThreadFlag' = [bWorkThreadFlag EXCEPT ![w] = FALSE]
  /\ UNCHANGED <<dpc, m_bAcceptThreadFlag, m_bIsHeartbeat, modleVars, mgrVars,
       conn, watch, mem, m_nSocket, notices>>
  /\ DestroyUnchanged

\* The last worker is joined, the modules and their manager are deleted.
DestroyModles ==
  /\ dpc = "workers"
  /\ \A w \in Worker : Joined(w)
  /\ modles' = FALSE /\ m_NetEventModleLock' = "free"
  /\ dpc' = "heartbeat"
  /\ UNCHANGED <<flagVars, mgrVars, conn, watch, mem, m_nSocket, notices>>
  /\ DestroyUnchanged

\* TcpSessionMgr_Fini stops the heartbeat thread only now.
DestroyStopHeartbeat ==
  /\ dpc = "heartbeat"
  /\ m_bIsHeartbeat' = FALSE
  /\ dpc' = "joinheartbeat"
  /\ UNCHANGED <<m_bAcceptThreadFlag, bWorkThreadFlag, modleVars, mgrVars, conn,
       watch, mem, m_nSocket, notices>>
  /\ DestroyUnchanged

DestroyJoinHeartbeat ==
  /\ dpc = "joinheartbeat" /\ m_TcpSessionMgrLock = "free"
  /\ bIsHaveHB => hpc = "exited"
  /\ m_TcpSessionMgrLock' = "destroy"
  /\ dpc' = "sessions"
  /\ UNCHANGED <<flagVars, modleVars, m_TcpSessions, conn, watch, mem, m_nSocket,
       notices>>
  /\ DestroyUnchanged

\* TcpSession_Fini and delete of one registered session.
DestroySession(k) ==
  LET s == m_TcpSessions[k] IN
  /\ dpc = "sessions" /\ s # NoSession
  /\ FiniAndDelete(s)
  /\ m_TcpSessions' = [m_TcpSessions EXCEPT ![k] = NoSession]
  /\ UNCHANGED <<dpc, flagVars, modleVars, m_TcpSessionMgrLock>>
  /\ DestroyUnchanged

DestroyDone ==
  /\ dpc = "sessions" /\ Registered = {}
  /\ m_TcpSessionMgrLock' = "free"
  /\ dpc' = "done"
  /\ UNCHANGED <<flagVars, modleVars, m_TcpSessions, conn, watch, mem, m_nSocket,
       notices>>
  /\ DestroyUnchanged

DestroyThread ==
  \/ DestroyJoinAccept
  \/ \E w \in Worker : DestroyStopWorker(w)
  \/ DestroyModles \/ DestroyStopHeartbeat \/ DestroyJoinHeartbeat
  \/ \E k \in Socket : DestroySession(k)
  \/ DestroyDone

-----------------------------------------------------------------------------
(* Undefined behaviour.  A thread about to use a CTcpSession that another    *)
(* has deleted, or a descriptor that belongs to another connection by now,   *)
(* is recorded in fault; nothing is said of what the program does after it.  *)

InUse ==
  {<<"worker", wsess[w]>> : w \in {v \in Worker : wpc[v] \in {"read", "handle", "rearm"}}}
  \cup {<<"accept", s>> : s \in IF apc \in {"insert", "add", "recv", "undoevent", "undosession"}
                                THEN {asess} ELSE {}}
  \cup {<<"app", s>> : s \in IF ppc = "send" THEN {psess} ELSE {}}

UseAfterFree ==
  /\ \E u \in InUse : (mem[u[2]] = "deleted" \/ Alien(u[2])) /\ fault' = u[1]
  /\ UNCHANGED <<peerVars, netVars, objectVars, mgrVars, modleVars, flagVars,
       acceptVars, workerVars, hbVars, appVars, dpc, historyVars>>

-----------------------------------------------------------------------------
(* The server that runs on, and the server that may be destroyed. *)

Running ==
  /\ fault = "none"
  /\ \/ \E s \in Session : Environment(s)
     \/ AcceptThread
     \/ \E w \in Worker : WorkerThread(w)
     \/ HbThread
     \/ \E k \in Socket : AppFindSession(k)
     \/ AppIOSend
     \/ UseAfterFree

Destroying == fault = "none" /\ (DestroyStart \/ DestroyThread)

\* The program's behaviour is undefined from here on.
Undefined == fault # "none" /\ UNCHANGED vars

\* The server is destroyed.
Destroyed == dpc = "done" /\ UNCHANGED vars

Next == Running \/ Destroying \/ Undefined \/ Destroyed

\* A thread that can run eventually does.  A thread waiting for the manager's
\* lock gets it: its holder sleeps ten seconds between two sweeps.
Fairness ==
  /\ WF_vars(fault = "none" /\ AcceptThread)
  /\ SF_vars(fault = "none" /\ (AcceptInsert \/ AcceptUndoInsert))
  /\ \A w \in Worker : WF_vars(fault = "none" /\ WorkerThread(w))
  /\ \A w \in Worker : SF_vars(fault = "none" /\ WorkerFail(w))
  /\ WF_vars(fault = "none" /\ HbThread)
  /\ WF_vars(fault = "none" /\ AppIOSend)
  /\ WF_vars(fault = "none" /\ DestroyThread)
  /\ WF_vars(fault = "none" /\ UseAfterFree)
  /\ \A s \in Session : WF_vars(fault = "none" /\ Expire(s))

Spec == Init /\ [][Next]_vars
FairSpec == Spec /\ Fairness

\* The same server in a program that never calls DestroyServer.
RunningSpec == Init /\ [][Running \/ Undefined]_vars /\ Fairness

-----------------------------------------------------------------------------
(* Correctness. *)

PeerTypeOK ==
  /\ peer \in [Session -> {"none", "open", "closed", "reset"}]
  /\ sent \in [Session -> Nat]

NetTypeOK ==
  /\ nread \in [Session -> Nat]
  /\ conn \in [Socket -> Session \cup {NoSession}]
  /\ watch \in [Session -> {"off", "armed", "disarmed"}]

ObjectTypeOK ==
  /\ mem \in [Session -> {"none", "live", "deleted"}]
  /\ m_nSocket \in [Session -> Socket \cup {NoSocket}]
  /\ modle \in [Session -> Modle]
  /\ stale \in [Session -> BOOLEAN]

MgrTypeOK ==
  /\ m_TcpSessions \in [Socket -> Session \cup {NoSession}]
  /\ m_TcpSessionMgrLock \in {"free", "heartbeat", "destroy"}

ModleTypeOK ==
  /\ m_NetEventModleLock \in {"free", "destroy"}
  /\ modles \in BOOLEAN

FlagTypeOK ==
  /\ m_bAcceptThreadFlag \in BOOLEAN
  /\ bWorkThreadFlag \in [Worker -> BOOLEAN]
  /\ m_bIsHeartbeat \in BOOLEAN

AcceptTypeOK ==
  /\ apc \in AcceptPC
  /\ asess \in Session \cup {NoSession}
  /\ asock \in Socket \cup {NoSocket}
  /\ m_nAcceptIndex \in Modle
  /\ apc \in Accepting => asess \in Session /\ asock \in Socket

WorkerTypeOK ==
  /\ wpc \in [Worker -> WorkerPC]
  /\ wtodo \in [Worker -> SUBSET Session]
  /\ wsess \in [Worker -> Session \cup {NoSession}]
  /\ wchunk \in [Worker -> Nat]
  /\ \A w \in Worker : wpc[w] \in Handling => wsess[w] \in Session

HbTypeOK ==
  /\ hpc \in HbPC
  /\ hvisit \in SUBSET Session
  /\ hsess \in Session \cup {NoSession}
  /\ hpc \in TearingDown => hsess \in Session

AppTypeOK ==
  /\ ppc \in {"idle", "send"}
  /\ psess \in Session \cup {NoSession}
  /\ ppc = "send" => psess \in Session

HistoryTypeOK ==
  /\ notices \in [Session -> Nat]
  /\ delivered \in [Session -> Seq(Nat)]
  /\ doubled \in [Session -> BOOLEAN]

\* Every variable keeps its type.
TypeOK ==
  /\ PeerTypeOK /\ NetTypeOK
  /\ ObjectTypeOK
  /\ MgrTypeOK /\ ModleTypeOK /\ FlagTypeOK
  /\ AcceptTypeOK /\ WorkerTypeOK /\ HbTypeOK /\ AppTypeOK
  /\ dpc \in DestroyPC
  /\ HistoryTypeOK
  /\ fault \in Thread \cup {"none"}

\* The application knows s by its descriptor: told CONNECT, not yet DISCONNECT.
Connected(s) == notices[s] = 1

\* A session id names one connection: two sessions the application believes
\* connected never have the same id, although ids are descriptors and reused.
\* (Fini notifies DISCONNECT before it closes the descriptor.)
IdUnique ==
  \A s, t \in Session :
    Connected(s) /\ Connected(t) /\ s # t => m_nSocket[s] # m_nSocket[t]

\* An id the application may still use is the object's own open connection:
\* no descriptor is closed behind the back of a connected session.
ConnectedOwnsSocket ==
  \A s \in Session : Connected(s) => mem[s] = "live" /\ OwnsSocket(s)

\* CONNECT comes once and DISCONNECT comes at most once, whichever of the
\* accept thread's undo, the heartbeat sweep and DestroyServer tears down.
NotifyOnce == \A s \in Session : notices[s] <= 2

\* The session map never leads to a deleted object or to a foreign descriptor.
RegistryConsistent ==
  \A k \in Socket : m_TcpSessions[k] # NoSession =>
    /\ mem[m_TcpSessions[k]] = "live"
    /\ m_nSocket[m_TcpSessions[k]] = k
    /\ conn[k] = m_TcpSessions[k]

\* A connected session is in the map, or in the hands of the one thread that
\* is setting it up or tearing it down: none is leaked.
NoneLeaked ==
  \A s \in Session : Connected(s) => s \in Registered \/ s \in {asess, hsess}

\* EPOLLONESHOT keeps the sessions to one worker each: unless the accept
\* thread's own re-arm found a worker at it, a session is in the hands of at
\* most one worker, and not armed while it is.
OneHandler ==
  \A s \in Session : ~doubled[s] =>
    /\ \A v, w \in Worker : Holds(v, s) /\ Holds(w, s) => v = w
    /\ \A w \in Worker : Holds(w, s) => watch[s] # "armed"
    /\ \A w \in Worker : wsess[w] = s => s \notin wtodo[w]

\* Even then no more than two workers get hold of one session, however many there
\* are: while two have it, its registration reports nothing to a third.
AtMostTwoHandlers ==
  \A s \in Session :
    /\ \A u, v, w \in Worker :
         Holds(u, s) /\ Holds(v, s) /\ Holds(w, s) => u = v \/ v = w \/ u = w
    /\ watch[s] = "armed" => \A v, w \in Worker : Holds(v, s) /\ Holds(w, s) => v = w
    /\ \A w \in Worker : wsess[w] = s => s \notin wtodo[w]

\* The application receives the segments in the order the peer sent them, and
\* without heads it receives all of them, unless two workers handle the session.
InOrder ==
  \A s \in Session : ~doubled[s] =>
    \A i, j \in DOMAIN delivered[s] :
      i < j => IF bIsHaveHead THEN delivered[s][i] < delivered[s][j]
               ELSE delivered[s][j] = delivered[s][i] + (j - i)

\* No thread of the engine uses a session another thread has deleted, or a
\* descriptor that became another's (ServerSendData runs in the application's).
EngineSafe == fault \in {"none", "app"}

\* The workers never do: an object is not deleted while IORecv runs on it.
WorkerSafe == fault # "worker"

\* When DestroyServer has returned every session is gone: the application was
\* told of each, and each accepted descriptor is closed.
DestroyedClean ==
  dpc = "done" =>
    /\ \A s \in Session : mem[s] # "live" /\ notices[s] \in {0, 2}
    /\ \A k \in Socket : conn[k] = NoSession

\* What an open peer sends is handed to the application: no wakeup is lost
\* between the worker's last read and its re-arm.
DataDelivered ==
  \A s \in Session : \A n \in 1 .. MaxChunk :
    (mem[s] = "live" /\ sent[s] >= n)
      ~> (Len(delivered[s]) >= n \/ peer[s] = "reset" \/ dpc # "idle" \/ fault # "none")

\* DestroyServer returns.
DestroyReturns == dpc # "idle" ~> (dpc = "done" \/ fault # "none")

\* The application is told when a connection has ended, unless it destroys the
\* server: then the heartbeat thread may be waiting for ever (see DestroyReturns).
DisconnectNotified ==
  \A s \in Session :
    (Connected(s) /\ peer[s] \in {"closed", "reset"})
      ~> (notices[s] = 2 \/ dpc # "idle" \/ fault # "none")

\* The application is told when a peer has closed its connection, which a
\* worker sees as the end of file that makes TcpSession_IORecv fail.
CloseNotified ==
  \A s \in Session :
    (Connected(s) /\ peer[s] = "closed") ~> (notices[s] = 2 \/ fault # "none")

-----------------------------------------------------------------------------
(* Refinement: what the application sees of the server is SessionEvents. *)

Events == INSTANCE SessionEvents WITH
  SessionId <- Socket,
  NoId <- NoSocket,
  phase <- [s \in Session |-> CASE notices[s] = 0 -> "unknown"
                                [] notices[s] = 1 -> "connected"
                                [] OTHER -> "disconnected"],
  id <- [s \in Session |-> IF Connected(s) THEN m_nSocket[s] ELSE NoSocket],
  got <- [s \in Session |-> Len(delivered[s])]

\* A server without heartbeat detection implements SessionEvents: in particular
\* no data comes from a session before its CONNECT or after its DISCONNECT, and
\* no id is given out while the application still knows it (AcceptSession_Accept,
\* NetEventModleEpoll_HandleData, AcceptSession_Fini).
ImplementsSessionEvents == Events!Spec
=============================================================================
