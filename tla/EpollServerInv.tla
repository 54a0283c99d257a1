--------------------------- MODULE EpollServerInv ---------------------------
(***************************************************************************)
(* Inductive invariants of EpollServer: what each thread may rely on at each *)
(* point of its code.  TLC checks them on small instances,                   *)
(* EpollServer_proofs proves them for every value of the constants.          *)
(***************************************************************************)
EXTENDS EpollServer

\* Where the heartbeat thread holds m_TcpSessionMgrLock.
Sweeping == TearingDown \cup {"visit"}

\* m_TcpSessionMgrLock is held through a sweep and through TcpSessionMgr_Fini's
\* loop over the sessions, and by nothing else from one step to the next.
LockInv ==
  /\ hpc \in Sweeping <=> m_TcpSessionMgrLock = "heartbeat"
  /\ dpc = "sessions" <=> m_TcpSessionMgrLock = "destroy"

\* A registered session is alive, connected, and under its own descriptor.
RegistryInv ==
  \A k \in Socket : m_TcpSessions[k] # NoSession =>
    LET s == m_TcpSessions[k] IN
      mem[s] = "live" /\ m_nSocket[s] = k /\ conn[k] = s /\ notices[s] = 1

\* A session exists from its CONNECT on, is connected only while it owns its
\* descriptor, and is then registered or in the hands of one thread.
SessionInv ==
  \A s \in Session :
    /\ notices[s] <= 2
    /\ mem[s] = "none" => notices[s] = 0
    /\ notices[s] = 1 => mem[s] = "live" /\ OwnsSocket(s)
    /\ notices[s] = 1 => (\E k \in Socket : m_TcpSessions[k] = s) \/ s \in {asess, hsess}

\* What the accept thread knows of the session it is setting up.
AcceptInv ==
  /\ asess # NoSession <=> apc \in Accepting
  /\ asess # NoSession => /\ asock \in Socket
                          /\ mem[asess] # "none"
                          /\ m_nSocket[asess] \in {asock, NoSocket}
                          /\ conn[asock] \in {asess, NoSession}
                          /\ mem[asess] = "live" => notices[asess] = 1 \/ asess = hsess
  /\ apc = "insert" => /\ notices[asess] = 1
                       /\ asess # hsess
                       /\ \A k \in Socket : m_TcpSessions[k] # asess
  /\ apc \in {"add", "recv", "undoevent", "undoinsert"} /\ notices[asess] = 1 =>
       (\E k \in Socket : m_TcpSessions[k] = asess) \/ asess = hsess
  /\ apc = "undosession" => /\ asess # hsess
                            /\ mem[asess] = "live" => notices[asess] = 1
                            /\ \A k \in Socket : m_TcpSessions[k] # asess

\* What the heartbeat thread knows of the sweep and of the session it deletes.
SweepInv ==
  /\ hsess # NoSession <=> hpc \in TearingDown
  /\ \A s \in hvisit : \E k \in Socket : m_TcpSessions[k] = s
  /\ hvisit # {} => hpc \in Sweeping
  /\ hsess # NoSession => /\ mem[hsess] = "live"
                          /\ \A k \in Socket : m_TcpSessions[k] # hsess
  /\ hpc \in {"delevent", "notify"} => notices[hsess] = 1
  /\ hpc \in {"close", "clear", "delete"} => notices[hsess] = 2
  /\ hpc = "close" => OwnsSocket(hsess)

LifecycleInv == LockInv /\ RegistryInv /\ SessionInv /\ AcceptInv /\ SweepInv

\* At most one worker holds a session, and it is disarmed meanwhile.
ExclusiveInv == OneHandler

\* A session nobody has accepted is not registered with any epoll.
UnseenInv ==
  \A s \in Session : mem[s] = "none" =>
    watch[s] = "off" /\ ~doubled[s] /\ \A w \in Worker : ~Holds(w, s)

\* Before AddEvent no worker can hold the session the accept thread sets up;
\* until its own re-arm the workers have it one at a time.
SetupInv ==
  /\ asess # NoSession <=> apc \in Accepting
  /\ asess # NoSession => ~doubled[asess] /\ mem[asess] # "none"
  /\ apc \in {"insert", "add"} =>
       watch[asess] = "off" /\ \A w \in Worker : ~Holds(w, asess)

\* A worker has a session in hand, and others to come, only inside its loop.
WorkerInv ==
  \A w \in Worker :
    /\ wsess[w] # NoSession <=> wpc[w] \in Handling
    /\ wtodo[w] # {} => wpc[w] \in Handling \cup {"dispatch"}

HandlerInv == ExclusiveInv /\ UnseenInv /\ SetupInv /\ WorkerInv

(* Without heartbeat detection a session is torn down only by the thread that *)
(* sets it up, before a worker can see it, or by DestroyServer.               *)

\* The heartbeat detection thread leaves its loop without a sweep.
IdleInv == hpc \in {"top", "exited"} /\ hsess = NoSession /\ ~m_bIsHeartbeat

\* An object lives from its CONNECT to its DISCONNECT, and nobody can reach it
\* through an epoll, a worker or a descriptor at another time.
SpanInv ==
  /\ \A s \in Session :
       /\ mem[s] = "live" => notices[s] = 1
       /\ mem[s] = "deleted" => notices[s] = 2
       /\ watch[s] # "off" => mem[s] = "live"
       /\ \A w \in Worker : Holds(w, s) => mem[s] = "live"
  /\ \A k \in Socket : conn[k] # NoSession =>
       mem[conn[k]] = "live" /\ m_nSocket[conn[k]] = k

\* The accept thread undoes what it set up only where no worker has seen it.
UndoInv ==
  /\ asess # NoSession => mem[asess] = "live"
  /\ apc \in {"insert", "add", "undoinsert", "undosession"} =>
       watch[asess] = "off" /\ \A w \in Worker : ~Holds(w, asess)
  /\ apc = "recv" => watch[asess] # "off"
  /\ apc # "undoevent"

\* What DestroyServer has stopped stays stopped.
StoppedInv ==
  /\ dpc \in {"workers", "heartbeat", "joinheartbeat", "sessions", "done"} =>
       apc = "exited"
  /\ dpc \in {"heartbeat", "joinheartbeat", "sessions", "done"} =>
       \A w \in Worker : wpc[w] = "exited"
  /\ dpc = "done" => Registered = {}

\* With a heartbeat thread IdleInv and SpanInv do not hold.
UnsweptInv ==
  ~bIsHaveHB => IdleInv /\ SpanInv /\ UndoInv /\ StoppedInv /\ fault \in {"none", "app"}

\* What the accept thread, the workers, the heartbeat thread and DestroyServer
\* rely on together; inductive.
EpollInv == TypeOK /\ LifecycleInv /\ HandlerInv /\ UnsweptInv
=============================================================================
