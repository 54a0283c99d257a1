---------------------------- MODULE ServerThreads ----------------------------
(***************************************************************************)
(* The life of a server around the service EpollServer models: what          *)
(* TransPortEngine_CreateServer makes step by step and leaves behind when a   *)
(* step fails, and how TransPortEngine_DestroyServer stops the threads, on    *)
(* Linux and on Windows.                                                      *)
(*                                                                           *)
(* The application makes its servers one after the other, on the same port.   *)
(* Sessions are left to EpollServer; on Windows there are none, because        *)
(* AcceptEx is told to receive nothing and what it accepts is closed.         *)
(***************************************************************************)
EXTENDS Integers

CONSTANTS
  MaxServer, \* bound: how many servers the application makes
  MaxModle,  \* bound: nNetEventModleCount
  MaxThread, \* bound: nNetEventModleThreadCount
  MaxWorker  \* bound: the product of the two

ASSUME ServerAssumption ==
  /\ MaxServer \in Nat \ {0} /\ MaxModle \in Nat \ {0}
  /\ MaxThread \in Nat \ {0} /\ MaxWorker \in Nat

Server == 1 .. MaxServer
Modle  == 0 .. MaxModle - 1
Worker == Modle \X (1 .. MaxThread)

VARIABLES
  windows,           \* is it the Windows build?
  call,              \* where the application is: see Call
  server,            \* its last server, 0 before the first
  index,             \* the module it has come to
  nNetEventModleCount, nNetEventModleThreadCount, \* of the last server
  bIsHaveHB,         \* of each
  object,            \* the CAcceptSession: "none", "making", "failed", "made", "deleted"
  bound,             \* is its listening socket bound?
  hb, m_bIsHeartbeat,           \* the heartbeat thread and its flag
  worker, bWorkThreadFlag,      \* the workers and their flags
  accept, m_bAcceptThreadFlag,  \* the accept thread and its flag
  posted,            \* is there a packet for the Windows accept thread?
  packets,           \* and how many for each module's workers?
  fault              \* undefined behaviour: "none", "freed", "null", "join"

argVars    == <<nNetEventModleCount, nNetEventModleThreadCount, bIsHaveHB>>
hbVars     == <<hb, m_bIsHeartbeat>>
workerVars == <<worker, bWorkThreadFlag, packets>>
acceptVars == <<accept, m_bAcceptThreadFlag, posted>>
appVars    == <<call, server, index, argVars, object, bound>>
vars == <<windows, appVars, hbVars, workerVars, acceptVars, fault>>

Call == {"idle", "bind", "heartbeat", "modles",
         "joinaccept", "stop", "joinheartbeat"}

\* A thread tests its flag ("run") and waits; or there is none, because it was
\* not made or could not be.
Thread == {"none", "failed", "run", "wait", "ended"}

Init ==
  /\ windows \in BOOLEAN
  /\ call = "idle" /\ server = 0 /\ index = 0
  /\ nNetEventModleCount = 0 /\ nNetEventModleThreadCount = 0
  /\ bIsHaveHB = [n \in Server |-> FALSE]
  /\ object = [n \in Server |-> "none"] /\ bound = [n \in Server |-> FALSE]
  /\ hb = [n \in Server |-> "none"] /\ m_bIsHeartbeat = [n \in Server |-> FALSE]
  /\ worker = [n \in Server |-> [w \in Worker |-> "none"]]
  /\ bWorkThreadFlag = [n \in Server |-> [w \in Worker |-> TRUE]]
  /\ accept = [n \in Server |-> "none"] /\ m_bAcceptThreadFlag = [n \in Server |-> TRUE]
  /\ posted = [n \in Server |-> FALSE]
  /\ packets = [n \in Server |-> [m \in Modle |-> 0]]
  /\ fault = "none"

-----------------------------------------------------------------------------
(* TransPortEngine_CreateServer. *)

\* Whatever failed, CreateServer deletes the CAcceptSession and nothing else.
Fail ==
  /\ object' = [object EXCEPT ![server] = "failed"]
  /\ call' = "idle"
  /\ UNCHANGED <<server, index, argVars>>

CreateServer ==
  /\ call = "idle" /\ server < MaxServer
  /\ server > 0 => object[server] \in {"failed", "deleted"}
  /\ server' = server + 1 /\ index' = 0 /\ call' = "bind"
  /\ object' = [object EXCEPT ![server + 1] = "making"]
  /\ nNetEventModleCount' \in 0 .. MaxModle
  /\ nNetEventModleThreadCount' \in 0 .. MaxThread
  /\ nNetEventModleCount' * nNetEventModleThreadCount' <= MaxWorker
  /\ \E b \in BOOLEAN : bIsHaveHB' = [bIsHaveHB EXCEPT ![server + 1] = b]
  /\ UNCHANGED <<windows, bound, hbVars, workerVars, acceptVars, fault>>

\* On Linux, SO_REUSEADDR lets nobody bind a port another socket listens at.
PortTaken == ~windows /\ \E n \in Server : bound[n]

\* No modules are asked for, or the socket cannot be made, bound, listened at.
CreateBind ==
  /\ call = "bind"
  /\ \/ Fail /\ UNCHANGED bound
     \/ /\ nNetEventModleCount > 0 /\ ~PortTaken
        /\ bound' = [bound EXCEPT ![server] = TRUE]
        /\ \/ Fail
           \/ call' = "heartbeat" /\ UNCHANGED <<server, index, argVars, object>>
  /\ UNCHANGED <<windows, hbVars, workerVars, acceptVars, fault>>

\* The thread is made with and without heartbeats. A failure goes unnoticed:
\* pthread_create reports it by a positive number, _beginthread by -1.
CreateHeartbeat ==
  /\ call = "heartbeat" /\ call' = "modles"
  /\ m_bIsHeartbeat' = [m_bIsHeartbeat EXCEPT ![server] = bIsHaveHB[server]]
  /\ \E t \in {"run", "failed"} : hb' = [hb EXCEPT ![server] = t]
  /\ UNCHANGED <<windows, server, index, argVars, object, bound, workerVars, acceptVars, fault>>

\* The workers of the next module; that one of them could not be made goes
\* unnoticed as well. No threads asked for, or no completion port, is noticed.
CreateModle ==
  /\ call = "modles" /\ index < nNetEventModleCount
  /\ \/ (windows \/ nNetEventModleThreadCount = 0) /\ Fail /\ UNCHANGED workerVars
     \/ /\ nNetEventModleThreadCount > 0
        /\ index' = index + 1
        /\ \E made \in SUBSET (1 .. nNetEventModleThreadCount) :
             worker' = [worker EXCEPT ![server] =
               [w \in Worker |-> IF w[1] # index \/ w[2] > nNetEventModleThreadCount THEN @[w]
                                 ELSE IF w[2] \in made THEN "run" ELSE "failed"]]
        /\ UNCHANGED <<call, server, argVars, object, bWorkThreadFlag, packets>>
  /\ UNCHANGED <<windows, bound, hbVars, acceptVars, fault>>

\* The accept epoll or port, and last the accept thread, whose failure Linux
\* notices.
CreateAccept ==
  /\ call = "modles" /\ index = nNetEventModleCount
  /\ \/ Fail /\ UNCHANGED accept
     \/ /\ \E t \in {"run", "failed"} :
             /\ t = "failed" => windows
             /\ accept' = [accept EXCEPT ![server] = t]
        /\ object' = [object EXCEPT ![server] = "made"]
        /\ call' = "idle"
        /\ UNCHANGED <<server, index, argVars>>
  /\ UNCHANGED <<windows, bound, hbVars, workerVars, m_bAcceptThreadFlag, posted, fault>>

Create == CreateServer \/ CreateBind \/ CreateHeartbeat \/ CreateModle \/ CreateAccept

-----------------------------------------------------------------------------
(* The threads. *)

\* What a thread reads is gone.
UseFreed == fault' = "freed" /\ UNCHANGED <<windows, appVars, hbVars, workerVars, acceptVars>>

\* TcpSessionMgr_HeartbeatDetection
HbThread(n) ==
  \/ hb[n] = "run" /\ object[n] = "deleted" /\ UseFreed
  \/ /\ \/ /\ hb[n] = "run" /\ object[n] # "deleted"
           /\ hb' = [hb EXCEPT ![n] = IF m_bIsHeartbeat[n] THEN "wait" ELSE "ended"]
        \/ hb[n] = "wait" /\ hb' = [hb EXCEPT ![n] = "run"]
     /\ UNCHANGED <<windows, appVars, m_bIsHeartbeat, workerVars, acceptVars, fault>>

\* GetQueuedCompletionStatus
Take(n, m) == packets[n][m] > 0 /\ packets' = [packets EXCEPT ![n][m] = @ - 1]

\* HandleData. The epoll's wait times out; the completion port's ends with a
\* packet, which any worker of the module may take. There is no session for it.
WorkerThread(n, w) ==
  \/ worker[n][w] = "run" /\ object[n] = "deleted" /\ UseFreed
  \/ /\ \/ /\ worker[n][w] = "run" /\ object[n] # "deleted"
           /\ worker' = [worker EXCEPT ![n][w] = IF bWorkThreadFlag[n][w] THEN "wait" ELSE "ended"]
           /\ UNCHANGED packets
        \/ /\ worker[n][w] = "wait"
           /\ worker' = [worker EXCEPT ![n][w] = "run"]
           /\ IF windows THEN Take(n, w[1]) ELSE UNCHANGED packets
     /\ UNCHANGED <<windows, appVars, hbVars, bWorkThreadFlag, acceptVars, fault>>

\* AcceptSession_Accept. On Windows a connection is closed as soon as it is
\* accepted, an error may end the loop, and the packet that should end it has no
\* OVERLAPPED to read the kind of completion from.
AcceptThread(n) ==
  \/ accept[n] = "run" /\ object[n] \in {"failed", "deleted"} /\ UseFreed
  \/ /\ \/ /\ accept[n] = "run" /\ object[n] \in {"making", "made"}
           /\ accept' = [accept EXCEPT ![n] = IF m_bAcceptThreadFlag[n] THEN "wait" ELSE "ended"]
        \/ accept[n] = "wait" /\ accept' = [accept EXCEPT ![n] = "run"]
        \/ windows /\ accept[n] = "wait" /\ accept' = [accept EXCEPT ![n] = "ended"]
     /\ UNCHANGED <<windows, appVars, hbVars, workerVars, m_bAcceptThreadFlag, posted, fault>>
  \/ /\ windows /\ accept[n] = "wait" /\ posted[n] /\ fault' = "null"
     /\ UNCHANGED <<windows, appVars, hbVars, workerVars, acceptVars>>

-----------------------------------------------------------------------------
(* TransPortEngine_DestroyServer: AcceptSession_Fini and what it calls. *)

\* To join a thread that could not be made is undefined on Linux. On Windows its
\* handle stands for the process itself, and the wait does not end.
JoinNone(t) ==
  /\ t = "failed" /\ ~windows /\ fault' = "join"
  /\ UNCHANGED <<windows, appVars, hbVars, workerVars, acceptVars>>

Stays == UNCHANGED <<windows, server, argVars, bound, fault>>

DestroyServer ==
  /\ call = "idle" /\ server > 0 /\ object[server] = "made"
  /\ m_bAcceptThreadFlag' = [m_bAcceptThreadFlag EXCEPT ![server] = FALSE]
  /\ posted' = [posted EXCEPT ![server] = windows]
  /\ call' = "joinaccept" /\ index' = 0
  /\ Stays /\ UNCHANGED <<object, hbVars, workerVars, accept>>

\* Mutant: the accept thread is told to end and not waited for.
DestroyJoinAcceptNot ==
  /\ call = "joinaccept"
  /\ call' = "stop"
  /\ Stays /\ UNCHANGED <<index, object, hbVars, workerVars, acceptVars>>

DestroyJoinAccept ==
  /\ call = "joinaccept" /\ accept[server] = "ended"
  /\ call' = "stop"
  /\ Stays /\ UNCHANGED <<index, object, hbVars, workerVars, acceptVars>>

\* The current module's workers, and those whose flag is cleared.
Current == {w \in Worker : w[1] = index /\ worker[server][w] # "none"}
Stopped == {w \in Current : ~bWorkThreadFlag[server][w]}

\* Mutant: nobody is woken.
PostNothing == UNCHANGED packets

\* PostQueuedCompletionStatus to the current module
Post == packets' = IF windows THEN [packets EXCEPT ![server][index] = @ + 1] ELSE packets

\* The next worker's flag. Linux joins the worker before it goes on; Windows
\* sends a packet after each flag, and joins the workers when all are cleared.
DestroyStopWorker ==
  /\ call = "stop"
  /\ ~windows => \A w \in Stopped : worker[server][w] = "ended"
  /\ \E w \in Current \ Stopped :
       /\ \A v \in Current \ Stopped : w[2] <= v[2]
       /\ bWorkThreadFlag' = [bWorkThreadFlag EXCEPT ![server][w] = FALSE]
  /\ Post
  /\ Stays /\ UNCHANGED <<call, index, object, hbVars, worker, acceptVars>>

DestroyJoinWorkers ==
  /\ call = "stop"
  /\ \/ \E w \in Stopped : JoinNone(worker[server][w])
     \/ /\ index < nNetEventModleCount
        /\ \A w \in Current : w \in Stopped /\ worker[server][w] = "ended"
        /\ index' = index + 1
        /\ Stays /\ UNCHANGED <<call, object, hbVars, workerVars, acceptVars>>

\* The managers are deleted, and last the server.
Delete == object' = [object EXCEPT ![server] = "deleted"] /\ call' = "idle"

\* Without heartbeats nobody waits for the heartbeat thread.
DestroyStopHeartbeat ==
  /\ call = "stop" /\ index = nNetEventModleCount
  /\ IF m_bIsHeartbeat[server]
     THEN /\ m_bIsHeartbeat' = [m_bIsHeartbeat EXCEPT ![server] = FALSE]
          /\ call' = "joinheartbeat" /\ UNCHANGED object
     ELSE Delete /\ UNCHANGED m_bIsHeartbeat
  /\ Stays /\ UNCHANGED <<index, hb, workerVars, acceptVars>>

\* Mutant: the heartbeat thread is told to end and not waited for.
DestroyJoinHeartbeatNot ==
  /\ call = "joinheartbeat" /\ Delete
  /\ Stays /\ UNCHANGED <<index, hbVars, workerVars, acceptVars>>

DestroyJoinHeartbeat ==
  /\ call = "joinheartbeat"
  /\ \/ JoinNone(hb[server])
     \/ /\ hb[server] = "ended" /\ Delete
        /\ Stays /\ UNCHANGED <<index, hbVars, workerVars, acceptVars>>

Destroy ==
  \/ DestroyJoinAccept \/ DestroyStopWorker \/ DestroyJoinWorkers
  \/ DestroyStopHeartbeat \/ DestroyJoinHeartbeat

Next ==
  \/ /\ fault = "none"
     /\ \/ Create \/ DestroyServer \/ Destroy
        \/ \E n \in Server : HbThread(n) \/ AcceptThread(n) \/ \E w \in Worker : WorkerThread(n, w)
  \/ fault # "none" /\ UNCHANGED vars

Spec == Init /\ [][Next]_vars

\* Every thread is scheduled. A worker that can take a packet is not passed over
\* for ever, nor is the packet of the accept thread, behind a limited backlog.
FairSpec ==
  /\ Spec
  /\ WF_vars(fault = "none" /\ Destroy)
  /\ \A n \in Server :
       /\ WF_vars(fault = "none" /\ HbThread(n)) /\ WF_vars(fault = "none" /\ AcceptThread(n))
       /\ \A w \in Worker : WF_vars(fault = "none" /\ WorkerThread(n, w))

-----------------------------------------------------------------------------
(* Correctness. *)

TypeOK ==
  /\ windows \in BOOLEAN /\ call \in Call
  /\ server \in 0 .. MaxServer /\ index \in 0 .. MaxModle
  /\ nNetEventModleCount \in 0 .. MaxModle /\ nNetEventModleThreadCount \in 0 .. MaxThread
  /\ bIsHaveHB \in [Server -> BOOLEAN]
  /\ object \in [Server -> {"none", "making", "failed", "made", "deleted"}]
  /\ bound \in [Server -> BOOLEAN]
  /\ hb \in [Server -> Thread] /\ m_bIsHeartbeat \in [Server -> BOOLEAN]
  /\ worker \in [Server -> [Worker -> Thread]]
  /\ bWorkThreadFlag \in [Server -> [Worker -> BOOLEAN]]
  /\ accept \in [Server -> Thread] /\ m_bAcceptThreadFlag \in [Server -> BOOLEAN]
  /\ posted \in [Server -> BOOLEAN] /\ packets \in [Server -> [Modle -> Nat]]
  /\ fault \in {"none", "freed", "null", "join"}

Running == {"run", "wait"}

\* The application makes one server at a time, and where it is says how far.
CallInv ==
  /\ call \in {"bind", "heartbeat", "modles"} => server > 0 /\ object[server] = "making"
  /\ call \in {"joinaccept", "stop", "joinheartbeat"} => server > 0 /\ object[server] = "made"
  /\ index <= nNetEventModleCount /\ (call = "joinaccept" => index = 0)
  /\ \A n \in Server :
       /\ object[n] = "none" <=> n > server
       /\ object[n] \in {"making", "made"} => n = server
       /\ object[n] = "making" => call # "idle"

\* Threads come with their server: the workers module by module, and last the
\* accept thread, which is told to end once.
BirthInv ==
  \A n \in Server :
    /\ object[n] = "none" => hb[n] = "none" /\ \A w \in Worker : worker[n][w] = "none"
    /\ object[n] \in {"none", "making", "failed"} => accept[n] = "none" /\ ~posted[n]
    /\ posted[n] => object[n] = "deleted" \/ call \in {"joinaccept", "stop", "joinheartbeat"}
    /\ \A w \in Worker : worker[n][w] # "none" =>
         /\ object[n] = "making" => w[1] < index
         /\ object[n] = "made" => w[1] < nNetEventModleCount

\* The flag of the heartbeat thread is set only with heartbeats, and then until
\* DestroyServer waits for the thread.
BeatInv ==
  /\ call = "joinheartbeat" => bIsHaveHB[server]
  /\ \A n \in Server :
       /\ ~bIsHaveHB[n] => ~m_bIsHeartbeat[n] /\ hb[n] # "wait"
       /\ object[n] = "none" => ~m_bIsHeartbeat[n]
       /\ object[n] = "making" /\ call = "modles" => (m_bIsHeartbeat[n] <=> bIsHaveHB[n])
       /\ object[n] = "made" /\ call # "joinheartbeat" => (m_bIsHeartbeat[n] <=> bIsHaveHB[n])

\* DestroyServer goes on only when the threads it has come to have ended.
StopInv ==
  /\ call \in {"stop", "joinheartbeat"} => accept[server] = "ended"
  /\ call = "stop" =>
       \A w \in Worker : w[1] < index => worker[server][w] \notin Running
  /\ call = "joinheartbeat" => \A w \in Worker : worker[server][w] \notin Running

\* When DestroyServer has deleted a server all its threads have ended, but for
\* the heartbeat thread of a server without heartbeats, which nobody joins and
\* which may not have looked at its flag yet. A CreateServer that failed deletes
\* the CAcceptSession, which only the accept thread uses, and that is made last:
\* the threads left behind find all they use.
NoneOutlives ==
  \A n \in Server :
    /\ object[n] = "deleted" => /\ accept[n] \notin Running
                                /\ \A w \in Worker : worker[n][w] \notin Running
                                /\ hb[n] \in Running => ~bIsHaveHB[n] /\ hb[n] = "run"
    /\ object[n] = "failed" => accept[n] = "none"

\* What can go wrong, and when: a failed pthread_create that went unnoticed, the
\* packet for the Windows accept thread, the heartbeat thread nobody joins.
FaultsKnown ==
  /\ fault = "join" => /\ ~windows
                       /\ \/ bIsHaveHB[server] /\ hb[server] = "failed"
                          \/ \E w \in Worker : worker[server][w] = "failed"
  /\ fault = "null" => windows /\ call = "joinaccept"
  /\ fault = "freed" => \E n \in Server : object[n] = "deleted" /\ ~bIsHaveHB[n]

\* What DestroyServer and the threads rely on at each point, over all servers:
\* the inductive invariant behind NoneOutlives and FaultsKnown.
ServerInv ==
  TypeOK /\ CallInv /\ BirthInv /\ BeatInv /\ StopInv /\ NoneOutlives /\ FaultsKnown

\* DestroyServer returns. With several workers per module Windows may wait for
\* ever: a worker whose flag is still set takes the packet meant for one whose
\* flag is cleared, and goes on waiting when its own is.
DestroyReturns ==
  \A n \in Server :
    (object[n] = "made" /\ call \notin {"idle"}) ~>
      \/ object[n] = "deleted" \/ fault # "none"
      \/ windows /\ nNetEventModleThreadCount > 1
      \/ windows /\ "failed" \in {hb[n], accept[n]} \cup {worker[n][w] : w \in Worker}
=============================================================================
