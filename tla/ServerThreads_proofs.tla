------------------------ MODULE ServerThreads_proofs ------------------------
(***************************************************************************)
(* Proofs about ServerThreads: whatever fails when servers are made, and      *)
(* wherever their threads are when one is destroyed, DestroyServer deletes    *)
(* what its threads use only after they have ended, with the exception of the *)
(* heartbeat thread of a server without heartbeats.                           *)
(***************************************************************************)
EXTENDS ServerThreads, TLAPS

\* Every step keeps the types.
LEMMA TypeStep ==
  ASSUME TypeOK, Next
  PROVE  TypeOK'
  <1> USE ServerAssumption
  <1>1. CASE CreateServer
    BY <1>1 DEF CreateServer, Server, TypeOK, Call, Thread, appVars, argVars, hbVars,
      workerVars, acceptVars
  <1>2. CASE CreateBind
    BY <1>2 DEF CreateBind, Fail, Server, TypeOK, Call, Thread, appVars, argVars, hbVars,
      workerVars, acceptVars
  <1>3. CASE CreateHeartbeat
    BY <1>3 DEF CreateHeartbeat, TypeOK, Call, Thread, appVars, argVars, hbVars, workerVars,
      acceptVars
  <1>4. CASE CreateModle
    <2>1. worker' \in [Server -> [Worker -> Thread]]
      <3>1. CASE UNCHANGED workerVars
        BY <3>1 DEF workerVars, TypeOK
      <3>2. CASE \E f \in [Worker -> Thread] : worker' = [worker EXCEPT ![server] = f]
        BY <3>2 DEF TypeOK
      <3>3. CASE ~UNCHANGED workerVars
        <4>1. PICK made \in SUBSET (1 .. nNetEventModleThreadCount) :
                worker' = [worker EXCEPT ![server] =
                 [w \in Worker |-> IF w[1] # index \/ w[2] > nNetEventModleThreadCount THEN @[w]
                                   ELSE IF w[2] \in made THEN "run" ELSE "failed"]]
          BY <1>4, <3>3 DEF CreateModle
        <4>2. CASE server \in Server
          BY <3>2, <4>1, <4>2 DEF TypeOK, Thread
        <4>3. CASE server \notin Server
          BY <4>1, <4>3 DEF TypeOK
        <4> QED
          BY <4>2, <4>3
      <3> QED
        BY <3>1, <3>3
    <2>2. index' \in 0 .. MaxModle
      BY <1>4 DEF CreateModle, Fail, TypeOK
    <2> QED
      BY <1>4, <2>1, <2>2 DEF CreateModle, Fail, TypeOK, Call, argVars, hbVars, workerVars,
        acceptVars
  <1>5. CASE CreateAccept
    <2>1. accept' \in [Server -> Thread]
      BY <1>5 DEF CreateAccept, TypeOK, Thread
    <2>2. object' \in [Server -> {"none", "making", "failed", "made", "deleted"}] /\ call' = "idle"
      BY <1>5 DEF CreateAccept, Fail, TypeOK
    <2>3. UNCHANGED <<windows, server, index, argVars, bound, hbVars, workerVars,
                      m_bAcceptThreadFlag, posted, fault>>
      BY <1>5 DEF CreateAccept, Fail
    <2> QED
      BY <2>1, <2>2, <2>3 DEF TypeOK, Call, argVars, hbVars, workerVars
  <1>6. ASSUME NEW m \in Server, HbThread(m) PROVE TypeOK'
    BY <1>6 DEF HbThread, UseFreed, TypeOK, Call, Thread, appVars, argVars, hbVars,
      workerVars, acceptVars
  <1>7. ASSUME NEW m \in Server, AcceptThread(m) PROVE TypeOK'
    BY <1>7 DEF AcceptThread, UseFreed, TypeOK, Call, Thread, appVars, argVars, hbVars,
      workerVars, acceptVars
  <1>8. ASSUME NEW m \in Server, NEW v \in Worker, WorkerThread(m, v) PROVE TypeOK'
    <2>1. worker' \in [Server -> [Worker -> Thread]]
      <3>1. \/ UNCHANGED worker
            \/ \E t \in {"run", "wait", "ended"} : worker' = [worker EXCEPT ![m][v] = t]
        BY <1>8 DEF WorkerThread, UseFreed, workerVars
      <3>2. worker \in [Server -> [Worker -> Thread]]
        BY DEF TypeOK
      <3>3. ASSUME NEW t \in Thread, worker' = [worker EXCEPT ![m][v] = t]
            PROVE  worker' \in [Server -> [Worker -> Thread]]
        BY <3>2, <3>3
      <3> QED
        BY <3>1, <3>2, <3>3 DEF Thread
    <2>2. packets' \in [Server -> [Modle -> Nat]]
      <3>1. CASE Take(m, v[1])
        <4>1. v[1] \in Modle /\ packets[m][v[1]] - 1 \in Nat
          BY <3>1 DEF Take, TypeOK, Worker
        <4> QED
          BY <3>1, <4>1 DEF Take, TypeOK
      <3>2. CASE UNCHANGED packets
        BY <3>2 DEF TypeOK
      <3> QED
        BY <1>8, <3>1, <3>2 DEF WorkerThread, UseFreed, workerVars
    <2>3. fault' \in {"none", "freed", "null", "join"}
      BY <1>8 DEF WorkerThread, UseFreed, TypeOK
    <2>4. UNCHANGED <<windows, appVars, hbVars, bWorkThreadFlag, acceptVars>>
      BY <1>8 DEF WorkerThread, UseFreed, workerVars
    <2> QED
      BY <2>1, <2>2, <2>3, <2>4 DEF TypeOK, appVars, argVars, hbVars, acceptVars
  <1>9. CASE DestroyServer
    <2>1. posted' \in [Server -> BOOLEAN] /\ m_bAcceptThreadFlag' \in [Server -> BOOLEAN]
      BY <1>9 DEF DestroyServer, TypeOK
    <2>2. index' = 0 /\ call' = "joinaccept"
      BY <1>9 DEF DestroyServer
    <2>3. UNCHANGED <<windows, server, argVars, bound, fault, object, hbVars, workerVars, accept>>
      BY <1>9 DEF DestroyServer, Stays
    <2> QED
      BY <2>1, <2>2, <2>3 DEF TypeOK, Call, argVars, hbVars, workerVars
  <1>10. CASE DestroyJoinAccept
    BY <1>10 DEF DestroyJoinAccept, Stays, TypeOK, Call, Thread, appVars, argVars, hbVars,
      workerVars, acceptVars
  <1>11. CASE DestroyStopWorker
    <2>1. PICK w \in Current : bWorkThreadFlag' = [bWorkThreadFlag EXCEPT ![server][w] = FALSE]
      BY <1>11 DEF DestroyStopWorker
    <2>2. bWorkThreadFlag' \in [Server -> [Worker -> BOOLEAN]]
      BY <2>1 DEF TypeOK
    <2>3. w \in Worker /\ index \in Modle
      BY <2>1 DEF Current, Worker
    <2>4. packets' \in [Server -> [Modle -> Nat]]
      <3>1. \/ UNCHANGED packets
            \/ packets' = [packets EXCEPT ![server][index] = @ + 1]
        BY <1>11 DEF DestroyStopWorker, Post
      <3>2. CASE server \in Server
        <4>1. packets[server][index] + 1 \in Nat
          BY <2>3, <3>2 DEF TypeOK
        <4> QED
          BY <2>3, <3>1, <3>2, <4>1 DEF TypeOK
      <3>3. CASE server \notin Server
        BY <3>1, <3>3 DEF TypeOK
      <3> QED
        BY <3>2, <3>3
    <2>5. UNCHANGED <<windows, server, argVars, bound, fault, call, index, object, hbVars, worker,
                      acceptVars>>
      BY <1>11 DEF DestroyStopWorker, Stays
    <2> QED
      BY <2>2, <2>4, <2>5 DEF TypeOK, argVars, hbVars, acceptVars
  <1>12. CASE DestroyJoinWorkers
    BY <1>12 DEF DestroyJoinWorkers, Stays, JoinNone, TypeOK, Call, Thread, appVars, argVars,
      hbVars, workerVars, acceptVars
  <1>13. CASE DestroyStopHeartbeat
    BY <1>13 DEF DestroyStopHeartbeat, Stays, Delete, TypeOK, Call, Thread, appVars, argVars,
      hbVars, workerVars, acceptVars
  <1>14. CASE DestroyJoinHeartbeat
    BY <1>14 DEF DestroyJoinHeartbeat, Stays, JoinNone, Delete, TypeOK, Call, Thread, appVars,
      argVars, hbVars, workerVars, acceptVars
  <1>15. CASE UNCHANGED vars
    BY <1>15 DEF vars, TypeOK, Call, Thread, appVars, argVars, hbVars, workerVars, acceptVars
  <1> QED
    BY <1>1, <1>2, <1>3, <1>4, <1>5, <1>6, <1>7, <1>8, <1>9, <1>10, <1>11, <1>12, <1>13,
      <1>14, <1>15
      DEF Next, Create, Destroy

\* Workers and servers are numbered.
LEMMA WorkerFacts ==
  /\ \A w \in Worker : w[1] \in Modle /\ w[1] \in Nat
  /\ \A n \in Server : n \in Nat /\ n > 0
  BY ServerAssumption DEF Worker, Modle, Server

\* The server a call is about is there.
LEMMA ServerIn ==
  ASSUME ServerInv, call # "idle"
  PROVE  /\ server \in Server
         /\ object[server] = IF call \in {"bind", "heartbeat", "modles"} THEN "making" ELSE "made"
  BY ServerAssumption DEF ServerInv, TypeOK, CallInv, Call, Server

\* All a worker does is to go on, to end, or to read what is gone.
LEMMA WorkerStep ==
  ASSUME TypeOK, NEW m \in Server, NEW v \in Worker, WorkerThread(m, v)
  PROVE  /\ UNCHANGED <<windows, appVars, hbVars, acceptVars>>
         /\ \A n \in Server, w \in Worker :
              worker'[n][w] # worker[n][w] => worker[n][w] \in Running
         /\ fault' # fault => fault' = "freed" /\ worker[m][v] = "run" /\ object[m] = "deleted"
  BY DEF WorkerThread, UseFreed, Running, TypeOK, appVars, workerVars

\* Each call is about the last server, and a server is made once.
LEMMA CallStep ==
  ASSUME ServerInv, Next
  PROVE  CallInv'
  <1> USE DEF ServerInv
  <1>1. CASE CreateServer
    BY WorkerFacts, ServerAssumption, <1>1 DEF CreateServer, Server, TypeOK, CallInv, appVars,
      argVars, hbVars, workerVars, acceptVars
  <1>2. CASE CreateBind
    BY WorkerFacts, ServerAssumption, <1>2 DEF CreateBind, Fail, Server, TypeOK, CallInv,
      appVars, argVars, hbVars, workerVars, acceptVars
  <1>3. CASE CreateHeartbeat
    BY <1>3 DEF CreateHeartbeat, TypeOK, CallInv, appVars, argVars, hbVars, workerVars, acceptVars
  <1>4. CASE CreateModle
    BY <1>4 DEF CreateModle, Fail, TypeOK, CallInv, appVars, argVars, hbVars, workerVars, acceptVars
  <1>5. CASE CreateAccept
    BY <1>5 DEF CreateAccept, Fail, TypeOK, CallInv, appVars, argVars, hbVars, workerVars,
      acceptVars
  <1>6. ASSUME NEW m \in Server, HbThread(m) PROVE CallInv'
    BY <1>6 DEF HbThread, UseFreed, TypeOK, CallInv, appVars, argVars, hbVars, workerVars,
      acceptVars
  <1>7. ASSUME NEW m \in Server, AcceptThread(m) PROVE CallInv'
    BY <1>7 DEF AcceptThread, UseFreed, TypeOK, CallInv, appVars, argVars, hbVars, workerVars,
      acceptVars
  <1>8. ASSUME NEW m \in Server, NEW v \in Worker, WorkerThread(m, v) PROVE CallInv'
    BY <1>8 DEF WorkerThread, UseFreed, Take, TypeOK, CallInv, appVars, argVars, hbVars,
      workerVars, acceptVars
  <1>9. CASE DestroyServer
    BY <1>9 DEF DestroyServer, Stays, TypeOK, CallInv, appVars, argVars, hbVars, workerVars,
      acceptVars
  <1>10. CASE DestroyJoinAccept
    BY <1>10 DEF DestroyJoinAccept, Stays, TypeOK, CallInv, appVars, argVars, hbVars,
      workerVars, acceptVars
  <1>11. CASE DestroyStopWorker
    BY <1>11 DEF DestroyStopWorker, Stays, Post, Current, Stopped, TypeOK, CallInv, appVars,
      argVars, hbVars, workerVars, acceptVars
  <1>12. CASE DestroyJoinWorkers
    BY <1>12 DEF DestroyJoinWorkers, Stays, JoinNone, Current, Stopped, TypeOK, CallInv,
      appVars, argVars, hbVars, workerVars, acceptVars
  <1>13. CASE DestroyStopHeartbeat
    BY <1>13 DEF DestroyStopHeartbeat, Stays, Delete, TypeOK, CallInv, appVars, argVars,
      hbVars, workerVars, acceptVars
  <1>14. CASE DestroyJoinHeartbeat
    BY <1>14 DEF DestroyJoinHeartbeat, Stays, JoinNone, Delete, TypeOK, CallInv, appVars,
      argVars, hbVars, workerVars, acceptVars
  <1>15. CASE UNCHANGED vars
    BY <1>15 DEF vars, TypeOK, CallInv, Running, appVars, argVars, hbVars, workerVars, acceptVars
  <1> QED
    BY <1>1, <1>2, <1>3, <1>4, <1>5, <1>6, <1>7, <1>8, <1>9, <1>10, <1>11, <1>12, <1>13,
      <1>14, <1>15 DEF Next, Create, Destroy

\* Nobody makes a thread but the calls that make its server.
LEMMA BirthStep ==
  ASSUME ServerInv, Next
  PROVE  BirthInv'
  <1> USE DEF ServerInv
  <1>1. CASE CreateServer
    BY <1>1 DEF CreateServer, Server, TypeOK, CallInv, BirthInv, appVars, argVars, hbVars,
      workerVars, acceptVars
  <1>2. CASE CreateBind
    BY WorkerFacts, ServerAssumption, <1>2 DEF CreateBind, Fail, Server, TypeOK, CallInv,
      BirthInv, appVars, argVars, hbVars, workerVars, acceptVars
  <1>3. CASE CreateHeartbeat
    BY <1>3 DEF CreateHeartbeat, TypeOK, CallInv, BirthInv, appVars, argVars, hbVars,
      workerVars, acceptVars
  <1>4. CASE CreateModle
    <2> USE <1>4 DEF CreateModle
    <2>1. server \in Server /\ object[server] = "making"
      BY ServerIn
    <2>2. CASE Fail
      BY <2>1, <2>2, WorkerFacts DEF Fail, TypeOK, CallInv, BirthInv, argVars, workerVars,
        acceptVars, hbVars
    <2>3. CASE ~Fail
      <3>1. /\ index' = index + 1 /\ index \in Nat
            /\ UNCHANGED <<call, server, argVars, object, hb, accept, posted>>
        BY <2>3 DEF TypeOK, hbVars, acceptVars
      <3>2. PICK made \in SUBSET (1 .. nNetEventModleThreadCount) :
              worker' = [worker EXCEPT ![server] =
               [w \in Worker |-> IF w[1] # index \/ w[2] > nNetEventModleThreadCount THEN @[w]
                                 ELSE IF w[2] \in made THEN "run" ELSE "failed"]]
        BY <2>3
      <3>3. \A n \in Server : n # server => worker'[n] = worker[n]
        BY <2>1, <3>2 DEF TypeOK
      <3>4. \A w \in Worker : w[1] # index => worker'[server][w] = worker[server][w]
        BY <2>1, <3>2 DEF TypeOK
      <3>5. \A n \in Server, w \in Worker :
              worker'[n][w] # worker[n][w] => n = server /\ w[1] = index
        BY <3>3, <3>4
      <3>6. \A n \in Server : object[n] = "made" => n # server
        BY <2>1
      <3> QED
        BY <2>1, <3>1, <3>5, <3>6, WorkerFacts DEF BirthInv, argVars
    <2> QED
      BY <2>2, <2>3
  <1>5. CASE CreateAccept
    BY <1>5 DEF CreateAccept, Fail, TypeOK, CallInv, BirthInv, appVars, argVars, hbVars,
      workerVars, acceptVars
  <1>6. ASSUME NEW m \in Server, HbThread(m) PROVE BirthInv'
    BY <1>6 DEF HbThread, UseFreed, TypeOK, CallInv, BirthInv, appVars, argVars, hbVars,
      workerVars, acceptVars
  <1>7. ASSUME NEW m \in Server, AcceptThread(m) PROVE BirthInv'
    BY <1>7 DEF AcceptThread, UseFreed, TypeOK, CallInv, BirthInv, appVars, argVars, hbVars,
      workerVars, acceptVars
  <1>8. ASSUME NEW m \in Server, NEW v \in Worker, WorkerThread(m, v) PROVE BirthInv'
    BY <1>8, WorkerStep DEF BirthInv, Running, appVars, argVars, hbVars, acceptVars
  <1>9. CASE DestroyServer
    BY <1>9 DEF DestroyServer, Stays, TypeOK, CallInv, BirthInv, appVars, argVars, hbVars,
      workerVars, acceptVars
  <1>10. CASE DestroyJoinAccept
    BY <1>10 DEF DestroyJoinAccept, Stays, TypeOK, CallInv, BirthInv, appVars, argVars,
      hbVars, workerVars, acceptVars
  <1>11. CASE DestroyStopWorker
    BY <1>11 DEF DestroyStopWorker, Stays, Post, Current, Stopped, TypeOK, CallInv, BirthInv,
      appVars, argVars, hbVars, workerVars, acceptVars
  <1>12. CASE DestroyJoinWorkers
    BY <1>12 DEF DestroyJoinWorkers, Stays, JoinNone, Current, Stopped, TypeOK, CallInv,
      BirthInv, appVars, argVars, hbVars, workerVars, acceptVars
  <1>13. CASE DestroyStopHeartbeat
    BY <1>13 DEF DestroyStopHeartbeat, Stays, Delete, TypeOK, CallInv, BirthInv, appVars,
      argVars, hbVars, workerVars, acceptVars
  <1>14. CASE DestroyJoinHeartbeat
    BY <1>14 DEF DestroyJoinHeartbeat, Stays, JoinNone, Delete, TypeOK, CallInv, BirthInv,
      appVars, argVars, hbVars, workerVars, acceptVars
  <1>15. CASE UNCHANGED vars
    BY <1>15 DEF vars, TypeOK, CallInv, BirthInv, Running, appVars, argVars, hbVars,
      workerVars, acceptVars
  <1> QED
    BY <1>1, <1>2, <1>3, <1>4, <1>5, <1>6, <1>7, <1>8, <1>9, <1>10, <1>11, <1>12, <1>13,
      <1>14, <1>15 DEF Next, Create, Destroy

\* Only CreateHeartbeat sets the heartbeat thread's flag, only DestroyServer clears it.
LEMMA BeatStep ==
  ASSUME ServerInv, Next
  PROVE  BeatInv'
  <1> USE DEF ServerInv
  <1>1. CASE CreateServer
    BY <1>1 DEF CreateServer, Server, TypeOK, CallInv, BirthInv, BeatInv, appVars, argVars,
      hbVars, workerVars, acceptVars
  <1>2. CASE CreateBind
    BY WorkerFacts, ServerAssumption, <1>2 DEF CreateBind, Fail, Server, TypeOK, CallInv,
      BirthInv, BeatInv, appVars, argVars, hbVars, workerVars, acceptVars
  <1>3. CASE CreateHeartbeat
    BY <1>3 DEF CreateHeartbeat, TypeOK, CallInv, BirthInv, BeatInv, appVars, argVars, hbVars,
      workerVars, acceptVars
  <1>4. CASE CreateModle
    BY <1>4 DEF CreateModle, Fail, TypeOK, CallInv, BirthInv, BeatInv, appVars, argVars,
      hbVars, workerVars, acceptVars
  <1>5. CASE CreateAccept
    BY <1>5 DEF CreateAccept, Fail, TypeOK, CallInv, BirthInv, BeatInv, appVars, argVars,
      hbVars, workerVars, acceptVars
  <1>6. ASSUME NEW m \in Server, HbThread(m) PROVE BeatInv'
    BY <1>6 DEF HbThread, UseFreed, TypeOK, CallInv, BirthInv, BeatInv, appVars, argVars,
      hbVars, workerVars, acceptVars
  <1>7. ASSUME NEW m \in Server, AcceptThread(m) PROVE BeatInv'
    BY <1>7 DEF AcceptThread, UseFreed, TypeOK, CallInv, BirthInv, BeatInv, appVars, argVars,
      hbVars, workerVars, acceptVars
  <1>8. ASSUME NEW m \in Server, NEW v \in Worker, WorkerThread(m, v) PROVE BeatInv'
    BY <1>8 DEF WorkerThread, UseFreed, Take, TypeOK, CallInv, BirthInv, BeatInv, appVars,
      argVars, hbVars, workerVars, acceptVars
  <1>9. CASE DestroyServer
    BY <1>9 DEF DestroyServer, Stays, TypeOK, CallInv, BirthInv, BeatInv, appVars, argVars,
      hbVars, workerVars, acceptVars
  <1>10. CASE DestroyJoinAccept
    BY <1>10 DEF DestroyJoinAccept, Stays, TypeOK, CallInv, BirthInv, BeatInv, appVars,
      argVars, hbVars, workerVars, acceptVars
  <1>11. CASE DestroyStopWorker
    BY <1>11 DEF DestroyStopWorker, Stays, Post, Current, Stopped, TypeOK, CallInv, BirthInv,
      BeatInv, appVars, argVars, hbVars, workerVars, acceptVars
  <1>12. CASE DestroyJoinWorkers
    BY <1>12 DEF DestroyJoinWorkers, Stays, JoinNone, Current, Stopped, TypeOK, CallInv,
      BirthInv, BeatInv, appVars, argVars, hbVars, workerVars, acceptVars
  <1>13. CASE DestroyStopHeartbeat
    <2> USE <1>13 DEF DestroyStopHeartbeat, Stays, argVars
    <2>1. server \in Server /\ object[server] = "made"
      BY ServerIn
    <2>2. CASE m_bIsHeartbeat[server]
      <3>1. bIsHaveHB[server]
        BY <2>1, <2>2 DEF BeatInv
      <3>2. \A n \in Server : n # server => (m_bIsHeartbeat'[n] <=> m_bIsHeartbeat[n])
        BY <2>1, <2>2 DEF TypeOK
      <3>3. ~m_bIsHeartbeat'[server]
        BY <2>1, <2>2 DEF TypeOK
      <3>4. /\ call' = "joinheartbeat"
            /\ UNCHANGED <<server, bIsHaveHB, object, hb>>
        BY <2>2
      <3> QED
        BY <2>1, <3>1, <3>2, <3>3, <3>4 DEF BeatInv, CallInv
    <2>3. CASE ~m_bIsHeartbeat[server]
      <3>1. /\ call' = "idle" /\ object' = [object EXCEPT ![server] = "deleted"]
            /\ UNCHANGED <<server, bIsHaveHB, m_bIsHeartbeat, hb>>
        BY <2>3 DEF Delete
      <3> QED
        BY <2>1, <3>1 DEF BeatInv, CallInv, TypeOK
    <2> QED
      BY <2>2, <2>3
  <1>14. CASE DestroyJoinHeartbeat
    BY <1>14 DEF DestroyJoinHeartbeat, Stays, JoinNone, Delete, TypeOK, CallInv, BirthInv,
      BeatInv, appVars, argVars, hbVars, workerVars, acceptVars
  <1>15. CASE UNCHANGED vars
    BY <1>15 DEF vars, TypeOK, CallInv, BirthInv, BeatInv, Running, appVars, argVars, hbVars,
      workerVars, acceptVars
  <1> QED
    BY <1>1, <1>2, <1>3, <1>4, <1>5, <1>6, <1>7, <1>8, <1>9, <1>10, <1>11, <1>12, <1>13,
      <1>14, <1>15 DEF Next, Create, Destroy

\* A thread that has ended stays ended, so what DestroyServer has waited for holds.
LEMMA StopStep ==
  ASSUME ServerInv, Next
  PROVE  StopInv'
  <1> USE DEF ServerInv
  <1>1. CASE CreateServer
    BY <1>1 DEF CreateServer, Server, Running, TypeOK, CallInv, BirthInv, StopInv, appVars,
      argVars, hbVars, workerVars, acceptVars
  <1>2. CASE CreateBind
    BY <1>2 DEF CreateBind, Fail, Server, Running, TypeOK, CallInv, BirthInv, StopInv,
      appVars, argVars, hbVars, workerVars, acceptVars
  <1>3. CASE CreateHeartbeat
    BY <1>3 DEF CreateHeartbeat, Running, TypeOK, CallInv, BirthInv, StopInv, appVars,
      argVars, hbVars, workerVars, acceptVars
  <1>4. CASE CreateModle
    BY <1>4 DEF CreateModle, Fail, Running, TypeOK, CallInv, BirthInv, StopInv, appVars,
      argVars, hbVars, workerVars, acceptVars
  <1>5. CASE CreateAccept
    BY <1>5 DEF CreateAccept, Fail, Running, TypeOK, CallInv, BirthInv, StopInv, appVars,
      argVars, hbVars, workerVars, acceptVars
  <1>6. ASSUME NEW m \in Server, HbThread(m) PROVE StopInv'
    BY <1>6 DEF HbThread, UseFreed, Running, TypeOK, CallInv, BirthInv, StopInv, appVars,
      argVars, hbVars, workerVars, acceptVars
  <1>7. ASSUME NEW m \in Server, AcceptThread(m) PROVE StopInv'
    <2>1. UNCHANGED <<call, server, index, worker>>
      BY <1>7 DEF AcceptThread, UseFreed, appVars, workerVars
    <2>2. accept[m] = "ended" => accept' = accept
      BY <1>7 DEF AcceptThread, UseFreed, acceptVars
    <2>3. server \in Server /\ m # server => accept'[server] = accept[server]
      BY <1>7 DEF AcceptThread, UseFreed, acceptVars, TypeOK
    <2> QED
      BY <2>1, <2>2, <2>3, ServerIn DEF StopInv
  <1>8. ASSUME NEW m \in Server, NEW v \in Worker, WorkerThread(m, v) PROVE StopInv'
    BY <1>8, WorkerStep, ServerIn DEF StopInv, appVars, argVars, acceptVars
  <1>9. CASE DestroyServer
    BY <1>9 DEF DestroyServer, Stays, Running, TypeOK, CallInv, BirthInv, StopInv, appVars,
      argVars, hbVars, workerVars, acceptVars
  <1>10. CASE DestroyJoinAccept
    BY WorkerFacts, <1>10 DEF DestroyJoinAccept, Stays, Running, TypeOK, CallInv, BirthInv, StopInv,
      appVars, argVars, hbVars, workerVars, acceptVars
  <1>11. CASE DestroyStopWorker
    BY <1>11 DEF DestroyStopWorker, Stays, Post, Current, Stopped, Running, TypeOK, CallInv,
      BirthInv, StopInv, appVars, argVars, hbVars, workerVars, acceptVars
  <1>12. CASE DestroyJoinWorkers
    <2> USE <1>12 DEF DestroyJoinWorkers
    <2>1. CASE \E w \in Stopped : JoinNone(worker[server][w])
      BY <2>1 DEF JoinNone, StopInv, appVars, workerVars, acceptVars
    <2>2. CASE ~ \E w \in Stopped : JoinNone(worker[server][w])
      <3>1. /\ \A w \in Current : worker[server][w] = "ended"
            /\ index' = index + 1 /\ index \in Nat
            /\ UNCHANGED <<call, server, worker, accept>>
        BY <2>2 DEF Stays, workerVars, acceptVars, TypeOK
      <3>2. \A w \in Worker : w[1] = index => worker[server][w] \notin Running
        BY <3>1 DEF Current, Running
      <3>3. \A w \in Worker : w[1] < index' => w[1] < index \/ w[1] = index
        BY <3>1, WorkerFacts
      <3> QED
        BY <3>1, <3>2, <3>3 DEF StopInv
    <2> QED
      BY <2>1, <2>2
  <1>13. CASE DestroyStopHeartbeat
    <2> USE <1>13 DEF DestroyStopHeartbeat
    <2>1. /\ server \in Server /\ object[server] = "made"
          /\ call = "stop" /\ index = nNetEventModleCount
      BY ServerIn
    <2>2. \A w \in Worker : worker[server][w] \notin Running
      BY <2>1, WorkerFacts DEF StopInv, BirthInv, Running
    <2>3. UNCHANGED <<server, worker, accept>>
      BY DEF Stays, workerVars, acceptVars
    <2>4. call' \in {"joinheartbeat", "idle"}
      BY DEF Delete
    <2> QED
      BY <2>1, <2>2, <2>3, <2>4 DEF StopInv
  <1>14. CASE DestroyJoinHeartbeat
    BY <1>14 DEF DestroyJoinHeartbeat, Stays, JoinNone, Delete, Running, TypeOK, CallInv,
      BirthInv, StopInv, appVars, argVars, hbVars, workerVars, acceptVars
  <1>15. CASE UNCHANGED vars
    BY <1>15 DEF vars, TypeOK, CallInv, BirthInv, StopInv, Running, appVars, argVars, hbVars,
      workerVars, acceptVars
  <1> QED
    BY <1>1, <1>2, <1>3, <1>4, <1>5, <1>6, <1>7, <1>8, <1>9, <1>10, <1>11, <1>12, <1>13,
      <1>14, <1>15 DEF Next, Create, Destroy

\* DestroyServer deletes a server only when its threads have ended.
LEMMA OutlivesStep ==
  ASSUME ServerInv, Next
  PROVE  NoneOutlives'
  <1> USE DEF ServerInv
  <1>1. CASE CreateServer
    BY <1>1 DEF CreateServer, Server, Running, TypeOK, CallInv, BirthInv, BeatInv, StopInv,
      NoneOutlives, appVars, argVars, hbVars, workerVars, acceptVars
  <1>2. CASE CreateBind
    BY WorkerFacts, ServerAssumption, <1>2 DEF CreateBind, Fail, Server, Running, TypeOK,
      CallInv, BirthInv, BeatInv, StopInv, NoneOutlives, appVars, argVars, hbVars,
      workerVars, acceptVars
  <1>3. CASE CreateHeartbeat
    BY <1>3 DEF CreateHeartbeat, Running, TypeOK, CallInv, BirthInv, BeatInv, StopInv,
      NoneOutlives, appVars, argVars, hbVars, workerVars, acceptVars
  <1>4. CASE CreateModle
    BY <1>4 DEF CreateModle, Fail, Running, TypeOK, CallInv, BirthInv, BeatInv, StopInv,
      NoneOutlives, appVars, argVars, hbVars, workerVars, acceptVars
  <1>5. CASE CreateAccept
    BY <1>5 DEF CreateAccept, Fail, Running, TypeOK, CallInv, BirthInv, BeatInv, StopInv,
      NoneOutlives, appVars, argVars, hbVars, workerVars, acceptVars
  <1>6. ASSUME NEW m \in Server, HbThread(m) PROVE NoneOutlives'
    BY <1>6 DEF HbThread, UseFreed, Running, TypeOK, CallInv, BirthInv, BeatInv, StopInv,
      NoneOutlives, appVars, argVars, hbVars, workerVars, acceptVars
  <1>7. ASSUME NEW m \in Server, AcceptThread(m) PROVE NoneOutlives'
    BY <1>7 DEF AcceptThread, UseFreed, Running, TypeOK, CallInv, BirthInv, BeatInv, StopInv,
      NoneOutlives, appVars, argVars, hbVars, workerVars, acceptVars
  <1>8. ASSUME NEW m \in Server, NEW v \in Worker, WorkerThread(m, v) PROVE NoneOutlives'
    <2>1. UNCHANGED <<object, bIsHaveHB, hb, accept>>
      BY <1>8, WorkerStep DEF appVars, argVars, hbVars, acceptVars
    <2>2. \A n \in Server, w \in Worker : worker'[n][w] = worker[n][w] \/ worker[n][w] \in Running
      BY <1>8, WorkerStep
    <2> QED
      BY <2>1, <2>2 DEF NoneOutlives
  <1>9. CASE DestroyServer
    BY <1>9 DEF DestroyServer, Stays, Running, TypeOK, CallInv, BirthInv, BeatInv, StopInv,
      NoneOutlives, appVars, argVars, hbVars, workerVars, acceptVars
  <1>10. CASE DestroyJoinAccept
    BY <1>10 DEF DestroyJoinAccept, Stays, Running, TypeOK, CallInv, BirthInv, BeatInv,
      StopInv, NoneOutlives, appVars, argVars, hbVars, workerVars, acceptVars
  <1>11. CASE DestroyStopWorker
    BY <1>11 DEF DestroyStopWorker, Stays, Post, Current, Stopped, Running, TypeOK, CallInv,
      BirthInv, BeatInv, StopInv, NoneOutlives, appVars, argVars, hbVars, workerVars,
      acceptVars
  <1>12. CASE DestroyJoinWorkers
    BY <1>12 DEF DestroyJoinWorkers, Stays, JoinNone, Current, Stopped, Running, TypeOK,
      CallInv, BirthInv, BeatInv, StopInv, NoneOutlives, appVars, argVars, hbVars, workerVars,
      acceptVars
  <1>13. CASE DestroyStopHeartbeat
    BY <1>13 DEF DestroyStopHeartbeat, Stays, Delete, Running, TypeOK, CallInv, BirthInv,
      BeatInv, StopInv, NoneOutlives, appVars, argVars, hbVars, workerVars, acceptVars
  <1>14. CASE DestroyJoinHeartbeat
    BY <1>14 DEF DestroyJoinHeartbeat, Stays, JoinNone, Delete, Running, TypeOK, CallInv,
      BirthInv, BeatInv, StopInv, NoneOutlives, appVars, argVars, hbVars, workerVars,
      acceptVars
  <1>15. CASE UNCHANGED vars
    BY <1>15 DEF vars, TypeOK, CallInv, BirthInv, BeatInv, StopInv, NoneOutlives, Running,
      appVars, argVars, hbVars, workerVars, acceptVars
  <1> QED
    BY <1>1, <1>2, <1>3, <1>4, <1>5, <1>6, <1>7, <1>8, <1>9, <1>10, <1>11, <1>12, <1>13,
      <1>14, <1>15 DEF Next, Create, Destroy

\* Every step that ends in undefined behaviour is one of those FaultsKnown names.
LEMMA FaultsStep ==
  ASSUME ServerInv, Next, fault = "none"
  PROVE  FaultsKnown'
  <1> USE DEF ServerInv
  <1>1. CASE fault' = "none"
    BY <1>1 DEF FaultsKnown
  <1>2. ASSUME NEW m \in Server, HbThread(m) PROVE FaultsKnown'
    <2>1. CASE fault' = "freed" /\ object[m] = "deleted" /\ hb[m] = "run"
      <3>1. ~bIsHaveHB[m]
        BY <2>1 DEF NoneOutlives, Running
      <3>2. UNCHANGED <<object, bIsHaveHB>>
        BY <1>2 DEF HbThread, UseFreed, appVars, argVars
      <3> QED
        BY <2>1, <3>1, <3>2 DEF FaultsKnown
    <2> QED
      BY <1>1, <1>2, <2>1 DEF HbThread, UseFreed
  <1>3. ASSUME NEW m \in Server, AcceptThread(m) PROVE FaultsKnown'
    <2>1. ~(accept[m] = "run" /\ object[m] \in {"failed", "deleted"})
      BY DEF NoneOutlives, Running
    <2>2. CASE windows /\ accept[m] = "wait" /\ posted[m] /\ fault' = "null"
      <3>1. call = "joinaccept"
        <4>1. object[m] \notin {"none", "making", "failed", "deleted"}
          BY <2>2 DEF BirthInv, NoneOutlives, Running
        <4>2. m = server
          BY <4>1 DEF CallInv, TypeOK
        <4> QED
          BY <2>2, <4>1, <4>2 DEF BirthInv, StopInv
      <3>2. UNCHANGED <<windows, call>>
        BY <1>3 DEF AcceptThread, UseFreed, appVars
      <3> QED
        BY <2>2, <3>1, <3>2 DEF FaultsKnown
    <2> QED
      BY <1>1, <1>3, <2>1, <2>2 DEF AcceptThread
  <1>4. ASSUME NEW m \in Server, NEW v \in Worker, WorkerThread(m, v) PROVE FaultsKnown'
    <2>1. ~(worker[m][v] = "run" /\ object[m] = "deleted")
      BY DEF NoneOutlives, Running
    <2> QED
      BY <1>1, <1>4, <2>1, WorkerStep
  <1>5. CASE DestroyJoinWorkers
    <2>1. CASE fault' = fault
      BY <1>1, <2>1
    <2>2. CASE fault' # fault
      <3>1. PICK w \in Worker : worker[server][w] = "failed" /\ ~windows /\ fault' = "join"
        BY <1>5, <2>2 DEF DestroyJoinWorkers, JoinNone, Stays, Stopped, Current
      <3>2. UNCHANGED <<windows, server, worker>>
        BY <1>5, <2>2 DEF DestroyJoinWorkers, JoinNone, Stays, appVars, workerVars
      <3> QED
        BY <3>1, <3>2 DEF FaultsKnown
    <2> QED
      BY <2>1, <2>2
  <1>6. CASE DestroyJoinHeartbeat
    <2>1. CASE fault' = fault
      BY <1>1, <2>1
    <2>2. CASE fault' # fault
      <3>1. hb[server] = "failed" /\ ~windows /\ fault' = "join" /\ call = "joinheartbeat"
        BY <1>6, <2>2 DEF DestroyJoinHeartbeat, JoinNone, Stays
      <3>2. UNCHANGED <<windows, server, hb, bIsHaveHB>>
        BY <1>6, <2>2 DEF DestroyJoinHeartbeat, JoinNone, Stays, appVars, argVars, hbVars
      <3> QED
        BY <3>1, <3>2 DEF FaultsKnown, BeatInv
    <2> QED
      BY <2>1, <2>2
  <1>7. CASE \/ Create \/ DestroyServer \/ DestroyJoinAccept
             \/ DestroyStopWorker \/ DestroyStopHeartbeat
    BY <1>1, <1>7 DEF Create, CreateServer, CreateBind, CreateHeartbeat, CreateModle, CreateAccept,
      DestroyServer, DestroyJoinAccept, DestroyStopWorker, DestroyStopHeartbeat, Stays
  <1> QED
    BY <1>1, <1>2, <1>3, <1>4, <1>5, <1>6, <1>7 DEF Next, Destroy, vars

-----------------------------------------------------------------------------

\* No server has been made at first.
LEMMA ServerInit ==
  ASSUME Init
  PROVE  ServerInv
  <1> USE ServerAssumption DEF Init
  <1>1. TypeOK
    BY DEF TypeOK, Call, Thread
  <1>2. CallInv /\ BirthInv /\ BeatInv /\ StopInv
    BY DEF CallInv, BirthInv, BeatInv, StopInv, Server
  <1>3. NoneOutlives /\ FaultsKnown
    BY DEF NoneOutlives, FaultsKnown
  <1> QED
    BY <1>1, <1>2, <1>3 DEF ServerInv

\* Every step keeps the invariant of the threads.
LEMMA ServerStep ==
  ASSUME ServerInv, [Next]_vars
  PROVE  ServerInv'
  <1>1. CASE Next
    <2>1. CASE fault = "none"
      BY <1>1, <2>1, TypeStep, CallStep, BirthStep, BeatStep, StopStep, OutlivesStep, FaultsStep
        DEF ServerInv
    <2>2. CASE fault # "none" /\ UNCHANGED vars
      BY <1>1, <2>2, TypeStep, CallStep, BirthStep, BeatStep, StopStep, OutlivesStep
        DEF ServerInv, FaultsKnown, vars, appVars, argVars, hbVars, workerVars
    <2> QED
      BY <1>1, <2>1, <2>2 DEF Next
  <1>2. CASE UNCHANGED vars
    BY <1>2 DEF ServerInv, TypeOK, CallInv, BirthInv, BeatInv, StopInv, NoneOutlives, FaultsKnown,
      vars, appVars, argVars, hbVars, workerVars, acceptVars, Current
  <1> QED
    BY <1>1, <1>2

\* What TransPortEngine_CreateServer, TransPortEngine_DestroyServer and the
\* threads they make rely on at each point holds for any number of servers,
\* modules and threads, and any step of CreateServer that fails.
THEOREM Invariance == Spec => []ServerInv
  <1>1. Init => ServerInv
    BY ServerInit
  <1>2. ServerInv /\ [Next]_vars => ServerInv'
    BY ServerStep
  <1> QED
    BY <1>1, <1>2, PTL DEF Spec

\* AcceptSession_Fini and what it calls join every thread before what the thread
\* uses is deleted, but for the heartbeat thread of a server without heartbeats;
\* and a CreateServer that fails leaves no thread that uses what it deletes.
THEOREM NobodyOutlives == Spec => []NoneOutlives
  <1>1. ServerInv => NoneOutlives
    BY DEF ServerInv
  <1> QED
    BY <1>1, Invariance, PTL

\* The server runs into undefined behaviour only as FaultsKnown says: at a join
\* of a thread whose failed pthread_create went unnoticed, at the packet for the
\* Windows accept thread, or in the heartbeat thread nobody joins.
THEOREM FaultsAreKnown == Spec => []FaultsKnown
  <1>1. ServerInv => FaultsKnown
    BY DEF ServerInv
  <1> QED
    BY <1>1, Invariance, PTL
=============================================================================
