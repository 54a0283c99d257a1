---------------------- MODULE EpollServerEvents_proofs ----------------------
(***************************************************************************)
(* Proofs about what the application gets from an EpollServer.  Without      *)
(* heartbeat detection the server's threads use no session another has       *)
(* deleted, DestroyServer leaves nothing behind, and the application sees    *)
(* what SessionEvents promises.  With and without it, data keeps its order.  *)
(***************************************************************************)
EXTENDS EpollServer_proofs

(* A server without heartbeat detection. *)

\* A step that touches nothing UnsweptInv looks at keeps it; the application may
\* be the one that goes wrong.
LEMMA UnsweptQuiet ==
  ASSUME ~bIsHaveHB, UnsweptInv,
         UNCHANGED <<conn, watch, mem, m_nSocket, m_TcpSessions, m_bIsHeartbeat, apc,
                     asess, wpc, wtodo, wsess, hpc, hsess, dpc, notices>>,
         fault' \in {fault, "app"}
  PROVE  UnsweptInv'
  BY DEF UnsweptInv, IdleInv, SpanInv, UndoInv, StoppedInv, Holds, Registered

\* Without sweeps no thread finds its session gone.
LEMMA UnsweptStep ==
  ASSUME ~bIsHaveHB, TypeOK, TypeOK', LifecycleInv, HandlerInv, UnsweptInv, [Next]_vars
  PROVE  UnsweptInv'
  <1>0. /\ conn \in [Socket -> Session \cup {NoSession}]
        /\ watch \in [Session -> {"off", "armed", "disarmed"}]
        /\ mem \in [Session -> {"none", "live", "deleted"}]
        /\ m_nSocket \in [Session -> Socket \cup {NoSocket}]
        /\ m_TcpSessions \in [Socket -> Session \cup {NoSession}]
        /\ notices \in [Session -> Nat]
        /\ wpc \in [Worker -> WorkerPC]
        /\ wtodo \in [Worker -> SUBSET Session]
        /\ wsess \in [Worker -> Session \cup {NoSession}]
        /\ asess \in Session \cup {NoSession} /\ asock \in Socket \cup {NoSocket}
        /\ psess \in Session \cup {NoSession}
        /\ fault \in {"none", "app"}
    BY DEF TypeOK, NetTypeOK, ObjectTypeOK, MgrTypeOK, HistoryTypeOK, WorkerTypeOK,
           AcceptTypeOK, AppTypeOK, UnsweptInv
  <1> USE DEF UnsweptInv, IdleInv, SpanInv, UndoInv, StoppedInv, LifecycleInv, LockInv,
        RegistryInv, SessionInv, AcceptInv, HandlerInv, WorkerInv, UnseenInv,
        OwnsSocket, Holds, Registered, Accepting, Handling,
        objectVars, netVars, mgrVars, acceptVars, hbVars, historyVars, workerVars,
        flagVars
  <1>1. ASSUME AcceptTop PROVE UnsweptInv'
    BY <1>0, <1>1, ConstantsAssumption DEF AcceptTop, AcceptUnchanged
  <1>2. ASSUME AcceptNone PROVE UnsweptInv'
    BY <1>0, <1>2, ConstantsAssumption DEF AcceptNone, AcceptUnchanged
  <1>3. ASSUME NEW s \in Session, NEW k \in Socket, AcceptNew(s, k) PROVE UnsweptInv'
    BY <1>0, <1>3, ConstantsAssumption
    DEF AcceptNew, AcceptUnchanged, NextModle, Backlog, FreeSocket
  <1>4. ASSUME AcceptInsert PROVE UnsweptInv'
    BY <1>0, <1>4, ConstantsAssumption DEF AcceptInsert, AcceptUnchanged
  <1>5. ASSUME AcceptAddEvent PROVE UnsweptInv'
    BY <1>0, <1>5, ConstantsAssumption DEF AcceptAddEvent, AcceptUnchanged
  <1>6. ASSUME AcceptAddEventFails PROVE UnsweptInv'
    BY <1>0, <1>6, ConstantsAssumption DEF AcceptAddEventFails, AcceptUnchanged
  <1>7. ASSUME AcceptIORecv PROVE UnsweptInv'
    BY <1>0, <1>7, ConstantsAssumption DEF AcceptIORecv, AcceptUnchanged, ModEvent
  <1>8. ASSUME AcceptUndoEvent PROVE UnsweptInv'
    BY <1>0, <1>8, ConstantsAssumption DEF AcceptUndoEvent, AcceptUnchanged
  <1>9. ASSUME AcceptUndoInsert PROVE UnsweptInv'
    BY <1>0, <1>9, ConstantsAssumption DEF AcceptUndoInsert, AcceptUnchanged
  <1>10. ASSUME AcceptUndoSession PROVE UnsweptInv'
    BY <1>0, <1>10, ConstantsAssumption
    DEF AcceptUndoSession, AcceptUnchanged, FiniAndDelete, Close
  <1>11. ASSUME NEW w \in Worker, WorkerTop(w) PROVE UnsweptInv'
    BY <1>0, <1>11, ConstantsAssumption DEF WorkerTop, WorkerUnchanged, GoTo
  <1>12. ASSUME NEW w \in Worker, WorkerTimeout(w) PROVE UnsweptInv'
    BY <1>0, <1>12, ConstantsAssumption DEF WorkerTimeout, WorkerUnchanged, GoTo
  <1>13. ASSUME NEW w \in Worker, WorkerFetch(w) PROVE UnsweptInv'
    BY <1>0, <1>13, ConstantsAssumption
    DEF WorkerFetch, WorkerUnchanged, GoTo, Disarm, WorkerReady, Ready
  <1>14. ASSUME NEW w \in Worker, WorkerDispatch(w) PROVE UnsweptInv'
    BY <1>0, <1>14, ConstantsAssumption DEF WorkerDispatch, WorkerUnchanged, GoTo
  <1>15. ASSUME NEW w \in Worker, WorkerRead(w) PROVE UnsweptInv'
    BY <1>0, <1>15, ConstantsAssumption DEF WorkerRead, WorkerUnchanged, GoTo
  <1>16. ASSUME NEW w \in Worker, WorkerHandle(w) PROVE UnsweptInv'
    BY <1>0, <1>16, ConstantsAssumption DEF WorkerHandle, WorkerUnchanged, GoTo
  <1>17. ASSUME NEW w \in Worker, WorkerRearm(w) PROVE UnsweptInv'
    BY <1>0, <1>17, ConstantsAssumption DEF WorkerRearm, WorkerUnchanged, GoTo, ModEvent
  <1>18. ASSUME NEW w \in Worker, WorkerFail(w) PROVE UnsweptInv'
    BY <1>0, <1>18, ConstantsAssumption DEF WorkerFail, WorkerUnchanged, GoTo
  <1>19. ASSUME DestroyStart PROVE UnsweptInv'
    BY <1>0, <1>19, ConstantsAssumption DEF DestroyStart, DestroyUnchanged
  <1>20. ASSUME DestroyJoinAccept PROVE UnsweptInv'
    BY <1>0, <1>20, ConstantsAssumption
    DEF DestroyJoinAccept, DestroyUnchanged, AcceptJoined
  <1>21. ASSUME NEW w \in Worker, DestroyStopWorker(w) PROVE UnsweptInv'
    BY <1>0, <1>21, ConstantsAssumption DEF DestroyStopWorker, DestroyUnchanged, Joined
  <1>22. ASSUME DestroyModles PROVE UnsweptInv'
    BY <1>0, <1>22, ConstantsAssumption DEF DestroyModles, DestroyUnchanged, Joined
  <1>23. ASSUME DestroyStopHeartbeat PROVE UnsweptInv'
    BY <1>0, <1>23, ConstantsAssumption DEF DestroyStopHeartbeat, DestroyUnchanged
  <1>24. ASSUME DestroyJoinHeartbeat PROVE UnsweptInv'
    BY <1>0, <1>24, ConstantsAssumption DEF DestroyJoinHeartbeat, DestroyUnchanged
  <1>25. ASSUME NEW k \in Socket, DestroySession(k) PROVE UnsweptInv'
    BY <1>0, <1>25, ConstantsAssumption
    DEF DestroySession, DestroyUnchanged, FiniAndDelete, Close
  <1>26. ASSUME DestroyDone PROVE UnsweptInv'
    <2>1. IdleInv'
      BY <1>0, <1>26, ConstantsAssumption DEF DestroyDone, DestroyUnchanged
    <2>2. SpanInv'
      BY <1>0, <1>26, ConstantsAssumption DEF DestroyDone, DestroyUnchanged
    <2>3. UndoInv'
      BY <1>0, <1>26, ConstantsAssumption DEF DestroyDone, DestroyUnchanged
    <2>4. StoppedInv'
      BY <1>0, <1>26, ConstantsAssumption DEF DestroyDone, DestroyUnchanged
    <2> QED
      BY <2>1, <2>2, <2>3, <2>4, <1>26, <1>0 DEF DestroyDone, DestroyUnchanged
  <1>27. ASSUME NEW s \in Session, Environment(s) PROVE UnsweptInv'
    BY <1>27, <1>0, UnsweptQuiet
    DEF Environment, PeerConnect, PeerSend, PeerLeave, Expire, PeerUnchanged
  <1>28. ASSUME HbThread PROVE UnsweptInv'
    <2>1. HbTop
      BY <1>28 DEF HbThread, HbBegin, HbSkip, HbErase, HbDelEvent, HbNoModle, HbNotify,
           HbClose, HbClear, HbDelete, HbEnd
    <2> QED
      BY <2>1, <1>0 DEF HbTop, HbUnchanged
  <1>29. ASSUME (\E k \in Socket : AppFindSession(k)) \/ AppIOSend PROVE UnsweptInv'
    BY <1>29, <1>0, UnsweptQuiet DEF AppFindSession, AppIOSend, AppUnchanged
  <1>30. ASSUME UseAfterFree PROVE UnsweptInv'
    <2>1. \A w \in Worker : wpc[w] \in Handling =>
            mem[wsess[w]] = "live" /\ ~Alien(wsess[w])
      BY <1>0 DEF TypeOK, WorkerTypeOK, Alien
    <2>2. apc \in Accepting => mem[asess] = "live" /\ ~Alien(asess)
      BY <1>0 DEF TypeOK, AcceptTypeOK, Alien
    <2>3. fault' = "app"
      BY <1>30, <2>1, <2>2 DEF UseAfterFree, InUse
    <2> QED
      BY <2>3, <1>30, UnsweptQuiet DEF UseAfterFree
  <1>31. CASE UNCHANGED vars
    BY <1>31, <1>0, UnsweptQuiet DEF vars
  <1> QED
    BY <1>1, <1>2, <1>3, <1>4, <1>5, <1>6, <1>7, <1>8, <1>9, <1>10, <1>11, <1>12,
       <1>13, <1>14, <1>15, <1>16, <1>17, <1>18, <1>19, <1>20, <1>21, <1>22, <1>23,
       <1>24, <1>25, <1>26, <1>27, <1>28, <1>29, <1>30, <1>31
    DEF Next, Running, Destroying, Undefined, Destroyed, AcceptThread, WorkerThread,
        DestroyThread

\* Without heartbeat detection no session is torn down while a thread works on it,
\* and at any time every thread finds what it relies on.
THEOREM Invariance == Spec => []EpollInv
  <1>1. Init => UnsweptInv
    BY ConstantsAssumption
    DEF Init, UnsweptInv, IdleInv, SpanInv, UndoInv, StoppedInv, Holds
  <1>2. TypeOK /\ TypeOK' /\ LifecycleInv /\ HandlerInv /\ UnsweptInv /\ [Next]_vars
          => UnsweptInv'
    BY UnsweptStep DEF UnsweptInv
  <1>3. TypeOK /\ LifecycleInv /\ HandlerInv /\ UnsweptInv => EpollInv
    BY DEF EpollInv
  <1> QED
    BY <1>1, <1>2, <1>3, TypeCorrect, Lifecycle, HandlersAgree, PTL DEF Spec

\* No worker, and neither the accept thread nor the thread in DestroyServer, uses
\* a deleted session or a foreign descriptor (TcpSession_IORecv, AcceptSession_Accept).
THEOREM NoneUsedAfterFree == ~bIsHaveHB => (Spec => []EngineSafe)
  <1> SUFFICES ASSUME ~bIsHaveHB PROVE Spec => []EngineSafe
    OBVIOUS
  <1>1. EpollInv => EngineSafe
    BY DEF EpollInv, UnsweptInv, EngineSafe
  <1> QED
    BY <1>1, Invariance, PTL

\* When AcceptSession_Fini has returned every session was announced and taken
\* back, and every descriptor accept returned is closed.
THEOREM NothingLeftBehind == ~bIsHaveHB => (Spec => []DestroyedClean)
  <1> SUFFICES ASSUME ~bIsHaveHB PROVE Spec => []DestroyedClean
    OBVIOUS
  <1>1. EpollInv => DestroyedClean
    <2> SUFFICES ASSUME TypeOK, LifecycleInv, UnsweptInv, dpc = "done"
                 PROVE  /\ \A s \in Session : mem[s] # "live" /\ notices[s] \in {0, 2}
                        /\ \A k \in Socket : conn[k] = NoSession
      BY DEF DestroyedClean, EpollInv
    <2>1. asess = NoSession /\ hsess = NoSession
      BY DEF LifecycleInv, AcceptInv, UnsweptInv, StoppedInv, IdleInv, Accepting
    <2>2. ASSUME NEW s \in Session PROVE mem[s] # "live" /\ notices[s] \in {0, 2}
      <3>1. \A k \in Socket : m_TcpSessions[k] = NoSession
        BY DEF UnsweptInv, StoppedInv, Registered
      <3>2. notices[s] # 1
        BY <2>1, <3>1, ConstantsAssumption DEF LifecycleInv, SessionInv
      <3> QED
        BY <3>2 DEF LifecycleInv, SessionInv, UnsweptInv, SpanInv, TypeOK, ObjectTypeOK
    <2> QED
      BY <2>2 DEF UnsweptInv, SpanInv, TypeOK, NetTypeOK
  <1> QED
    BY <1>1, Invariance, PTL

-----------------------------------------------------------------------------
(* The server implements SessionEvents. *)

\* Events!phase, Events!id and Events!got.
Phase == [s \in Session |-> CASE notices[s] = 0 -> "unknown"
                              [] notices[s] = 1 -> "connected"
                              [] OTHER -> "disconnected"]
Id == [s \in Session |-> IF Connected(s) THEN m_nSocket[s] ELSE NoSocket]
Got == [s \in Session |-> Len(delivered[s])]

\* The application sees nothing of a step that leaves these alone.
LEMMA EventsQuiet ==
  ASSUME UNCHANGED <<notices, m_nSocket, delivered>>
  PROVE  UNCHANGED Events!vars
  BY DEF Events!vars, Connected

\* A notification moves its session to the next phase, and no other.
LEMMA NotifyStep ==
  ASSUME notices \in [Session -> Nat], NEW s \in Session, notices[s] \in {0, 1},
         notices' = [notices EXCEPT ![s] = @ + 1]
  PROVE  Phase' = [Phase EXCEPT ![s] = IF notices[s] = 0 THEN "connected"
                                                         ELSE "disconnected"]
  <1> DEFINE Next1 == IF notices[s] = 0 THEN "connected" ELSE "disconnected"
  <1>1. \A t \in Session : Phase'[t] = [Phase EXCEPT ![s] = Next1][t]
    <2>1. \A t \in Session : t # s => Phase'[t] = Phase[t]
      BY DEF Phase
    <2>2. Phase'[s] = Next1
      <3>1. notices'[s] = IF notices[s] = 0 THEN 1 ELSE 2
        OBVIOUS
      <3> QED
        BY <3>1 DEF Phase
    <2>3. s \in DOMAIN Phase
      BY DEF Phase
    <2> QED
      BY <2>1, <2>2, <2>3
  <1>2. Phase = [t \in Session |-> Phase[t]] /\ Phase' = [t \in Session |-> Phase'[t]]
    BY DEF Phase
  <1> QED
    BY <1>1, <1>2

\* Each step announces one session, hands over data of a connected one, or is
\* one the application does not see.
LEMMA EventsStep ==
  ASSUME ~bIsHaveHB, TypeOK, LifecycleInv, UnsweptInv, [Next]_vars
  PROVE  [Events!Next]_(Events!vars)
  <1>0. /\ conn \in [Socket -> Session \cup {NoSession}]
        /\ mem \in [Session -> {"none", "live", "deleted"}]
        /\ m_nSocket \in [Session -> Socket \cup {NoSocket}]
        /\ m_TcpSessions \in [Socket -> Session \cup {NoSession}]
        /\ notices \in [Session -> Nat]
        /\ delivered \in [Session -> Seq(Nat)]
        /\ wchunk \in [Worker -> Nat]
        /\ asess \in Session \cup {NoSession}
        /\ apc \in Accepting => asess \in Session
        /\ \A w \in Worker : wpc[w] \in Handling => wsess[w] \in Session
    BY DEF TypeOK, NetTypeOK, ObjectTypeOK, MgrTypeOK, HistoryTypeOK, WorkerTypeOK,
           AcceptTypeOK
  <1> USE DEF objectVars, historyVars
  <1>1. ASSUME NEW s \in Session, notices[s] = 1, notices' = [notices EXCEPT ![s] = @ + 1],
               m_nSocket' = [m_nSocket EXCEPT ![s] = NoSocket], UNCHANGED delivered
        PROVE  Events!Next
    <2>1. Phase' = [Phase EXCEPT ![s] = IF notices[s] = 0 THEN "connected"
                                                          ELSE "disconnected"]
      BY <1>0, <1>1, NotifyStep
    <2>2. Id' = [Id EXCEPT ![s] = NoSocket]
      BY <1>0, <1>1 DEF Id, Connected
    <2>3. Phase[s] = "connected"
      BY <1>1 DEF Phase
    <2>4. UNCHANGED Got
      BY <1>1 DEF Got
    <2>5. Events!Disconnect(s)
      BY <1>1, <2>1, <2>2, <2>3, <2>4 DEF Events!Disconnect, Phase, Id, Got
    <2> QED
      BY <2>5 DEF Events!Next
  <1>2. ASSUME NEW s \in Session, NEW k \in Socket, AcceptNew(s, k)
        PROVE  Events!Next
    <2>1. notices[s] = 0 /\ \A t \in Session : Connected(t) => m_nSocket[t] # k
      BY <1>0, <1>2, ConstantsAssumption
      DEF AcceptNew, Backlog, FreeSocket, LifecycleInv, SessionInv, Connected, OwnsSocket
    <2>2. Phase' = [Phase EXCEPT ![s] = IF notices[s] = 0 THEN "connected"
                                                          ELSE "disconnected"]
      BY <2>1, <1>0, <1>2, NotifyStep DEF AcceptNew
    <2>3. Id' = [Id EXCEPT ![s] = k]
      <3>1. \A t \in Session : /\ notices'[t] = IF t = s THEN 1 ELSE notices[t]
                               /\ m_nSocket'[t] = IF t = s THEN k ELSE m_nSocket[t]
        BY <2>1, <1>0, <1>2 DEF AcceptNew
      <3> QED
        BY <3>1 DEF Id, Connected
    <2>4. Phase[s] = "unknown" /\ \A t \in Session : Id[t] # k
      BY <2>1, ConstantsAssumption DEF Phase, Id
    <2>5. UNCHANGED Got
      BY <1>2 DEF AcceptNew, AcceptUnchanged, Got
    <2>6. Events!Connect(s, k)
      BY <2>1, <2>2, <2>3, <2>4, <2>5 DEF Events!Connect, Phase, Id, Got
    <2> QED
      BY <2>6 DEF Events!Next
  <1>3. ASSUME AcceptUndoSession PROVE Events!Next
    <2>1. asess \in Session /\ notices[asess] = 1
      BY <1>0, <1>3 DEF AcceptUndoSession, UnsweptInv, SpanInv, Accepting
    <2> QED
      BY <2>1, <1>1, <1>3 DEF AcceptUndoSession, FiniAndDelete, AcceptUnchanged
  <1>4. ASSUME NEW k \in Socket, DestroySession(k) PROVE Events!Next
    <2>1. m_TcpSessions[k] \in Session /\ notices[m_TcpSessions[k]] = 1
      BY <1>0, <1>4 DEF DestroySession, LifecycleInv, RegistryInv
    <2> QED
      BY <2>1, <1>1, <1>4 DEF DestroySession, FiniAndDelete, DestroyUnchanged
  <1>5. ASSUME NEW w \in Worker, WorkerHandle(w)
        PROVE  [Events!Next]_(Events!vars)
    <2>1. wsess[w] \in Session /\ notices[wsess[w]] = 1
      BY <1>0, <1>5 DEF WorkerHandle, UnsweptInv, SpanInv, Handling
    <2>2. UNCHANGED <<notices, m_nSocket>>
      BY <1>5 DEF WorkerHandle, WorkerUnchanged
    <2>3. CASE delivered' = [delivered EXCEPT ![wsess[w]] = Append(@, wchunk[w])]
      <3>1. \A s \in Session : Len(delivered'[s]) = IF s = wsess[w] THEN Len(delivered[s]) + 1
                                                                    ELSE Len(delivered[s])
        BY <2>1, <2>3, <1>0
      <3>2. Got' = [Got EXCEPT ![wsess[w]] = @ + 1]
        BY <3>1, <2>1 DEF Got
      <3>3. Phase[wsess[w]] = "connected" /\ UNCHANGED <<Phase, Id>>
        BY <2>1, <2>2 DEF Phase, Id, Connected
      <3> QED
        BY <2>1, <3>2, <3>3 DEF Events!Next, Events!Receive, Phase, Id, Got
    <2>4. CASE UNCHANGED delivered
      BY <2>2, <2>4, EventsQuiet
    <2> QED
      BY <1>5, <2>3, <2>4 DEF WorkerHandle
  <1>6. ASSUME \/ AcceptTop \/ AcceptNone \/ AcceptInsert \/ AcceptAddEvent
               \/ AcceptAddEventFails \/ AcceptIORecv \/ AcceptUndoEvent \/ AcceptUndoInsert
        PROVE  UNCHANGED Events!vars
    BY <1>6, EventsQuiet
    DEF AcceptTop, AcceptNone, AcceptInsert, AcceptAddEvent, AcceptAddEventFails,
        AcceptIORecv, AcceptUndoEvent, AcceptUndoInsert, AcceptUnchanged
  <1>7. ASSUME NEW w \in Worker,
               \/ WorkerTop(w) \/ WorkerTimeout(w) \/ WorkerFetch(w) \/ WorkerDispatch(w)
               \/ WorkerRead(w) \/ WorkerRearm(w) \/ WorkerFail(w)
        PROVE  UNCHANGED Events!vars
    BY <1>7, EventsQuiet
    DEF WorkerTop, WorkerTimeout, WorkerFetch, WorkerDispatch, WorkerRead, WorkerRearm,
        WorkerFail, WorkerUnchanged
  <1>8. ASSUME HbThread PROVE UNCHANGED Events!vars
    <2>1. HbTop
      BY <1>8
      DEF HbThread, HbBegin, HbSkip, HbErase, HbDelEvent, HbNoModle, HbNotify, HbClose,
          HbClear, HbDelete, HbEnd, UnsweptInv, IdleInv
    <2> QED
      BY <2>1, EventsQuiet DEF HbTop, HbUnchanged
  <1>9. ASSUME \/ DestroyStart \/ DestroyJoinAccept \/ DestroyModles
               \/ DestroyStopHeartbeat \/ DestroyJoinHeartbeat \/ DestroyDone
               \/ \E w \in Worker : DestroyStopWorker(w)
        PROVE  UNCHANGED Events!vars
    BY <1>9, EventsQuiet
    DEF DestroyStart, DestroyJoinAccept, DestroyModles, DestroyStopHeartbeat,
        DestroyJoinHeartbeat, DestroyDone, DestroyStopWorker, DestroyUnchanged
  <1>10. ASSUME \/ \E s \in Session : Environment(s)
                \/ \E k \in Socket : AppFindSession(k)
                \/ AppIOSend \/ UseAfterFree \/ UNCHANGED vars
         PROVE  UNCHANGED Events!vars
    BY <1>10, EventsQuiet
    DEF Environment, PeerConnect, PeerSend, PeerLeave, Expire, PeerUnchanged,
        AppFindSession, AppIOSend, AppUnchanged, UseAfterFree, vars
  <1> QED
    <2>1. AcceptThread => [Events!Next]_(Events!vars)
      BY <1>2, <1>3, <1>6 DEF AcceptThread
    <2>2. \A w \in Worker : WorkerThread(w) => [Events!Next]_(Events!vars)
      BY <1>5, <1>7 DEF WorkerThread
    <2>3. DestroyStart \/ DestroyThread => [Events!Next]_(Events!vars)
      BY <1>4, <1>9 DEF DestroyThread
    <2> QED
      BY <2>1, <2>2, <2>3, <1>8, <1>10 DEF Next, Running, Destroying, Undefined,
         Destroyed

\* Without heartbeat detection the server implements SessionEvents.
THEOREM Refinement == ~bIsHaveHB => (Spec => ImplementsSessionEvents)
  <1> SUFFICES ASSUME ~bIsHaveHB PROVE Spec => Events!Spec
    BY DEF ImplementsSessionEvents
  <1>1. Init => Events!Init
    BY DEF Init, Events!Init, Connected
  <1>2. EpollInv /\ [Next]_vars => [Events!Next]_(Events!vars)
    BY EventsStep DEF EpollInv
  <1> QED
    BY <1>1, <1>2, Invariance, PTL DEF Spec, Events!Spec
-----------------------------------------------------------------------------
(* The order of the data, with and without heartbeat detection. *)

\* Worker w has a segment of s in its hands.
Carries(w, s) == wpc[w] = "handle" /\ wsess[w] = s

\* What was delivered of s came from the segments read before the one a worker
\* carries, in order, and without heads it is all of them.
Segments(s) ==
  /\ \A i, j \in DOMAIN delivered[s] : i < j => delivered[s][i] < delivered[s][j]
  /\ \A i \in DOMAIN delivered[s] : delivered[s][i] <= nread[s]
  /\ \A w \in Worker : Carries(w, s) =>
       /\ wchunk[w] = nread[s]
       /\ \A i \in DOMAIN delivered[s] : delivered[s][i] < nread[s]
  /\ ~bIsHaveHead =>
       /\ \A i \in DOMAIN delivered[s] : delivered[s][i] = i
       /\ (\E w \in Worker : Carries(w, s)) => Len(delivered[s]) + 1 = nread[s]
       /\ (\A w \in Worker : ~Carries(w, s)) => Len(delivered[s]) = nread[s]

SegmentInv == \A s \in Session : ~doubled[s] => Segments(s)

\* A step in which no worker takes or hands over a segment of s.
LEMMA SegmentsQuiet ==
  ASSUME NEW s \in Session, Segments(s),
         nread'[s] = nread[s], delivered'[s] = delivered[s],
         \A w \in Worker : Carries(w, s)' <=> Carries(w, s),
         \A w \in Worker : Carries(w, s) => wchunk'[w] = wchunk[w]
  PROVE  Segments(s)'
  BY DEF Segments

\* A worker carries the segment it read last, and no other worker carries one.
LEMMA SegmentStep ==
  ASSUME TypeOK, HandlerInv, SegmentInv, [Next]_vars PROVE SegmentInv'
  <1>0. /\ nread \in [Session -> Nat]
        /\ doubled \in [Session -> BOOLEAN]
        /\ delivered \in [Session -> Seq(Nat)]
        /\ wpc \in [Worker -> WorkerPC]
        /\ wsess \in [Worker -> Session \cup {NoSession}]
        /\ wchunk \in [Worker -> Nat]
        /\ apc \in Accepting => asess \in Session
        /\ \A w \in Worker : wpc[w] \in Handling => wsess[w] \in Session
    BY DEF TypeOK, NetTypeOK, HistoryTypeOK, AcceptTypeOK, WorkerTypeOK
  <1> USE DEF acceptVars, workerVars, historyVars
  <1>1. ASSUME NEW s \in Session, ~doubled'[s], NEW w \in Worker, WorkerThread(w)
        PROVE  Segments(s)'
    <2>1. ~doubled[s] /\ Segments(s)
      BY <1>1 DEF SegmentInv, WorkerThread, WorkerUnchanged, WorkerTop, WorkerTimeout,
        WorkerFetch, WorkerDispatch, WorkerRead, WorkerHandle, WorkerRearm, WorkerFail
    <2>2. wsess[w] = s => \A v \in Worker : v # w => wsess[v] # s
      BY <2>1 DEF HandlerInv, ExclusiveInv, OneHandler, Holds
    <2>3. CASE WorkerHandle(w) /\ wsess[w] = s
      <3>1. wchunk[w] = nread[s] /\ \A i \in DOMAIN delivered[s] : delivered[s][i] < nread[s]
        BY <2>1, <2>3 DEF WorkerHandle, Segments, Carries
      <3>2. \A v \in Worker : ~Carries(v, s)'
        BY <2>2, <2>3, <1>0 DEF WorkerHandle, WorkerUnchanged, GoTo, Carries
      <3>3. nread' = nread
        BY <2>3 DEF WorkerHandle
      <3>4. CASE delivered'[s] = Append(delivered[s], nread[s])
        <4>1. /\ DOMAIN delivered[s] = 1 .. Len(delivered[s])
              /\ DOMAIN delivered'[s] = 1 .. Len(delivered[s]) + 1
              /\ Len(delivered'[s]) = Len(delivered[s]) + 1
              /\ Len(delivered[s]) \in Nat
              /\ \A i \in 1 .. Len(delivered[s]) + 1 :
                   delivered'[s][i] = IF i = Len(delivered[s]) + 1 THEN nread[s]
                                                                 ELSE delivered[s][i]
          BY <3>4, <1>0
        <4>2. ~bIsHaveHead => Len(delivered[s]) + 1 = nread[s]
          BY <2>1, <2>3 DEF Segments, Carries, WorkerHandle
        <4>3. \A i, j \in DOMAIN delivered'[s] : i < j => delivered'[s][i] < delivered'[s][j]
          BY <4>1, <3>1, <2>1 DEF Segments
        <4>4. \A i \in DOMAIN delivered'[s] : delivered'[s][i] <= nread[s]
          BY <4>1, <2>1, <1>0 DEF Segments
        <4>5. ~bIsHaveHead => /\ \A i \in DOMAIN delivered'[s] : delivered'[s][i] = i
                              /\ Len(delivered'[s]) = nread[s]
          BY <4>1, <4>2, <2>1 DEF Segments
        <4> QED
          BY <4>3, <4>4, <4>5, <3>2, <3>3 DEF Segments
      <3>5. CASE delivered'[s] = delivered[s] /\ bIsHaveHead
        BY <3>5, <3>2, <3>3, <2>1 DEF Segments
      <3> QED
        BY <2>3, <3>1, <3>4, <3>5, <1>0 DEF WorkerHandle
    <2>4. CASE WorkerRead(w) /\ wsess[w] = s /\ wpc'[w] = "handle"
      <3>1. /\ nread'[s] = nread[s] + 1
            /\ wchunk'[w] = nread[s] + 1
            /\ delivered' = delivered
            /\ wsess' = wsess
            /\ wpc[w] = "read"
        BY <2>4, <1>0 DEF WorkerRead, GoTo
      <3>2. \A v \in Worker : ~Carries(v, s) /\ (Carries(v, s)' <=> v = w)
        BY <3>1, <2>2, <2>4 DEF Carries
      <3>3. \A i \in DOMAIN delivered[s] : delivered[s][i] \in Nat
        BY <1>0
      <3> QED
        BY <3>1, <3>2, <3>3, <2>1, <1>0 DEF Segments
    <2>5. CASE \/ wsess[w] # s
               \/ WorkerRead(w) /\ wpc'[w] # "handle"
               \/ WorkerTop(w) \/ WorkerTimeout(w) \/ WorkerFetch(w) \/ WorkerDispatch(w)
               \/ WorkerRearm(w) \/ WorkerFail(w)
      <3>1. nread'[s] = nread[s] /\ delivered'[s] = delivered[s]
        BY <1>1, <2>5, <1>0
        DEF WorkerThread, WorkerTop, WorkerTimeout, WorkerFetch, WorkerDispatch, WorkerRead,
            WorkerHandle, WorkerRearm, WorkerFail, GoTo
      <3>2. /\ \A v \in Worker : Carries(v, s)' <=> Carries(v, s)
            /\ \A v \in Worker : Carries(v, s) => wchunk'[v] = wchunk[v]
        BY <1>1, <2>5, <1>0
        DEF WorkerThread, WorkerTop, WorkerTimeout, WorkerFetch, WorkerDispatch, WorkerRead,
            WorkerHandle, WorkerRearm, WorkerFail, GoTo, Carries
      <3> QED
        BY <3>1, <3>2, <2>1, SegmentsQuiet
    <2> QED
      BY <1>1, <2>3, <2>4, <2>5 DEF WorkerThread
  <1>2. ASSUME UNCHANGED <<nread, delivered, wpc, wsess, wchunk>>,
               \A s \in Session : ~doubled'[s] => ~doubled[s]
        PROVE  SegmentInv'
    BY <1>2, SegmentsQuiet DEF SegmentInv, Carries
  <1>3. ASSUME AcceptIORecv PROVE SegmentInv'
    <2>1. asess \in Session /\ ~doubled[asess]
      BY <1>3, <1>0, ConstantsAssumption DEF AcceptIORecv, HandlerInv, SetupInv,
         Accepting
    <2>2. \A s \in Session : ~doubled'[s] => ~doubled[s]
      BY <1>3, <2>1, <1>0 DEF AcceptIORecv
    <2> QED
      BY <1>2, <1>3, <2>2 DEF AcceptIORecv, AcceptUnchanged
  <1>4. ASSUME AcceptThread, ~AcceptIORecv PROVE SegmentInv'
    BY <1>2, <1>4
    DEF AcceptThread, AcceptTop, AcceptNone, AcceptNew, AcceptInsert, AcceptAddEvent,
        AcceptAddEventFails, AcceptUndoEvent, AcceptUndoInsert, AcceptUndoSession,
        AcceptUnchanged
  <1>5. ASSUME HbThread PROVE SegmentInv'
    BY <1>2, <1>5
    DEF HbThread, HbTop, HbBegin, HbSkip, HbErase, HbDelEvent, HbNoModle, HbNotify,
        HbClose, HbClear, HbDelete, HbEnd, HbUnchanged
  <1>6. ASSUME DestroyStart \/ DestroyThread PROVE SegmentInv'
    BY <1>2, <1>6
    DEF DestroyStart, DestroyThread, DestroyJoinAccept, DestroyStopWorker, DestroyModles,
        DestroyStopHeartbeat, DestroyJoinHeartbeat, DestroySession, DestroyDone,
        DestroyUnchanged
  <1>7. ASSUME \/ \E s \in Session : Environment(s)
               \/ \E k \in Socket : AppFindSession(k)
               \/ AppIOSend \/ UseAfterFree \/ UNCHANGED vars
        PROVE  SegmentInv'
    BY <1>2, <1>7
    DEF Environment, PeerConnect, PeerSend, PeerLeave, Expire, PeerUnchanged,
        AppFindSession, AppIOSend, AppUnchanged, UseAfterFree, vars, netVars
  <1> QED
    BY <1>1, <1>3, <1>4, <1>5, <1>6, <1>7
    DEF SegmentInv, Next, Running, Destroying, Undefined, Destroyed

\* OnTransPortEngineRecv is called with a connection's data in the order the peer
\* sent it, and without heads with all of it, while one worker at a time has the
\* connection: NetEventModleEpoll_HandleData and TcpSession_IORecv, any workers.
THEOREM DataInOrder == Spec => []InOrder
  <1>1. Init => SegmentInv
    BY DEF Init, SegmentInv, Segments, Carries
  <1>2. EpollInv /\ SegmentInv /\ [Next]_vars => SegmentInv'
    BY SegmentStep DEF EpollInv
  <1>3. EpollInv /\ SegmentInv => InOrder
    BY DEF EpollInv, TypeOK, HistoryTypeOK, SegmentInv, Segments, InOrder
  <1> QED
    BY <1>1, <1>2, <1>3, Invariance, PTL DEF Spec
=============================================================================
