-------------------------- MODULE EpollServer_proofs --------------------------
(***************************************************************************)
(* Proofs about EpollServer, for any sessions, descriptors, modules and      *)
(* threads, with and without heartbeat detection.                            *)
(***************************************************************************)
EXTENDS EpollServerInv, TLAPS

\* m_nAcceptIndex % m_nEventModleCount is the index of a module.
LEMMA NextModleType ==
  ASSUME m_nAcceptIndex \in Modle PROVE NextModle \in Modle
  BY ConstantsAssumption DEF Modle, NextModle

\* A group of variables that does not change keeps its type.
LEMMA SameType ==
  ASSUME TypeOK
  PROVE  /\ UNCHANGED peerVars => PeerTypeOK'
         /\ UNCHANGED netVars => NetTypeOK'
         /\ UNCHANGED objectVars => ObjectTypeOK'
         /\ UNCHANGED mgrVars => MgrTypeOK'
         /\ UNCHANGED modleVars => ModleTypeOK'
         /\ UNCHANGED flagVars => FlagTypeOK'
         /\ UNCHANGED acceptVars => AcceptTypeOK'
         /\ UNCHANGED workerVars => WorkerTypeOK'
         /\ UNCHANGED hbVars => HbTypeOK'
         /\ UNCHANGED appVars => AppTypeOK'
         /\ UNCHANGED historyVars => HistoryTypeOK'
  <1> USE DEF TypeOK
  <1>1. UNCHANGED peerVars => PeerTypeOK'
    BY DEF PeerTypeOK, peerVars
  <1>2. UNCHANGED netVars => NetTypeOK'
    BY DEF NetTypeOK, netVars
  <1>3. UNCHANGED objectVars => ObjectTypeOK'
    BY DEF ObjectTypeOK, objectVars
  <1>4. UNCHANGED mgrVars => MgrTypeOK'
    BY DEF MgrTypeOK, mgrVars
  <1>5. UNCHANGED modleVars => ModleTypeOK'
    BY DEF ModleTypeOK, modleVars
  <1>6. UNCHANGED flagVars => FlagTypeOK'
    BY DEF FlagTypeOK, flagVars
  <1>7. UNCHANGED acceptVars => AcceptTypeOK'
    BY DEF AcceptTypeOK, acceptVars
  <1>8. UNCHANGED workerVars => WorkerTypeOK'
    BY DEF WorkerTypeOK, workerVars
  <1>9. UNCHANGED hbVars => HbTypeOK'
    BY DEF HbTypeOK, hbVars
  <1>10. UNCHANGED appVars => AppTypeOK'
    BY DEF AppTypeOK, appVars
  <1>11. UNCHANGED historyVars => HistoryTypeOK'
    BY DEF HistoryTypeOK, historyVars
  <1> QED
    BY <1>1, <1>2, <1>3, <1>4, <1>5, <1>6, <1>7, <1>8, <1>9, <1>10, <1>11

\* Every variable keeps its type (AcceptSession_Accept, NetEventModleEpoll_HandleData,
\* TcpSessionMgr_HeartbeatDetection and AcceptSession_Fini together).
THEOREM TypeCorrect == Spec => []TypeOK
  <1>1. Init => TypeOK
    <2> SUFFICES ASSUME Init PROVE TypeOK
      OBVIOUS
    <2>1. PeerTypeOK /\ NetTypeOK /\ HistoryTypeOK
      BY DEF Init, PeerTypeOK, NetTypeOK, HistoryTypeOK
    <2>2. ObjectTypeOK /\ MgrTypeOK /\ ModleTypeOK /\ FlagTypeOK
      BY ConstantsAssumption
      DEF Init, ObjectTypeOK, MgrTypeOK, ModleTypeOK, FlagTypeOK, Modle
    <2>3. AcceptTypeOK /\ WorkerTypeOK /\ HbTypeOK /\ AppTypeOK
      BY ConstantsAssumption
      DEF Init, AcceptTypeOK, WorkerTypeOK, HbTypeOK, AppTypeOK, Modle,
          AcceptPC, WorkerPC, HbPC, Accepting, Handling, TearingDown
    <2> QED
      BY <2>1, <2>2, <2>3 DEF Init, TypeOK, DestroyPC
  <1>2. TypeOK /\ [Next]_vars => TypeOK'
    <2> SUFFICES ASSUME TypeOK, [Next]_vars PROVE TypeOK'
      OBVIOUS
    <2> USE DEF TypeOK, AcceptPC, WorkerPC, HbPC, DestroyPC, Accepting, Handling, TearingDown
    <2>1. ASSUME AcceptTop PROVE TypeOK'
      BY <2>1, SameType
        DEF AcceptTop, AcceptUnchanged, AcceptTypeOK, NetTypeOK, HistoryTypeOK
    <2>2. ASSUME AcceptNone PROVE TypeOK'
      BY <2>2, SameType
        DEF AcceptNone, AcceptUnchanged, AcceptTypeOK, NetTypeOK,
            HistoryTypeOK
    <2>3. ASSUME NEW s \in Session, NEW k \in Socket, AcceptNew(s, k) PROVE TypeOK'
      BY <2>3, SameType, NextModleType
        DEF AcceptNew, AcceptUnchanged, NextModle, Backlog, FreeSocket,
            AcceptTypeOK, NetTypeOK, ObjectTypeOK, HistoryTypeOK
    <2>4. ASSUME AcceptInsert PROVE TypeOK'
      BY <2>4, SameType
        DEF AcceptInsert, AcceptUnchanged, AcceptTypeOK, NetTypeOK, MgrTypeOK,
            HistoryTypeOK
    <2>5. ASSUME AcceptAddEvent PROVE TypeOK'
      BY <2>5, SameType
        DEF AcceptAddEvent, AcceptUnchanged, AcceptTypeOK, NetTypeOK,
            HistoryTypeOK
    <2>6. ASSUME AcceptAddEventFails PROVE TypeOK'
      BY <2>6, SameType
        DEF AcceptAddEventFails, AcceptUnchanged, AcceptTypeOK, NetTypeOK,
            HistoryTypeOK
    <2>7. ASSUME AcceptIORecv PROVE TypeOK'
      BY <2>7, SameType
        DEF AcceptIORecv, AcceptUnchanged, ModEvent, AcceptTypeOK, NetTypeOK,
            HistoryTypeOK
    <2>8. ASSUME AcceptUndoEvent PROVE TypeOK'
      BY <2>8, SameType
        DEF AcceptUndoEvent, AcceptUnchanged, AcceptTypeOK, NetTypeOK,
            HistoryTypeOK
    <2>9. ASSUME AcceptUndoInsert PROVE TypeOK'
      BY <2>9, SameType
        DEF AcceptUndoInsert, AcceptUnchanged, AcceptTypeOK, NetTypeOK,
            MgrTypeOK, HistoryTypeOK
    <2>10. ASSUME AcceptUndoSession PROVE TypeOK'
      <3>1. AcceptTypeOK'
        BY <2>10 DEF AcceptUndoSession, AcceptUnchanged, FiniAndDelete, Close,
              AcceptTypeOK
      <3>2. NetTypeOK'
        BY <2>10 DEF AcceptUndoSession, AcceptUnchanged, FiniAndDelete, Close,
              NetTypeOK, AcceptTypeOK
      <3>3. ObjectTypeOK'
        BY <2>10 DEF AcceptUndoSession, AcceptUnchanged, FiniAndDelete, Close,
              ObjectTypeOK, AcceptTypeOK
      <3>4. HistoryTypeOK'
        BY <2>10 DEF AcceptUndoSession, AcceptUnchanged, FiniAndDelete, Close,
              HistoryTypeOK, AcceptTypeOK
      <3> QED
        BY <2>10, SameType, <3>1, <3>2, <3>3, <3>4 DEF AcceptUndoSession, AcceptUnchanged, FiniAndDelete, Close
    <2>11. ASSUME NEW w \in Worker, WorkerTop(w) PROVE TypeOK'
      BY <2>11, SameType
        DEF WorkerTop, WorkerUnchanged, GoTo, WorkerTypeOK, NetTypeOK,
            ObjectTypeOK, HistoryTypeOK
    <2>12. ASSUME NEW w \in Worker, WorkerTimeout(w) PROVE TypeOK'
      BY <2>12, SameType
        DEF WorkerTimeout, WorkerUnchanged, GoTo, WorkerTypeOK, NetTypeOK,
            ObjectTypeOK, HistoryTypeOK
    <2>13. ASSUME NEW w \in Worker, WorkerFetch(w) PROVE TypeOK'
      <3>1. WorkerTypeOK'
        BY <2>13 DEF WorkerFetch, WorkerUnchanged, GoTo, Disarm, WorkerReady,
              WorkerTypeOK, NetTypeOK
      <3>2. NetTypeOK'
        BY <2>13 DEF WorkerFetch, WorkerUnchanged, GoTo, Disarm, WorkerReady, NetTypeOK
      <3>3. ObjectTypeOK'
        BY <2>13 DEF WorkerFetch, WorkerUnchanged, GoTo, Disarm, WorkerReady,
              ObjectTypeOK, NetTypeOK
      <3>4. HistoryTypeOK'
        BY <2>13 DEF WorkerFetch, WorkerUnchanged, GoTo, Disarm, WorkerReady,
              HistoryTypeOK, NetTypeOK
      <3> QED
        BY <2>13, SameType, <3>1, <3>2, <3>3, <3>4 DEF WorkerFetch, WorkerUnchanged, GoTo, Disarm, WorkerReady
    <2>14. ASSUME NEW w \in Worker, WorkerDispatch(w) PROVE TypeOK'
      <3>1. WorkerTypeOK'
        BY <2>14 DEF WorkerDispatch, WorkerUnchanged, GoTo, WorkerTypeOK
      <3>2. NetTypeOK'
        BY <2>14 DEF WorkerDispatch, WorkerUnchanged, GoTo, NetTypeOK, WorkerTypeOK
      <3>3. ObjectTypeOK'
        BY <2>14 DEF WorkerDispatch, WorkerUnchanged, GoTo, ObjectTypeOK, WorkerTypeOK
      <3>4. HistoryTypeOK'
        BY <2>14 DEF WorkerDispatch, WorkerUnchanged, GoTo, HistoryTypeOK, WorkerTypeOK
      <3> QED
        BY <2>14, SameType, <3>1, <3>2, <3>3, <3>4 DEF WorkerDispatch, WorkerUnchanged, GoTo
    <2>15. ASSUME NEW w \in Worker, WorkerRead(w) PROVE TypeOK'
      <3>1. WorkerTypeOK'
        BY <2>15 DEF WorkerRead, WorkerUnchanged, GoTo, WorkerTypeOK, NetTypeOK
      <3>2. NetTypeOK'
        BY <2>15 DEF WorkerRead, WorkerUnchanged, GoTo, NetTypeOK, WorkerTypeOK
      <3>3. ObjectTypeOK'
        BY <2>15 DEF WorkerRead, WorkerUnchanged, GoTo, ObjectTypeOK, WorkerTypeOK,
              NetTypeOK
      <3>4. HistoryTypeOK'
        BY <2>15 DEF WorkerRead, WorkerUnchanged, GoTo, HistoryTypeOK, WorkerTypeOK,
              NetTypeOK
      <3> QED
        BY <2>15, SameType, <3>1, <3>2, <3>3, <3>4 DEF WorkerRead, WorkerUnchanged, GoTo
    <2>16. ASSUME NEW w \in Worker, WorkerHandle(w) PROVE TypeOK'
      <3>1. WorkerTypeOK'
        BY <2>16 DEF WorkerHandle, WorkerUnchanged, GoTo, WorkerTypeOK
      <3>2. NetTypeOK'
        BY <2>16 DEF WorkerHandle, WorkerUnchanged, GoTo, NetTypeOK, WorkerTypeOK
      <3>3. ObjectTypeOK'
        BY <2>16 DEF WorkerHandle, WorkerUnchanged, GoTo, ObjectTypeOK, WorkerTypeOK
      <3>4. HistoryTypeOK'
        <4>1. wsess[w] \in Session /\ wchunk[w] \in Nat
          BY <2>16 DEF WorkerHandle, WorkerTypeOK
        <4>2. delivered[wsess[w]] \in Seq(Nat)
          BY <4>1 DEF HistoryTypeOK
        <4>3. Append(delivered[wsess[w]], wchunk[w]) \in Seq(Nat)
          BY <4>1, <4>2
        <4>4. delivered' \in [Session -> Seq(Nat)]
          BY <2>16, <4>1, <4>3 DEF WorkerHandle, HistoryTypeOK
        <4> QED
          BY <2>16, <4>4 DEF WorkerHandle, WorkerUnchanged, GoTo, HistoryTypeOK, WorkerTypeOK
      <3> QED
        BY <2>16, SameType, <3>1, <3>2, <3>3, <3>4 DEF WorkerHandle, WorkerUnchanged, GoTo
    <2>17. ASSUME NEW w \in Worker, WorkerRearm(w) PROVE TypeOK'
      <3>1. WorkerTypeOK'
        BY <2>17 DEF WorkerRearm, WorkerUnchanged, GoTo, ModEvent, WorkerTypeOK
      <3>2. NetTypeOK'
        BY <2>17 DEF WorkerRearm, WorkerUnchanged, GoTo, ModEvent, NetTypeOK,
              WorkerTypeOK
      <3>3. ObjectTypeOK'
        BY <2>17 DEF WorkerRearm, WorkerUnchanged, GoTo, ModEvent, ObjectTypeOK,
              WorkerTypeOK
      <3>4. HistoryTypeOK'
        BY <2>17 DEF WorkerRearm, WorkerUnchanged, GoTo, ModEvent, HistoryTypeOK,
              WorkerTypeOK
      <3> QED
        BY <2>17, SameType, <3>1, <3>2, <3>3, <3>4 DEF WorkerRearm, WorkerUnchanged, GoTo, ModEvent
    <2>18. ASSUME NEW w \in Worker, WorkerFail(w) PROVE TypeOK'
      BY <2>18, SameType
        DEF WorkerFail, WorkerUnchanged, GoTo, WorkerTypeOK, NetTypeOK,
            ObjectTypeOK, HistoryTypeOK
    <2>19. ASSUME HbTop PROVE TypeOK'
      BY <2>19, SameType
        DEF HbTop, HbUnchanged, HbTypeOK, NetTypeOK, ObjectTypeOK, MgrTypeOK,
            HistoryTypeOK
    <2>20. ASSUME HbBegin PROVE TypeOK'
      BY <2>20, SameType
        DEF HbBegin, HbUnchanged, Registered, HbTypeOK, NetTypeOK,
            ObjectTypeOK, MgrTypeOK, HistoryTypeOK
    <2>21. ASSUME NEW s \in Session, HbSkip(s) PROVE TypeOK'
      BY <2>21, SameType
        DEF HbSkip, HbUnchanged, HbTypeOK, NetTypeOK, ObjectTypeOK, MgrTypeOK,
            HistoryTypeOK
    <2>22. ASSUME NEW s \in Session, HbErase(s) PROVE TypeOK'
      BY <2>22, SameType
        DEF HbErase, HbUnchanged, Erase, HbTypeOK, NetTypeOK, ObjectTypeOK,
            MgrTypeOK, HistoryTypeOK
    <2>23. ASSUME HbDelEvent PROVE TypeOK'
      BY <2>23, SameType
        DEF HbDelEvent, HbUnchanged, HbTypeOK, NetTypeOK, ObjectTypeOK,
            MgrTypeOK, HistoryTypeOK
    <2>24. ASSUME HbNoModle PROVE TypeOK'
      BY <2>24, SameType
        DEF HbNoModle, HbUnchanged, Thread, HbTypeOK, NetTypeOK, ObjectTypeOK,
            MgrTypeOK, HistoryTypeOK
    <2>25. ASSUME HbNotify PROVE TypeOK'
      <3>1. HbTypeOK'
        BY <2>25 DEF HbNotify, HbUnchanged, HbTypeOK
      <3>2. NetTypeOK'
        BY <2>25 DEF HbNotify, HbUnchanged, NetTypeOK, HbTypeOK
      <3>3. ObjectTypeOK'
        BY <2>25 DEF HbNotify, HbUnchanged, ObjectTypeOK, HbTypeOK
      <3>4. HistoryTypeOK'
        BY <2>25 DEF HbNotify, HbUnchanged, HistoryTypeOK, HbTypeOK
      <3> QED
        BY <2>25, SameType, <3>1, <3>2, <3>3, <3>4 DEF HbNotify, HbUnchanged
    <2>26. ASSUME HbClose PROVE TypeOK'
      BY <2>26, SameType
        DEF HbClose, HbUnchanged, Close, HbTypeOK, NetTypeOK, ObjectTypeOK,
            MgrTypeOK, HistoryTypeOK
    <2>27. ASSUME HbClear PROVE TypeOK'
      BY <2>27, SameType
        DEF HbClear, HbUnchanged, HbTypeOK, NetTypeOK, ObjectTypeOK, MgrTypeOK,
            HistoryTypeOK
    <2>28. ASSUME HbDelete PROVE TypeOK'
      BY <2>28, SameType
        DEF HbDelete, HbUnchanged, HbTypeOK, NetTypeOK, ObjectTypeOK,
            MgrTypeOK, HistoryTypeOK
    <2>29. ASSUME HbEnd PROVE TypeOK'
      BY <2>29, SameType
        DEF HbEnd, HbUnchanged, HbTypeOK, NetTypeOK, ObjectTypeOK, MgrTypeOK,
            HistoryTypeOK
    <2>30. ASSUME NEW s \in Session, PeerConnect(s) PROVE TypeOK'
      BY <2>30, SameType
        DEF PeerConnect, PeerUnchanged, PeerTypeOK
    <2>31. ASSUME NEW s \in Session, PeerSend(s) PROVE TypeOK'
      BY <2>31, SameType
        DEF PeerSend, PeerUnchanged, PeerTypeOK
    <2>32. ASSUME NEW s \in Session, PeerLeave(s) PROVE TypeOK'
      BY <2>32, SameType
        DEF PeerLeave, PeerUnchanged, PeerTypeOK
    <2>33. ASSUME NEW s \in Session, Expire(s) PROVE TypeOK'
      BY <2>33, SameType
        DEF Expire, PeerUnchanged, ObjectTypeOK
    <2>34. ASSUME NEW k \in Socket, AppFindSession(k) PROVE TypeOK'
      BY <2>34, SameType
        DEF AppFindSession, AppUnchanged, MgrTypeOK, AppTypeOK
    <2>35. ASSUME AppIOSend PROVE TypeOK'
      BY <2>35, SameType
        DEF AppIOSend, AppUnchanged, AppTypeOK
    <2>36. ASSUME DestroyStart PROVE TypeOK'
      BY <2>36, SameType
        DEF DestroyStart, DestroyUnchanged, NetTypeOK, ObjectTypeOK, MgrTypeOK,
            ModleTypeOK, FlagTypeOK, HistoryTypeOK
    <2>37. ASSUME DestroyJoinAccept PROVE TypeOK'
      BY <2>37, SameType
        DEF DestroyJoinAccept, DestroyUnchanged, NetTypeOK, ObjectTypeOK,
            MgrTypeOK, ModleTypeOK, FlagTypeOK, HistoryTypeOK
    <2>38. ASSUME NEW w \in Worker, DestroyStopWorker(w) PROVE TypeOK'
      BY <2>38, SameType
        DEF DestroyStopWorker, DestroyUnchanged, NetTypeOK, ObjectTypeOK,
            MgrTypeOK, ModleTypeOK, FlagTypeOK, HistoryTypeOK
    <2>39. ASSUME DestroyModles PROVE TypeOK'
      BY <2>39, SameType
        DEF DestroyModles, DestroyUnchanged, NetTypeOK, ObjectTypeOK,
            MgrTypeOK, ModleTypeOK, FlagTypeOK, HistoryTypeOK
    <2>40. ASSUME DestroyStopHeartbeat PROVE TypeOK'
      BY <2>40, SameType
        DEF DestroyStopHeartbeat, DestroyUnchanged, NetTypeOK, ObjectTypeOK,
            MgrTypeOK, ModleTypeOK, FlagTypeOK, HistoryTypeOK
    <2>41. ASSUME DestroyJoinHeartbeat PROVE TypeOK'
      BY <2>41, SameType
        DEF DestroyJoinHeartbeat, DestroyUnchanged, NetTypeOK, ObjectTypeOK,
            MgrTypeOK, ModleTypeOK, FlagTypeOK, HistoryTypeOK
    <2>42. ASSUME NEW k \in Socket, DestroySession(k) PROVE TypeOK'
      <3>1. NetTypeOK'
        BY <2>42 DEF DestroySession, DestroyUnchanged, FiniAndDelete, Close, NetTypeOK,
              MgrTypeOK
      <3>2. ObjectTypeOK'
        BY <2>42 DEF DestroySession, DestroyUnchanged, FiniAndDelete, Close,
              ObjectTypeOK, MgrTypeOK
      <3>3. MgrTypeOK'
        BY <2>42 DEF DestroySession, DestroyUnchanged, FiniAndDelete, Close, MgrTypeOK
      <3>4. HistoryTypeOK'
        BY <2>42 DEF DestroySession, DestroyUnchanged, FiniAndDelete, Close,
              HistoryTypeOK, MgrTypeOK
      <3> QED
        BY <2>42, SameType, <3>1, <3>2, <3>3, <3>4 DEF DestroySession, DestroyUnchanged, FiniAndDelete, Close
    <2>43. ASSUME DestroyDone PROVE TypeOK'
      BY <2>43, SameType
        DEF DestroyDone, DestroyUnchanged, NetTypeOK, ObjectTypeOK, MgrTypeOK,
            ModleTypeOK, FlagTypeOK, HistoryTypeOK
    <2>44. ASSUME UseAfterFree PROVE TypeOK'
      BY <2>44, SameType
        DEF UseAfterFree, InUse, Thread
    <2>45. CASE UNCHANGED vars
      BY <2>45, SameType DEF vars
    <2> QED
      BY <2>1, <2>2, <2>3, <2>4, <2>5, <2>6, <2>7, <2>8, <2>9, <2>10, <2>11, <2>12, <2>13, <2>14, <2>15, <2>16, <2>17, <2>18, <2>19, <2>20, <2>21, <2>22, <2>23, <2>24, <2>25, <2>26, <2>27, <2>28, <2>29, <2>30, <2>31, <2>32, <2>33, <2>34, <2>35, <2>36, <2>37, <2>38, <2>39, <2>40, <2>41, <2>42, <2>43, <2>44, <2>45
      DEF Next, Running, Destroying, Undefined, Destroyed, Environment, AcceptThread,
          WorkerThread, HbThread, DestroyThread
  <1> QED
    BY <1>1, <1>2, PTL DEF Spec

-----------------------------------------------------------------------------
(* The lifecycle of sessions. *)

\* A step that touches no session, no map entry and none of the places where
\* the accept, heartbeat and destroying threads are keeps the invariant.
LEMMA LifecycleQuiet ==
  ASSUME LifecycleInv,
         UNCHANGED <<mem, m_nSocket, conn, notices, m_TcpSessions, m_TcpSessionMgrLock,
                     apc, asess, asock, hpc, hvisit, hsess, dpc>>
  PROVE  LifecycleInv'
  BY DEF LifecycleInv, LockInv, RegistryInv, SessionInv, AcceptInv, SweepInv, OwnsSocket

\* Every step keeps the lifecycle invariant.
LEMMA LifecycleStep ==
  TypeOK /\ TypeOK' /\ LifecycleInv /\ [Next]_vars => LifecycleInv'
  <1> SUFFICES ASSUME TypeOK, TypeOK', LifecycleInv, [Next]_vars
               PROVE  LifecycleInv'
    OBVIOUS
  <1>0. /\ conn \in [Socket -> Session \cup {NoSession}]
        /\ mem \in [Session -> {"none", "live", "deleted"}]
        /\ m_nSocket \in [Session -> Socket \cup {NoSocket}]
        /\ m_TcpSessions \in [Socket -> Session \cup {NoSession}]
        /\ notices \in [Session -> Nat]
        /\ hvisit \in SUBSET Session
        /\ asess \in Session \cup {NoSession} /\ asock \in Socket \cup {NoSocket}
        /\ hsess \in Session \cup {NoSession}
        /\ apc \in Accepting => asess \in Session /\ asock \in Socket
        /\ hpc \in TearingDown => hsess \in Session
    BY DEF TypeOK, NetTypeOK, ObjectTypeOK, MgrTypeOK, HistoryTypeOK, HbTypeOK,
           AcceptTypeOK
  <1> USE DEF LifecycleInv, LockInv, RegistryInv, SessionInv, AcceptInv, SweepInv,
        OwnsSocket, Sweeping, TearingDown, Accepting,
        objectVars, netVars, mgrVars, acceptVars, hbVars, historyVars
  <1>1. ASSUME AcceptTop PROVE LifecycleInv'
    <2>1. LockInv'
      BY <1>0, <1>1, ConstantsAssumption
      DEF AcceptTop, AcceptUnchanged
    <2>2. RegistryInv'
      BY <1>0, <1>1, ConstantsAssumption
      DEF AcceptTop, AcceptUnchanged
    <2>3. SessionInv'
      BY <1>0, <1>1, ConstantsAssumption
      DEF AcceptTop, AcceptUnchanged
    <2>4. AcceptInv'
      BY <1>0, <1>1, ConstantsAssumption
      DEF AcceptTop, AcceptUnchanged
    <2>5. SweepInv'
      BY <1>0, <1>1, ConstantsAssumption
      DEF AcceptTop, AcceptUnchanged
    <2> QED
      BY <2>1, <2>2, <2>3, <2>4, <2>5 DEF LifecycleInv
  <1>2. ASSUME AcceptNone PROVE LifecycleInv'
    <2>1. LockInv'
      BY <1>0, <1>2, ConstantsAssumption
      DEF AcceptNone, AcceptUnchanged
    <2>2. RegistryInv'
      BY <1>0, <1>2, ConstantsAssumption
      DEF AcceptNone, AcceptUnchanged
    <2>3. SessionInv'
      BY <1>0, <1>2, ConstantsAssumption
      DEF AcceptNone, AcceptUnchanged
    <2>4. AcceptInv'
      BY <1>0, <1>2, ConstantsAssumption
      DEF AcceptNone, AcceptUnchanged
    <2>5. SweepInv'
      BY <1>0, <1>2, ConstantsAssumption
      DEF AcceptNone, AcceptUnchanged
    <2> QED
      BY <2>1, <2>2, <2>3, <2>4, <2>5 DEF LifecycleInv
  <1>3. ASSUME NEW s \in Session, NEW k \in Socket, AcceptNew(s, k) PROVE LifecycleInv'
    <2>1. LockInv'
      BY <1>0, <1>3, ConstantsAssumption
      DEF AcceptNew, AcceptUnchanged, NextModle, Backlog, FreeSocket
    <2>2. RegistryInv'
      BY <1>0, <1>3, ConstantsAssumption
      DEF AcceptNew, AcceptUnchanged, NextModle, Backlog, FreeSocket
    <2>3. SessionInv'
      BY <1>0, <1>3, ConstantsAssumption
      DEF AcceptNew, AcceptUnchanged, NextModle, Backlog, FreeSocket
    <2>4. AcceptInv'
      BY <1>0, <1>3, ConstantsAssumption
      DEF AcceptNew, AcceptUnchanged, NextModle, Backlog, FreeSocket
    <2>5. SweepInv'
      BY <1>0, <1>3, ConstantsAssumption
      DEF AcceptNew, AcceptUnchanged, NextModle, Backlog, FreeSocket
    <2> QED
      BY <2>1, <2>2, <2>3, <2>4, <2>5 DEF LifecycleInv
  <1>4. ASSUME AcceptInsert PROVE LifecycleInv'
    <2>1. LockInv'
      BY <1>0, <1>4, ConstantsAssumption
      DEF AcceptInsert, AcceptUnchanged
    <2>2. RegistryInv'
      BY <1>0, <1>4, ConstantsAssumption
      DEF AcceptInsert, AcceptUnchanged
    <2>3. SessionInv'
      BY <1>0, <1>4, ConstantsAssumption
      DEF AcceptInsert, AcceptUnchanged
    <2>4. AcceptInv'
      BY <1>0, <1>4, ConstantsAssumption
      DEF AcceptInsert, AcceptUnchanged
    <2>5. SweepInv'
      BY <1>0, <1>4, ConstantsAssumption
      DEF AcceptInsert, AcceptUnchanged
    <2> QED
      BY <2>1, <2>2, <2>3, <2>4, <2>5 DEF LifecycleInv
  <1>5. ASSUME AcceptAddEvent PROVE LifecycleInv'
    <2>1. LockInv'
      BY <1>0, <1>5, ConstantsAssumption
      DEF AcceptAddEvent, AcceptUnchanged
    <2>2. RegistryInv'
      BY <1>0, <1>5, ConstantsAssumption
      DEF AcceptAddEvent, AcceptUnchanged
    <2>3. SessionInv'
      BY <1>0, <1>5, ConstantsAssumption
      DEF AcceptAddEvent, AcceptUnchanged
    <2>4. AcceptInv'
      BY <1>0, <1>5, ConstantsAssumption
      DEF AcceptAddEvent, AcceptUnchanged
    <2>5. SweepInv'
      BY <1>0, <1>5, ConstantsAssumption
      DEF AcceptAddEvent, AcceptUnchanged
    <2> QED
      BY <2>1, <2>2, <2>3, <2>4, <2>5 DEF LifecycleInv
  <1>6. ASSUME AcceptAddEventFails PROVE LifecycleInv'
    <2>1. LockInv'
      BY <1>0, <1>6, ConstantsAssumption
      DEF AcceptAddEventFails, AcceptUnchanged
    <2>2. RegistryInv'
      BY <1>0, <1>6, ConstantsAssumption
      DEF AcceptAddEventFails, AcceptUnchanged
    <2>3. SessionInv'
      BY <1>0, <1>6, ConstantsAssumption
      DEF AcceptAddEventFails, AcceptUnchanged
    <2>4. AcceptInv'
      BY <1>0, <1>6, ConstantsAssumption
      DEF AcceptAddEventFails, AcceptUnchanged
    <2>5. SweepInv'
      BY <1>0, <1>6, ConstantsAssumption
      DEF AcceptAddEventFails, AcceptUnchanged
    <2> QED
      BY <2>1, <2>2, <2>3, <2>4, <2>5 DEF LifecycleInv
  <1>7. ASSUME AcceptIORecv PROVE LifecycleInv'
    <2>1. LockInv'
      BY <1>0, <1>7, ConstantsAssumption
      DEF AcceptIORecv, AcceptUnchanged, ModEvent
    <2>2. RegistryInv'
      BY <1>0, <1>7, ConstantsAssumption
      DEF AcceptIORecv, AcceptUnchanged, ModEvent
    <2>3. SessionInv'
      BY <1>0, <1>7, ConstantsAssumption
      DEF AcceptIORecv, AcceptUnchanged, ModEvent
    <2>4. AcceptInv'
      BY <1>0, <1>7, ConstantsAssumption
      DEF AcceptIORecv, AcceptUnchanged, ModEvent
    <2>5. SweepInv'
      BY <1>0, <1>7, ConstantsAssumption
      DEF AcceptIORecv, AcceptUnchanged, ModEvent
    <2> QED
      BY <2>1, <2>2, <2>3, <2>4, <2>5 DEF LifecycleInv
  <1>8. ASSUME AcceptUndoEvent PROVE LifecycleInv'
    <2>1. LockInv'
      BY <1>0, <1>8, ConstantsAssumption
      DEF AcceptUndoEvent, AcceptUnchanged
    <2>2. RegistryInv'
      BY <1>0, <1>8, ConstantsAssumption
      DEF AcceptUndoEvent, AcceptUnchanged
    <2>3. SessionInv'
      BY <1>0, <1>8, ConstantsAssumption
      DEF AcceptUndoEvent, AcceptUnchanged
    <2>4. AcceptInv'
      BY <1>0, <1>8, ConstantsAssumption
      DEF AcceptUndoEvent, AcceptUnchanged
    <2>5. SweepInv'
      BY <1>0, <1>8, ConstantsAssumption
      DEF AcceptUndoEvent, AcceptUnchanged
    <2> QED
      BY <2>1, <2>2, <2>3, <2>4, <2>5 DEF LifecycleInv
  <1>9. ASSUME AcceptUndoInsert PROVE LifecycleInv'
    <2>1. LockInv'
      BY <1>0, <1>9, ConstantsAssumption
      DEF AcceptUndoInsert, AcceptUnchanged
    <2>2. RegistryInv'
      BY <1>0, <1>9, ConstantsAssumption
      DEF AcceptUndoInsert, AcceptUnchanged
    <2>3. SessionInv'
      BY <1>0, <1>9, ConstantsAssumption
      DEF AcceptUndoInsert, AcceptUnchanged
    <2>4. AcceptInv'
      BY <1>0, <1>9, ConstantsAssumption
      DEF AcceptUndoInsert, AcceptUnchanged
    <2>5. SweepInv'
      BY <1>0, <1>9, ConstantsAssumption
      DEF AcceptUndoInsert, AcceptUnchanged
    <2> QED
      BY <2>1, <2>2, <2>3, <2>4, <2>5 DEF LifecycleInv
  <1>10. ASSUME AcceptUndoSession PROVE LifecycleInv'
    <2>1. LockInv'
      BY <1>0, <1>10, ConstantsAssumption
      DEF AcceptUndoSession, AcceptUnchanged, FiniAndDelete, Close
    <2>2. RegistryInv'
      BY <1>0, <1>10, ConstantsAssumption
      DEF AcceptUndoSession, AcceptUnchanged, FiniAndDelete, Close
    <2>3. SessionInv'
      BY <1>0, <1>10, ConstantsAssumption
      DEF AcceptUndoSession, AcceptUnchanged, FiniAndDelete, Close
    <2>4. AcceptInv'
      BY <1>0, <1>10, ConstantsAssumption
      DEF AcceptUndoSession, AcceptUnchanged, FiniAndDelete, Close
    <2>5. SweepInv'
      BY <1>0, <1>10, ConstantsAssumption
      DEF AcceptUndoSession, AcceptUnchanged, FiniAndDelete, Close
    <2> QED
      BY <2>1, <2>2, <2>3, <2>4, <2>5 DEF LifecycleInv
  <1>11. ASSUME NEW w \in Worker, WorkerTop(w) PROVE LifecycleInv'
    BY <1>11, LifecycleQuiet
    DEF WorkerTop, WorkerUnchanged, GoTo, objectVars, netVars, mgrVars,
        acceptVars, hbVars, historyVars
  <1>12. ASSUME NEW w \in Worker, WorkerTimeout(w) PROVE LifecycleInv'
    BY <1>12, LifecycleQuiet
    DEF WorkerTimeout, WorkerUnchanged, GoTo, objectVars, netVars,
        mgrVars, acceptVars, hbVars, historyVars
  <1>13. ASSUME NEW w \in Worker, WorkerFetch(w) PROVE LifecycleInv'
    BY <1>13, LifecycleQuiet
    DEF WorkerFetch, WorkerUnchanged, GoTo, Disarm, WorkerReady,
        objectVars, netVars, mgrVars, acceptVars, hbVars, historyVars
  <1>14. ASSUME NEW w \in Worker, WorkerDispatch(w) PROVE LifecycleInv'
    BY <1>14, LifecycleQuiet
    DEF WorkerDispatch, WorkerUnchanged, GoTo, objectVars, netVars,
        mgrVars, acceptVars, hbVars, historyVars
  <1>15. ASSUME NEW w \in Worker, WorkerRead(w) PROVE LifecycleInv'
    BY <1>15, LifecycleQuiet
    DEF WorkerRead, WorkerUnchanged, GoTo, objectVars, netVars,
        mgrVars, acceptVars, hbVars, historyVars
  <1>16. ASSUME NEW w \in Worker, WorkerHandle(w) PROVE LifecycleInv'
    BY <1>16, LifecycleQuiet
    DEF WorkerHandle, WorkerUnchanged, GoTo, objectVars, netVars,
        mgrVars, acceptVars, hbVars, historyVars
  <1>17. ASSUME NEW w \in Worker, WorkerRearm(w) PROVE LifecycleInv'
    BY <1>17, LifecycleQuiet
    DEF WorkerRearm, WorkerUnchanged, GoTo, ModEvent, objectVars,
        netVars, mgrVars, acceptVars, hbVars, historyVars
  <1>18. ASSUME NEW w \in Worker, WorkerFail(w) PROVE LifecycleInv'
    BY <1>18, LifecycleQuiet
    DEF WorkerFail, WorkerUnchanged, GoTo, objectVars, netVars,
        mgrVars, acceptVars, hbVars, historyVars
  <1>19. ASSUME HbTop PROVE LifecycleInv'
    <2>1. LockInv'
      BY <1>0, <1>19, ConstantsAssumption
      DEF HbTop, HbUnchanged
    <2>2. RegistryInv'
      BY <1>0, <1>19, ConstantsAssumption
      DEF HbTop, HbUnchanged
    <2>3. SessionInv'
      BY <1>0, <1>19, ConstantsAssumption
      DEF HbTop, HbUnchanged
    <2>4. AcceptInv'
      BY <1>0, <1>19, ConstantsAssumption
      DEF HbTop, HbUnchanged
    <2>5. SweepInv'
      BY <1>0, <1>19, ConstantsAssumption
      DEF HbTop, HbUnchanged
    <2> QED
      BY <2>1, <2>2, <2>3, <2>4, <2>5 DEF LifecycleInv
  <1>20. ASSUME HbBegin PROVE LifecycleInv'
    <2>1. LockInv'
      BY <1>0, <1>20, ConstantsAssumption
      DEF HbBegin, HbUnchanged, Registered
    <2>2. RegistryInv'
      BY <1>0, <1>20, ConstantsAssumption
      DEF HbBegin, HbUnchanged, Registered
    <2>3. SessionInv'
      BY <1>0, <1>20, ConstantsAssumption
      DEF HbBegin, HbUnchanged, Registered
    <2>4. AcceptInv'
      BY <1>0, <1>20, ConstantsAssumption
      DEF HbBegin, HbUnchanged, Registered
    <2>5. SweepInv'
      BY <1>0, <1>20, ConstantsAssumption
      DEF HbBegin, HbUnchanged, Registered
    <2> QED
      BY <2>1, <2>2, <2>3, <2>4, <2>5 DEF LifecycleInv
  <1>21. ASSUME NEW s \in Session, HbSkip(s) PROVE LifecycleInv'
    <2>1. LockInv'
      BY <1>0, <1>21, ConstantsAssumption
      DEF HbSkip, HbUnchanged
    <2>2. RegistryInv'
      BY <1>0, <1>21, ConstantsAssumption
      DEF HbSkip, HbUnchanged
    <2>3. SessionInv'
      BY <1>0, <1>21, ConstantsAssumption
      DEF HbSkip, HbUnchanged
    <2>4. AcceptInv'
      BY <1>0, <1>21, ConstantsAssumption
      DEF HbSkip, HbUnchanged
    <2>5. SweepInv'
      BY <1>0, <1>21, ConstantsAssumption
      DEF HbSkip, HbUnchanged
    <2> QED
      BY <2>1, <2>2, <2>3, <2>4, <2>5 DEF LifecycleInv
  <1>22. ASSUME NEW s \in Session, HbErase(s) PROVE LifecycleInv'
    <2>1. LockInv'
      BY <1>0, <1>22, ConstantsAssumption
      DEF HbErase, HbUnchanged, Erase
    <2>2. RegistryInv'
      BY <1>0, <1>22, ConstantsAssumption
      DEF HbErase, HbUnchanged, Erase
    <2>3. SessionInv'
      BY <1>0, <1>22, ConstantsAssumption
      DEF HbErase, HbUnchanged, Erase
    <2>4. AcceptInv'
      BY <1>0, <1>22, ConstantsAssumption
      DEF HbErase, HbUnchanged, Erase
    <2>5. SweepInv'
      BY <1>0, <1>22, ConstantsAssumption
      DEF HbErase, HbUnchanged, Erase
    <2> QED
      BY <2>1, <2>2, <2>3, <2>4, <2>5 DEF LifecycleInv
  <1>23. ASSUME HbDelEvent PROVE LifecycleInv'
    <2>1. LockInv'
      BY <1>0, <1>23, ConstantsAssumption
      DEF HbDelEvent, HbUnchanged
    <2>2. RegistryInv'
      BY <1>0, <1>23, ConstantsAssumption
      DEF HbDelEvent, HbUnchanged
    <2>3. SessionInv'
      BY <1>0, <1>23, ConstantsAssumption
      DEF HbDelEvent, HbUnchanged
    <2>4. AcceptInv'
      BY <1>0, <1>23, ConstantsAssumption
      DEF HbDelEvent, HbUnchanged
    <2>5. SweepInv'
      BY <1>0, <1>23, ConstantsAssumption
      DEF HbDelEvent, HbUnchanged
    <2> QED
      BY <2>1, <2>2, <2>3, <2>4, <2>5 DEF LifecycleInv
  <1>24. ASSUME HbNoModle PROVE LifecycleInv'
    BY <1>24, LifecycleQuiet
    DEF HbNoModle, HbUnchanged, objectVars, netVars, mgrVars,
        acceptVars, hbVars, historyVars
  <1>25. ASSUME HbNotify PROVE LifecycleInv'
    <2>1. LockInv'
      BY <1>0, <1>25, ConstantsAssumption
      DEF HbNotify, HbUnchanged
    <2>2. RegistryInv'
      BY <1>0, <1>25, ConstantsAssumption
      DEF HbNotify, HbUnchanged
    <2>3. SessionInv'
      BY <1>0, <1>25, ConstantsAssumption
      DEF HbNotify, HbUnchanged
    <2>4. AcceptInv'
      BY <1>0, <1>25, ConstantsAssumption
      DEF HbNotify, HbUnchanged
    <2>5. SweepInv'
      BY <1>0, <1>25, ConstantsAssumption
      DEF HbNotify, HbUnchanged
    <2> QED
      BY <2>1, <2>2, <2>3, <2>4, <2>5 DEF LifecycleInv
  <1>26. ASSUME HbClose PROVE LifecycleInv'
    <2>1. LockInv'
      BY <1>0, <1>26, ConstantsAssumption
      DEF HbClose, HbUnchanged, Close
    <2>2. RegistryInv'
      BY <1>0, <1>26, ConstantsAssumption
      DEF HbClose, HbUnchanged, Close
    <2>3. SessionInv'
      BY <1>0, <1>26, ConstantsAssumption
      DEF HbClose, HbUnchanged, Close
    <2>4. AcceptInv'
      BY <1>0, <1>26, ConstantsAssumption
      DEF HbClose, HbUnchanged, Close
    <2>5. SweepInv'
      BY <1>0, <1>26, ConstantsAssumption
      DEF HbClose, HbUnchanged, Close
    <2> QED
      BY <2>1, <2>2, <2>3, <2>4, <2>5 DEF LifecycleInv
  <1>27. ASSUME HbClear PROVE LifecycleInv'
    <2>1. LockInv'
      BY <1>0, <1>27, ConstantsAssumption
      DEF HbClear, HbUnchanged
    <2>2. RegistryInv'
      BY <1>0, <1>27, ConstantsAssumption
      DEF HbClear, HbUnchanged
    <2>3. SessionInv'
      BY <1>0, <1>27, ConstantsAssumption
      DEF HbClear, HbUnchanged
    <2>4. AcceptInv'
      BY <1>0, <1>27, ConstantsAssumption
      DEF HbClear, HbUnchanged
    <2>5. SweepInv'
      BY <1>0, <1>27, ConstantsAssumption
      DEF HbClear, HbUnchanged
    <2> QED
      BY <2>1, <2>2, <2>3, <2>4, <2>5 DEF LifecycleInv
  <1>28. ASSUME HbDelete PROVE LifecycleInv'
    <2>1. LockInv'
      BY <1>0, <1>28, ConstantsAssumption
      DEF HbDelete, HbUnchanged
    <2>2. RegistryInv'
      BY <1>0, <1>28, ConstantsAssumption
      DEF HbDelete, HbUnchanged
    <2>3. SessionInv'
      BY <1>0, <1>28, ConstantsAssumption
      DEF HbDelete, HbUnchanged
    <2>4. AcceptInv'
      BY <1>0, <1>28, ConstantsAssumption
      DEF HbDelete, HbUnchanged
    <2>5. SweepInv'
      BY <1>0, <1>28, ConstantsAssumption
      DEF HbDelete, HbUnchanged
    <2> QED
      BY <2>1, <2>2, <2>3, <2>4, <2>5 DEF LifecycleInv
  <1>29. ASSUME HbEnd PROVE LifecycleInv'
    <2>1. LockInv'
      BY <1>0, <1>29, ConstantsAssumption
      DEF HbEnd, HbUnchanged
    <2>2. RegistryInv'
      BY <1>0, <1>29, ConstantsAssumption
      DEF HbEnd, HbUnchanged
    <2>3. SessionInv'
      BY <1>0, <1>29, ConstantsAssumption
      DEF HbEnd, HbUnchanged
    <2>4. AcceptInv'
      BY <1>0, <1>29, ConstantsAssumption
      DEF HbEnd, HbUnchanged
    <2>5. SweepInv'
      BY <1>0, <1>29, ConstantsAssumption
      DEF HbEnd, HbUnchanged
    <2> QED
      BY <2>1, <2>2, <2>3, <2>4, <2>5 DEF LifecycleInv
  <1>30. ASSUME NEW s \in Session, PeerConnect(s) PROVE LifecycleInv'
    BY <1>30, LifecycleQuiet
    DEF PeerConnect, PeerUnchanged, objectVars, netVars, mgrVars,
        acceptVars, hbVars, historyVars
  <1>31. ASSUME NEW s \in Session, PeerSend(s) PROVE LifecycleInv'
    BY <1>31, LifecycleQuiet
    DEF PeerSend, PeerUnchanged, objectVars, netVars, mgrVars,
        acceptVars, hbVars, historyVars
  <1>32. ASSUME NEW s \in Session, PeerLeave(s) PROVE LifecycleInv'
    BY <1>32, LifecycleQuiet
    DEF PeerLeave, PeerUnchanged, objectVars, netVars, mgrVars,
        acceptVars, hbVars, historyVars
  <1>33. ASSUME NEW s \in Session, Expire(s) PROVE LifecycleInv'
    BY <1>33, LifecycleQuiet
    DEF Expire, PeerUnchanged, objectVars, netVars, mgrVars,
        acceptVars, hbVars, historyVars
  <1>34. ASSUME NEW k \in Socket, AppFindSession(k) PROVE LifecycleInv'
    BY <1>34, LifecycleQuiet
    DEF AppFindSession, AppUnchanged, objectVars, netVars, mgrVars,
        acceptVars, hbVars, historyVars
  <1>35. ASSUME AppIOSend PROVE LifecycleInv'
    BY <1>35, LifecycleQuiet
    DEF AppIOSend, AppUnchanged, objectVars, netVars, mgrVars,
        acceptVars, hbVars, historyVars
  <1>36. ASSUME DestroyStart PROVE LifecycleInv'
    <2>1. LockInv'
      BY <1>0, <1>36, ConstantsAssumption
      DEF DestroyStart, DestroyUnchanged
    <2>2. RegistryInv'
      BY <1>0, <1>36, ConstantsAssumption
      DEF DestroyStart, DestroyUnchanged
    <2>3. SessionInv'
      BY <1>0, <1>36, ConstantsAssumption
      DEF DestroyStart, DestroyUnchanged
    <2>4. AcceptInv'
      BY <1>0, <1>36, ConstantsAssumption
      DEF DestroyStart, DestroyUnchanged
    <2>5. SweepInv'
      BY <1>0, <1>36, ConstantsAssumption
      DEF DestroyStart, DestroyUnchanged
    <2> QED
      BY <2>1, <2>2, <2>3, <2>4, <2>5 DEF LifecycleInv
  <1>37. ASSUME DestroyJoinAccept PROVE LifecycleInv'
    <2>1. LockInv'
      BY <1>0, <1>37, ConstantsAssumption
      DEF DestroyJoinAccept, DestroyUnchanged
    <2>2. RegistryInv'
      BY <1>0, <1>37, ConstantsAssumption
      DEF DestroyJoinAccept, DestroyUnchanged
    <2>3. SessionInv'
      BY <1>0, <1>37, ConstantsAssumption
      DEF DestroyJoinAccept, DestroyUnchanged
    <2>4. AcceptInv'
      BY <1>0, <1>37, ConstantsAssumption
      DEF DestroyJoinAccept, DestroyUnchanged
    <2>5. SweepInv'
      BY <1>0, <1>37, ConstantsAssumption
      DEF DestroyJoinAccept, DestroyUnchanged
    <2> QED
      BY <2>1, <2>2, <2>3, <2>4, <2>5 DEF LifecycleInv
  <1>38. ASSUME NEW w \in Worker, DestroyStopWorker(w) PROVE LifecycleInv'
    BY <1>38, LifecycleQuiet
    DEF DestroyStopWorker, DestroyUnchanged, objectVars, netVars,
        mgrVars, acceptVars, hbVars, historyVars
  <1>39. ASSUME DestroyModles PROVE LifecycleInv'
    <2>1. LockInv'
      BY <1>0, <1>39, ConstantsAssumption
      DEF DestroyModles, DestroyUnchanged
    <2>2. RegistryInv'
      BY <1>0, <1>39, ConstantsAssumption
      DEF DestroyModles, DestroyUnchanged
    <2>3. SessionInv'
      BY <1>0, <1>39, ConstantsAssumption
      DEF DestroyModles, DestroyUnchanged
    <2>4. AcceptInv'
      BY <1>0, <1>39, ConstantsAssumption
      DEF DestroyModles, DestroyUnchanged
    <2>5. SweepInv'
      BY <1>0, <1>39, ConstantsAssumption
      DEF DestroyModles, DestroyUnchanged
    <2> QED
      BY <2>1, <2>2, <2>3, <2>4, <2>5 DEF LifecycleInv
  <1>40. ASSUME DestroyStopHeartbeat PROVE LifecycleInv'
    <2>1. LockInv'
      BY <1>0, <1>40, ConstantsAssumption
      DEF DestroyStopHeartbeat, DestroyUnchanged
    <2>2. RegistryInv'
      BY <1>0, <1>40, ConstantsAssumption
      DEF DestroyStopHeartbeat, DestroyUnchanged
    <2>3. SessionInv'
      BY <1>0, <1>40, ConstantsAssumption
      DEF DestroyStopHeartbeat, DestroyUnchanged
    <2>4. AcceptInv'
      BY <1>0, <1>40, ConstantsAssumption
      DEF DestroyStopHeartbeat, DestroyUnchanged
    <2>5. SweepInv'
      BY <1>0, <1>40, ConstantsAssumption
      DEF DestroyStopHeartbeat, DestroyUnchanged
    <2> QED
      BY <2>1, <2>2, <2>3, <2>4, <2>5 DEF LifecycleInv
  <1>41. ASSUME DestroyJoinHeartbeat PROVE LifecycleInv'
    <2>1. LockInv'
      BY <1>0, <1>41, ConstantsAssumption
      DEF DestroyJoinHeartbeat, DestroyUnchanged
    <2>2. RegistryInv'
      BY <1>0, <1>41, ConstantsAssumption
      DEF DestroyJoinHeartbeat, DestroyUnchanged
    <2>3. SessionInv'
      BY <1>0, <1>41, ConstantsAssumption
      DEF DestroyJoinHeartbeat, DestroyUnchanged
    <2>4. AcceptInv'
      BY <1>0, <1>41, ConstantsAssumption
      DEF DestroyJoinHeartbeat, DestroyUnchanged
    <2>5. SweepInv'
      BY <1>0, <1>41, ConstantsAssumption
      DEF DestroyJoinHeartbeat, DestroyUnchanged
    <2> QED
      BY <2>1, <2>2, <2>3, <2>4, <2>5 DEF LifecycleInv
  <1>42. ASSUME NEW k \in Socket, DestroySession(k) PROVE LifecycleInv'
    <2>1. LockInv'
      BY <1>0, <1>42, ConstantsAssumption
      DEF DestroySession, DestroyUnchanged, FiniAndDelete, Close
    <2>2. RegistryInv'
      BY <1>0, <1>42, ConstantsAssumption
      DEF DestroySession, DestroyUnchanged, FiniAndDelete, Close
    <2>3. SessionInv'
      BY <1>0, <1>42, ConstantsAssumption
      DEF DestroySession, DestroyUnchanged, FiniAndDelete, Close
    <2>4. AcceptInv'
      BY <1>0, <1>42, ConstantsAssumption
      DEF DestroySession, DestroyUnchanged, FiniAndDelete, Close
    <2>5. SweepInv'
      BY <1>0, <1>42, ConstantsAssumption
      DEF DestroySession, DestroyUnchanged, FiniAndDelete, Close
    <2> QED
      BY <2>1, <2>2, <2>3, <2>4, <2>5 DEF LifecycleInv
  <1>43. ASSUME DestroyDone PROVE LifecycleInv'
    <2>1. LockInv'
      BY <1>0, <1>43, ConstantsAssumption
      DEF DestroyDone, DestroyUnchanged
    <2>2. RegistryInv'
      BY <1>0, <1>43, ConstantsAssumption
      DEF DestroyDone, DestroyUnchanged
    <2>3. SessionInv'
      BY <1>0, <1>43, ConstantsAssumption
      DEF DestroyDone, DestroyUnchanged
    <2>4. AcceptInv'
      BY <1>0, <1>43, ConstantsAssumption
      DEF DestroyDone, DestroyUnchanged
    <2>5. SweepInv'
      BY <1>0, <1>43, ConstantsAssumption
      DEF DestroyDone, DestroyUnchanged
    <2> QED
      BY <2>1, <2>2, <2>3, <2>4, <2>5 DEF LifecycleInv
  <1>44. ASSUME UseAfterFree PROVE LifecycleInv'
    BY <1>44, LifecycleQuiet
    DEF UseAfterFree, objectVars, netVars, mgrVars, acceptVars, hbVars,
        historyVars
  <1>45. CASE UNCHANGED vars
    BY <1>45, LifecycleQuiet DEF vars
  <1> QED
    BY <1>1, <1>2, <1>3, <1>4, <1>5, <1>6, <1>7, <1>8, <1>9, <1>10, <1>11, <1>12, <1>13, <1>14, <1>15, <1>16, <1>17, <1>18, <1>19, <1>20, <1>21, <1>22, <1>23, <1>24, <1>25, <1>26, <1>27, <1>28, <1>29, <1>30, <1>31, <1>32, <1>33, <1>34, <1>35, <1>36, <1>37, <1>38, <1>39, <1>40, <1>41, <1>42, <1>43, <1>44, <1>45
    DEF Next, Running, Destroying, Undefined, Destroyed, Environment, AcceptThread,
        WorkerThread, HbThread, DestroyThread

\* What every thread relies on about sessions, the map and the lock holds for
\* any number of sessions, descriptors, modules and threads.
THEOREM Lifecycle == Spec => []LifecycleInv
  <1>1. Init => LifecycleInv
    BY ConstantsAssumption
    DEF Init, LifecycleInv, LockInv, RegistryInv, SessionInv, AcceptInv, SweepInv,
        Sweeping, TearingDown, Accepting
  <1> QED
    BY <1>1, LifecycleStep, TypeCorrect, PTL DEF Spec

\* A connected session owns its open descriptor (AcceptSession_Accept takes it
\* from accept, TcpSession_Fini notifies DISCONNECT before it closes it).
THEOREM Ownership == Spec => []ConnectedOwnsSocket
  <1>1. LifecycleInv => ConnectedOwnsSocket
    BY DEF LifecycleInv, SessionInv, ConnectedOwnsSocket, Connected
  <1> QED
    BY <1>1, Lifecycle, PTL

\* The session id, a descriptor, names at most one connected session.
THEOREM IdsUnique == Spec => []IdUnique
  <1>1. LifecycleInv => IdUnique
    BY DEF LifecycleInv, SessionInv, IdUnique, Connected, OwnsSocket
  <1> QED
    BY <1>1, Lifecycle, PTL

\* FindSession never returns a deleted object or another connection's.
THEOREM RegistryIsConsistent == Spec => []RegistryConsistent
  <1>1. LifecycleInv => RegistryConsistent
    BY DEF LifecycleInv, RegistryInv, RegistryConsistent
  <1> QED
    BY <1>1, Lifecycle, PTL

\* Every connected session is in the map or with the thread setting it up or
\* tearing it down, and is told CONNECT once and DISCONNECT at most once.
THEOREM NoSessionLeaks == Spec => [](NoneLeaked /\ NotifyOnce)
  <1>1. TypeOK /\ LifecycleInv => NoneLeaked /\ NotifyOnce
    BY ConstantsAssumption
    DEF LifecycleInv, SessionInv, NoneLeaked, NotifyOnce, Connected, Registered
  <1> QED
    BY <1>1, Lifecycle, TypeCorrect, PTL

\* Of each connection the application is told at most once that it is there, and
\* once that it has ended.
THEOREM NotifiedOnce == Spec => []NotifyOnce
  BY NoSessionLeaks, PTL

-----------------------------------------------------------------------------
(* Workers and the sessions they hold. *)

\* A step that leaves the workers, the accept thread and the registrations alone
\* keeps what is known of who handles a session.
LEMMA HandlerQuiet ==
  ASSUME HandlerInv,
         UNCHANGED <<watch, mem, doubled, apc, asess, wpc, wtodo, wsess>>
  PROVE  HandlerInv'
  BY DEF HandlerInv, ExclusiveInv, UnseenInv, SetupInv, WorkerInv, OneHandler, Holds

\* Every step keeps what is known of who handles a session.
LEMMA HandlerStep ==
  TypeOK /\ TypeOK' /\ HandlerInv /\ [Next]_vars => HandlerInv'
  <1> SUFFICES ASSUME TypeOK, TypeOK', HandlerInv, [Next]_vars
               PROVE  HandlerInv'
    OBVIOUS
  <1>0. /\ mem \in [Session -> {"none", "live", "deleted"}]
        /\ watch \in [Session -> {"off", "armed", "disarmed"}]
        /\ doubled \in [Session -> BOOLEAN]
        /\ wpc \in [Worker -> WorkerPC]
        /\ wtodo \in [Worker -> SUBSET Session]
        /\ wsess \in [Worker -> Session \cup {NoSession}]
        /\ asess \in Session \cup {NoSession}
        /\ apc \in Accepting => asess \in Session
        /\ hpc \in TearingDown => hsess \in Session
        /\ \A w \in Worker : wpc[w] \in Handling => wsess[w] \in Session
        /\ m_TcpSessions \in [Socket -> Session \cup {NoSession}]
    BY DEF TypeOK, NetTypeOK, ObjectTypeOK, HistoryTypeOK, HbTypeOK, MgrTypeOK,
           AcceptTypeOK, WorkerTypeOK
  <1> USE DEF HandlerInv, ExclusiveInv, UnseenInv, SetupInv, WorkerInv, OneHandler,
        Holds, TearingDown, Accepting, Handling,
        objectVars, netVars, mgrVars, acceptVars, hbVars, historyVars, workerVars
  <1>1. ASSUME AcceptTop PROVE HandlerInv'
    <2>1. ExclusiveInv'
      BY <1>0, <1>1, ConstantsAssumption
      DEF AcceptTop, AcceptUnchanged
    <2>2. UnseenInv'
      BY <1>0, <1>1, ConstantsAssumption
      DEF AcceptTop, AcceptUnchanged
    <2>3. SetupInv'
      BY <1>0, <1>1, ConstantsAssumption
      DEF AcceptTop, AcceptUnchanged
    <2>4. WorkerInv'
      BY <1>0, <1>1, ConstantsAssumption
      DEF AcceptTop, AcceptUnchanged
    <2> QED
      BY <2>1, <2>2, <2>3, <2>4 DEF HandlerInv
  <1>2. ASSUME AcceptNone PROVE HandlerInv'
    <2>1. ExclusiveInv'
      BY <1>0, <1>2, ConstantsAssumption
      DEF AcceptNone, AcceptUnchanged
    <2>2. UnseenInv'
      BY <1>0, <1>2, ConstantsAssumption
      DEF AcceptNone, AcceptUnchanged
    <2>3. SetupInv'
      BY <1>0, <1>2, ConstantsAssumption
      DEF AcceptNone, AcceptUnchanged
    <2>4. WorkerInv'
      BY <1>0, <1>2, ConstantsAssumption
      DEF AcceptNone, AcceptUnchanged
    <2> QED
      BY <2>1, <2>2, <2>3, <2>4 DEF HandlerInv
  <1>3. ASSUME NEW s \in Session, NEW k \in Socket, AcceptNew(s, k) PROVE HandlerInv'
    <2>1. ExclusiveInv'
      BY <1>0, <1>3, ConstantsAssumption
      DEF AcceptNew, AcceptUnchanged, NextModle, Backlog, FreeSocket
    <2>2. UnseenInv'
      BY <1>0, <1>3, ConstantsAssumption
      DEF AcceptNew, AcceptUnchanged, NextModle, Backlog, FreeSocket
    <2>3. SetupInv'
      BY <1>0, <1>3, ConstantsAssumption
      DEF AcceptNew, AcceptUnchanged, NextModle, Backlog, FreeSocket
    <2>4. WorkerInv'
      BY <1>0, <1>3, ConstantsAssumption
      DEF AcceptNew, AcceptUnchanged, NextModle, Backlog, FreeSocket
    <2> QED
      BY <2>1, <2>2, <2>3, <2>4 DEF HandlerInv
  <1>4. ASSUME AcceptInsert PROVE HandlerInv'
    <2>1. ExclusiveInv'
      BY <1>0, <1>4, ConstantsAssumption
      DEF AcceptInsert, AcceptUnchanged
    <2>2. UnseenInv'
      BY <1>0, <1>4, ConstantsAssumption
      DEF AcceptInsert, AcceptUnchanged
    <2>3. SetupInv'
      BY <1>0, <1>4, ConstantsAssumption
      DEF AcceptInsert, AcceptUnchanged
    <2>4. WorkerInv'
      BY <1>0, <1>4, ConstantsAssumption
      DEF AcceptInsert, AcceptUnchanged
    <2> QED
      BY <2>1, <2>2, <2>3, <2>4 DEF HandlerInv
  <1>5. ASSUME AcceptAddEvent PROVE HandlerInv'
    <2>1. ExclusiveInv'
      BY <1>0, <1>5, ConstantsAssumption
      DEF AcceptAddEvent, AcceptUnchanged
    <2>2. UnseenInv'
      BY <1>0, <1>5, ConstantsAssumption
      DEF AcceptAddEvent, AcceptUnchanged
    <2>3. SetupInv'
      BY <1>0, <1>5, ConstantsAssumption
      DEF AcceptAddEvent, AcceptUnchanged
    <2>4. WorkerInv'
      BY <1>0, <1>5, ConstantsAssumption
      DEF AcceptAddEvent, AcceptUnchanged
    <2> QED
      BY <2>1, <2>2, <2>3, <2>4 DEF HandlerInv
  <1>6. ASSUME AcceptAddEventFails PROVE HandlerInv'
    <2>1. ExclusiveInv'
      BY <1>0, <1>6, ConstantsAssumption
      DEF AcceptAddEventFails, AcceptUnchanged
    <2>2. UnseenInv'
      BY <1>0, <1>6, ConstantsAssumption
      DEF AcceptAddEventFails, AcceptUnchanged
    <2>3. SetupInv'
      BY <1>0, <1>6, ConstantsAssumption
      DEF AcceptAddEventFails, AcceptUnchanged
    <2>4. WorkerInv'
      BY <1>0, <1>6, ConstantsAssumption
      DEF AcceptAddEventFails, AcceptUnchanged
    <2> QED
      BY <2>1, <2>2, <2>3, <2>4 DEF HandlerInv
  <1>7. ASSUME AcceptIORecv PROVE HandlerInv'
    <2>1. ExclusiveInv'
      BY <1>0, <1>7, ConstantsAssumption
      DEF AcceptIORecv, AcceptUnchanged, ModEvent
    <2>2. UnseenInv'
      BY <1>0, <1>7, ConstantsAssumption
      DEF AcceptIORecv, AcceptUnchanged, ModEvent
    <2>3. SetupInv'
      BY <1>0, <1>7, ConstantsAssumption
      DEF AcceptIORecv, AcceptUnchanged, ModEvent
    <2>4. WorkerInv'
      BY <1>0, <1>7, ConstantsAssumption
      DEF AcceptIORecv, AcceptUnchanged, ModEvent
    <2> QED
      BY <2>1, <2>2, <2>3, <2>4 DEF HandlerInv
  <1>8. ASSUME AcceptUndoEvent PROVE HandlerInv'
    <2>1. ExclusiveInv'
      BY <1>0, <1>8, ConstantsAssumption
      DEF AcceptUndoEvent, AcceptUnchanged
    <2>2. UnseenInv'
      BY <1>0, <1>8, ConstantsAssumption
      DEF AcceptUndoEvent, AcceptUnchanged
    <2>3. SetupInv'
      BY <1>0, <1>8, ConstantsAssumption
      DEF AcceptUndoEvent, AcceptUnchanged
    <2>4. WorkerInv'
      BY <1>0, <1>8, ConstantsAssumption
      DEF AcceptUndoEvent, AcceptUnchanged
    <2> QED
      BY <2>1, <2>2, <2>3, <2>4 DEF HandlerInv
  <1>9. ASSUME AcceptUndoInsert PROVE HandlerInv'
    <2>1. ExclusiveInv'
      BY <1>0, <1>9, ConstantsAssumption
      DEF AcceptUndoInsert, AcceptUnchanged
    <2>2. UnseenInv'
      BY <1>0, <1>9, ConstantsAssumption
      DEF AcceptUndoInsert, AcceptUnchanged
    <2>3. SetupInv'
      BY <1>0, <1>9, ConstantsAssumption
      DEF AcceptUndoInsert, AcceptUnchanged
    <2>4. WorkerInv'
      BY <1>0, <1>9, ConstantsAssumption
      DEF AcceptUndoInsert, AcceptUnchanged
    <2> QED
      BY <2>1, <2>2, <2>3, <2>4 DEF HandlerInv
  <1>10. ASSUME AcceptUndoSession PROVE HandlerInv'
    <2>1. ExclusiveInv'
      BY <1>0, <1>10, ConstantsAssumption
      DEF AcceptUndoSession, AcceptUnchanged, FiniAndDelete, Close
    <2>2. UnseenInv'
      BY <1>0, <1>10, ConstantsAssumption
      DEF AcceptUndoSession, AcceptUnchanged, FiniAndDelete, Close
    <2>3. SetupInv'
      BY <1>0, <1>10, ConstantsAssumption
      DEF AcceptUndoSession, AcceptUnchanged, FiniAndDelete, Close
    <2>4. WorkerInv'
      BY <1>0, <1>10, ConstantsAssumption
      DEF AcceptUndoSession, AcceptUnchanged, FiniAndDelete, Close
    <2> QED
      BY <2>1, <2>2, <2>3, <2>4 DEF HandlerInv
  <1>11. ASSUME NEW w \in Worker, WorkerTop(w) PROVE HandlerInv'
    <2>1. ExclusiveInv'
      BY <1>0, <1>11, ConstantsAssumption
      DEF WorkerTop, WorkerUnchanged, GoTo
    <2>2. UnseenInv'
      BY <1>0, <1>11, ConstantsAssumption
      DEF WorkerTop, WorkerUnchanged, GoTo
    <2>3. SetupInv'
      BY <1>0, <1>11, ConstantsAssumption
      DEF WorkerTop, WorkerUnchanged, GoTo
    <2>4. WorkerInv'
      BY <1>0, <1>11, ConstantsAssumption
      DEF WorkerTop, WorkerUnchanged, GoTo
    <2> QED
      BY <2>1, <2>2, <2>3, <2>4 DEF HandlerInv
  <1>12. ASSUME NEW w \in Worker, WorkerTimeout(w) PROVE HandlerInv'
    <2>1. ExclusiveInv'
      BY <1>0, <1>12, ConstantsAssumption
      DEF WorkerTimeout, WorkerUnchanged, GoTo
    <2>2. UnseenInv'
      BY <1>0, <1>12, ConstantsAssumption
      DEF WorkerTimeout, WorkerUnchanged, GoTo
    <2>3. SetupInv'
      BY <1>0, <1>12, ConstantsAssumption
      DEF WorkerTimeout, WorkerUnchanged, GoTo
    <2>4. WorkerInv'
      BY <1>0, <1>12, ConstantsAssumption
      DEF WorkerTimeout, WorkerUnchanged, GoTo
    <2> QED
      BY <2>1, <2>2, <2>3, <2>4 DEF HandlerInv
  <1>13. ASSUME NEW w \in Worker, WorkerFetch(w) PROVE HandlerInv'
    <2>1. PICK E \in SUBSET WorkerReady(w) :
            /\ watch' = [s \in Session |-> IF s \in E THEN "disarmed" ELSE watch[s]]
            /\ wtodo' = [wtodo EXCEPT ![w] = {s \in E : peer[s] # "reset"}]
      BY <1>13 DEF WorkerFetch, Disarm
    <2>2. /\ wpc[w] = "wait"
          /\ wpc' = [wpc EXCEPT ![w] = "dispatch"]
          /\ UNCHANGED <<wsess, mem, doubled, apc, asess>>
      BY <1>13 DEF WorkerFetch, WorkerUnchanged, GoTo
    \* Only armed sessions are fetched, and nobody holds an armed session.
    <2>3. \A s \in E : s \in Session /\ watch[s] = "armed"
      BY <2>1 DEF WorkerReady, Ready
    <2>4. wsess[w] = NoSession /\ wtodo[w] = {}
      BY <2>2, <1>0
    <2>5. \A s \in E : ~doubled[s] => \A v \in Worker : ~Holds(v, s)
      BY <2>3, <1>0
    <2>6. /\ \A s \in Session : wtodo'[w] \subseteq E /\ watch'[s] = IF s \in E THEN "disarmed" ELSE watch[s]
          /\ \A v \in Worker : v # w => wtodo'[v] = wtodo[v]
      BY <2>1, <1>0
    <2>7. \A v \in Worker, s \in Session :
            Holds(v, s)' => Holds(v, s) \/ (v = w /\ s \in E)
      BY <2>2, <2>6
    <2>8. ExclusiveInv'
      BY <2>2, <2>3, <2>4, <2>5, <2>6, <2>7, <1>0, ConstantsAssumption
    <2>9. UnseenInv'
      BY <2>2, <2>3, <2>6, <2>7, <1>0
    <2>10. SetupInv'
      BY <2>2, <2>3, <2>6, <2>7, <1>0, ConstantsAssumption
    <2>11. WorkerInv'
      BY <2>1, <2>2, <2>4, <2>6, <1>0, ConstantsAssumption
    <2> QED
      BY <2>8, <2>9, <2>10, <2>11
  <1>14. ASSUME NEW w \in Worker, WorkerDispatch(w) PROVE HandlerInv'
    <2>1. ExclusiveInv'
      BY <1>0, <1>14, ConstantsAssumption
      DEF WorkerDispatch, WorkerUnchanged, GoTo
    <2>2. UnseenInv'
      BY <1>0, <1>14, ConstantsAssumption
      DEF WorkerDispatch, WorkerUnchanged, GoTo
    <2>3. SetupInv'
      BY <1>0, <1>14, ConstantsAssumption
      DEF WorkerDispatch, WorkerUnchanged, GoTo
    <2>4. WorkerInv'
      BY <1>0, <1>14, ConstantsAssumption
      DEF WorkerDispatch, WorkerUnchanged, GoTo
    <2> QED
      BY <2>1, <2>2, <2>3, <2>4 DEF HandlerInv
  <1>15. ASSUME NEW w \in Worker, WorkerRead(w) PROVE HandlerInv'
    <2>1. ExclusiveInv'
      BY <1>0, <1>15, ConstantsAssumption
      DEF WorkerRead, WorkerUnchanged, GoTo
    <2>2. UnseenInv'
      BY <1>0, <1>15, ConstantsAssumption
      DEF WorkerRead, WorkerUnchanged, GoTo
    <2>3. SetupInv'
      BY <1>0, <1>15, ConstantsAssumption
      DEF WorkerRead, WorkerUnchanged, GoTo
    <2>4. WorkerInv'
      BY <1>0, <1>15, ConstantsAssumption
      DEF WorkerRead, WorkerUnchanged, GoTo
    <2> QED
      BY <2>1, <2>2, <2>3, <2>4 DEF HandlerInv
  <1>16. ASSUME NEW w \in Worker, WorkerHandle(w) PROVE HandlerInv'
    <2>1. ExclusiveInv'
      BY <1>0, <1>16, ConstantsAssumption
      DEF WorkerHandle, WorkerUnchanged, GoTo
    <2>2. UnseenInv'
      BY <1>0, <1>16, ConstantsAssumption
      DEF WorkerHandle, WorkerUnchanged, GoTo
    <2>3. SetupInv'
      BY <1>0, <1>16, ConstantsAssumption
      DEF WorkerHandle, WorkerUnchanged, GoTo
    <2>4. WorkerInv'
      BY <1>0, <1>16, ConstantsAssumption
      DEF WorkerHandle, WorkerUnchanged, GoTo
    <2> QED
      BY <2>1, <2>2, <2>3, <2>4 DEF HandlerInv
  <1>17. ASSUME NEW w \in Worker, WorkerRearm(w) PROVE HandlerInv'
    <2>1. ExclusiveInv'
      BY <1>0, <1>17, ConstantsAssumption
      DEF WorkerRearm, WorkerUnchanged, GoTo, ModEvent
    <2>2. UnseenInv'
      BY <1>0, <1>17, ConstantsAssumption
      DEF WorkerRearm, WorkerUnchanged, GoTo, ModEvent
    <2>3. SetupInv'
      BY <1>0, <1>17, ConstantsAssumption
      DEF WorkerRearm, WorkerUnchanged, GoTo, ModEvent
    <2>4. WorkerInv'
      BY <1>0, <1>17, ConstantsAssumption
      DEF WorkerRearm, WorkerUnchanged, GoTo, ModEvent
    <2> QED
      BY <2>1, <2>2, <2>3, <2>4 DEF HandlerInv
  <1>18. ASSUME NEW w \in Worker, WorkerFail(w) PROVE HandlerInv'
    <2>1. ExclusiveInv'
      BY <1>0, <1>18, ConstantsAssumption
      DEF WorkerFail, WorkerUnchanged, GoTo
    <2>2. UnseenInv'
      BY <1>0, <1>18, ConstantsAssumption
      DEF WorkerFail, WorkerUnchanged, GoTo
    <2>3. SetupInv'
      BY <1>0, <1>18, ConstantsAssumption
      DEF WorkerFail, WorkerUnchanged, GoTo
    <2>4. WorkerInv'
      BY <1>0, <1>18, ConstantsAssumption
      DEF WorkerFail, WorkerUnchanged, GoTo
    <2> QED
      BY <2>1, <2>2, <2>3, <2>4 DEF HandlerInv
  <1>19. ASSUME HbTop PROVE HandlerInv'
    BY <1>19, HandlerQuiet
    DEF HbTop, HbUnchanged, objectVars, netVars, mgrVars, acceptVars,
        hbVars, historyVars, workerVars
  <1>20. ASSUME HbBegin PROVE HandlerInv'
    BY <1>20, HandlerQuiet
    DEF HbBegin, HbUnchanged, Registered, objectVars, netVars, mgrVars,
        acceptVars, hbVars, historyVars, workerVars
  <1>21. ASSUME NEW s \in Session, HbSkip(s) PROVE HandlerInv'
    BY <1>21, HandlerQuiet
    DEF HbSkip, HbUnchanged, objectVars, netVars, mgrVars, acceptVars,
        hbVars, historyVars, workerVars
  <1>22. ASSUME NEW s \in Session, HbErase(s) PROVE HandlerInv'
    BY <1>22, HandlerQuiet
    DEF HbErase, HbUnchanged, Erase, objectVars, netVars, mgrVars,
        acceptVars, hbVars, historyVars, workerVars
  <1>23. ASSUME HbDelEvent PROVE HandlerInv'
    <2>1. ExclusiveInv'
      BY <1>0, <1>23, ConstantsAssumption
      DEF HbDelEvent, HbUnchanged
    <2>2. UnseenInv'
      BY <1>0, <1>23, ConstantsAssumption
      DEF HbDelEvent, HbUnchanged
    <2>3. SetupInv'
      BY <1>0, <1>23, ConstantsAssumption
      DEF HbDelEvent, HbUnchanged
    <2>4. WorkerInv'
      BY <1>0, <1>23, ConstantsAssumption
      DEF HbDelEvent, HbUnchanged
    <2> QED
      BY <2>1, <2>2, <2>3, <2>4 DEF HandlerInv
  <1>24. ASSUME HbNoModle PROVE HandlerInv'
    BY <1>24, HandlerQuiet
    DEF HbNoModle, HbUnchanged, objectVars, netVars, mgrVars,
        acceptVars, hbVars, historyVars, workerVars
  <1>25. ASSUME HbNotify PROVE HandlerInv'
    BY <1>25, HandlerQuiet
    DEF HbNotify, HbUnchanged, objectVars, netVars, mgrVars,
        acceptVars, hbVars, historyVars, workerVars
  <1>26. ASSUME HbClose PROVE HandlerInv'
    <2>1. ExclusiveInv'
      BY <1>0, <1>26, ConstantsAssumption
      DEF HbClose, HbUnchanged, Close
    <2>2. UnseenInv'
      BY <1>0, <1>26, ConstantsAssumption
      DEF HbClose, HbUnchanged, Close
    <2>3. SetupInv'
      BY <1>0, <1>26, ConstantsAssumption
      DEF HbClose, HbUnchanged, Close
    <2>4. WorkerInv'
      BY <1>0, <1>26, ConstantsAssumption
      DEF HbClose, HbUnchanged, Close
    <2> QED
      BY <2>1, <2>2, <2>3, <2>4 DEF HandlerInv
  <1>27. ASSUME HbClear PROVE HandlerInv'
    BY <1>27, HandlerQuiet
    DEF HbClear, HbUnchanged, objectVars, netVars, mgrVars, acceptVars,
        hbVars, historyVars, workerVars
  <1>28. ASSUME HbDelete PROVE HandlerInv'
    <2>1. ExclusiveInv'
      BY <1>0, <1>28, ConstantsAssumption
      DEF HbDelete, HbUnchanged
    <2>2. UnseenInv'
      BY <1>0, <1>28, ConstantsAssumption
      DEF HbDelete, HbUnchanged
    <2>3. SetupInv'
      BY <1>0, <1>28, ConstantsAssumption
      DEF HbDelete, HbUnchanged
    <2>4. WorkerInv'
      BY <1>0, <1>28, ConstantsAssumption
      DEF HbDelete, HbUnchanged
    <2> QED
      BY <2>1, <2>2, <2>3, <2>4 DEF HandlerInv
  <1>29. ASSUME HbEnd PROVE HandlerInv'
    BY <1>29, HandlerQuiet
    DEF HbEnd, HbUnchanged, objectVars, netVars, mgrVars, acceptVars,
        hbVars, historyVars, workerVars
  <1>30. ASSUME NEW s \in Session, PeerConnect(s) PROVE HandlerInv'
    BY <1>30, HandlerQuiet
    DEF PeerConnect, PeerUnchanged, objectVars, netVars, mgrVars,
        acceptVars, hbVars, historyVars, workerVars
  <1>31. ASSUME NEW s \in Session, PeerSend(s) PROVE HandlerInv'
    BY <1>31, HandlerQuiet
    DEF PeerSend, PeerUnchanged, objectVars, netVars, mgrVars,
        acceptVars, hbVars, historyVars, workerVars
  <1>32. ASSUME NEW s \in Session, PeerLeave(s) PROVE HandlerInv'
    BY <1>32, HandlerQuiet
    DEF PeerLeave, PeerUnchanged, objectVars, netVars, mgrVars,
        acceptVars, hbVars, historyVars, workerVars
  <1>33. ASSUME NEW s \in Session, Expire(s) PROVE HandlerInv'
    BY <1>33, HandlerQuiet
    DEF Expire, PeerUnchanged, objectVars, netVars, mgrVars,
        acceptVars, hbVars, historyVars, workerVars
  <1>34. ASSUME NEW k \in Socket, AppFindSession(k) PROVE HandlerInv'
    BY <1>34, HandlerQuiet
    DEF AppFindSession, AppUnchanged, objectVars, netVars, mgrVars,
        acceptVars, hbVars, historyVars, workerVars
  <1>35. ASSUME AppIOSend PROVE HandlerInv'
    BY <1>35, HandlerQuiet
    DEF AppIOSend, AppUnchanged, objectVars, netVars, mgrVars,
        acceptVars, hbVars, historyVars, workerVars
  <1>36. ASSUME DestroyStart PROVE HandlerInv'
    BY <1>36, HandlerQuiet
    DEF DestroyStart, DestroyUnchanged, objectVars, netVars, mgrVars,
        acceptVars, hbVars, historyVars, workerVars
  <1>37. ASSUME DestroyJoinAccept PROVE HandlerInv'
    BY <1>37, HandlerQuiet
    DEF DestroyJoinAccept, DestroyUnchanged, objectVars, netVars,
        mgrVars, acceptVars, hbVars, historyVars, workerVars
  <1>38. ASSUME NEW w \in Worker, DestroyStopWorker(w) PROVE HandlerInv'
    BY <1>38, HandlerQuiet
    DEF DestroyStopWorker, DestroyUnchanged, objectVars, netVars,
        mgrVars, acceptVars, hbVars, historyVars, workerVars
  <1>39. ASSUME DestroyModles PROVE HandlerInv'
    BY <1>39, HandlerQuiet
    DEF DestroyModles, DestroyUnchanged, objectVars, netVars, mgrVars,
        acceptVars, hbVars, historyVars, workerVars
  <1>40. ASSUME DestroyStopHeartbeat PROVE HandlerInv'
    BY <1>40, HandlerQuiet
    DEF DestroyStopHeartbeat, DestroyUnchanged, objectVars, netVars,
        mgrVars, acceptVars, hbVars, historyVars, workerVars
  <1>41. ASSUME DestroyJoinHeartbeat PROVE HandlerInv'
    BY <1>41, HandlerQuiet
    DEF DestroyJoinHeartbeat, DestroyUnchanged, objectVars, netVars,
        mgrVars, acceptVars, hbVars, historyVars, workerVars
  <1>42. ASSUME NEW k \in Socket, DestroySession(k) PROVE HandlerInv'
    <2>1. ExclusiveInv'
      BY <1>0, <1>42, ConstantsAssumption
      DEF DestroySession, DestroyUnchanged, FiniAndDelete, Close
    <2>2. UnseenInv'
      BY <1>0, <1>42, ConstantsAssumption
      DEF DestroySession, DestroyUnchanged, FiniAndDelete, Close
    <2>3. SetupInv'
      BY <1>0, <1>42, ConstantsAssumption
      DEF DestroySession, DestroyUnchanged, FiniAndDelete, Close
    <2>4. WorkerInv'
      BY <1>0, <1>42, ConstantsAssumption
      DEF DestroySession, DestroyUnchanged, FiniAndDelete, Close
    <2> QED
      BY <2>1, <2>2, <2>3, <2>4 DEF HandlerInv
  <1>43. ASSUME DestroyDone PROVE HandlerInv'
    BY <1>43, HandlerQuiet
    DEF DestroyDone, DestroyUnchanged, objectVars, netVars, mgrVars,
        acceptVars, hbVars, historyVars, workerVars
  <1>44. ASSUME UseAfterFree PROVE HandlerInv'
    BY <1>44, HandlerQuiet
    DEF UseAfterFree, objectVars, netVars, mgrVars, acceptVars, hbVars,
        historyVars, workerVars
  <1>45. CASE UNCHANGED vars
    BY <1>45, HandlerQuiet DEF vars
  <1> QED
    BY <1>1, <1>2, <1>3, <1>4, <1>5, <1>6, <1>7, <1>8, <1>9, <1>10, <1>11, <1>12, <1>13, <1>14, <1>15, <1>16, <1>17, <1>18, <1>19, <1>20, <1>21, <1>22, <1>23, <1>24, <1>25, <1>26, <1>27, <1>28, <1>29, <1>30, <1>31, <1>32, <1>33, <1>34, <1>35, <1>36, <1>37, <1>38, <1>39, <1>40, <1>41, <1>42, <1>43, <1>44, <1>45
    DEF Next, Running, Destroying, Undefined, Destroyed, Environment, AcceptThread,
        WorkerThread, HbThread, DestroyThread

\* What the workers hold, and what is registered, agree at every step.
THEOREM HandlersAgree == Spec => []HandlerInv
  <1>1. Init => HandlerInv
    BY ConstantsAssumption
    DEF Init, HandlerInv, ExclusiveInv, UnseenInv, SetupInv, WorkerInv, OneHandler,
        Holds, Accepting, Handling
  <1> QED
    BY <1>1, HandlerStep, TypeCorrect, PTL DEF Spec

\* EPOLLONESHOT keeps a session to one worker at a time, unless the accept
\* thread's re-arm (TcpSession_IORecv(1)) found a worker at it.
THEOREM OneHandlerEach == Spec => []OneHandler
  <1>1. HandlerInv => OneHandler
    BY DEF HandlerInv, ExclusiveInv
  <1> QED
    BY <1>1, HandlersAgree, PTL

\* A step that arms no registration and gives no worker a session.
LEMMA TwoQuiet ==
  ASSUME AtMostTwoHandlers,
         \A s \in Session : watch'[s] = "armed" => watch[s] = "armed",
         UNCHANGED <<wsess, wtodo>>
  PROVE  AtMostTwoHandlers'
  BY DEF AtMostTwoHandlers, Holds

\* Every step leaves at most two workers at a session.
LEMMA TwoStep ==
  TypeOK /\ TypeOK' /\ HandlerInv /\ AtMostTwoHandlers /\ [Next]_vars => AtMostTwoHandlers'
  <1> SUFFICES ASSUME TypeOK, TypeOK', HandlerInv, AtMostTwoHandlers, [Next]_vars
               PROVE  AtMostTwoHandlers'
    OBVIOUS
  <1>0. /\ watch \in [Session -> {"off", "armed", "disarmed"}]
        /\ wtodo \in [Worker -> SUBSET Session]
        /\ wsess \in [Worker -> Session \cup {NoSession}]
        /\ asess \in Session \cup {NoSession}
        /\ apc \in Accepting => asess \in Session
        /\ \A w \in Worker : wpc[w] \in Handling => wsess[w] \in Session
    BY DEF TypeOK, NetTypeOK, AcceptTypeOK, WorkerTypeOK
  <1>a. \A w \in Worker : wpc[w] \in {"wait", "dispatch"} => wsess[w] = NoSession
    BY DEF HandlerInv, WorkerInv, Handling
  <1>b. \A w \in Worker : wpc[w] = "wait" => wtodo[w] = {}
    BY DEF HandlerInv, WorkerInv, Handling
  <1> USE DEF objectVars, netVars, mgrVars, acceptVars, hbVars, historyVars, workerVars
  \* The accept thread arms a session that no worker, or one, holds.
  <1>1. CASE AcceptThread
    <2>1. CASE AcceptTop \/ AcceptNone \/ \E s \in Session, k \in Socket : AcceptNew(s, k)
      BY <2>1, TwoQuiet DEF AcceptTop, AcceptNone, AcceptNew, AcceptUnchanged
    <2>2. CASE AcceptInsert \/ AcceptAddEventFails \/ AcceptUndoInsert
      BY <2>2, TwoQuiet DEF AcceptInsert, AcceptAddEventFails, AcceptUndoInsert, AcceptUnchanged
    <2>3. CASE AcceptUndoEvent
      BY <1>0, <2>3, TwoQuiet DEF AcceptUndoEvent, AcceptUnchanged
    <2>4. CASE AcceptUndoSession
      BY <1>0, <2>4, TwoQuiet
      DEF AcceptUndoSession, AcceptUnchanged, FiniAndDelete, Close
    <2>5. CASE AcceptAddEvent
      <3>1. \A w \in Worker : ~Holds(w, asess)
        BY <2>5 DEF AcceptAddEvent, HandlerInv, SetupInv
      <3>2. /\ watch' = [watch EXCEPT ![asess] = "armed"]
            /\ UNCHANGED <<wsess, wtodo>>
        BY <2>5 DEF AcceptAddEvent, AcceptUnchanged
      <3> QED
        BY <1>0, <3>1, <3>2 DEF AtMostTwoHandlers, Holds
    <2>6. CASE AcceptIORecv
      <3>1. asess \in Session /\ ~doubled[asess]
        BY <1>0, <2>6, ConstantsAssumption DEF AcceptIORecv, Accepting, HandlerInv, SetupInv
      <3>2. \A v, w \in Worker : Holds(v, asess) /\ Holds(w, asess) => v = w
        BY <3>1 DEF HandlerInv, ExclusiveInv, OneHandler
      <3>3. /\ \A s \in Session : s # asess => watch'[s] = watch[s]
            /\ UNCHANGED <<wsess, wtodo>>
        BY <1>0, <2>6 DEF AcceptIORecv, AcceptUnchanged, ModEvent
      <3> QED
        BY <1>0, <3>1, <3>2, <3>3 DEF AtMostTwoHandlers, Holds
    <2> QED
      BY <1>1, <2>1, <2>2, <2>3, <2>4, <2>5, <2>6 DEF AcceptThread
  <1>2. ASSUME NEW w \in Worker, WorkerThread(w) PROVE AtMostTwoHandlers'
    <2>1. CASE WorkerTop(w) \/ WorkerTimeout(w) \/ WorkerRead(w) \/ WorkerHandle(w)
      BY <2>1, TwoQuiet DEF WorkerTop, WorkerTimeout, WorkerRead, WorkerHandle
    \* What is fetched was armed, so at most one worker has it, and not this one.
    <2>2. CASE WorkerFetch(w)
      <3>1. PICK E \in SUBSET WorkerReady(w) :
              /\ watch' = [s \in Session |-> IF s \in E THEN "disarmed" ELSE watch[s]]
              /\ wtodo' = [wtodo EXCEPT ![w] = {s \in E : peer[s] # "reset"}]
        BY <2>2 DEF WorkerFetch, Disarm
      <3>2. wpc[w] = "wait" /\ wsess' = wsess
        BY <2>2 DEF WorkerFetch
      <3>3. \A s \in E : s \in Session /\ watch[s] = "armed"
        BY <3>1 DEF WorkerReady, Ready
      <3>4. wsess[w] = NoSession /\ wtodo[w] = {}
        BY <1>a, <1>b, <3>2
      <3>5. /\ wtodo'[w] \subseteq E
            /\ \A s \in Session : watch'[s] = "armed" => watch[s] = "armed" /\ s \notin E
            /\ \A v \in Worker : v # w => wtodo'[v] = wtodo[v]
        BY <1>0, <3>1
      <3>6. \A v \in Worker, s \in Session : Holds(v, s)' => Holds(v, s) \/ (v = w /\ s \in E)
        BY <3>2, <3>5 DEF Holds
      <3>7. ASSUME NEW s \in Session, NEW t \in Worker, NEW u \in Worker, NEW v \in Worker,
                   Holds(t, s)', Holds(u, s)', Holds(v, s)'
            PROVE  t = u \/ u = v \/ t = v
        BY <3>3, <3>6, <3>7 DEF AtMostTwoHandlers
      <3>8. ASSUME NEW s \in Session, watch'[s] = "armed", NEW u \in Worker, NEW v \in Worker,
                   Holds(u, s)', Holds(v, s)'
            PROVE  u = v
        BY <3>5, <3>6, <3>8 DEF AtMostTwoHandlers
      <3>9. ASSUME NEW s \in Session, NEW v \in Worker, wsess'[v] = s PROVE s \notin wtodo'[v]
        BY <3>2, <3>4, <3>5, <3>9, ConstantsAssumption DEF AtMostTwoHandlers
      <3> QED
        BY <3>7, <3>8, <3>9 DEF AtMostTwoHandlers
    <2>3. CASE WorkerDispatch(w)
      <3>1. CASE UNCHANGED <<wsess, wtodo>>
        BY <2>3, <3>1, TwoQuiet DEF WorkerDispatch
      <3>2. ASSUME NEW r \in wtodo[w], wtodo' = [wtodo EXCEPT ![w] = @ \ {r}],
                   wsess' = [wsess EXCEPT ![w] = r]
            PROVE  AtMostTwoHandlers'
        <4>1. \A v \in Worker, s \in Session : Holds(v, s)' => Holds(v, s)
          BY <1>0, <3>2 DEF Holds
        <4>2. watch' = watch
          BY <2>3 DEF WorkerDispatch
        <4>3. \A v \in Worker, s \in Session : wsess'[v] = s => s \notin wtodo'[v]
          BY <1>0, <3>2 DEF AtMostTwoHandlers
        <4> QED
          BY <4>1, <4>2, <4>3 DEF AtMostTwoHandlers
      <3> QED
        BY <2>3, <3>1, <3>2 DEF WorkerDispatch
    \* It gives up what it arms.
    <2>4. CASE WorkerRearm(w)
      <3>0. PICK r \in Session : r = wsess[w]
        BY <1>0, <2>4 DEF WorkerRearm, Handling
      <3>1. wtodo' = wtodo
        BY <2>4 DEF WorkerRearm
      <3>2. CASE UNCHANGED <<watch, wsess>>
        BY <3>1, <3>2, TwoQuiet
      <3>3. CASE /\ watch' = [watch EXCEPT ![r] = "armed"]
                 /\ wsess' = [wsess EXCEPT ![w] = NoSession]
        <4>1. \A v \in Worker, s \in Session : Holds(v, s)' => Holds(v, s)
          BY <1>0, <3>1, <3>3, ConstantsAssumption DEF Holds
        <4>2. Holds(w, r) /\ ~Holds(w, r)'
          <5>1. wsess'[w] = NoSession /\ NoSession \notin Session
            BY <1>0, <3>3, ConstantsAssumption
          <5>2. r \notin wtodo[w]
            BY <3>0 DEF AtMostTwoHandlers
          <5> QED
            BY <3>0, <3>1, <5>1, <5>2 DEF Holds
        <4>3. \A s \in Session : s # r => watch'[s] = watch[s]
          BY <1>0, <3>3
        <4>4. \A v \in Worker, s \in Session : wsess'[v] = s => s \notin wtodo'[v]
          BY <1>0, <3>1, <3>3, ConstantsAssumption DEF AtMostTwoHandlers
        <4>5. ASSUME NEW s \in Session, watch'[s] = "armed", NEW u \in Worker, NEW v \in Worker,
                     Holds(u, s)', Holds(v, s)'
              PROVE  u = v
          <5>1. Holds(u, s) /\ Holds(v, s)
            BY <4>1, <4>5
          <5>2. CASE s # r
            BY <4>3, <4>5, <5>1, <5>2 DEF AtMostTwoHandlers
          <5>3. CASE s = r
            <6>1. u # w /\ v # w
              BY <4>2, <4>5, <5>3
            <6>2. Holds(w, s)
              BY <4>2, <5>3
            <6> QED
              BY <5>1, <6>1, <6>2 DEF AtMostTwoHandlers
          <5> QED
            BY <5>2, <5>3
        <4> QED
          BY <4>1, <4>4, <4>5 DEF AtMostTwoHandlers
      <3> QED
        BY <2>4, <3>0, <3>2, <3>3 DEF WorkerRearm, ModEvent
    <2>5. CASE WorkerFail(w)
      <3>1. /\ watch' = watch /\ wtodo' = wtodo
            /\ wsess' = [wsess EXCEPT ![w] = NoSession]
        BY <2>5 DEF WorkerFail
      <3>2. /\ \A v \in Worker, s \in Session : Holds(v, s)' => Holds(v, s)
            /\ \A v \in Worker, s \in Session : wsess'[v] = s => s \notin wtodo'[v]
        BY <1>0, <3>1, ConstantsAssumption DEF Holds, AtMostTwoHandlers
      <3> QED
        BY <3>1, <3>2 DEF AtMostTwoHandlers
    <2> QED
      BY <1>2, <2>1, <2>2, <2>3, <2>4, <2>5 DEF WorkerThread
  <1>3. CASE HbThread
    <2>1. /\ \A s \in Session : watch'[s] = "armed" => watch[s] = "armed"
          /\ UNCHANGED <<wsess, wtodo>>
      BY <1>0, <1>3 DEF HbThread, HbTop, HbBegin, HbSkip, HbErase, HbDelEvent, HbNoModle, HbNotify,
        HbClose, HbClear, HbDelete, HbEnd, HbUnchanged, Close
    <2> QED
      BY <2>1, TwoQuiet
  <1>4. CASE Destroying
    <2>1. /\ \A s \in Session : watch'[s] = "armed" => watch[s] = "armed"
          /\ UNCHANGED <<wsess, wtodo>>
      BY <1>0, <1>4 DEF Destroying, DestroyStart, DestroyThread, DestroyJoinAccept, DestroyStopWorker,
        DestroyModles, DestroyStopHeartbeat, DestroyJoinHeartbeat, DestroySession, DestroyDone,
        DestroyUnchanged, FiniAndDelete, Close
    <2> QED
      BY <2>1, TwoQuiet
  <1>5. CASE \/ \E s \in Session : Environment(s)
             \/ \E k \in Socket : AppFindSession(k)
             \/ AppIOSend \/ UseAfterFree \/ UNCHANGED vars
    <2>1. UNCHANGED <<watch, wsess, wtodo>>
      BY <1>5
      DEF Environment, PeerConnect, PeerSend, PeerLeave, Expire, PeerUnchanged,
          AppFindSession, AppIOSend, AppUnchanged, UseAfterFree, vars
    <2> QED
      BY <2>1, TwoQuiet
  <1> QED
    BY <1>1, <1>2, <1>3, <1>4, <1>5 DEF Next, Running, Undefined, Destroyed

\* However many workers there are, and whatever the accept thread's second arming
\* meets, a session is in the hands of two of them at most (NetEventModleEpoll_
\* HandleData, EPOLLONESHOT).
THEOREM TwoHandlersAtMost == Spec => []AtMostTwoHandlers
  <1>1. Init => AtMostTwoHandlers
    BY ConstantsAssumption DEF Init, Holds, AtMostTwoHandlers
  <1> QED
    BY <1>1, HandlersAgree, TwoStep, TypeCorrect, PTL DEF Spec
=============================================================================
