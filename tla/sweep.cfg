SPECIFICATION FairSpec
CONSTANTS
  Session = {s1, s2}
  Socket = {k1}
  NoSession = NoSession
  NoSocket = NoSocket
  ModleCount = 1
  ThreadCount = 1
  MaxChunk = 0
  bIsHaveHB = TRUE
  bIsHaveHead = FALSE
  AddMayFail = TRUE
\* The heartbeat thread, a worker and DestroyServer may wait on each other.
CHECK_DEADLOCK FALSE
INVARIANTS IdUnique RegistryConsistent NotifyOnce ConnectedOwnsSocket LifecycleInv
PROPERTY DisconnectNotified
