SPECIFICATION FairSpec
CONSTANTS
  Session = {s1}
  Socket = {k1}
  NoSession = NoSession
  NoSocket = NoSocket
  ModleCount = 1
  ThreadCount = 1
  MaxChunk = 1
  bIsHaveHB = TRUE
  bIsHaveHead = FALSE
  AddMayFail = FALSE
CHECK_DEADLOCK FALSE
PROPERTY DestroyReturns
