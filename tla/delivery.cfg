SPECIFICATION FairSpec
CONSTANTS
  Session = {s1}
  Socket = {k1}
  NoSession = NoSession
  NoSocket = NoSocket
  ModleCount = 1
  ThreadCount = 2
  MaxChunk = 2
  bIsHaveHB = FALSE
  bIsHaveHead = FALSE
  AddMayFail = FALSE
INVARIANTS HandlerInv OneHandler AtMostTwoHandlers InOrder
PROPERTIES DataDelivered DestroyReturns
