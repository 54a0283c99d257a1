SPECIFICATION RunningSpec
CONSTANTS
  Session = {s1}
  Socket = {k1}
  NoSession = NoSession
  NoSocket = NoSocket
  ModleCount = 1
  ThreadCount = 1
  MaxChunk = 1
  bIsHaveHB = FALSE
  bIsHaveHead = FALSE
  AddMayFail = FALSE
PROPERTY CloseNotified
