SPECIFICATION Spec
CONSTANTS
  Session = {s1, s2}
  Socket = {k1, k2}
  NoSession = NoSession
  NoSocket = NoSocket
  ModleCount = 2
  ThreadCount = 1
  MaxChunk = 1
  bIsHaveHB = FALSE
  bIsHaveHead = FALSE
  AddMayFail = TRUE
SYMMETRY Symmetry
INVARIANTS EpollInv NoneLeaked EngineSafe DestroyedClean
PROPERTY ImplementsSessionEvents
