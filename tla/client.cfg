SPECIFICATION FairSpec
CONSTANTS
  Timeout = 1
  Size = 2
  MaxLen = 1
  MaxSock = 2
  MaxSent = 1
  MaxWire = 4
\* A client that was not made, or that is gone, does nothing.
CHECK_DEADLOCK FALSE
INVARIANTS OneReceiver JoinsStarted GoneIsQuiet NoConnectionLeft BodiesOnly ClientInv
PROPERTIES ImplementsClientEvents LossNoticed ClosedConnectionEnds
