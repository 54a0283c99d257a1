SPECIFICATION FairSpec
CONSTANTS
  Timeout = 1
  Size = 1
  MaxLen = 1
  MaxSock = 1
  MaxSent = 0
  MaxWire = 1
\* A client that was not made, or that is gone, does nothing.
CHECK_DEADLOCK FALSE
PROPERTIES DestroyClientReturns
