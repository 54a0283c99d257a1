SPECIFICATION FairSpec
CONSTANTS
  HeadLen = 2
  MaxRead = 3
  Room = 3
  Sender = {a, b}
  MaxBody = 4
  MaxSent = 3
\* A connection that has ended stays ended.
CHECK_DEADLOCK FALSE
INVARIANTS FrameInv ParsedExactly ClientLosesNothing
PROPERTIES ImplementsMessageEvents OverrunIsFinal ClientDelivers
