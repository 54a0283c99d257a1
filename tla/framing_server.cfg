SPECIFICATION FairSpec
CONSTANTS
  HeadLen = 2
  MaxRead = 6
  Room = 1
  Sender = {a}
  MaxBody = 2
  MaxSent = 1
\* A connection that has ended stays ended.
CHECK_DEADLOCK FALSE
INVARIANTS ServerTakesMessages
