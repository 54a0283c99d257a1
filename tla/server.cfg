SPECIFICATION FairSpec
CONSTANTS
  MaxServer = 2
  MaxModle = 2
  MaxThread = 2
  MaxWorker = 2
\* A server may be gone, and the application may make no other.
CHECK_DEADLOCK FALSE
INVARIANTS ServerInv NoneOutlives FaultsKnown
PROPERTIES DestroyReturns
