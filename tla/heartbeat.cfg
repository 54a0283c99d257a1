SPECIFICATION Spec
CONSTANTS
  HEARTBEAT_TIMEOUT = 6
  SweepSleep = 2
  Interval = {1, 2, 4, 12}
  Delay = 1
  Lag = 1
  MaxConn = 2
  Cap = 24
INVARIANTS LinkInv HalfOpenBounded StarvedIsSwept
PROPERTIES LinkStays
