SPECIFICATION FairSpec
CONSTANTS
  Procs = {p1, p2}
  Depth = 3
  MaxRetry = 2
  MaxCalls = 3
  RxTimeouts = TRUE
  Crcs = {TRUE, FALSE}
INVARIANTS TypeOK BufferOwned RingsFifo DataIsMine
PROPERTIES CallReturns
CHECK_DEADLOCK FALSE
