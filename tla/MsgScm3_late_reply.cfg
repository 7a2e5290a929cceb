SPECIFICATION Spec
CONSTANTS
  Procs = {p1, p2}
  Depth = 2
  MaxRetry = 2
  MaxCalls = 3
  RxTimeouts = TRUE
  Crcs = {TRUE}
INVARIANTS ReplyIsMine
CHECK_DEADLOCK FALSE
