SPECIFICATION FairSpec
CONSTANTS
  Stop = Stop
  App = App
  Data = Data
  Halt = Halt
  None = None
  NBuf = 2
  MaxSend = 2
  MaxRuns = 2
INVARIANTS TypeOK NoLostMessage
PROPERTIES StopReaches
CHECK_DEADLOCK FALSE
