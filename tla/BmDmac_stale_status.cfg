SPECIFICATION Spec
CONSTANTS
  Callers = {t1, t2}
  NumChannels = 2
  MaxCalls = 3
  OneCore = TRUE
  None = None
INVARIANT ChannelIdle
CHECK_DEADLOCK FALSE
