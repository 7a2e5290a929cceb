SPECIFICATION FairSpec
CONSTANTS
  NumCores = 2
  NumMsgs = 2
  BodyLen = 2
  w1 = w1
  w2 = w2
  Words = {w1, w2}
  Calls <- MCCalls
  MaxCalls = 2
INVARIANTS TypeOK SlotLock NoTornReceive IpiAnnouncesStored
PROPERTIES AtomicRegisters CallsReturn IpiServed
