SPECIFICATION FairSpec
CONSTANTS
  Nodes = {n1, n2}
  Skbs = {k1, k2, k3}
  Senders = {s1}
  None = None
  RingSize = 2
  Budget = 2
  MaxNoMem = 1
  Cpus = {c1}
  IrqCpus = {c1}
  MaxWork = 3
  MaxFault = 1
INVARIANTS TypeOK NodesConserved ChipDataAlive RingInOrder IrqEnabled
PROPERTIES TxProgress RxServed
CHECK_DEADLOCK FALSE
