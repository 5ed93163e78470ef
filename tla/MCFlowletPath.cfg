CONSTANTS
  Flows <- MCFlows
  Hash <- MCHash
  AggHash <- MCAggHash
  totalPaths = 2
  Uint16 = 65536
  FlowletGaps = {0, 4}
  EcmpModes = {0}
  MinDelay = 1
  MaxDelay = 3
  MaxTime = 7
  MaxSent = 3
SPECIFICATION PathSpec
INVARIANTS PathTypeOK NoReorderingOnPath
PROPERTIES FlowletKeepsPort NoReordering
CHECK_DEADLOCK FALSE
