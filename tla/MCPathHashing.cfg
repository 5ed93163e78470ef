CONSTANTS
  totalPaths = 4
  uplinkPorts = 2
  Flows <- MCFlows
  Hash <- MCHash
  ReHash <- MCReHash
  Garbage = {0, 3, 100}
  MaxPerWindow = 8
SPECIFICATION Spec
INVARIANTS TypeOK HotPathIsArgmax AssertionsHold CountersBoundLoad OffsetInBand MovesOnlyOffOverloaded
PROPERTIES FlowKeepsPathInWindow
