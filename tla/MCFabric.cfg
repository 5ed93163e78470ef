CONSTANTS
  K = 4
  totalPaths = 4
  uplinkPorts = 2
  Flows <- MCFlows
  Hash <- MCHash
  ReHash <- MCReHash
  Garbage = {1}
  Src <- MCSrc
  Dst <- MCDst
  DataFlows <- MCFlows
  EcnThresh = 0
  MaxPackets = 1
  LineLength = 1
  Devices = {"PathHashing", "PathHashingAdv", "Ecmp", "EcmpFlowlet"}
  SwitchHash <- MCSwitchHash
  MaxSend <- MCMaxSend
SPECIFICATION Spec
INVARIANTS TypeOK NeverHalts PathIsFollowed ShortestRoute ReorderedOnlyByReroute
PROPERTIES EventuallyArrives
CHECK_DEADLOCK FALSE
