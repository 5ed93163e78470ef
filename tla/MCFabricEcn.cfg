CONSTANTS
  K = 4
  totalPaths = 4
  uplinkPorts = 2
  Flows <- MCFlows
  Hash <- MCHash
  ReHash <- MCReHash
  Garbage = {1}
  Src <- MCSrc
  Dst <- MCDst
  DataFlows <- MCFlows
  EcnThresh = 1
  MaxPackets = 2
  LineLength = 1
  Devices = {"PathHashing"}
  SwitchHash <- MCSwitchHash
  MaxSend <- MCMaxSend
SPECIFICATION Spec
INVARIANT TosCarriesPort
CHECK_DEADLOCK FALSE
