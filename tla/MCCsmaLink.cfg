CONSTANTS
  MaxPackets = 2
  EcnThresh = 1
  LineLength = 2
  TosValues = {1, 2}
  MaxSent = 6
SPECIFICATION Spec
INVARIANTS TypeOK
PROPERTIES ImplementsLink
CHECK_DEADLOCK FALSE
