CONSTANTS
  MaxDevices = 3
  MaxPackets = 1
  MaxRetries = 1
  MaxSent = 3
  Faulty = {0}
  MaxFaults = 2
SPECIFICATION Spec
CHECK_DEADLOCK FALSE
PROPERTIES SendFromStartsOrWaits
