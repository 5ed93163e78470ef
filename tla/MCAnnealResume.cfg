CONSTANTS
  ParamNames <- MCNames
  start_value <- MCStart
  low_limit <- MCLow
  high_limit <- MCHigh
  step_size <- MCStep
  SeedLists <- MCSeedLists
  averageFCT <- MCFct
  MaxGain <- MCMaxGain
  StepsPerT = 2
  T_min = 2
  MaxStarts = 3
SPECIFICATION Spec
INVARIANT CheckpointRestorable
CHECK_DEADLOCK FALSE
