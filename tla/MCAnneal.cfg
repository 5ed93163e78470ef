CONSTANTS
  ParamNames <- MCNames
  start_value <- MCStart
  low_limit <- MCLow
  high_limit <- MCHigh
  step_size <- MCStep
  SeedLists <- MCSeedLists
  averageFCT <- MCFct
  MaxGain <- MCMaxGain
  StepsPerT = 2
  T_min = 3
  MaxStarts = 3
SPECIFICATION Spec
INVARIANTS TypeOK CostIsOfParams StepsMatchTemperature CheckpointIsRecent
PROPERTIES Terminates
CHECK_DEADLOCK FALSE
