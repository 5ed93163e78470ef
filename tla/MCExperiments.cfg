CONSTANTS
  Styles = {"exp", "exp_"}
  Number = 2
  MaxMade = 4
  MaxDeaths = 2
  MaxBatches = 2
SPECIFICATION Spec
INVARIANTS TypeOK ReportsOwnRun BatchComplete
PROPERTIES RecordedIdsAreFinal ResultsStand
CHECK_DEADLOCK FALSE
