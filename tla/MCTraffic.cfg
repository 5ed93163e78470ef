CONSTANTS
  K = 4
  ExpTypes = {"normal", "cdf", "incast", "test", "burst"}
  SimTimes = {70, 80, 100}
  FlowSizes = {128000, 100000}
  cdf <- MCCdf
  Samples = {10, 30, 75, 78, 99}
  Gaps = {4, 30}
  MaxFlows = 2
SPECIFICATION Spec
INVARIANTS TypeOK PairHasAskedLocality SizesAreQuantiles
PROPERTIES SetUpEnds
CHECK_DEADLOCK FALSE
