CONSTANTS
  Call = {c1, c2}
  Request <- RequestsZero
  DefaultPeriod = 1
  DefaultThreshold = 1
  Missing = Missing
SPECIFICATION Spec
INVARIANTS ThresholdCached
