SPECIFICATION Spec
CONSTANTS
  Rates = {1, 3}
  MaxBatch = 2
  MaxTime = 10
  MaxSets = 1
PROPERTIES
  NoDiscontinuity
CHECK_DEADLOCK FALSE
