SPECIFICATION MCSpec
CONSTANTS
  Outputs = {o1, o2}
  Depth = 2
  MaxKernels = 4
  KernelsFirst = TRUE
  Rates = {1, 3}
  MaxBatch = 2
  MaxTime = 10
  MaxSets = 2
  d_min_update_time = 1
  Unit = 12
  One = 2
  Limit = 24
  ProbeItems = 4
  ProbeTime = 4
  ProbeSets = 1
  MaxStarts = 2
INVARIANTS
  TypeOK
  PublishedIsMarked
  ReturnedIsMarked
  ProduceRestored
  BlocksTypeOK
  NeverTooFast
  ItemsReported
  AverageWithinRates
PROPERTIES
  SleepsBounded
CHECK_DEADLOCK FALSE
