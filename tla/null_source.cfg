SPECIFICATION MCSpec
CONSTANTS
  FftSizes = {}
  kBlockSize = 4
  MaxBatch = 2
  MaxCalls = 3
  Kinds = {"null_source"}
  VectorLengths = {1, 3}
  StreamCounts = {2, 3}
  NullOutputs = {2}
  BlockCalls = 2
INVARIANTS
  OutputRight
CHECK_DEADLOCK FALSE
