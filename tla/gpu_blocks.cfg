SPECIFICATION MCSpec
CONSTANTS
  FftSizes = {2, 3}
  kBlockSize = 4
  MaxBatch = 2
  MaxCalls = 3
  Kinds = {"copy", "load", "tee", "null_source", "stream_to_vector", "vector_to_stream", "add", "multiply_const", "streams_to_vector", "vector_to_streams", "add_cupy", "multiply_const_cupy", "nlog10_cupy", "complex_to_mag_cupy", "complex_to_mag_squared_cupy"}
  VectorLengths = {1, 3}
  StreamCounts = {2, 3}
  NullOutputs = {1}
  BlockCalls = 2
INVARIANTS
  OutputRight
  InBounds
CHECK_DEADLOCK FALSE
