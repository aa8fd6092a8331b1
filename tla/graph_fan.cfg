SPECIFICATION MCSpec
CONSTANTS
  c1 = c1
  c2 = c2
  g1 = g1
  g2 = g2
  g3 = g3
  b1 = b1
  b2 = b2
  Cpu <- FanCpu
  Gpu <- FanGpu
  Buffers <- FanBuffers
  Built = {b1, b2}
  Writer <- FanWriter
  Readers <- FanReaders
  N = 2
  MaxItems = 4
  ConsumeFirst = {}
  MayStop = TRUE
INVARIANTS
  DeviceReadsIntact
  ReadDoneMeansAllRead
  BacklogBounded
  NoUseAfterFree
  AllocTypeOK
  NoRingLeftBehind
  NothingDangles
PROPERTIES
  StreamSpec
CHECK_DEADLOCK FALSE
