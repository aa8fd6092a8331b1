SPECIFICATION Spec
CONSTANTS
  c1 = c1
  c2 = c2
  g1 = g1
  g2 = g2
  g3 = g3
  b1 = b1
  b2 = b2
  Cpu <- UpCpu
  Gpu <- UpGpu
  Buffers <- UpBuffers
  Writer <- UpWriter
  Readers <- UpReaders
  N = 4
  MaxItems = 5
  ConsumeFirst = {g1}
  MayStop = FALSE
INVARIANTS
  DeviceReadsIntact
CHECK_DEADLOCK FALSE
