SPECIFICATION FairSpec
CONSTANTS
  c1 = c1
  c2 = c2
  g1 = g1
  g2 = g2
  g3 = g3
  b1 = b1
  b2 = b2
  Cpu <- ChainCpu
  Gpu <- ChainGpu
  Buffers <- ChainBuffers
  Writer <- ChainWriter
  Readers <- ChainReaders
  N = 3
  MaxItems = 4
  ConsumeFirst = {}
  MayStop = FALSE
INVARIANTS
  TypeOK
  DeviceReadsIntact
  CpuReadsIntact
PROPERTIES
  Delivered
CHECK_DEADLOCK FALSE
