---------------------------- MODULE MCCudaGraph ----------------------------
(* Flowgraphs for TLC.  c1, c2 are CPU blocks, g1.. are GPU blocks.        *)
EXTENDS CudaGraph, TLC

CONSTANTS c1, c2, g1, g2, g3, b1, b2

\* c1 -b1-> g1 -b2-> c2: host to device, kernel, device to host.
ChainCpu == {c1, c2}
ChainGpu == {g1}
ChainBuffers == {b1, b2}
ChainWriter == (b1 :> c1) @@ (b2 :> g1)
ChainReaders == (b1 :> {g1}) @@ (b2 :> {c2})

\* c1 -b1-> g1: an upload into a GPU sink.
UpCpu == {c1}
UpGpu == {g1}
UpBuffers == {b1}
UpWriter == b1 :> c1
UpReaders == b1 :> {g1}

\* g1 -b1-> g2, g3: one device-to-device buffer with two readers.
FanCpu == {}
FanGpu == {g1, g2, g3}
FanBuffers == {b1}
FanWriter == b1 :> g1
FanReaders == b1 :> {g2, g3}
=============================================================================
