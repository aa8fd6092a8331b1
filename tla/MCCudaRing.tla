----------------------------- MODULE MCCudaRing -----------------------------
(* Instances of CudaRing for TLC: two readers, one of them with a history  *)
(* of 1 or of N - 2, the most a ring can bear.                             *)
EXTENDS CudaRing, TLC

CONSTANTS r1, r2

MCReaders == {r1, r2}
MCHists == {(r1 :> 0) @@ (r2 :> 1), (r1 :> 0) @@ (r2 :> 2)}
=============================================================================
