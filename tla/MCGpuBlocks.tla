---------------------------- MODULE MCGpuBlocks ----------------------------
(***************************************************************************)
(* One block in each behaviour: an FFT block or one of GpuBlocks.  The     *)
(* stream, the calls and the outputs are variables of both modules.        *)
(***************************************************************************)
EXTENDS FftBlock

CONSTANTS
  Kinds,          \* the blocks of GpuBlocks
  VectorLengths,
  StreamCounts,
  NullOutputs,
  BlockCalls      \* bound: work calls of such a block

VARIABLES kind, d_vlen, d_num_streams, n_is_1, k_is_0, d_k, ptrs_dev

block_vars == <<kind, d_vlen, d_num_streams, n_is_1, k_is_0, d_k, ptrs_dev>>
fft_vars == <<parameters, d_work_dev, d_plan_cache, tmp>>
mcvars == <<vars, block_vars>>

Block == INSTANCE GpuBlocks WITH BlockSize <- kBlockSize, MaxCalls <- BlockCalls

ASSUME BlocksAssumption ==
  /\ Kinds \subseteq {"copy", "load", "tee", "null_source", "stream_to_vector",
                     "vector_to_stream", "multiply_const", "add",
                     "streams_to_vector", "vector_to_streams"} \cup Block!CupyKinds
  /\ VectorLengths \cup StreamCounts \cup NullOutputs \subseteq Nat \ {0}
  /\ BlockCalls \in Nat

FftIdle ==
  /\ cupy = FALSE /\ d_fft_size = 1 /\ d_forward = TRUE /\ d_shift = FALSE
  /\ d_has_window = FALSE /\ d_real_input = FALSE
  /\ d_work_dev = <<>> /\ d_plan_cache = <<>> /\ tmp = <<>>

BlockIdle ==
  /\ kind = "fft" /\ d_vlen = 1 /\ d_num_streams = 1
  /\ n_is_1 = TRUE /\ k_is_0 = TRUE /\ d_k = 0 /\ ptrs_dev = 0

MCInit == (Init /\ BlockIdle) \/ (Block!Init /\ FftIdle)

MCNext ==
  \/ kind = "fft" /\ Next /\ UNCHANGED block_vars
  \/ kind # "fft" /\ Block!Next /\ UNCHANGED fft_vars

MCSpec == MCInit /\ [][MCNext]_mcvars

-----------------------------------------------------------------------------
\* The output of every call is that of its reference: numpy's transform and
\* shifts for the FFT blocks, the loops on the CPU for the others.
OutputRight == IF kind = "fft" THEN FftRight ELSE Block!OutputRight

\* No thread, no copy and no library call reads or writes outside the memory of
\* its work call and the staging buffer of the FFT.
InBounds == IF kind = "fft" THEN FftInside ELSE Block!InBounds
=============================================================================
