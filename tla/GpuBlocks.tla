----------------------------- MODULE GpuBlocks -----------------------------
(***************************************************************************)
(* The work calls of the blocks that move or combine items: what each puts *)
(* into its stream, and what its kernels read and write.  Work calls run   *)
(* ahead of the GPU, so several may be under way; those that pass pointers *)
(* to a kernel share one table of them in device memory.                   *)
(*                                                                         *)
(* The blocks in Python call CuPy, which puts one operation on a whole     *)
(* array into the stream for each line of their work().                    *)
(*                                                                         *)
(* Items are made of scalars, and a port of a work call is a sequence of   *)
(* scalars.  A value is a term over the input scalars.  The waits and      *)
(* records around the work are those of CudaGraph.                         *)
(***************************************************************************)
EXTENDS Integers, Sequences

CONSTANTS
  Kinds,          \* the blocks considered, from those that Enqueued tells apart
  VectorLengths,  \* d_vlen of a block
  StreamCounts,   \* d_num_streams, d_num_inputs
  NullOutputs,    \* d_num_outputs of null_source
  BlockSize,      \* threads of a CUDA block
  MaxBatch,       \* bound: noutput_items, in vectors
  MaxCalls        \* bound: work calls

VARIABLES
  kind, d_vlen, d_num_streams,  \* the block; of a null_source, d_num_outputs
  n_is_1, k_is_0,               \* the constants of nlog10_cupy are neutral
  d_k,       \* the factor of multiply_const, 0 or the one set after it
  ptrs_dev,  \* the work call whose pointers are in the table, 0 before any
  stream,    \* the operations of the block's stream not executed yet
  ran,       \* the threads of its first operation that have executed
  batch,     \* batch[c]: noutput_items of work call c
  out        \* out[c][p]: the scalars of its output port p

block == <<kind, d_vlen, d_num_streams, n_is_1, k_is_0>>
vars == <<block, d_k, ptrs_dev, stream, ran, batch, out>>

-----------------------------------------------------------------------------
Unset == <<"unset">>
In(c, p, i) == <<"in", c, p, i>>

CupyKinds == {"add_cupy", "multiply_const_cupy", "nlog10_cupy",
              "complex_to_mag_cupy", "complex_to_mag_squared_cupy"}

OutPorts == CASE kind = "tee" -> 2
              [] kind \in {"vector_to_streams", "null_source"} -> d_num_streams
              [] OTHER -> 1

InPorts == CASE kind \in {"add", "add_cupy", "streams_to_vector"} -> d_num_streams
             [] kind = "null_source" -> 0
             [] OTHER -> 1

\* Scalars of one output port when noutput_items is n.
OutScalars(n) ==
  CASE kind \in {"stream_to_vector", "add", "multiply_const"} \cup CupyKinds -> n * d_vlen
    [] kind = "streams_to_vector" -> n * d_num_streams
    [] OTHER -> n

\* Scalars of one input port: what the scheduler sees to before it calls work.
InScalars(n) ==
  CASE kind = "streams_to_vector" -> n
    [] kind = "vector_to_streams" -> n * d_num_streams
    [] OTHER -> OutScalars(n)

Batches ==
  IF kind = "vector_to_stream" THEN {v * d_vlen : v \in 1..MaxBatch} ELSE 1..MaxBatch

\* Operations: cudaMemcpyAsync within the device, of a table of pointers,
\* cudaMemsetAsync, a kernel, and an array operation of CuPy.
\* The factor of the last two is passed by value.
Copy(c, p, total) == [op |-> "copy", call |-> c, port |-> p, total |-> total]
Pointers(c) == [op |-> "pointers", call |-> c, port |-> 0, total |-> 0]
Memset(c, p, total) == [op |-> "memset", call |-> c, port |-> p, total |-> total]
Array(c, f, total) == [op |-> "array", call |-> c, port |-> 1, total |-> total, f |-> f,
                      k |-> d_k]
Kernel(c, total) == [op |-> "kernel", call |-> c, port |-> 0, total |-> total, k |-> d_k]

-----------------------------------------------------------------------------
(* What work() enqueues as call c, with noutput_items = n.                 *)

copy(c, n) == << Copy(c, 1, n) >>
load(c, n) == << Kernel(c, n) >>
tee(c, n) == << Copy(c, 1, n), Copy(c, 2, n) >>
\* With d_memset; the outputs after the first are left as they are.
null_source(c, n) == << Memset(c, 1, n) >>
stream_to_vector(c, n) == << Copy(c, 1, n * d_vlen) >>

\* Fault: noutput_items is taken for a number of vectors.
vector_to_stream_vectors(c, n) == << Copy(c, 1, n * d_vlen) >>

vector_to_stream(c, n) == << Copy(c, 1, n) >>
multiply_const(c, n) == << Kernel(c, n * d_vlen) >>
add(c, n) == << Pointers(c), Kernel(c, n * d_vlen) >>
streams_to_vector(c, n) == << Pointers(c), Kernel(c, n * d_num_streams) >>
vector_to_streams(c, n) == << Pointers(c), Kernel(c, n * d_num_streams) >>

\* sum() adds into arrays of its own, and [:] copies the last one.
add_cupy(c, n) == << Array(c, "sum", n * d_vlen) >>
multiply_const_cupy(c, n) == << Array(c, "times", n * d_vlen) >>
complex_to_mag_cupy(c, n) == << Array(c, "abs", n * d_vlen) >>
complex_to_mag_squared_cupy(c, n) == << Array(c, "abs2", n * d_vlen) >>

\* The logarithm goes to the output, the constants are applied to it there.
nlog10_cupy(c, n) ==
  << Array(c, "log10", n * d_vlen) >>
  \o (IF n_is_1 THEN <<>> ELSE << Array(c, "times n", n * d_vlen) >>)
  \o (IF k_is_0 THEN <<>> ELSE << Array(c, "plus k", n * d_vlen) >>)

Enqueued(c, n) ==
  CASE kind = "copy" -> copy(c, n)
    [] kind = "load" -> load(c, n)
    [] kind = "tee" -> tee(c, n)
    [] kind = "null_source" -> null_source(c, n)
    [] kind = "stream_to_vector" -> stream_to_vector(c, n)
    [] kind = "vector_to_stream" -> vector_to_stream(c, n)
    [] kind = "multiply_const" -> multiply_const(c, n)
    [] kind = "add" -> add(c, n)
    [] kind = "streams_to_vector" -> streams_to_vector(c, n)
    [] kind = "vector_to_streams" -> vector_to_streams(c, n)
    [] kind = "add_cupy" -> add_cupy(c, n)
    [] kind = "multiply_const_cupy" -> multiply_const_cupy(c, n)
    [] kind = "nlog10_cupy" -> nlog10_cupy(c, n)
    [] kind = "complex_to_mag_cupy" -> complex_to_mag_cupy(c, n)
    [] kind = "complex_to_mag_squared_cupy" -> complex_to_mag_squared_cupy(c, n)

Work(n) ==
  LET c == Len(batch) + 1 IN
  /\ c <= MaxCalls
  /\ batch' = Append(batch, n)
  /\ out' = Append(out, [p \in 1..OutPorts |-> [i \in 1..OutScalars(n) |-> Unset]])
  /\ stream' = stream \o Enqueued(c, n)
  /\ UNCHANGED <<block, d_k, ptrs_dev, ran>>

\* set_k, in another thread; the block's thread may be anywhere.
SetK ==
  /\ kind \in {"multiply_const", "multiply_const_cupy"}
  /\ d_k = 0
  /\ d_k' = 1
  /\ UNCHANGED <<block, ptrs_dev, stream, ran, batch, out>>

-----------------------------------------------------------------------------
(* The kernels.  A thread writes one scalar: at an index of a port of the  *)
(* output of a call, that is where a pointer leads it.                     *)

Write(c, p, i, v) == [call |-> c, port |-> p, index |-> i, value |-> v]

kernel_load(op, idx) == Write(op.call, 1, idx, In(op.call, 1, idx))

\* Fault: the factor is read by the threads.
kernel_multiply_const_late(op, idx) ==
  Write(op.call, 1, idx, <<"times", d_k, In(op.call, 1, idx)>>)

kernel_multiply_const(op, idx) ==
  Write(op.call, 1, idx, <<"times", op.k, In(op.call, 1, idx)>>)

kernel_add(op, idx) ==
  Write(op.call, 1, idx,
        <<"sum", [p \in 1..d_num_streams |-> In(ptrs_dev, p, idx)]>>)

kernel_interleave(op, idx) ==
  LET vec_idx == idx \div d_num_streams
      stream_idx == idx % d_num_streams
  IN Write(op.call, 1, idx, In(ptrs_dev, stream_idx + 1, vec_idx))

\* Fault: as if the scalars of a stream lay one behind the other.
kernel_deinterleave_blocks(op, idx) ==
  LET vec_idx == idx % batch[op.call]
      stream_idx == idx \div batch[op.call]
  IN Write(ptrs_dev, stream_idx + 1, vec_idx, In(op.call, 1, idx))

kernel_deinterleave(op, idx) ==
  LET vec_idx == idx \div d_num_streams
      stream_idx == idx % d_num_streams
  IN Write(ptrs_dev, stream_idx + 1, vec_idx, In(op.call, 1, idx))

KernelWrite(op, idx) ==
  CASE kind = "load" -> kernel_load(op, idx)
    [] kind = "multiply_const" -> kernel_multiply_const(op, idx)
    [] kind = "add" -> kernel_add(op, idx)
    [] kind = "streams_to_vector" -> kernel_interleave(op, idx)
    [] kind = "vector_to_streams" -> kernel_deinterleave(op, idx)

GridSize(total) == (total + BlockSize - 1) \div BlockSize

\* Fault: the kernel has no test.
Threads_all(total) == 0..(GridSize(total) * BlockSize - 1)

\* The threads of the CUDA blocks launched that pass the test of the kernel.
Threads(total) == {idx \in 0..(GridSize(total) * BlockSize - 1) : idx < total}

-----------------------------------------------------------------------------
(* The GPU (external).                                                     *)

Runs(op) == stream # <<>> /\ Head(stream).op = op

RunThread(idx) ==
  LET w == KernelWrite(Head(stream), idx) IN
  /\ Runs("kernel")
  /\ idx \in Threads(Head(stream).total) \ ran
  /\ out' = [out EXCEPT ![w.call][w.port][w.index + 1] = w.value]
  /\ ran' = ran \cup {idx}
  /\ UNCHANGED <<block, d_k, ptrs_dev, stream, batch>>

KernelEnds ==
  /\ Runs("kernel")
  /\ ran = Threads(Head(stream).total)
  /\ ran' = {}
  /\ stream' = Tail(stream)
  /\ UNCHANGED <<block, d_k, ptrs_dev, batch, out>>

RunCopy ==
  /\ Runs("copy")
  /\ LET op == Head(stream) IN
       out' = [out EXCEPT ![op.call][op.port] =
                 [i \in DOMAIN @ |-> IF i <= op.total THEN In(op.call, 1, i - 1)
                                                      ELSE @[i]]]
  /\ stream' = Tail(stream)
  /\ UNCHANGED <<block, d_k, ptrs_dev, ran, batch>>

\* What an array operation gives for scalar i; those in place read the output.
ArrayValue(op, i) ==
  CASE op.f = "sum" -> <<"sum", [p \in 1..d_num_streams |-> In(op.call, p, i)]>>
    [] op.f \in {"times n", "plus k"} -> <<op.f, out[op.call][1][i + 1]>>
    [] op.f = "times" -> <<"times", op.k, In(op.call, 1, i)>>
    [] OTHER -> <<op.f, In(op.call, 1, i)>>

RunArray ==
  /\ Runs("array")
  /\ LET op == Head(stream) IN
       out' = [out EXCEPT ![op.call][1] =
                 [i \in DOMAIN @ |-> IF i <= op.total THEN ArrayValue(op, i - 1) ELSE @[i]]]
  /\ stream' = Tail(stream)
  /\ UNCHANGED <<block, d_k, ptrs_dev, ran, batch>>

RunMemset ==
  /\ Runs("memset")
  /\ LET op == Head(stream) IN
       out' = [out EXCEPT ![op.call][op.port] =
                 [i \in DOMAIN @ |-> IF i <= op.total THEN <<"zero">> ELSE @[i]]]
  /\ stream' = Tail(stream)
  /\ UNCHANGED <<block, d_k, ptrs_dev, ran, batch>>

RunPointers ==
  /\ Runs("pointers")
  /\ ptrs_dev' = Head(stream).call
  /\ stream' = Tail(stream)
  /\ UNCHANGED <<block, d_k, ran, batch, out>>

-----------------------------------------------------------------------------
Init ==
  /\ kind \in Kinds
  /\ d_vlen \in VectorLengths
  /\ d_num_streams \in IF kind = "null_source" THEN NullOutputs ELSE StreamCounts
  /\ n_is_1 \in BOOLEAN /\ k_is_0 \in BOOLEAN
  /\ kind # "nlog10_cupy" => n_is_1 /\ k_is_0
  /\ d_k = 0
  /\ ptrs_dev = 0
  /\ stream = <<>>
  /\ ran = {}
  /\ batch = <<>>
  /\ out = <<>>

Next ==
  \/ \E n \in Batches : Work(n)
  \/ SetK
  \/ \E idx \in 0..(OutPorts * OutScalars(MaxBatch) - 1) : RunThread(idx)
  \/ KernelEnds
  \/ RunCopy
  \/ RunArray
  \/ RunMemset
  \/ RunPointers

Spec == Init /\ [][Next]_vars

-----------------------------------------------------------------------------
(* Properties.                                                             *)

\* What the block of the same name on the CPU gives: in the comments of the
\* code, "for each vector, for each stream: memcpy", and the memset that
\* null_source mimics goes over all outputs.
Reference(c) ==
  LET n == batch[c] IN
  CASE kind \in {"copy", "load", "tee"} ->
         \A p \in 1..OutPorts, i \in 1..n : out[c][p][i] = In(c, 1, i - 1)
    [] kind = "null_source" ->
         \A p \in 1..OutPorts, i \in 1..n : out[c][p][i] = <<"zero">>
    [] kind = "vector_to_stream" ->
         \A i \in 1..n : out[c][1][i] = In(c, 1, i - 1)
    [] kind = "stream_to_vector" ->
         \A v \in 0..(n - 1), k \in 1..d_vlen :
           out[c][1][v * d_vlen + k] = In(c, 1, v * d_vlen + k - 1)
    [] kind \in {"multiply_const", "multiply_const_cupy"} ->
         \E k \in 0..d_k : \A i \in 1..(n * d_vlen) :
           out[c][1][i] = <<"times", k, In(c, 1, i - 1)>>
    [] kind = "complex_to_mag_cupy" ->
         \A i \in 1..(n * d_vlen) : out[c][1][i] = <<"abs", In(c, 1, i - 1)>>
    [] kind = "complex_to_mag_squared_cupy" ->
         \A i \in 1..(n * d_vlen) : out[c][1][i] = <<"abs2", In(c, 1, i - 1)>>
    [] kind = "nlog10_cupy" ->
         LET log(i) == <<"log10", In(c, 1, i - 1)>>
             scaled(i) == IF n_is_1 THEN log(i) ELSE <<"times n", log(i)>>
         IN \A i \in 1..(n * d_vlen) :
              out[c][1][i] = IF k_is_0 THEN scaled(i) ELSE <<"plus k", scaled(i)>>
    [] kind \in {"add", "add_cupy"} ->
         \A i \in 1..(n * d_vlen) :
           out[c][1][i] = <<"sum", [p \in 1..d_num_streams |-> In(c, p, i - 1)]>>
    [] kind = "streams_to_vector" ->
         \A v \in 0..(n - 1), k \in 1..d_num_streams :
           out[c][1][v * d_num_streams + k] = In(c, k, v)
    [] kind = "vector_to_streams" ->
         \A v \in 0..(n - 1), k \in 1..d_num_streams :
           out[c][k][v + 1] = In(c, 1, v * d_num_streams + k - 1)

\* The output of every work call whose operations have executed is the right
\* one, and stays so while later calls write the table of pointers over.
OutputRight ==
  \A c \in 1..Len(batch) :
    (\A i \in 1..Len(stream) : stream[i].call # c) => Reference(c)

\* The input scalars in the value that a thread writes.
Reads(v) ==
  CASE v[1] = "in"    -> {v}
    [] v[1] = "times" -> {v[3]}
    [] v[1] = "sum"   -> {v[2][p] : p \in 1..d_num_streams}

InsideInput(c, x) ==
  x[2] = c /\ x[3] \in 1..InPorts /\ x[4] \in 0..(InScalars(batch[c]) - 1)

InsideOutput(c, p, i) == p \in 1..OutPorts /\ i \in 0..(OutScalars(batch[c]) - 1)

ThreadInside(op, idx) ==
  LET w == KernelWrite(op, idx) IN
  /\ w.call = op.call /\ InsideOutput(op.call, w.port, w.index)
  /\ \A x \in Reads(w.value) : InsideInput(op.call, x)

\* The operation that the GPU executes stays within the inputs and the outputs
\* that the scheduler has granted to its work call: each thread of a kernel, at
\* the index it computes and through the pointers that are in the table by then,
\* each scalar of the others.
InBounds ==
  stream # <<>> =>
    LET op == Head(stream) IN
    CASE op.op = "kernel" -> \A idx \in Threads(op.total) : ThreadInside(op, idx)
      [] op.op = "pointers" -> TRUE
      [] OTHER ->
           \A i \in 0..(op.total - 1) :
             /\ InsideOutput(op.call, op.port, i)
             /\ op.op # "memset" =>
                  \A p \in 1..InPorts : InsideInput(op.call, In(op.call, p, i))
=============================================================================
