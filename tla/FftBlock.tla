------------------------------ MODULE FftBlock ------------------------------
(***************************************************************************)
(* The two FFT blocks.  A work call only enqueues.  That of the CUDA block *)
(* fft: at most one kernel before the transform, the transform, at most    *)
(* one kernel after it.  Several work calls may be under way; they share   *)
(* the staging buffer d_work_dev and the cached plans, and the block's     *)
(* stream keeps them apart.  That of fft_cupy: operations of CuPy on whole *)
(* arrays, each with a result of its own, and the cached plans.            *)
(*                                                                         *)
(* A value is a term: an input item, a product with a window coefficient,  *)
(* a bin of the transform of a vector of values in one direction.          *)
(***************************************************************************)
EXTENDS Integers, Sequences

CONSTANTS
  FftSizes,     \* d_fft_size of the blocks considered
  kBlockSize,   \* threads of a CUDA block
  MaxBatch,     \* bound: noutput_items
  MaxCalls      \* bound: work calls

ASSUME FftAssumption ==
  /\ FftSizes \subseteq Nat \ {0}
  /\ kBlockSize \in Nat \ {0}
  /\ MaxBatch \in Nat /\ MaxCalls \in Nat

VARIABLES
  cupy,          \* the block is fft_cupy
  tmp,           \* tmp[c]: the array that curr_in or res of call c refers to
  d_fft_size, d_forward, d_shift, d_has_window, d_real_input,  \* parameters
  d_work_dev,    \* the staging buffer, a value for each index of it
  d_plan_cache,  \* a partial function from batch sizes to the plans made
  stream,        \* the operations of the block's stream not executed yet
  ran,           \* the threads of its first operation that have executed
  batch,         \* batch[c]: noutput_items of work call c
  out            \* out[c]: the output items of work call c

parameters == <<cupy, d_fft_size, d_forward, d_shift, d_has_window, d_real_input>>
vars == <<parameters, d_work_dev, d_plan_cache, stream, ran, batch, tmp, out>>

-----------------------------------------------------------------------------
(* Values.                                                                 *)

Unset == <<"unset">>
Item(c, i) == <<"item", c, i, IF d_real_input THEN "real" ELSE "complex">>
Windowed(v, w) == <<"windowed", v, w>>
ToComplex(v) ==
  CASE v[1] = "item" -> [v EXCEPT ![4] = "complex"]
    [] v[1] = "windowed" -> [v EXCEPT ![2][4] = "complex"]
    [] OTHER -> v
Bin(direction, k, vector) == <<"bin", direction, k, vector>>
Divided(v) == <<"divided", v>>   \* by the size of the FFT

d_work_items == Len(d_work_dev)
Items(b) == b * d_fft_size

\* Memory, by index from 0: the input of a call, the staging, its output.
Load(mem, c, i) ==
  CASE mem = "in"   -> Item(c, i)
    [] mem = "work" -> d_work_dev[i + 1]
    [] mem = "tmp"  -> tmp[c][i + 1]
    [] mem = "out"  -> out[c][i + 1]

\* Put f(i) at every i of a set of indices.
Store(mem, c, is, f(_)) ==
  /\ d_work_dev' = IF mem # "work" THEN d_work_dev ELSE
       [j \in 1..d_work_items |-> IF j - 1 \in is THEN f(j - 1) ELSE d_work_dev[j]]
  /\ tmp' = IF mem # "tmp" THEN tmp ELSE
       [tmp EXCEPT ![c] = [j \in 1..Len(out[c]) |-> f(j - 1)]]
  /\ out' = IF mem # "out" THEN out ELSE
       [out EXCEPT ![c] = [j \in 1..Len(@) |-> IF j - 1 \in is THEN f(j - 1) ELSE @[j]]]

-----------------------------------------------------------------------------
(* The kernels: one thread per item.                                       *)

Grid(total_items) == (total_items + kBlockSize - 1) \div kBlockSize

\* The threads that pass "idx < total_items".
Threads(total_items) ==
  {idx \in 0..(Grid(total_items) * kBlockSize - 1) : idx < total_items}

\* compute_shifted_index: where in its vector thread idx reads.
ShiftedPos(idx, shift) == ((idx % d_fft_size) + shift) % d_fft_size

ReadIndex(idx, shift) == (idx \div d_fft_size) * d_fft_size + ShiftedPos(idx, shift)

\* What thread idx of kernel op writes: kernel_window and its kin multiply by
\* the coefficient of the place they read from.
KernelValue(op, idx) ==
  LET src == ShiftedPos(idx, op.shift)
      v == Load(op.from, op.call, ReadIndex(idx, op.shift))
  IN IF op.window THEN Windowed(ToComplex(v), src) ELSE ToComplex(v)

Kernel(c, from, to, shift, window) ==
  [kind |-> "kernel", call |-> c, from |-> from, to |-> to,
   shift |-> shift, window |-> window, vectors |-> batch'[c]]

ifftshift_split == d_fft_size \div 2
fftshift_split == (d_fft_size + 1) \div 2

-----------------------------------------------------------------------------
(* The work call.                                                          *)

\* Fault: the size is compared in vectors.
Staging_vectors(n) ==
  IF n <= d_work_items THEN d_work_dev ELSE [i \in 1..Items(n) |-> Unset]

\* ensure_work_buffers: the staging buffer only grows.
Staging(n) ==
  IF Items(n) <= d_work_items THEN d_work_dev ELSE [i \in 1..Items(n) |-> Unset]

UsesStaging == d_real_input \/ d_has_window \/ d_shift

Preprocesses == d_real_input \/ d_has_window \/ (d_shift /\ ~d_forward)

Before(c) ==
  IF Preprocesses
    THEN <<Kernel(c, "in", "work",
                  IF d_shift /\ ~d_forward THEN ifftshift_split ELSE 0, d_has_window)>>
    ELSE <<>>

\* get_plan: one plan for every batch size met, kept until the block goes.
Plans(n) ==
  [b \in DOMAIN d_plan_cache \cup {n} |->
     IF b \in DOMAIN d_plan_cache THEN d_plan_cache[b] ELSE [vectors |-> n]]

\* The one given to cuFFT with the plan.
Direction == IF d_forward THEN "forward" ELSE "inverse"

\* Fault: the transform writes the output and the shift works in place.
Transform_in_place(c) ==
  [kind |-> "fft", call |-> c, vectors |-> d_plan_cache'[batch'[c]].vectors,
   direction |-> Direction,
   from |-> IF Preprocesses THEN "work" ELSE "in", to |-> "out"]

\* Fault: every transform is a forward one.
Transform_forward(c) ==
  [kind |-> "fft", call |-> c, vectors |-> d_plan_cache'[batch'[c]].vectors,
   direction |-> "forward",
   from |-> IF Preprocesses THEN "work" ELSE "in",
   to |-> IF d_shift /\ d_forward THEN "work" ELSE "out"]

Transform(c) ==
  [kind |-> "fft", call |-> c, vectors |-> d_plan_cache'[batch'[c]].vectors,
   direction |-> Direction,
   from |-> IF Preprocesses THEN "work" ELSE "in",
   to |-> IF d_shift /\ d_forward THEN "work" ELSE "out"]

Behind(c) ==
  IF d_shift /\ d_forward
    THEN <<Kernel(c, Transform(c).to, "out", fftshift_split, FALSE)>>
    ELSE <<>>

-----------------------------------------------------------------------------
(* The work call of fft_cupy.                                              *)

Array(c, f, from, to) ==
  [kind |-> "array", call |-> c, f |-> f, from |-> from, to |-> to,
   vectors |-> batch'[c]]

\* Each line of work() with the memory it reads and writes; res of a real FFT
\* is copied, a complex FFT goes straight to the output.
CupyWork(c) ==
  LET ishift == d_shift /\ ~d_forward
      curr_in == IF d_has_window \/ ishift THEN "tmp" ELSE "in"
      plan == [kind |-> "fft", call |-> c, from |-> curr_in, to |-> "out",
               direction |-> Direction, vectors |-> d_plan_cache'[batch'[c]].vectors]
  IN (IF d_has_window THEN <<Array(c, "window", "in", "tmp")>> ELSE <<>>)
     \o (IF ishift THEN <<Array(c, "ifftshift", IF d_has_window THEN "tmp" ELSE "in", "tmp")>>
         ELSE <<>>)
     \o (IF ~d_real_input THEN <<plan>>
         ELSE IF d_forward
         THEN <<Array(c, "fft", curr_in, "tmp"), Array(c, "copy", "tmp", "out")>>
         ELSE <<Array(c, "ifft", curr_in, "tmp"), Array(c, "scale", "tmp", "tmp"),
                Array(c, "copy", "tmp", "out")>>)
     \o (IF d_shift /\ d_forward
         THEN <<Array(c, "fftshift", "out", "tmp"), Array(c, "copy", "tmp", "out")>>
         ELSE <<>>)

Work_cupy(n) ==
  LET c == Len(batch) + 1 IN
  /\ cupy
  /\ c <= MaxCalls
  /\ batch' = Append(batch, n)
  /\ d_plan_cache' = IF d_real_input THEN d_plan_cache ELSE Plans(n)
  /\ stream' = stream \o CupyWork(c)
  /\ tmp' = Append(tmp, <<>>)
  /\ out' = Append(out, [i \in 1..Items(n) |-> Unset])
  /\ UNCHANGED <<parameters, d_work_dev, ran>>

-----------------------------------------------------------------------------
\* work of fft.  When the staging buffer is replaced, cudaFree waits for the device.
Work(n) ==
  LET c == Len(batch) + 1 IN
  /\ ~cupy
  /\ c <= MaxCalls
  /\ batch' = Append(batch, n)
  /\ d_plan_cache' = Plans(n)
  /\ d_work_dev' = IF UsesStaging THEN Staging(n) ELSE d_work_dev
  /\ d_work_dev' # d_work_dev => stream = <<>>
  /\ stream' = stream \o Before(c) \o <<Transform(c)>> \o Behind(c)
  /\ tmp' = Append(tmp, <<>>)
  /\ out' = Append(out, [i \in 1..Items(n) |-> Unset])
  /\ UNCHANGED <<parameters, ran>>

-----------------------------------------------------------------------------
(* The GPU (external): the threads of a kernel run in any order.           *)

RunThread(idx) ==
  LET op == Head(stream) IN
  /\ stream # <<>> /\ op.kind = "kernel"
  /\ idx \in Threads(Items(op.vectors)) \ ran
  /\ Store(op.to, op.call, {idx}, LAMBDA i : KernelValue(op, i))
  /\ ran' = ran \cup {idx}
  /\ UNCHANGED <<parameters, d_plan_cache, stream, batch>>

KernelEnds ==
  /\ stream # <<>> /\ Head(stream).kind = "kernel"
  /\ ran = Threads(Items(Head(stream).vectors))
  /\ ran' = {}
  /\ stream' = Tail(stream)
  /\ UNCHANGED <<parameters, d_work_dev, d_plan_cache, batch, tmp, out>>

\* cuFFT: bin k of every vector depends on the whole vector.
RunTransform ==
  LET op == Head(stream)
      vector(v) == [p \in 1..d_fft_size |->
                      Load(op.from, op.call, v * d_fft_size + p - 1)]
  IN
  /\ stream # <<>> /\ op.kind = "fft"
  /\ Store(op.to, op.call, 0..(Items(op.vectors) - 1),
           LAMBDA i : Bin(op.direction, i % d_fft_size, vector(i \div d_fft_size)))
  /\ stream' = Tail(stream)
  /\ UNCHANGED <<parameters, d_plan_cache, ran, batch>>

\* CuPy (external): the result of one operation on a whole array.
ArrayValue(op, i) ==
  LET v == i \div d_fft_size
      p == i % d_fft_size
      at(q) == Load(op.from, op.call, v * d_fft_size + (q % d_fft_size))
      vector == [q \in 1..d_fft_size |-> ToComplex(at(q - 1))]
  IN CASE op.f = "window" -> Windowed(at(p), p)
       [] op.f = "ifftshift" -> at(p + d_fft_size \div 2)
       [] op.f = "fftshift" -> at(p + (d_fft_size + 1) \div 2)
       [] op.f = "fft" -> Bin("forward", p, vector)
       [] op.f = "ifft" -> Divided(Bin("inverse", p, vector))
       [] op.f = "scale" -> IF at(p)[1] = "divided" THEN at(p)[2] ELSE <<"scaled", at(p)>>
       [] op.f = "copy" -> at(p)

RunArray ==
  LET op == Head(stream) IN
  /\ stream # <<>> /\ op.kind = "array"
  /\ Store(op.to, op.call, 0..(Items(op.vectors) - 1), LAMBDA i : ArrayValue(op, i))
  /\ stream' = Tail(stream)
  /\ UNCHANGED <<parameters, d_plan_cache, ran, batch>>

-----------------------------------------------------------------------------
Init ==
  /\ cupy \in BOOLEAN
  /\ d_fft_size \in FftSizes
  /\ d_forward \in BOOLEAN /\ d_shift \in BOOLEAN
  /\ d_has_window \in BOOLEAN /\ d_real_input \in BOOLEAN
  /\ d_work_dev = <<>>
  /\ d_plan_cache = [b \in {} |-> {}]
  /\ stream = <<>>
  /\ ran = {}
  /\ batch = <<>>
  /\ tmp = <<>>
  /\ out = <<>>

Next ==
  \/ \E n \in 1..MaxBatch : Work(n) \/ Work_cupy(n)
  \/ RunArray
  \/ \E idx \in 0..(Items(MaxBatch) - 1) : RunThread(idx)
  \/ KernelEnds
  \/ RunTransform

Spec == Init /\ [][Next]_vars

-----------------------------------------------------------------------------
(* Properties.                                                             *)

\* numpy.roll of a vector that is indexed from 1, numpy.fft.fftshift and
\* numpy.fft.ifftshift of frequencies that are indexed from 0.
Roll(vector, k) == [p \in 1..d_fft_size |-> vector[((p - 1 - k) % d_fft_size) + 1]]
Fftshift(vector) == Roll(vector, d_fft_size \div 2)
Ifftshift(vector) == Roll(vector, -(d_fft_size \div 2))

\* What GNU Radio's FFT block on the CPU gives for vector v of call c.
Reference(c, v) ==
  LET item(p) == <<"item", c, v * d_fft_size + p - 1, "complex">>
      x == [p \in 1..d_fft_size |->
              IF d_has_window THEN Windowed(item(p), p - 1) ELSE item(p)]
      y == IF d_shift /\ ~d_forward THEN Ifftshift(x) ELSE x
      bins == [p \in 1..d_fft_size |-> Bin(IF d_forward THEN "forward" ELSE "inverse", p - 1, y)]
  IN IF d_shift /\ d_forward THEN Fftshift(bins) ELSE bins

\* The output of every work call whose operations have executed is that of the
\* reference, whatever calls came before it, were under way with it, or reused
\* and replaced the staging buffer since.
FftRight ==
  \A c \in 1..Len(batch) :
    (\A i \in 1..Len(stream) : stream[i].call # c) =>
      \A v \in 0..(batch[c] - 1) :
        SubSeq(out[c], v * d_fft_size + 1, (v + 1) * d_fft_size) = Reference(c, v)

\* The items of a memory; an array that is made anew has as many as it gets.
Size(mem, c) ==
  CASE mem = "in"   -> Items(batch[c])
    [] mem = "work" -> d_work_items
    [] mem = "tmp"  -> Len(tmp[c])
    [] mem = "out"  -> Len(out[c])

\* The thread reads one item, one coefficient of the window, and writes one item.
ThreadInside(op, idx) ==
  /\ ReadIndex(idx, op.shift) \in 0..(Size(op.from, op.call) - 1)
  /\ ShiftedPos(idx, op.shift) \in 0..(d_fft_size - 1)
  /\ idx \in 0..(Size(op.to, op.call) - 1)

\* The operation that the GPU executes stays within what the scheduler granted
\* to its work call and within the staging buffer as it is by then: each thread
\* of a kernel, cuFFT with the batch of its plan, CuPy with its arrays.
FftInside ==
  stream # <<>> =>
    LET op == Head(stream) IN
    IF op.kind = "kernel"
      THEN \A idx \in Threads(Items(op.vectors)) : ThreadInside(op, idx)
      ELSE /\ Items(op.vectors) <= Size(op.from, op.call)
           /\ op.to # "tmp" => Items(op.vectors) <= Size(op.to, op.call)
=============================================================================
