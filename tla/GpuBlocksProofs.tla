-------------------------- MODULE GpuBlocksProofs --------------------------
(***************************************************************************)
(* Proofs about the work calls of the blocks: for all sizes of vectors,    *)
(* numbers of streams, sizes of an FFT, batches and numbers of work calls  *)
(* that are under way at once.                                             *)
(*                                                                         *)
(* A block enqueues the same number of operations in each of its calls, so *)
(* the operations ever enqueued are numbered: operation First(L, c) + s is *)
(* step s of call c.  The stream holds the last of them.                   *)
(***************************************************************************)
EXTENDS MCGpuBlocks, SequenceTheorems, TLAPS

-----------------------------------------------------------------------------
(* Sequences of anything.                                                  *)

IsSeq(s) == \E S : s \in Seq(S)

LEMMA LenIs ==
  ASSUME NEW s, IsSeq(s)
  PROVE  /\ Len(s) \in Nat /\ DOMAIN s = 1..Len(s)
         /\ s = [i \in 1..Len(s) |-> s[i]]
         /\ (s # <<>> => Len(s) > 0 /\ Head(s) = s[1])
         /\ (Len(s) > 0 => s # <<>>)
<1>1. PICK S : s \in Seq(S)
  BY DEF IsSeq
<1> QED
  BY <1>1, LenProperties, EmptySeq

LEMMA AnySeq ==
  ASSUME NEW n \in Nat, NEW s, s = [i \in 1..n |-> s[i]]
  PROVE  IsSeq(s) /\ Len(s) = n
<1> DEFINE S == {s[i] : i \in 1..n}
<1>1. s \in [1..n -> S]
  OBVIOUS
<1> HIDE DEF S
<1>2. s \in Seq(S)
  BY <1>1
<1>3. Len(s) = n
  <2>1. DOMAIN s = 1..Len(s) /\ Len(s) \in Nat /\ DOMAIN s = 1..n
    BY <1>1, <1>2, LenProperties
  <2> QED
    BY <2>1
<1> QED
  BY <1>2, <1>3 DEF IsSeq

LEMMA AppendIs ==
  ASSUME NEW s, IsSeq(s), NEW e
  PROVE  /\ IsSeq(Append(s, e)) /\ Len(Append(s, e)) = Len(s) + 1
         /\ \A i \in 1..Len(s) : Append(s, e)[i] = s[i]
         /\ Append(s, e)[Len(s) + 1] = e
<1>1. PICK S : s \in Seq(S)
  BY DEF IsSeq
<1>2. s \in Seq(S \cup {e}) /\ e \in S \cup {e}
  BY <1>1, SeqMonotonic
<1> HIDE DEF IsSeq
<1>3. /\ Append(s, e) \in Seq(S \cup {e}) /\ Len(Append(s, e)) = Len(s) + 1
      /\ \A i \in 1..Len(s) : Append(s, e)[i] = s[i]
      /\ Append(s, e)[Len(s) + 1] = e
  BY <1>2, LenProperties
<1> QED
  BY <1>3 DEF IsSeq

LEMMA ConcatIs ==
  ASSUME NEW s, NEW t, IsSeq(s), IsSeq(t)
  PROVE  /\ IsSeq(s \o t) /\ Len(s \o t) = Len(s) + Len(t)
         /\ \A i \in 1..Len(s) : (s \o t)[i] = s[i]
         /\ \A i \in 1..Len(t) : (s \o t)[Len(s) + i] = t[i]
<1>1. PICK S : s \in Seq(S)
  BY DEF IsSeq
<1>2. PICK T : t \in Seq(T)
  BY DEF IsSeq
<1>3. s \in Seq(S \cup T) /\ t \in Seq(S \cup T)
  BY <1>1, <1>2, SeqMonotonic
<1>4. /\ s \o t \in Seq(S \cup T) /\ Len(s \o t) = Len(s) + Len(t)
      /\ \A i \in 1..(Len(s) + Len(t)) :
           (s \o t)[i] = IF i <= Len(s) THEN s[i] ELSE t[i - Len(s)]
  BY <1>3, ConcatProperties
<1>5. Len(s) \in Nat /\ Len(t) \in Nat
  BY LenIs
<1>6. \A i \in 1..Len(t) : (s \o t)[Len(s) + i] = t[i]
  <2> SUFFICES ASSUME NEW i \in 1..Len(t) PROVE (s \o t)[Len(s) + i] = t[i]
    OBVIOUS
  <2>1. Len(s) + i \in 1..(Len(s) + Len(t)) /\ ~(Len(s) + i <= Len(s))
        /\ Len(s) + i - Len(s) = i
    BY <1>5
  <2> QED
    BY <1>4, <2>1
<1> QED
  BY <1>4, <1>5, <1>6 DEF IsSeq

LEMMA TailIs ==
  ASSUME NEW s, IsSeq(s), s # <<>>
  PROVE  /\ IsSeq(Tail(s)) /\ Len(Tail(s)) = Len(s) - 1
         /\ \A i \in 1..Len(Tail(s)) : Tail(s)[i] = s[i + 1]
<1>1. PICK S : s \in Seq(S)
  BY DEF IsSeq
<1> QED
  BY <1>1, HeadTailProperties DEF IsSeq

Replaced(s, c, e) == [s EXCEPT ![c] = e]

LEMMA ExceptIs ==
  ASSUME NEW s, IsSeq(s), NEW c \in 1..Len(s), NEW e
  PROVE  /\ IsSeq(Replaced(s, c, e)) /\ Len(Replaced(s, c, e)) = Len(s)
         /\ Replaced(s, c, e)[c] = e
         /\ \A d \in 1..Len(s) : d # c => Replaced(s, c, e)[d] = s[d]
<1> DEFINE t == Replaced(s, c, e)
<1>1. Len(s) \in Nat /\ s = [i \in 1..Len(s) |-> s[i]]
  BY LenIs
<1>2. t = [i \in 1..Len(s) |-> t[i]] /\ t[c] = e
      /\ \A d \in 1..Len(s) : d # c => t[d] = s[d]
  BY <1>1 DEF Replaced
<1> HIDE DEF t
<1>3. IsSeq(t) /\ Len(t) = Len(s)
  BY <1>1, <1>2, AnySeq
<1> QED
  BY <1>2, <1>3 DEF t

-----------------------------------------------------------------------------
(* Numbers of operations, when every call enqueues L.                      *)

First(L, c) == L * (c - 1)
CallAt(L, t) == ((t - 1) \div L) + 1
StepAt(L, t) == ((t - 1) % L) + 1

LEMMA DivisionIs ==
  ASSUME NEW s \in Nat, NEW n \in Nat, n > 0
  PROVE  /\ s \div n \in Nat /\ s % n \in Nat
         /\ s % n < n /\ s = n * (s \div n) + (s % n)
  OBVIOUS

\* Two divisions with remainders agree.
LEMMA DivisionUnique ==
  ASSUME NEW n \in Nat, n > 0, NEW q \in Nat, NEW r \in Nat, r < n
  PROVE  (n * q + r) \div n = q /\ (n * q + r) % n = r
<1> DEFINE s == n * q + r
           p == s \div n
           m == s % n
<1>1. s \in Nat
  OBVIOUS
<1>2. p \in Nat /\ m \in Nat /\ m < n /\ s = n * p + m
  BY <1>1, DivisionIs
<1>3. s = n * q + r
  OBVIOUS
<1> HIDE DEF s, p, m
<1>4. p = q
  <2>1. CASE p > q
    <3>1. PICK d \in Nat : p = q + 1 + d
      <4>1. p - q - 1 \in Nat /\ p = q + 1 + (p - q - 1)
        BY <2>1, <1>2
      <4> QED
        BY <4>1
    <3>2. n * p = n * q + n + n * d /\ n * d \in Nat /\ n * q \in Nat
      BY <3>1
    <3> QED
      BY <1>2, <1>3, <3>2
  <2>2. CASE q > p
    <3>1. PICK d \in Nat : q = p + 1 + d
      <4>1. q - p - 1 \in Nat /\ q = p + 1 + (q - p - 1)
        BY <2>2, <1>2
      <4> QED
        BY <4>1
    <3>2. n * q = n * p + n + n * d /\ n * d \in Nat /\ n * p \in Nat
      BY <3>1, <1>2
    <3> QED
      BY <1>2, <1>3, <3>2
  <2> QED
    BY <2>1, <2>2, <1>2
<1>5. m = r
  BY <1>2, <1>3, <1>4
<1> QED
  BY <1>4, <1>5 DEF s, p, m

\* Where item l of vector v lies among n vectors of S items.
LEMMA PlaceIn ==
  ASSUME NEW S \in Nat, S > 0, NEW n \in Nat, NEW v \in 0..(n - 1), NEW l \in 1..S
  PROVE  /\ v * S + l \in 1..(n * S)
         /\ (v * S + l - 1) \div S = v /\ (v * S + l - 1) % S = l - 1
<1>1. v \in Nat /\ v * S = S * v /\ S * v \in Nat /\ l - 1 \in Nat /\ l - 1 < S
  OBVIOUS
<1>2. PICK d \in Nat : n = v + 1 + d
  <2>1. n - v - 1 \in Nat /\ n = v + 1 + (n - v - 1)
    OBVIOUS
  <2> QED
    BY <2>1
<1>3. n * S = S * v + S + S * d /\ S * d \in Nat
  BY <1>2
<1>4. (S * v + (l - 1)) \div S = v /\ (S * v + (l - 1)) % S = l - 1
  BY <1>1, DivisionUnique
<1>5. v * S + l - 1 = S * v + (l - 1)
  BY <1>1
<1> QED
  BY <1>1, <1>3, <1>4, <1>5

\* Every operation is a step of a call.
LEMMA NumberIs ==
  ASSUME NEW L \in Nat, L > 0, NEW t \in Nat, t > 0
  PROVE  /\ CallAt(L, t) \in Nat /\ CallAt(L, t) > 0
         /\ StepAt(L, t) \in 1..L
         /\ t = First(L, CallAt(L, t)) + StepAt(L, t)
<1> DEFINE q == (t - 1) \div L
           r == (t - 1) % L
<1>1. q \in Nat /\ r \in Nat /\ r < L /\ t - 1 = L * q + r
  BY DivisionIs
<1> HIDE DEF q, r
<1>2. CallAt(L, t) = q + 1 /\ StepAt(L, t) = r + 1
  BY DEF CallAt, StepAt, q, r
<1>3. First(L, q + 1) = L * q
  BY <1>1 DEF First
<1> QED
  BY <1>1, <1>2, <1>3

\* And of one only.
LEMMA NumberOf ==
  ASSUME NEW L \in Nat, L > 0, NEW c \in Nat, c > 0, NEW s \in 1..L
  PROVE  /\ First(L, c) \in Nat /\ First(L, c) + s \in Nat /\ First(L, c) + s > 0
         /\ CallAt(L, First(L, c) + s) = c
         /\ StepAt(L, First(L, c) + s) = s
<1> DEFINE q == c - 1
           r == s - 1
<1>1. q \in Nat /\ r \in Nat /\ r < L /\ L * q \in Nat
  OBVIOUS
<1>2. First(L, c) = L * q /\ First(L, c) + s - 1 = L * q + r
  BY <1>1 DEF First
<1>3. (L * q + r) \div L = q /\ (L * q + r) % L = r
  BY <1>1, DivisionUnique
<1> QED
  BY <1>1, <1>2, <1>3 DEF CallAt, StepAt

LEMMA FirstIs ==
  ASSUME NEW L \in Nat, L > 0, NEW c \in Nat, c > 0
  PROVE  /\ First(L, c) \in Nat /\ First(L, c + 1) = First(L, c) + L
         /\ \A d \in Nat : d > c => First(L, c) + L <= First(L, d)
<1>1. First(L, c) \in Nat /\ First(L, c + 1) = First(L, c) + L
  BY DEF First
<1>2. ASSUME NEW d \in Nat, d > c PROVE First(L, c) + L <= First(L, d)
  <2>1. PICK e \in Nat : d = c + 1 + e
    <3>1. d - c - 1 \in Nat /\ d = c + 1 + (d - c - 1)
      BY <1>2
    <3> QED
      BY <3>1
  <2>2. First(L, d) = First(L, c) + L + L * e /\ L * e \in Nat
    BY <2>1 DEF First
  <2> QED
    BY <1>1, <2>2
<1> QED
  BY <1>1, <1>2

\* With n calls made and m operations left, operation number e + i is one of
\* those calls'.
LEMMA LeftIs ==
  ASSUME NEW L \in Nat, L > 0, NEW n \in Nat, NEW m \in Nat, NEW e \in Nat,
         e = First(L, n + 1) - m, NEW i \in 1..m
  PROVE  /\ CallAt(L, e + i) \in 1..n /\ StepAt(L, e + i) \in 1..L
         /\ e + i = First(L, CallAt(L, e + i)) + StepAt(L, e + i)
<1> DEFINE c == CallAt(L, e + i)
           s == StepAt(L, e + i)
<1>1. c \in Nat /\ c > 0 /\ s \in 1..L /\ e + i = First(L, c) + s
  <2>1. e + i \in Nat /\ e + i > 0
    OBVIOUS
  <2> QED
    BY <2>1, NumberIs
<1>2. First(L, n + 1) \in Nat /\ First(L, c) \in Nat
  BY <1>1, FirstIs
<1>3. e + i <= First(L, n + 1)
  BY <1>2
<1>4. c <= n
  <2> SUFFICES ASSUME c > n PROVE FALSE
    BY <1>1
  <2> HIDE DEF c, s
  <2>0. n + 1 \in Nat /\ n + 1 > 0 /\ (c = n + 1 \/ c > n + 1)
    BY <1>1
  <2>1. First(L, n + 1) <= First(L, c)
    <3>1. CASE c = n + 1
      BY <1>2, <3>1
    <3>2. CASE c > n + 1
      <4>1. First(L, n + 1) + L <= First(L, c)
        BY <1>1, <2>0, <3>2, FirstIs
      <4> QED
        BY <1>2, <4>1
    <3> QED
      BY <2>0, <3>1, <3>2
  <2> QED
    BY <1>1, <1>2, <1>3, <2>1
<1> QED
  BY <1>1, <1>4

\* Operation number f + s, when m operations are left of f, is s places behind
\* them; and of t operations made the one with number f + L is among the m left
\* when it has not been executed.
LEMMA PlaceBehind ==
  ASSUME NEW L \in Nat, NEW f \in Nat, NEW m \in Nat, NEW e \in Nat, e = f - m,
         NEW i \in (m + 1)..(m + L)
  PROVE  i - m \in 1..L /\ e + i = f + (i - m) /\ i = m + (i - m)
  OBVIOUS

LEMMA PlaceLeft ==
  ASSUME NEW L \in Nat, NEW f \in Nat, NEW m \in Nat, NEW e \in Nat, NEW t \in Nat,
         e = t - m, e < f + L, f + L <= t
  PROVE  (f + L) - e \in 1..m /\ e + ((f + L) - e) = f + L
  OBVIOUS

\* After e operations step s is the last one of call c that was executed.
Latest(L, e, c, s) ==
  s \in 1..L /\ (e = First(L, c) + s \/ (s = L /\ e > First(L, c) + L))

LEMMA LatestMoves ==
  ASSUME NEW L \in Nat, L > 0, NEW e \in Nat, NEW c \in Nat, c > 0, NEW s \in 1..L,
         e + 1 = First(L, c) + s, NEW d \in Nat, d > 0, NEW r, Latest(L, e + 1, d, r)
  PROVE  (d = c /\ r = s) \/ (d # c /\ Latest(L, e, d, r))
<1>1. First(L, c) \in Nat /\ First(L, d) \in Nat /\ r \in 1..L
  BY FirstIs DEF Latest
<1>2. CASE e + 1 = First(L, d) + r
  <2>1. CallAt(L, e + 1) = c /\ StepAt(L, e + 1) = s
    BY NumberOf
  <2>2. CallAt(L, e + 1) = d /\ StepAt(L, e + 1) = r
    BY <1>1, <1>2, NumberOf
  <2>3. d = c /\ r = s
    BY <2>1, <2>2
  <2> QED
    BY <2>3
<1>3. CASE r = L /\ e + 1 > First(L, d) + L
  BY <1>1, <1>3 DEF Latest
<1> QED
  BY <1>2, <1>3 DEF Latest

-----------------------------------------------------------------------------
(* The blocks of GpuBlocks: the operations of a work call.                 *)

CopyKinds == {"copy", "tee", "stream_to_vector", "vector_to_stream"}
PointerKinds == {"add", "streams_to_vector", "vector_to_streams"}
KernelKinds == PointerKinds \cup {"load", "multiply_const"}

Parameters ==
  /\ kind \in Kinds
  /\ d_vlen \in Nat \ {0} /\ d_num_streams \in Nat \ {0}
  /\ n_is_1 \in BOOLEAN /\ k_is_0 \in BOOLEAN
  /\ kind = "null_source" => d_num_streams \in NullOutputs

\* How many operations a call enqueues, and what they are.
Steps ==
  IF kind \in PointerKinds \cup {"tee"} THEN 2
  ELSE IF kind = "nlog10_cupy" THEN (IF n_is_1 THEN 1 ELSE 2) + (IF k_is_0 THEN 0 ELSE 1)
  ELSE 1

OpName(s) ==
  IF kind \in CopyKinds THEN "copy"
  ELSE IF kind = "null_source" THEN "memset"
  ELSE IF kind \in PointerKinds /\ s = 1 THEN "pointers"
  ELSE IF kind \in KernelKinds THEN "kernel"
  ELSE "array"

ArrayName(s) ==
  IF kind = "add_cupy" THEN "sum"
  ELSE IF kind = "multiply_const_cupy" THEN "times"
  ELSE IF kind = "complex_to_mag_cupy" THEN "abs"
  ELSE IF kind = "complex_to_mag_squared_cupy" THEN "abs2"
  ELSE IF s = 1 THEN "log10"
  ELSE IF s = 2 /\ ~n_is_1 THEN "times n"
  ELSE "plus k"

Scalars(n) ==
  IF kind \in {"streams_to_vector", "vector_to_streams"} THEN n * d_num_streams
  ELSE IF kind \in {"copy", "load", "tee", "null_source", "vector_to_stream"} THEN n
  ELSE n * d_vlen

IsStep(op, c, s, n) ==
  /\ op.call = c
  /\ op.op = OpName(s)
  /\ op.total = IF op.op = "pointers" THEN 0 ELSE Scalars(n)
  /\ op.op \in {"copy", "memset", "array"} => op.port = IF kind = "tee" THEN s ELSE 1
  /\ op.op = "array" => op.f = ArrayName(s)
  /\ op.op \in {"kernel", "array"} => op.k \in 0..d_k

LEMMA StepsAre == Steps \in 1..3
  BY DEF Steps

LEMMA NoOp == IsSeq(<<>>) /\ Len(<<>>) = 0
<1>1. <<>> \in Seq({}) /\ Len(<<>>) = 0
  BY EmptySeq
<1> QED
  BY <1>1 DEF IsSeq

LEMMA OneOp ==
  ASSUME NEW op
  PROVE  IsSeq(<<op>>) /\ Len(<<op>>) = 1 /\ <<op>>[1] = op
<1>1. <<op>> \in Seq({op})
  OBVIOUS
<1> QED
  BY <1>1 DEF IsSeq

LEMMA TwoOps ==
  ASSUME NEW op1, NEW op2
  PROVE  /\ IsSeq(<<op1, op2>>) /\ Len(<<op1, op2>>) = 2
         /\ <<op1, op2>>[1] = op1 /\ <<op1, op2>>[2] = op2
<1>1. <<op1, op2>> \in Seq({op1, op2})
  OBVIOUS
<1> QED
  BY <1>1 DEF IsSeq

\* The kinds of operation, with their fields.
LEMMA OpFields ==
  ASSUME NEW c, NEW p, NEW f, NEW total
  PROVE  /\ Block!Copy(c, p, total).call = c /\ Block!Copy(c, p, total).op = "copy"
         /\ Block!Copy(c, p, total).port = p /\ Block!Copy(c, p, total).total = total
         /\ Block!Memset(c, p, total).call = c /\ Block!Memset(c, p, total).op = "memset"
         /\ Block!Memset(c, p, total).port = p /\ Block!Memset(c, p, total).total = total
         /\ Block!Pointers(c).call = c /\ Block!Pointers(c).op = "pointers"
         /\ Block!Pointers(c).total = 0
         /\ Block!Kernel(c, total).call = c /\ Block!Kernel(c, total).op = "kernel"
         /\ Block!Kernel(c, total).total = total /\ Block!Kernel(c, total).k = d_k
         /\ Block!Array(c, f, total).call = c /\ Block!Array(c, f, total).op = "array"
         /\ Block!Array(c, f, total).total = total /\ Block!Array(c, f, total).k = d_k
         /\ Block!Array(c, f, total).f = f /\ Block!Array(c, f, total).port = 1
  BY DEF Block!Copy, Block!Memset, Block!Pointers, Block!Kernel, Block!Array

\* A work call enqueues the steps of its block.
LEMMA EnqueuedIs ==
  ASSUME Parameters, d_k \in 0..1, NEW c, NEW n \in Nat
  PROVE  /\ IsSeq(Block!Enqueued(c, n)) /\ Len(Block!Enqueued(c, n)) = Steps
         /\ \A s \in 1..Steps : IsStep(Block!Enqueued(c, n)[s], c, s, n)
<1> DEFINE Q == Block!Enqueued(c, n)
           Good(q) == /\ IsSeq(q) /\ Len(q) = Steps
                      /\ \A s \in 1..Steps : IsStep(q[s], c, s, n)
<1> SUFFICES Good(Q)
  OBVIOUS
<1>k. d_k \in 0..d_k
  OBVIOUS
<1>0. kind \in CopyKinds \cup KernelKinds \cup {"null_source"} \cup Block!CupyKinds
  BY BlocksAssumption DEF Parameters, CopyKinds, KernelKinds, PointerKinds
<1> USE DEF CopyKinds, KernelKinds, PointerKinds, Block!CupyKinds
<1>a. ASSUME NEW op, Steps = 1, IsStep(op, c, 1, n) PROVE Good(<<op>>)
  BY <1>a, OneOp
<1>b. ASSUME NEW op1, NEW op2, Steps = 2, IsStep(op1, c, 1, n), IsStep(op2, c, 2, n)
      PROVE  Good(<<op1, op2>>)
  BY <1>b, TwoOps
<1>1. CASE kind = "copy"
  <2>1. Q = <<Block!Copy(c, 1, n)>>
    BY <1>1 DEF Block!Enqueued, Block!copy
  <2>2. Steps = 1 /\ IsStep(Block!Copy(c, 1, n), c, 1, n)
    BY <1>1, <1>k, OpFields DEF Steps, IsStep, OpName, ArrayName, Scalars
  <2> QED
    BY <2>1, <2>2, <1>a
<1>2. CASE kind = "load"
  <2>1. Q = <<Block!Kernel(c, n)>>
    BY <1>2 DEF Block!Enqueued, Block!load
  <2>2. Steps = 1 /\ IsStep(Block!Kernel(c, n), c, 1, n)
    BY <1>2, <1>k, OpFields DEF Steps, IsStep, OpName, ArrayName, Scalars
  <2> QED
    BY <2>1, <2>2, <1>a
<1>3. CASE kind = "null_source"
  <2>1. Q = <<Block!Memset(c, 1, n)>>
    BY <1>3 DEF Block!Enqueued, Block!null_source
  <2>2. Steps = 1 /\ IsStep(Block!Memset(c, 1, n), c, 1, n)
    BY <1>3, <1>k, OpFields DEF Steps, IsStep, OpName, ArrayName, Scalars
  <2> QED
    BY <2>1, <2>2, <1>a
<1>4. CASE kind = "stream_to_vector"
  <2>1. Q = <<Block!Copy(c, 1, n * d_vlen)>>
    BY <1>4 DEF Block!Enqueued, Block!stream_to_vector
  <2>2. Steps = 1 /\ IsStep(Block!Copy(c, 1, n * d_vlen), c, 1, n)
    BY <1>4, <1>k, OpFields DEF Steps, IsStep, OpName, ArrayName, Scalars
  <2> QED
    BY <2>1, <2>2, <1>a
<1>5. CASE kind = "vector_to_stream"
  <2>1. Q = <<Block!Copy(c, 1, n)>>
    BY <1>5 DEF Block!Enqueued, Block!vector_to_stream
  <2>2. Steps = 1 /\ IsStep(Block!Copy(c, 1, n), c, 1, n)
    BY <1>5, <1>k, OpFields DEF Steps, IsStep, OpName, ArrayName, Scalars
  <2> QED
    BY <2>1, <2>2, <1>a
<1>6. CASE kind = "multiply_const"
  <2>1. Q = <<Block!Kernel(c, n * d_vlen)>>
    BY <1>6 DEF Block!Enqueued, Block!multiply_const
  <2>2. Steps = 1 /\ IsStep(Block!Kernel(c, n * d_vlen), c, 1, n)
    BY <1>6, <1>k, OpFields DEF Steps, IsStep, OpName, ArrayName, Scalars
  <2> QED
    BY <2>1, <2>2, <1>a
<1>7. CASE kind = "add_cupy"
  <2>1. Q = <<Block!Array(c, "sum", n * d_vlen)>>
    BY <1>7 DEF Block!Enqueued, Block!add_cupy
  <2>2. Steps = 1 /\ IsStep(Block!Array(c, "sum", n * d_vlen), c, 1, n)
    BY <1>7, <1>k, OpFields DEF Steps, IsStep, OpName, ArrayName, Scalars
  <2> QED
    BY <2>1, <2>2, <1>a
<1>8. CASE kind = "multiply_const_cupy"
  <2>1. Q = <<Block!Array(c, "times", n * d_vlen)>>
    BY <1>8 DEF Block!Enqueued, Block!multiply_const_cupy
  <2>2. Steps = 1 /\ IsStep(Block!Array(c, "times", n * d_vlen), c, 1, n)
    BY <1>8, <1>k, OpFields DEF Steps, IsStep, OpName, ArrayName, Scalars
  <2> QED
    BY <2>1, <2>2, <1>a
<1>9. CASE kind = "complex_to_mag_cupy"
  <2>1. Q = <<Block!Array(c, "abs", n * d_vlen)>>
    BY <1>9 DEF Block!Enqueued, Block!complex_to_mag_cupy
  <2>2. Steps = 1 /\ IsStep(Block!Array(c, "abs", n * d_vlen), c, 1, n)
    BY <1>9, <1>k, OpFields DEF Steps, IsStep, OpName, ArrayName, Scalars
  <2> QED
    BY <2>1, <2>2, <1>a
<1>10. CASE kind = "complex_to_mag_squared_cupy"
  <2>1. Q = <<Block!Array(c, "abs2", n * d_vlen)>>
    BY <1>10 DEF Block!Enqueued, Block!complex_to_mag_squared_cupy
  <2>2. Steps = 1 /\ IsStep(Block!Array(c, "abs2", n * d_vlen), c, 1, n)
    BY <1>10, <1>k, OpFields DEF Steps, IsStep, OpName, ArrayName, Scalars
  <2> QED
    BY <2>1, <2>2, <1>a
<1>11. CASE kind = "tee"
  <2>1. Q = <<Block!Copy(c, 1, n), Block!Copy(c, 2, n)>>
    BY <1>11 DEF Block!Enqueued, Block!tee
  <2>2. Steps = 2
    BY <1>11 DEF Steps
  <2>3. OpName(1) = "copy" /\ OpName(2) = "copy" /\ Scalars(n) = n
    BY <1>11 DEF OpName, Scalars
  <2>4. IsStep(Block!Copy(c, 1, n), c, 1, n)
    BY <1>11, <1>k, <2>3, OpFields DEF IsStep
  <2>5. IsStep(Block!Copy(c, 2, n), c, 2, n)
    BY <1>11, <1>k, <2>3, OpFields DEF IsStep
  <2> QED
    BY <2>1, <2>2, <2>4, <2>5, <1>b
<1>12. CASE kind = "add"
  <2>1. Q = <<Block!Pointers(c), Block!Kernel(c, n * d_vlen)>>
    BY <1>12 DEF Block!Enqueued, Block!add
  <2>2. Steps = 2
    BY <1>12 DEF Steps
  <2>3. OpName(1) = "pointers" /\ OpName(2) = "kernel" /\ Scalars(n) = n * d_vlen
    BY <1>12 DEF OpName, Scalars
  <2>4. IsStep(Block!Pointers(c), c, 1, n)
    BY <1>12, <1>k, <2>3, OpFields DEF IsStep
  <2>5. IsStep(Block!Kernel(c, n * d_vlen), c, 2, n)
    BY <1>12, <1>k, <2>3, OpFields DEF IsStep
  <2> QED
    BY <2>1, <2>2, <2>4, <2>5, <1>b
<1>13. CASE kind = "streams_to_vector"
  <2>1. Q = <<Block!Pointers(c), Block!Kernel(c, n * d_num_streams)>>
    BY <1>13 DEF Block!Enqueued, Block!streams_to_vector
  <2>2. Steps = 2
    BY <1>13 DEF Steps
  <2>3. OpName(1) = "pointers" /\ OpName(2) = "kernel" /\ Scalars(n) = n * d_num_streams
    BY <1>13 DEF OpName, Scalars
  <2>4. IsStep(Block!Pointers(c), c, 1, n)
    BY <1>13, <1>k, <2>3, OpFields DEF IsStep
  <2>5. IsStep(Block!Kernel(c, n * d_num_streams), c, 2, n)
    BY <1>13, <1>k, <2>3, OpFields DEF IsStep
  <2> QED
    BY <2>1, <2>2, <2>4, <2>5, <1>b
<1>14. CASE kind = "vector_to_streams"
  <2>1. Q = <<Block!Pointers(c), Block!Kernel(c, n * d_num_streams)>>
    BY <1>14 DEF Block!Enqueued, Block!vector_to_streams
  <2>2. Steps = 2
    BY <1>14 DEF Steps
  <2>3. OpName(1) = "pointers" /\ OpName(2) = "kernel" /\ Scalars(n) = n * d_num_streams
    BY <1>14 DEF OpName, Scalars
  <2>4. IsStep(Block!Pointers(c), c, 1, n)
    BY <1>14, <1>k, <2>3, OpFields DEF IsStep
  <2>5. IsStep(Block!Kernel(c, n * d_num_streams), c, 2, n)
    BY <1>14, <1>k, <2>3, OpFields DEF IsStep
  <2> QED
    BY <2>1, <2>2, <2>4, <2>5, <1>b
<1>15. CASE kind = "nlog10_cupy"
  <2> DEFINE log == Block!Array(c, "log10", n * d_vlen)
             times == Block!Array(c, "times n", n * d_vlen)
             plus == Block!Array(c, "plus k", n * d_vlen)
             second == IF n_is_1 THEN <<>> ELSE <<times>>
             third == IF k_is_0 THEN <<>> ELSE <<plus>>
  <2>1. Q = <<log>> \o second \o third
    BY <1>15 DEF Block!Enqueued, Block!nlog10_cupy
  <2>2. IsStep(log, c, 1, n)
    BY <1>15, <1>k, OpFields DEF IsStep, OpName, ArrayName, Scalars
  <2>a. /\ \A s : OpName(s) = "array"
        /\ Scalars(n) = n * d_vlen
        /\ (~n_is_1 => ArrayName(2) = "times n")
        /\ (n_is_1 => ArrayName(2) = "plus k")
        /\ ArrayName(3) = "plus k"
    BY <1>15 DEF OpName, Scalars, ArrayName
  <2>b. /\ times.call = c /\ times.op = "array" /\ times.total = n * d_vlen
        /\ times.f = "times n" /\ times.k = d_k /\ times.port = 1
        /\ plus.call = c /\ plus.op = "array" /\ plus.total = n * d_vlen
        /\ plus.f = "plus k" /\ plus.k = d_k /\ plus.port = 1 /\ kind # "tee"
    BY <1>15 DEF Block!Array
  <2>3. ~n_is_1 => IsStep(times, c, 2, n)
    <3> HIDE DEF times
    <3> SUFFICES ASSUME ~n_is_1 PROVE IsStep(times, c, 2, n)
      OBVIOUS
    <3>1. ArrayName(2) = "times n" /\ OpName(2) = "array"
      BY <2>a
    <3> QED
      BY <1>k, <2>a, <2>b, <3>1 DEF IsStep
  <2>4. ASSUME ~k_is_0, NEW s \in 2..3, s = 3 \/ n_is_1 PROVE IsStep(plus, c, s, n)
    <3> HIDE DEF plus
    <3>1. ArrayName(s) = "plus k" /\ OpName(s) = "array"
      <4>1. s = 2 \/ s = 3
        OBVIOUS
      <4>2. s = 2 => n_is_1
        <5>1. s = 2 => s # 3
          OBVIOUS
        <5> QED
          BY <2>4, <5>1
      <4> QED
        BY <2>a, <4>1, <4>2
    <3> QED
      BY <1>k, <2>a, <2>b, <3>1 DEF IsStep
  <2>5. /\ IsSeq(<<log>>) /\ Len(<<log>>) = 1 /\ <<log>>[1] = log
        /\ IsSeq(second) /\ Len(second) = IF n_is_1 THEN 0 ELSE 1
        /\ IsSeq(third) /\ Len(third) = IF k_is_0 THEN 0 ELSE 1
        /\ (~n_is_1 => second[1] = times)
        /\ (~k_is_0 => third[1] = plus)
    <3> HIDE DEF log, times, plus
    <3> QED
      BY NoOp, OneOp
  <2>6. Steps = 1 + (IF n_is_1 THEN 0 ELSE 1) + (IF k_is_0 THEN 0 ELSE 1)
    BY <1>15 DEF Steps
  <2> DEFINE front == <<log>> \o second
  <2> HIDE DEF log, times, plus, second, third
  <2>7. /\ IsSeq(front) /\ Len(front) = 1 + Len(second) /\ front[1] = log
        /\ (~n_is_1 => front[2] = times)
    <3>1. /\ IsSeq(front) /\ Len(front) = Len(<<log>>) + Len(second)
          /\ \A s \in 1..Len(<<log>>) : front[s] = <<log>>[s]
          /\ \A s \in 1..Len(second) : front[Len(<<log>>) + s] = second[s]
      <4>1. IsSeq(<<log>>) /\ IsSeq(second)
        BY <2>5
      <4> QED
        BY <4>1, ConcatIs
    <3>2. 1 \in 1..Len(<<log>>) /\ (~n_is_1 => 1 \in 1..Len(second))
      BY <2>5
    <3> HIDE DEF front
    <3> QED
      BY <2>5, <3>1, <3>2
  <2> HIDE DEF front
  <2>8. /\ IsSeq(front \o third) /\ Len(front \o third) = Len(front) + Len(third)
        /\ (front \o third)[1] = log
        /\ (~n_is_1 => (front \o third)[2] = times)
        /\ (~k_is_0 => (front \o third)[Len(front) + 1] = plus)
    <3>1. /\ IsSeq(front \o third) /\ Len(front \o third) = Len(front) + Len(third)
          /\ \A s \in 1..Len(front) : (front \o third)[s] = front[s]
          /\ \A s \in 1..Len(third) : (front \o third)[Len(front) + s] = third[s]
      <4>1. IsSeq(front) /\ IsSeq(third)
        BY <2>5, <2>7
      <4> QED
        BY <4>1, ConcatIs
    <3>2. 1 \in 1..Len(front) /\ (~n_is_1 => 2 \in 1..Len(front))
          /\ (~k_is_0 => 1 \in 1..Len(third))
      BY <2>5, <2>7
    <3> QED
      BY <2>5, <2>7, <3>1, <3>2
  <2>9. Q = front \o third
    BY <2>1 DEF front
  <2>10. ASSUME NEW s \in 1..Steps PROVE IsStep(Q[s], c, s, n)
    <3>1. CASE s = 1
      BY <2>2, <2>8, <2>9, <3>1
    <3>2. CASE ~n_is_1 /\ s = 2
      BY <2>3, <2>8, <2>9, <3>2
    <3>3. CASE s # 1 /\ ~(~n_is_1 /\ s = 2)
      <4>1. ~k_is_0 /\ s = Len(front) + 1 /\ s \in 2..3 /\ (s = 3 \/ n_is_1)
        BY <2>5, <2>6, <2>7, <3>3
      <4>2. Q[s] = plus
        BY <2>8, <2>9, <4>1
      <4> QED
        BY <2>4, <4>1, <4>2
    <3> QED
      BY <3>1, <3>2, <3>3
  <2>11. Len(Q) = Steps
    <3> HIDE DEF Q
    <3> QED
      BY <2>5, <2>6, <2>7, <2>8, <2>9
  <2> QED
    <3> HIDE DEF Q
    <3> QED
      BY <2>8, <2>9, <2>10, <2>11
<1> QED
  BY <1>0, <1>1, <1>2, <1>3, <1>4, <1>5, <1>6, <1>7, <1>8, <1>9, <1>10, <1>11, <1>12, <1>13, <1>14, <1>15

-----------------------------------------------------------------------------
(* What the steps of a call make.                                          *)

Executed == First(Steps, Len(batch) + 1) - Len(stream)

\* The ports that are right after step s, and the scalars in them.
PortsOf(s) ==
  IF kind = "tee" THEN 1..s
  ELSE IF kind \in PointerKinds /\ s = 1 THEN {}
  ELSE IF kind = "vector_to_streams" THEN 1..d_num_streams
  ELSE {1}

Logarithm(c, s, i) ==
  LET log == <<"log10", Block!In(c, 1, i)>>
      scaled == IF s = 1 \/ n_is_1 THEN log ELSE <<"times n", log>>
  IN IF s = Steps /\ ~k_is_0 THEN <<"plus k", scaled>> ELSE scaled

ScalarOf(c, s, k, p, i) ==
  IF kind \in {"copy", "load", "tee", "stream_to_vector", "vector_to_stream"}
    THEN Block!In(c, 1, i)
  ELSE IF kind = "null_source" THEN <<"zero">>
  ELSE IF kind \in {"multiply_const", "multiply_const_cupy"}
    THEN <<"times", k, Block!In(c, 1, i)>>
  ELSE IF kind = "complex_to_mag_cupy" THEN <<"abs", Block!In(c, 1, i)>>
  ELSE IF kind = "complex_to_mag_squared_cupy" THEN <<"abs2", Block!In(c, 1, i)>>
  ELSE IF kind \in {"add", "add_cupy"}
    THEN <<"sum", [q \in 1..d_num_streams |-> Block!In(c, q, i)]>>
  ELSE IF kind = "streams_to_vector"
    THEN Block!In(c, (i % d_num_streams) + 1, i \div d_num_streams)
  ELSE IF kind = "vector_to_streams"
    THEN Block!In(c, 1, i * d_num_streams + p - 1)
  ELSE Logarithm(c, s, i)

Made(c, s) ==
  \E k \in 0..d_k :
    \A p \in PortsOf(s), i \in 0..(Block!OutScalars(batch[c]) - 1) :
      out[c][p][i + 1] = ScalarOf(c, s, k, p, i)

\* Where thread idx of a kernel writes.
PortOf(idx) == IF kind = "vector_to_streams" THEN (idx % d_num_streams) + 1 ELSE 1
IndexOf(idx) == IF kind = "vector_to_streams" THEN idx \div d_num_streams ELSE idx

\* The threads that have run have written what they should.
RanRight ==
  IF stream # <<>> /\ Head(stream).op = "kernel"
    THEN LET op == Head(stream) IN
         /\ ran \subseteq 0..(op.total - 1)
         /\ \A idx \in ran :
              out[op.call][PortOf(idx)][IndexOf(idx) + 1]
                = ScalarOf(op.call, Steps, op.k, PortOf(idx), IndexOf(idx))
    ELSE ran = {}

IsOutput(x, n) ==
  /\ x = [p \in 1..Block!OutPorts |-> x[p]]
  /\ \A p \in 1..Block!OutPorts : x[p] = [i \in 1..Block!OutScalars(n) |-> x[p][i]]

Calls ==
  /\ IsSeq(stream) /\ IsSeq(batch) /\ IsSeq(out) /\ Len(out) = Len(batch)
  /\ Executed \in Nat
  /\ \A c \in 1..Len(batch) : batch[c] \in Nat /\ IsOutput(out[c], batch[c])
  /\ \A i \in 1..Len(stream) :
       IsStep(stream[i], CallAt(Steps, Executed + i), StepAt(Steps, Executed + i),
              batch[CallAt(Steps, Executed + i)])

Results ==
  /\ kind \in PointerKinds =>
       \A c \in 1..Len(batch) : Executed = First(Steps, c) + 1 => ptrs_dev = c
  /\ RanRight
  /\ \A c \in 1..Len(batch), s \in 1..Steps :
       Latest(Steps, Executed, c, s) => Made(c, s)

BlockInv == Parameters /\ d_k \in 0..1 /\ Calls /\ Results

LEMMA BlockStarts == Block!Init => BlockInv
<1> SUFFICES ASSUME Block!Init PROVE BlockInv
  OBVIOUS
<1>1. Parameters /\ d_k \in 0..1
  BY BlocksAssumption DEF Block!Init, Parameters
<1>2. stream = <<>> /\ batch = <<>> /\ out = <<>> /\ ran = {}
  BY DEF Block!Init
<1>3. IsSeq(<<>>) /\ Len(<<>>) = 0
  BY NoOp
<1>4. Executed = 0
  <2>1. First(Steps, 1) = 0
    BY StepsAre DEF First
  <2> QED
    BY <1>2, <1>3, <2>1 DEF Executed
<1>5. Calls
  BY <1>2, <1>3, <1>4 DEF Calls
<1>6. Results
  BY <1>2, <1>3 DEF Results, RanRight
<1> QED
  BY <1>1, <1>5, <1>6 DEF BlockInv

\* The number of a call's scalars, and of the threads of its kernel.
LEMMA Product == \A m, n \in Nat : m * n \in Nat
  OBVIOUS

LEMMA ScalarsAre ==
  ASSUME Parameters, NEW n \in Nat
  PROVE  Scalars(n) \in Nat /\ Block!OutScalars(n) \in Nat
         /\ Block!OutPorts \in Nat /\ Block!OutPorts > 0
<1>1. n * d_vlen \in Nat /\ n * d_num_streams \in Nat
      /\ d_num_streams \in Nat /\ d_num_streams > 0
  BY Product DEF Parameters
<1>2. Scalars(n) \in Nat
  BY <1>1 DEF Scalars
<1>3. Block!OutScalars(n) \in Nat
  BY <1>1 DEF Block!OutScalars
<1>4. Block!OutPorts \in Nat /\ Block!OutPorts > 0
  BY <1>1 DEF Block!OutPorts
<1> QED
  BY <1>2, <1>3, <1>4

\* A kernel for vector_to_streams has a thread for each scalar of all outputs.
LEMMA ScalarsFill ==
  ASSUME Parameters, NEW n \in Nat
  PROVE  IF kind = "vector_to_streams"
           THEN Scalars(n) = Block!OutScalars(n) * d_num_streams
                /\ Block!OutPorts = d_num_streams
           ELSE Scalars(n) = Block!OutScalars(n)
<1>0. kind \in CopyKinds \cup KernelKinds \cup {"null_source"} \cup Block!CupyKinds
  BY BlocksAssumption DEF Parameters, CopyKinds, KernelKinds, PointerKinds
<1> QED
  BY <1>0 DEF Scalars, Block!OutScalars, Block!OutPorts, CopyKinds, KernelKinds,
              PointerKinds, Block!CupyKinds

\* The threads that pass the test of a kernel.
LEMMA ThreadsAre ==
  ASSUME NEW total \in Nat
  PROVE  Block!Threads(total) = 0..(total - 1)
<1>1. kBlockSize \in Nat /\ kBlockSize > 0
  BY FftAssumption
<1> DEFINE g == (total + kBlockSize - 1) \div kBlockSize
           r == (total + kBlockSize - 1) % kBlockSize
<1>2. g \in Nat /\ r \in Nat /\ r < kBlockSize
      /\ total + kBlockSize - 1 = kBlockSize * g + r
  BY <1>1, DivisionIs
<1> HIDE DEF g, r
<1>3. g * kBlockSize = kBlockSize * g /\ kBlockSize * g \in Nat
  BY <1>1, <1>2
<1>4. total <= g * kBlockSize
  BY <1>1, <1>2, <1>3
<1>5. Block!Threads(total) = {idx \in 0..(g * kBlockSize - 1) : idx < total}
  BY DEF Block!Threads, Block!GridSize, g
<1> QED
  BY <1>3, <1>4, <1>5

-----------------------------------------------------------------------------
(* The steps of a block.                                                   *)

\* The parameters of a block do not change, and neither does what is meant by
\* its steps.
LEMMA Frame ==
  ASSUME UNCHANGED Block!block
  PROVE  /\ Parameters' = Parameters /\ Steps' = Steps
         /\ Block!OutPorts' = Block!OutPorts
         /\ \A n : Scalars(n)' = Scalars(n) /\ Block!OutScalars(n)' = Block!OutScalars(n)
         /\ \A s : /\ PortsOf(s)' = PortsOf(s) /\ OpName(s)' = OpName(s)
                   /\ ArrayName(s)' = ArrayName(s)
         /\ \A idx : PortOf(idx)' = PortOf(idx) /\ IndexOf(idx)' = IndexOf(idx)
         /\ \A c, s, k, p, i : ScalarOf(c, s, k, p, i)' = ScalarOf(c, s, k, p, i)
<1> USE DEF Block!block
<1>0. /\ kind' = kind /\ d_vlen' = d_vlen /\ d_num_streams' = d_num_streams
      /\ n_is_1' = n_is_1 /\ k_is_0' = k_is_0
  OBVIOUS
<1>1. Parameters' = Parameters /\ Steps' = Steps
  BY <1>0 DEF Parameters, Steps
<1>2. Block!OutPorts' = Block!OutPorts
  BY <1>0 DEF Block!OutPorts
<1>3. ASSUME NEW n
      PROVE  Scalars(n)' = Scalars(n) /\ Block!OutScalars(n)' = Block!OutScalars(n)
  BY <1>0 DEF Scalars, Block!OutScalars
<1>4. ASSUME NEW s
      PROVE  /\ PortsOf(s)' = PortsOf(s) /\ OpName(s)' = OpName(s)
             /\ ArrayName(s)' = ArrayName(s)
  BY <1>0 DEF PortsOf, OpName, ArrayName
<1>5. ASSUME NEW idx PROVE PortOf(idx)' = PortOf(idx) /\ IndexOf(idx)' = IndexOf(idx)
  BY <1>0 DEF PortOf, IndexOf
<1>6. ASSUME NEW c, NEW s, NEW k, NEW p, NEW i
      PROVE  ScalarOf(c, s, k, p, i)' = ScalarOf(c, s, k, p, i)
  BY <1>0, <1>1 DEF ScalarOf, Logarithm
<1> QED
  BY <1>1, <1>2, <1>3, <1>4, <1>5, <1>6

LEMMA StepStays ==
  ASSUME UNCHANGED Block!block, d_k \in 0..1, d_k' \in 0..1, d_k <= d_k',
         NEW op, NEW c, NEW s, NEW n, IsStep(op, c, s, n)
  PROVE  IsStep(op, c, s, n)'
<1>1. 0..d_k \subseteq 0..d_k'
  OBVIOUS
<1>2. kind' = kind
  BY DEF Block!block
<1> QED
  BY <1>1, <1>2, Frame DEF IsStep

LEMMA OutputStays ==
  ASSUME UNCHANGED Block!block, NEW x, NEW n, IsOutput(x, n)
  PROVE  IsOutput(x, n)'
  BY Frame DEF IsOutput

LEMMA MadeStays ==
  ASSUME UNCHANGED Block!block, d_k \in 0..1, d_k' \in 0..1, d_k <= d_k',
         NEW c, NEW s, Made(c, s), out'[c] = out[c], batch'[c] = batch[c]
  PROVE  Made(c, s)'
<1>1. PICK k \in 0..d_k :
        \A p \in PortsOf(s), i \in 0..(Block!OutScalars(batch[c]) - 1) :
          out[c][p][i + 1] = ScalarOf(c, s, k, p, i)
  BY DEF Made
<1>2. k \in 0..d_k'
  OBVIOUS
<1>3. PortsOf(s)' = PortsOf(s) /\ \A n : Block!OutScalars(n)' = Block!OutScalars(n)
  BY Frame
<1>4. ASSUME NEW p \in PortsOf(s), NEW i \in 0..(Block!OutScalars(batch[c]) - 1)
      PROVE  out'[c][p][i + 1] = ScalarOf(c, s, k, p, i)'
  BY <1>1, Frame
<1> QED
  BY <1>2, <1>3, <1>4 DEF Made

\* The first operation of the stream is a step of some call.
LEMMA HeadIs ==
  ASSUME BlockInv, stream # <<>>
  PROVE  \E c \in 1..Len(batch), s \in 1..Steps :
           Executed + 1 = First(Steps, c) + s /\ IsStep(Head(stream), c, s, batch[c])
<1>1. Len(stream) \in Nat /\ Len(stream) > 0 /\ Head(stream) = stream[1]
      /\ Len(batch) \in Nat
  BY LenIs DEF BlockInv, Calls
<1>2. Executed = First(Steps, Len(batch) + 1) - Len(stream) /\ Executed \in Nat
  BY DEF Executed, BlockInv, Calls
<1>3. 1 \in 1..Len(stream) /\ Steps \in Nat /\ Steps > 0
  BY <1>1, StepsAre
<1>4. /\ CallAt(Steps, Executed + 1) \in 1..Len(batch)
      /\ StepAt(Steps, Executed + 1) \in 1..Steps
      /\ Executed + 1 = First(Steps, CallAt(Steps, Executed + 1))
                          + StepAt(Steps, Executed + 1)
  BY <1>1, <1>2, <1>3, LeftIs
<1>5. IsStep(Head(stream), CallAt(Steps, Executed + 1), StepAt(Steps, Executed + 1),
             batch[CallAt(Steps, Executed + 1)])
  BY <1>1, <1>3 DEF BlockInv, Calls
<1> QED
  BY <1>4, <1>5

\* The end of an operation: what is left to show is what it has made.
LEMMA PopStep ==
  ASSUME BlockInv, stream # <<>>,
         NEW c \in 1..Len(batch), NEW s \in 1..Steps,
         Executed + 1 = First(Steps, c) + s,
         UNCHANGED <<Block!block, d_k, batch>>, stream' = Tail(stream), ran' = {},
         IsSeq(out'), Len(out') = Len(out), IsOutput(out'[c], batch[c]),
         \A d \in 1..Len(batch) : d # c => out'[d] = out[d],
         kind \in PointerKinds => ptrs_dev' = IF s = 1 THEN c ELSE ptrs_dev,
         Made(c, s)'
  PROVE  BlockInv'
<1> USE DEF BlockInv
<1>1. Steps \in Nat /\ Steps > 0 /\ Steps' = Steps /\ kind' = kind /\ Len(batch) \in Nat
  BY StepsAre, Frame, LenIs DEF Block!block, Calls
<1>2. /\ IsSeq(stream') /\ Len(stream') = Len(stream) - 1
      /\ \A i \in 1..Len(stream') : stream'[i] = stream[i + 1]
      /\ Len(stream) \in Nat /\ Len(stream) > 0
  BY TailIs, LenIs DEF Calls
<1>3. Executed' = Executed + 1 /\ Executed \in Nat
  <2>1. First(Steps, Len(batch) + 1) \in Nat
    <3>1. Len(batch) + 1 \in Nat /\ Len(batch) + 1 > 0
      BY <1>1
    <3> QED
      BY <1>1, <3>1, FirstIs
  <2> QED
    BY <1>1, <1>2, <2>1 DEF Executed, Calls
<1>4. Parameters' /\ d_k' \in 0..1
  BY Frame
<1>5. Calls'
  <2>1. ASSUME NEW d \in 1..Len(batch)
        PROVE  batch'[d] \in Nat /\ IsOutput(out[d], batch[d])'
    <3>1. IsOutput(out'[d], batch[d])
      BY DEF Calls
    <3>2. batch' = batch /\ batch[d] \in Nat
      BY DEF Calls
    <3>3. /\ Block!OutPorts' = Block!OutPorts
          /\ \A n : Block!OutScalars(n)' = Block!OutScalars(n)
      BY Frame
    <3> QED
      BY <3>1, <3>2, <3>3 DEF IsOutput
  <2>2. ASSUME NEW i \in 1..Len(stream')
        PROVE  IsStep(stream[i], CallAt(Steps, Executed + i), StepAt(Steps, Executed + i),
                      batch[CallAt(Steps, Executed + i)])'
    <3>1. i + 1 \in 1..Len(stream) /\ Executed' + i = Executed + (i + 1)
      BY <1>2, <1>3
    <3> DEFINE d == CallAt(Steps, Executed + (i + 1))
               r == StepAt(Steps, Executed + (i + 1))
    <3>2. IsStep(stream[i + 1], d, r, batch[d])
      BY <3>1 DEF Calls
    <3>3. /\ stream'[i] = stream[i + 1]
          /\ CallAt(Steps, Executed + i)' = d /\ StepAt(Steps, Executed + i)' = r
      BY <1>1, <1>2, <3>1 DEF CallAt, StepAt
    <3> HIDE DEF d, r
    <3> QED
      BY <3>2, <3>3, <1>1, Frame DEF IsStep
  <2>3. Executed' \in Nat /\ IsSeq(out') /\ Len(out') = Len(batch') /\ IsSeq(batch')
        /\ Len(batch') = Len(batch)
    BY <1>3 DEF Calls
  <2> QED
    BY <1>2, <2>1, <2>2, <2>3 DEF Calls
<1>6. Results'
  <2>1. ASSUME NEW d \in 1..Len(batch), kind \in PointerKinds,
               Executed + 1 = First(Steps, d) + 1
        PROVE  ptrs_dev' = d
    <3>1. CallAt(Steps, First(Steps, c) + s) = c /\ StepAt(Steps, First(Steps, c) + s) = s
      <4>1. c \in Nat /\ c > 0
        OBVIOUS
      <4> QED
        BY <1>1, <4>1, NumberOf
    <3>2. CallAt(Steps, First(Steps, d) + 1) = d /\ StepAt(Steps, First(Steps, d) + 1) = 1
      <4>1. d \in Nat /\ d > 0 /\ 1 \in 1..Steps
        BY <1>1
      <4> QED
        BY <1>1, <4>1, NumberOf
    <3> QED
      BY <2>1, <3>1, <3>2
  <2>2. RanRight'
    BY DEF RanRight
  <2>3. ASSUME NEW d \in 1..Len(batch), NEW r \in 1..Steps,
               Latest(Steps, Executed + 1, d, r)
        PROVE  Made(d, r)'
    <3>1. (d = c /\ r = s) \/ (d # c /\ Latest(Steps, Executed, d, r))
      BY SMTT(40), <1>1, <1>3, <2>3, LatestMoves
    <3>2. CASE d = c /\ r = s
      BY <3>2
    <3>3. CASE d # c /\ Latest(Steps, Executed, d, r)
      <4>1. Made(d, r)
        BY <3>3 DEF Results
      <4>2. out'[d] = out[d] /\ d_k' = d_k /\ batch' = batch
        BY <3>3
      <4> QED
        BY <4>1, <4>2, MadeStays
    <3> QED
      BY <3>1, <3>2, <3>3
  <2>4. ASSUME NEW d, NEW r
        PROVE  Latest(Steps, Executed, d, r)' <=> Latest(Steps, Executed + 1, d, r)
    BY <1>1, <1>3 DEF Latest, First
  <2> QED
    BY <1>1, <1>3, <2>1, <2>2, <2>3, <2>4 DEF Results
<1> QED
  BY <1>4, <1>5, <1>6

\* The factor may be set at any time; nothing else changes.
LEMMA FactorStep ==
  ASSUME BlockInv, UNCHANGED <<Block!block, ptrs_dev, stream, ran, batch, out>>,
         d_k' \in 0..1, d_k <= d_k'
  PROVE  BlockInv'
<1> USE DEF BlockInv
<1>1. /\ UNCHANGED Block!block
      /\ stream' = stream /\ batch' = batch /\ out' = out /\ ran' = ran
      /\ ptrs_dev' = ptrs_dev
  OBVIOUS
<1>2. /\ Steps' = Steps /\ kind' = kind /\ Executed' = Executed /\ Parameters'
      /\ d_k' \in 0..1 /\ d_k <= d_k'
  BY <1>1, Frame DEF Executed, First, Block!block
<1>3. Calls'
  <2>1. ASSUME NEW d \in 1..Len(batch) PROVE IsOutput(out[d], batch[d])'
    <3>1. IsOutput(out[d], batch[d])
      BY DEF Calls
    <3>2. /\ Block!OutPorts' = Block!OutPorts
          /\ \A n : Block!OutScalars(n)' = Block!OutScalars(n)
      BY <1>1, Frame
    <3> QED
      BY <1>1, <3>1, <3>2 DEF IsOutput
  <2>2. ASSUME NEW i \in 1..Len(stream)
        PROVE  IsStep(stream[i], CallAt(Steps, Executed + i), StepAt(Steps, Executed + i),
                      batch[CallAt(Steps, Executed + i)])'
    <3> DEFINE d == CallAt(Steps, Executed + i)
               r == StepAt(Steps, Executed + i)
    <3>1. IsStep(stream[i], d, r, batch[d])
      BY DEF Calls
    <3>2. CallAt(Steps, Executed + i)' = d /\ StepAt(Steps, Executed + i)' = r
      BY <1>2 DEF CallAt, StepAt
    <3> HIDE DEF d, r
    <3>3. 0..d_k \subseteq 0..d_k'
      BY <1>2
    <3> QED
      BY <1>1, <1>2, <3>1, <3>2, <3>3, Frame DEF IsStep
  <2> QED
    BY <1>1, <1>2, <2>1, <2>2 DEF Calls
<1>4. Results'
  <2>1. RanRight'
    BY <1>1, <1>2, Frame DEF Results, RanRight
  <2>2. ASSUME NEW d \in 1..Len(batch), NEW r \in 1..Steps, Latest(Steps, Executed, d, r)
        PROVE  Made(d, r)'
    <3>1. Made(d, r)
      BY <2>2 DEF Results
    <3> QED
      BY <1>1, <1>2, <3>1, MadeStays
  <2>3. ASSUME NEW d, NEW r
        PROVE  Latest(Steps, Executed, d, r)' <=> Latest(Steps, Executed, d, r)
    BY <1>2 DEF Latest, First
  <2>4. \A d : First(Steps, d)' = First(Steps, d)
    BY <1>2 DEF First
  <2> QED
    BY <1>1, <1>2, <2>1, <2>2, <2>3, <2>4 DEF Results
<1> QED
  BY <1>2, <1>3, <1>4

LEMMA WorkStep ==
  ASSUME BlockInv, NEW n \in Nat, Block!Work(n)
  PROVE  BlockInv'
<1> USE DEF BlockInv
<1> DEFINE c == Len(batch) + 1
           new == Block!Enqueued(c, n)
           fresh == [p \in 1..Block!OutPorts |-> [i \in 1..Block!OutScalars(n) |-> Block!Unset]]
<1>1. /\ UNCHANGED Block!block /\ d_k' = d_k /\ ran' = ran /\ ptrs_dev' = ptrs_dev
      /\ batch' = Append(batch, n) /\ stream' = stream \o new
      /\ out' = Append(out, fresh)
  BY DEF Block!Work
<1>2. IsSeq(new) /\ Len(new) = Steps /\ \A s \in 1..Steps : IsStep(new[s], c, s, n)
  BY EnqueuedIs
<1> HIDE DEF new
<1>3. /\ Steps' = Steps /\ kind' = kind /\ Parameters' /\ d_k' \in 0..1
      /\ Steps \in Nat /\ Steps > 0
  BY <1>1, Frame, StepsAre DEF Block!block
<1>4. /\ Len(batch) \in Nat /\ Len(stream) \in Nat /\ Len(out) = Len(batch)
      /\ IsSeq(batch) /\ IsSeq(stream) /\ IsSeq(out)
      /\ c \in Nat /\ c > 0
  BY LenIs DEF Calls
<1>5. /\ IsSeq(batch') /\ Len(batch') = c /\ batch'[c] = n
      /\ \A d \in 1..Len(batch) : batch'[d] = batch[d]
  BY <1>1, <1>4, AppendIs
<1>6. /\ IsSeq(out') /\ Len(out') = c /\ out'[c] = fresh
      /\ \A d \in 1..Len(batch) : out'[d] = out[d]
  <2> HIDE DEF fresh
  <2> QED
    BY <1>1, <1>4, AppendIs
<1>7. /\ IsSeq(stream') /\ Len(stream') = Len(stream) + Steps
      /\ \A i \in 1..Len(stream) : stream'[i] = stream[i]
      /\ \A i \in 1..Steps : stream'[Len(stream) + i] = new[i]
  <2>1. IsSeq(stream) /\ IsSeq(new) /\ Len(new) = Steps /\ stream' = stream \o new
    BY <1>1, <1>2, <1>4
  <2>2. /\ IsSeq(stream \o new) /\ Len(stream \o new) = Len(stream) + Len(new)
        /\ \A i \in 1..Len(stream) : (stream \o new)[i] = stream[i]
        /\ \A i \in 1..Len(new) : (stream \o new)[Len(stream) + i] = new[i]
    <3>1. IsSeq(stream) /\ IsSeq(new)
      BY <2>1
    <3> QED
      BY <3>1, ConcatIs
  <2> QED
    BY <2>1, <2>2
<1>8. /\ First(Steps, c) \in Nat /\ First(Steps, c + 1) = First(Steps, c) + Steps
      /\ Executed = First(Steps, c) - Len(stream) /\ Executed \in Nat
      /\ Executed <= First(Steps, c)
  <2>1. First(Steps, c) \in Nat /\ First(Steps, c + 1) = First(Steps, c) + Steps
    BY <1>3, <1>4, FirstIs
  <2>2. Executed = First(Steps, c) - Len(stream) /\ Executed \in Nat
    BY DEF Executed, Calls
  <2> QED
    BY <1>4, <2>1, <2>2
<1>9. Executed' = Executed
  <2>1. Executed' = First(Steps', Len(batch') + 1) - Len(stream')
    BY DEF Executed, First
  <2>2. Executed' = First(Steps, c + 1) - (Len(stream) + Steps)
    BY <1>3, <1>5, <1>7, <2>1
  <2> QED
    BY <1>3, <1>4, <1>8, <2>2
<1>10. Calls'
  <2>1. ASSUME NEW d \in 1..c
        PROVE  batch'[d] \in Nat /\ IsOutput(out[d], batch[d])'
    <3>0. /\ Block!OutPorts' = Block!OutPorts
          /\ \A m : Block!OutScalars(m)' = Block!OutScalars(m)
      BY <1>1, Frame
    <3>1. CASE d = c
      BY <1>5, <1>6, <3>0, <3>1 DEF IsOutput
    <3>2. CASE d \in 1..Len(batch)
      <4>1. IsOutput(out[d], batch[d]) /\ batch[d] \in Nat
        BY <3>2 DEF Calls
      <4>2. out'[d] = out[d] /\ batch'[d] = batch[d]
        BY <1>5, <1>6, <3>2
      <4> QED
        BY <3>0, <4>1, <4>2 DEF IsOutput
    <3> QED
      BY <1>4, <3>1, <3>2
  <2>2. ASSUME NEW i \in 1..Len(stream')
        PROVE  IsStep(stream[i], CallAt(Steps, Executed + i), StepAt(Steps, Executed + i),
                      batch[CallAt(Steps, Executed + i)])'
    <3> DEFINE d == CallAt(Steps, Executed + i)
               r == StepAt(Steps, Executed + i)
    <3>1. CallAt(Steps, Executed + i)' = d /\ StepAt(Steps, Executed + i)' = r
      BY <1>3, <1>9 DEF CallAt, StepAt
    <3>2. IsStep(stream'[i], d, r, batch'[d])
      <4>1. CASE i \in 1..Len(stream)
        <5>1. IsStep(stream[i], d, r, batch[d])
          BY <4>1 DEF Calls
        <5>2. d \in 1..Len(batch)
          BY <1>3, <1>4, <1>8, <4>1, LeftIs
        <5> HIDE DEF d, r
        <5> QED
          BY <1>5, <1>7, <4>1, <5>1, <5>2
      <4>2. CASE i \in (Len(stream) + 1)..(Len(stream) + Steps)
        <5> DEFINE s == i - Len(stream)
        <5>1. s \in 1..Steps /\ Executed + i = First(Steps, c) + s /\ i = Len(stream) + s
          <6> HIDE DEF c
          <6> QED
            BY SMTT(40), <1>3, <1>4, <1>8, <4>2, PlaceBehind
        <5>2. d = c /\ r = s
          BY <1>3, <1>4, <5>1, NumberOf
        <5>3. stream'[i] = new[s]
          BY <1>7, <5>1
        <5> HIDE DEF d, r, s
        <5> QED
          BY <1>2, <1>5, <5>1, <5>2, <5>3
      <4> QED
        BY <1>3, <1>4, <1>7, <4>1, <4>2
    <3> HIDE DEF d, r
    <3> QED
      BY <1>1, <1>3, <3>1, <3>2, Frame DEF IsStep
  <2> QED
    BY <1>5, <1>6, <1>7, <1>8, <1>9, <2>1, <2>2 DEF Calls
<1>11. Results'
  <2>1. ASSUME NEW d \in 1..c, kind \in PointerKinds, Executed = First(Steps, d) + 1
        PROVE  ptrs_dev' = d
    <3>1. d # c
      BY <1>8, <2>1
    <3>2. d \in 1..Len(batch)
      BY <1>4, <3>1
    <3> QED
      BY <1>1, <2>1, <3>2 DEF Results
  <2>2. RanRight'
    <3>1. CASE stream = <<>>
      BY <1>1, <3>1 DEF Results, RanRight
    <3>2. CASE stream # <<>>
      <4>1. Len(stream) > 0
        BY <1>4, <3>2, LenIs
      <4>2. stream' # <<>> /\ Head(stream') = Head(stream)
        <5>1. Len(stream') > 0 /\ Head(stream) = stream[1]
          BY <1>3, <1>4, <1>7, <3>2, <4>1, LenIs
        <5>2. stream' # <<>> /\ Head(stream') = stream'[1]
          BY <1>7, <5>1, LenIs
        <5> QED
          BY <1>4, <1>7, <4>1, <5>1, <5>2
      <4>3. PICK d \in 1..Len(batch), s \in 1..Steps : IsStep(Head(stream), d, s, batch[d])
        BY <3>2, HeadIs
      <4>4. out'[Head(stream).call] = out[Head(stream).call]
        BY <1>6, <4>3 DEF IsStep
      <4>5. ASSUME Head(stream).op = "kernel"
            PROVE  /\ ran' \subseteq 0..(Head(stream).total - 1)
                   /\ \A idx \in ran :
                        out'[Head(stream).call][PortOf(idx)][IndexOf(idx) + 1]
                          = ScalarOf(Head(stream).call, Steps, Head(stream).k,
                                     PortOf(idx), IndexOf(idx))
        BY <1>1, <3>2, <4>4, <4>5 DEF Results, RanRight
      <4>6. ASSUME Head(stream).op # "kernel" PROVE ran' = {}
        BY <1>1, <3>2, <4>6 DEF Results, RanRight
      <4> DEFINE op == Head(stream)
      <4>7. Head(stream)' = op
        BY <4>2
      <4> HIDE DEF op
      <4>8. /\ \A idx : PortOf(idx)' = PortOf(idx) /\ IndexOf(idx)' = IndexOf(idx)
            /\ \A e, r, k, p, i : ScalarOf(e, r, k, p, i)' = ScalarOf(e, r, k, p, i)
        BY <1>1, Frame
      <4> QED
        BY <1>1, <1>3, <4>2, <4>5, <4>6, <4>7, <4>8 DEF RanRight, op
    <3> QED
      BY <3>1, <3>2
  <2>3. ASSUME NEW d \in 1..c, NEW r \in 1..Steps, Latest(Steps, Executed, d, r)
        PROVE  Made(d, r)'
    <3>1. d # c
      BY <1>3, <1>8, <2>3 DEF Latest
    <3>2. d \in 1..Len(batch)
      BY <1>4, <3>1
    <3>3. Made(d, r)
      BY <2>3, <3>2 DEF Results
    <3> QED
      BY <1>1, <1>3, <1>5, <1>6, <3>2, <3>3, MadeStays
  <2>4. ASSUME NEW d, NEW r
        PROVE  Latest(Steps, Executed, d, r)' <=> Latest(Steps, Executed, d, r)
    BY <1>3, <1>9 DEF Latest, First
  <2>5. \A d : First(Steps, d)' = First(Steps, d)
    BY <1>3 DEF First
  <2> QED
    BY <1>3, <1>5, <1>9, <2>1, <2>2, <2>3, <2>4, <2>5 DEF Results
<1> QED
  BY <1>3, <1>10, <1>11

-----------------------------------------------------------------------------
(* The GPU.                                                                *)

LEMMA MadeNow ==
  ASSUME UNCHANGED <<Block!block, d_k, batch>>, NEW c, NEW s, NEW k \in 0..d_k,
         \A p \in PortsOf(s), i \in 0..(Block!OutScalars(batch[c]) - 1) :
           out'[c][p][i + 1] = ScalarOf(c, s, k, p, i)
  PROVE  Made(c, s)'
<1>1. PortsOf(s)' = PortsOf(s) /\ \A n : Block!OutScalars(n)' = Block!OutScalars(n)
  BY Frame
<1>2. ASSUME NEW p \in PortsOf(s), NEW i \in 0..(Block!OutScalars(batch[c]) - 1)
      PROVE  out'[c][p][i + 1] = ScalarOf(c, s, k, p, i)'
  BY Frame
<1> QED
  BY <1>1, <1>2 DEF Made

Written(x, P, I, v) == [x EXCEPT ![P][I + 1] = v]

LEMMA WriteOne ==
  ASSUME NEW x, NEW n, IsOutput(x, n), NEW P \in 1..Block!OutPorts,
         Block!OutScalars(n) \in Nat, NEW I \in 0..(Block!OutScalars(n) - 1), NEW v
  PROVE  LET y == Written(x, P, I, v) IN
         /\ IsOutput(y, n) /\ y[P][I + 1] = v
         /\ \A p \in 1..Block!OutPorts, i \in 0..(Block!OutScalars(n) - 1) :
              (p # P \/ i # I) => y[p][i + 1] = x[p][i + 1]
<1> DEFINE y == Written(x, P, I, v)
<1>0. I + 1 \in 1..Block!OutScalars(n)
  OBVIOUS
<1>1. DOMAIN x = 1..Block!OutPorts
      /\ \A p \in 1..Block!OutPorts : DOMAIN x[p] = 1..Block!OutScalars(n)
  BY DEF IsOutput
<1>2. y = [p \in 1..Block!OutPorts |-> IF p = P THEN [x[p] EXCEPT ![I + 1] = v] ELSE x[p]]
  BY <1>1 DEF Written
<1>3. [x[P] EXCEPT ![I + 1] = v]
        = [i \in 1..Block!OutScalars(n) |-> IF i = I + 1 THEN v ELSE x[P][i]]
  BY <1>1
<1> DEFINE z == [i \in 1..Block!OutScalars(n) |-> IF i = I + 1 THEN v ELSE x[P][i]]
<1>4. y = [p \in 1..Block!OutPorts |-> IF p = P THEN z ELSE x[p]]
  BY <1>2, <1>3
<1> HIDE DEF y
<1>5. ASSUME NEW p \in 1..Block!OutPorts
      PROVE  y[p] = [i \in 1..Block!OutScalars(n) |-> y[p][i]]
  <2>1. z = [i \in 1..Block!OutScalars(n) |-> z[i]]
    OBVIOUS
  <2>2. y[p] = IF p = P THEN z ELSE x[p]
    BY <1>4
  <2> HIDE DEF z
  <2> QED
    BY <2>1, <2>2 DEF IsOutput
<1>6. y = [p \in 1..Block!OutPorts |-> y[p]]
  BY <1>4
<1>7. y[P][I + 1] = v
  BY <1>0, <1>4
<1>8. ASSUME NEW p \in 1..Block!OutPorts, NEW i \in 0..(Block!OutScalars(n) - 1),
             p # P \/ i # I
      PROVE  y[p][i + 1] = x[p][i + 1]
  BY <1>4, <1>8
<1> QED
  BY <1>5, <1>6, <1>7, <1>8 DEF IsOutput, y

IsPort(g, n) == g = [i \in 1..Block!OutScalars(n) |-> g[i]]

LEMMA WritePort ==
  ASSUME NEW x, NEW n, IsOutput(x, n), NEW P \in 1..Block!OutPorts, NEW g, IsPort(g, n)
  PROVE  LET y == Replaced(x, P, g) IN
         /\ IsOutput(y, n) /\ y[P] = g
         /\ \A p \in 1..Block!OutPorts : p # P => y[p] = x[p]
<1> DEFINE y == Replaced(x, P, g)
<1>1. y = [p \in 1..Block!OutPorts |-> IF p = P THEN g ELSE x[p]]
  BY DEF IsOutput, Replaced
<1> HIDE DEF y
<1>2. IsOutput(y, n)
  BY <1>1 DEF IsOutput, IsPort
<1> QED
  BY <1>1, <1>2 DEF y

\* The step of a call that is first in the stream, and the call's scalars.
AtHead(c, s) ==
  /\ c \in 1..Len(batch) /\ s \in 1..Steps
  /\ Executed + 1 = First(Steps, c) + s
  /\ IsStep(Head(stream), c, s, batch[c])

LEMMA AtHeadIs ==
  ASSUME BlockInv, NEW c, NEW s, AtHead(c, s)
  PROVE  /\ c \in 1..Len(out) /\ Len(out) = Len(batch) /\ IsSeq(out)
         /\ IsOutput(out[c], batch[c]) /\ batch[c] \in Nat
         /\ Block!OutScalars(batch[c]) \in Nat /\ Scalars(batch[c]) \in Nat
         /\ Block!OutPorts \in Nat /\ Block!OutPorts > 0
         /\ Head(stream).call = c /\ Head(stream).op = OpName(s)
  BY ScalarsAre DEF AtHead, BlockInv, Calls, IsStep

\* What the thread of a kernel writes.
LEMMA KernelWrites ==
  ASSUME BlockInv, NEW c, NEW s, AtHead(c, s), Head(stream).op = "kernel",
         NEW idx \in 0..(Scalars(batch[c]) - 1)
  PROVE  LET w == Block!KernelWrite(Head(stream), idx) IN
         /\ s = Steps /\ w.call = c /\ w.port = PortOf(idx) /\ w.index = IndexOf(idx)
         /\ w.value = ScalarOf(c, Steps, Head(stream).k, PortOf(idx), IndexOf(idx))
<1> DEFINE op == Head(stream)
           w == Block!KernelWrite(op, idx)
<1>0. op.call = c /\ op.op = OpName(s) /\ op.op = "kernel" /\ s \in 1..Steps /\ idx \in Nat
      /\ Scalars(batch[c]) \in Nat
  BY AtHeadIs DEF AtHead
<1> HIDE DEF op
<1>1. kind \in KernelKinds /\ (kind \in PointerKinds => s # 1)
  BY <1>0 DEF OpName, CopyKinds, KernelKinds, PointerKinds
<1>2. s = Steps
  BY <1>0, <1>1 DEF Steps, KernelKinds, PointerKinds
<1>3. ASSUME kind \in PointerKinds PROVE ptrs_dev = c
  <2>1. Steps = 2 /\ s = 2
    BY <1>2, <1>3 DEF Steps
  <2>2. Executed \in Nat /\ First(Steps, c) \in Nat /\ Executed + 1 = First(Steps, c) + s
        /\ c \in 1..Len(batch)
    <3>1. Executed \in Nat /\ Executed + 1 = First(Steps, c) + s /\ c \in 1..Len(batch)
      BY DEF AtHead, BlockInv, Calls
    <3>2. c \in Nat /\ c > 0 /\ 2 \in Nat /\ 2 > 0
      BY <3>1
    <3>3. First(2, c) \in Nat
      BY <3>2, FirstIs
    <3> QED
      BY <2>1, <3>1, <3>3
  <2>3. Executed = First(Steps, c) + 1
    BY <2>1, <2>2
  <2> QED
    BY <1>3, <2>2, <2>3 DEF BlockInv, Results
<1> DEFINE S == d_num_streams
<1>4. /\ S \in Nat /\ S > 0 /\ idx \div S \in Nat /\ idx % S \in Nat
      /\ idx = S * (idx \div S) + (idx % S)
  <2>1. S \in Nat /\ S > 0
    BY DEF BlockInv, Parameters
  <2> QED
    BY <1>0, <2>1, DivisionIs
<1>5. CASE kind = "load"
  <2> DEFINE v == Block!In(c, 1, idx)
  <2>1. w = Block!Write(c, 1, idx, v)
    BY <1>0, <1>5 DEF Block!KernelWrite, Block!kernel_load
  <2>2. PortOf(idx) = 1 /\ IndexOf(idx) = idx
    BY <1>5 DEF PortOf, IndexOf
  <2>3. ScalarOf(c, Steps, op.k, 1, idx) = v
    BY <1>5 DEF ScalarOf
  <2> HIDE DEF v
  <2> QED
    BY <1>2, <2>1, <2>2, <2>3 DEF Block!Write, op
<1>6. CASE kind = "multiply_const"
  <2> DEFINE v == <<"times", op.k, Block!In(c, 1, idx)>>
  <2>1. w = Block!Write(c, 1, idx, v)
    BY <1>0, <1>6 DEF Block!KernelWrite, Block!kernel_multiply_const
  <2>2. PortOf(idx) = 1 /\ IndexOf(idx) = idx
    BY <1>6 DEF PortOf, IndexOf
  <2>3. ScalarOf(c, Steps, op.k, 1, idx) = v
    BY <1>6 DEF ScalarOf
  <2> HIDE DEF v
  <2> QED
    BY <1>2, <2>1, <2>2, <2>3 DEF Block!Write, op
<1>7. CASE kind = "add"
  <2> DEFINE v == <<"sum", [p \in 1..d_num_streams |-> Block!In(c, p, idx)]>>
  <2>0. ptrs_dev = c
    BY <1>3, <1>7 DEF PointerKinds
  <2>1. w = Block!Write(c, 1, idx, v)
    BY <1>0, <2>0, <1>7 DEF Block!KernelWrite, Block!kernel_add
  <2>2. PortOf(idx) = 1 /\ IndexOf(idx) = idx
    BY <1>7 DEF PortOf, IndexOf
  <2>3. ScalarOf(c, Steps, op.k, 1, idx) = v
    BY <1>7 DEF ScalarOf
  <2> HIDE DEF v
  <2> QED
    BY <1>2, <2>1, <2>2, <2>3 DEF Block!Write, op
<1>8. CASE kind = "streams_to_vector"
  <2> DEFINE v == Block!In(c, (idx % d_num_streams) + 1, idx \div d_num_streams)
  <2>0. ptrs_dev = c
    BY <1>3, <1>8 DEF PointerKinds
  <2>1. w = Block!Write(c, 1, idx, v)
    BY <1>0, <2>0, <1>8 DEF Block!KernelWrite, Block!kernel_interleave
  <2>2. PortOf(idx) = 1 /\ IndexOf(idx) = idx
    BY <1>8 DEF PortOf, IndexOf
  <2>3. ScalarOf(c, Steps, op.k, 1, idx) = v
    BY <1>8 DEF ScalarOf
  <2> HIDE DEF v
  <2> QED
    BY <1>2, <2>1, <2>2, <2>3 DEF Block!Write, op
<1>9. CASE kind = "vector_to_streams"
  <2>1. ptrs_dev = c
    BY <1>3, <1>9 DEF PointerKinds
  <2>2. w = Block!Write(c, (idx % S) + 1, idx \div S, Block!In(c, 1, idx))
    BY <1>0, <1>9, <2>1 DEF Block!KernelWrite, Block!kernel_deinterleave
  <2>3. PortOf(idx) = (idx % S) + 1 /\ IndexOf(idx) = idx \div S
    BY <1>9 DEF PortOf, IndexOf
  <2>4. (idx \div S) * S + ((idx % S) + 1) - 1 = idx
    BY <1>4
  <2>5. ScalarOf(c, Steps, op.k, (idx % S) + 1, idx \div S) = Block!In(c, 1, idx)
    BY <1>9, <2>4 DEF ScalarOf
  <2> QED
    BY <1>2, <2>2, <2>3, <2>5 DEF Block!Write, op
<1> QED
  BY <1>1, <1>5, <1>6, <1>7, <1>8, <1>9 DEF KernelKinds, PointerKinds, op

\* Thread and place: every thread has a place in the outputs of its call, and
\* every place a thread.
LEMMA PlacesAre ==
  ASSUME Parameters, NEW n \in Nat
  PROVE  /\ \A idx \in 0..(Scalars(n) - 1) :
              PortOf(idx) \in 1..Block!OutPorts
              /\ IndexOf(idx) \in 0..(Block!OutScalars(n) - 1)
         /\ kind \in KernelKinds =>
              \A p \in PortsOf(Steps), i \in 0..(Block!OutScalars(n) - 1) :
                \E idx \in 0..(Scalars(n) - 1) : p = PortOf(idx) /\ i = IndexOf(idx)
<1> DEFINE S == d_num_streams
           m == Block!OutScalars(n)
<1>1. /\ S \in Nat /\ S > 0 /\ m \in Nat /\ Scalars(n) \in Nat
      /\ Block!OutPorts \in Nat /\ Block!OutPorts > 0
  BY ScalarsAre DEF Parameters
<1>2. CASE kind = "vector_to_streams"
  <2>0. Scalars(n) = m * S /\ Block!OutPorts = S
    BY <1>2, ScalarsFill
  <2>k. PortsOf(Steps) = 1..S
    BY <1>2 DEF PortsOf, Steps, PointerKinds
  <2> HIDE DEF S, m
  <2>1. ASSUME NEW idx \in 0..(Scalars(n) - 1)
        PROVE  PortOf(idx) \in 1..Block!OutPorts /\ IndexOf(idx) \in 0..(m - 1)
    <3> DEFINE q == idx \div S
               r == idx % S
    <3>1. q \in Nat /\ r \in Nat /\ r < S /\ idx = S * q + r /\ idx \in Nat /\ idx < m * S
      BY <1>1, <2>0, DivisionIs
    <3>2. PortOf(idx) = r + 1 /\ IndexOf(idx) = q
      BY <1>2 DEF PortOf, IndexOf, S
    <3> HIDE DEF q, r
    <3>3. q < m
      <4> SUFFICES ASSUME q >= m PROVE FALSE
        BY <1>1, <3>1
      <4>1. PICK d \in Nat : q = m + d
        <5>1. q - m \in Nat /\ q = m + (q - m)
          BY <1>1, <3>1
        <5> QED
          BY <5>1
      <4>2. S * q = m * S + S * d /\ S * d \in Nat /\ m * S \in Nat
        BY <1>1, <4>1
      <4> QED
        BY <3>1, <4>2
    <3> QED
      BY <1>1, <2>0, <3>1, <3>2, <3>3
  <2>2. ASSUME NEW p \in 1..S, NEW i \in 0..(m - 1)
        PROVE  \E idx \in 0..(Scalars(n) - 1) : p = PortOf(idx) /\ i = IndexOf(idx)
    <3> DEFINE r == p - 1
               idx == S * i + r
    <3>1. r \in Nat /\ r < S /\ i \in Nat /\ S * i \in Nat
      BY <1>1
    <3>2. idx \div S = i /\ idx % S = r
      BY <1>1, <3>1, DivisionUnique
    <3>3. PortOf(idx) = p /\ IndexOf(idx) = i
      BY <1>2, <3>2 DEF PortOf, IndexOf, S
    <3>4. idx < m * S
      <4>1. PICK d \in Nat : m = i + 1 + d
        <5>1. m - i - 1 \in Nat /\ m = i + 1 + (m - i - 1)
          BY <1>1, <3>1
        <5> QED
          BY <5>1
      <4>2. m * S = S * i + S + S * d /\ S * d \in Nat
        BY <1>1, <3>1, <4>1
      <4> QED
        BY <1>1, <3>1, <4>2
    <3>5. idx \in Nat
      BY <3>1
    <3> HIDE DEF idx
    <3>6. idx \in 0..(Scalars(n) - 1)
      BY <1>1, <2>0, <3>4, <3>5
    <3> QED
      BY <3>3, <3>6
  <2> QED
    BY <2>1, <2>2, <2>k DEF m
<1>3. CASE kind # "vector_to_streams"
  <2>0. Scalars(n) = m
    BY <1>3, ScalarsFill
  <2>1. \A idx : PortOf(idx) = 1 /\ IndexOf(idx) = idx
    BY <1>3 DEF PortOf, IndexOf
  <2>2. kind \in KernelKinds => PortsOf(Steps) = {1}
    BY <1>3 DEF PortsOf, Steps, KernelKinds, PointerKinds
  <2> QED
    BY <1>1, <2>0, <2>1, <2>2
<1> QED
  BY <1>2, <1>3

LEMMA RunThreadStep ==
  ASSUME BlockInv, NEW idx, Block!RunThread(idx)
  PROVE  BlockInv'
<1> DEFINE op == Head(stream)
           w == Block!KernelWrite(op, idx)
<1>1. /\ UNCHANGED Block!block /\ d_k' = d_k /\ ptrs_dev' = ptrs_dev
      /\ stream' = stream /\ batch' = batch /\ ran' = ran \cup {idx}
      /\ stream # <<>> /\ op.op = "kernel" /\ idx \in Block!Threads(op.total)
      /\ out' = [out EXCEPT ![w.call][w.port][w.index + 1] = w.value]
  BY DEF Block!RunThread, Block!Runs
<1>2. PICK c \in 1..Len(batch), s \in 1..Steps : AtHead(c, s)
  BY <1>1, HeadIs DEF AtHead
<1>3. /\ c \in 1..Len(out) /\ Len(out) = Len(batch) /\ IsSeq(out)
      /\ IsOutput(out[c], batch[c]) /\ batch[c] \in Nat
      /\ Block!OutScalars(batch[c]) \in Nat /\ Scalars(batch[c]) \in Nat
      /\ op.call = c /\ op.op = OpName(s) /\ op.total = Scalars(batch[c])
  BY <1>1, <1>2, AtHeadIs DEF AtHead, IsStep
<1>4. idx \in 0..(Scalars(batch[c]) - 1)
  BY <1>1, <1>3, ThreadsAre
<1> DEFINE p == PortOf(idx)
           i == IndexOf(idx)
           v == ScalarOf(c, Steps, op.k, p, i)
           y == Written(out[c], p, i, v)
<1>5. s = Steps /\ w.call = c /\ w.port = p /\ w.index = i /\ w.value = v
  BY <1>1, <1>2, <1>4, KernelWrites
<1>6. p \in 1..Block!OutPorts /\ i \in 0..(Block!OutScalars(batch[c]) - 1)
  BY <1>3, <1>4, PlacesAre DEF BlockInv
<1>7. out' = Replaced(out, c, y)
  <2> HIDE DEF w, p, i, v
  <2>1. out' = [out EXCEPT ![c][p][i + 1] = v]
    BY <1>1, <1>5
  <2> QED
    BY <2>1 DEF Written, Replaced
<1>8. /\ IsOutput(y, batch[c]) /\ y[p][i + 1] = v
      /\ \A q \in 1..Block!OutPorts, j \in 0..(Block!OutScalars(batch[c]) - 1) :
           (q # p \/ j # i) => y[q][j + 1] = out[c][q][j + 1]
  <2> HIDE DEF p, i, v
  <2>1. PICK x, n, P, I, e : x = out[c] /\ n = batch[c] /\ P = p /\ I = i /\ e = v
    OBVIOUS
  <2>2. IsOutput(x, n) /\ Block!OutScalars(n) \in Nat /\ P \in 1..Block!OutPorts
        /\ I \in 0..(Block!OutScalars(n) - 1) /\ y = Written(x, P, I, e)
    BY <1>3, <1>6, <2>1
  <2> HIDE DEF y
  <2>3. /\ IsOutput(y, n) /\ y[P][I + 1] = e
        /\ \A q \in 1..Block!OutPorts, j \in 0..(Block!OutScalars(n) - 1) :
             (q # P \/ j # I) => y[q][j + 1] = x[q][j + 1]
    BY <2>2, WriteOne
  <2> QED
    BY <2>1, <2>3
<1>9. /\ IsSeq(out') /\ Len(out') = Len(out) /\ out'[c] = y
      /\ \A d \in 1..Len(batch) : d # c => out'[d] = out[d]
  <2> HIDE DEF y
  <2>1. c \in 1..Len(out) /\ IsSeq(out) /\ Len(out) = Len(batch)
    BY <1>3
  <2>2. /\ IsSeq(Replaced(out, c, y)) /\ Len(Replaced(out, c, y)) = Len(out)
        /\ Replaced(out, c, y)[c] = y
        /\ \A d \in 1..Len(out) : d # c => Replaced(out, c, y)[d] = out[d]
    BY <2>1, ExceptIs
  <2> QED
    BY <1>7, <2>1, <2>2
<1> HIDE DEF op, w, y, v
<1>10. Steps' = Steps /\ kind' = kind /\ Parameters' /\ Executed' = Executed
       /\ Steps \in 1..3 /\ Executed \in Nat
  BY <1>1, Frame, StepsAre DEF BlockInv, Calls, Block!block, Executed, First
<1>11. Calls'
  <2>1. ASSUME NEW d \in 1..Len(batch) PROVE IsOutput(out[d], batch[d])'
    <3>1. IsOutput(out'[d], batch[d])
      BY <1>8, <1>9 DEF BlockInv, Calls
    <3>2. /\ Block!OutPorts' = Block!OutPorts
          /\ \A m : Block!OutScalars(m)' = Block!OutScalars(m)
      BY <1>1, Frame
    <3> QED
      BY <1>1, <3>1, <3>2 DEF IsOutput
  <2>2. ASSUME NEW j \in 1..Len(stream)
        PROVE  IsStep(stream[j], CallAt(Steps, Executed + j), StepAt(Steps, Executed + j),
                      batch[CallAt(Steps, Executed + j)])'
    <3> DEFINE d == CallAt(Steps, Executed + j)
               r == StepAt(Steps, Executed + j)
    <3>1. IsStep(stream[j], d, r, batch[d])
      BY DEF BlockInv, Calls
    <3>2. CallAt(Steps, Executed + j)' = d /\ StepAt(Steps, Executed + j)' = r
      BY <1>10 DEF CallAt, StepAt
    <3> HIDE DEF d, r
    <3> QED
      BY <1>1, <1>10, <3>1, <3>2, Frame DEF IsStep
  <2> QED
    BY <1>1, <1>9, <1>10, <2>1, <2>2 DEF BlockInv, Calls
<1>12. kind \in KernelKinds
  BY <1>1, <1>3 DEF OpName, CopyKinds, KernelKinds, PointerKinds
<1>13. Results'
  <2>1. /\ ran' \subseteq 0..(op.total - 1)
        /\ \A t \in ran' : out'[c][PortOf(t)][IndexOf(t) + 1]
                             = ScalarOf(c, Steps, op.k, PortOf(t), IndexOf(t))
    <3>1. /\ ran \subseteq 0..(op.total - 1)
          /\ \A t \in ran : out[c][PortOf(t)][IndexOf(t) + 1]
                              = ScalarOf(c, Steps, op.k, PortOf(t), IndexOf(t))
      BY <1>1, <1>3 DEF BlockInv, Results, RanRight, op
    <3>2. idx \in 0..(op.total - 1)
      BY <1>3, <1>4
    <3>3. ASSUME NEW t \in ran
          PROVE  out'[c][PortOf(t)][IndexOf(t) + 1]
                   = ScalarOf(c, Steps, op.k, PortOf(t), IndexOf(t))
      <4>1. /\ PortOf(t) \in 1..Block!OutPorts
            /\ IndexOf(t) \in 0..(Block!OutScalars(batch[c]) - 1)
        BY <1>3, <3>1, PlacesAre DEF BlockInv
      <4>2. CASE PortOf(t) = p /\ IndexOf(t) = i
        BY <1>8, <1>9, <4>2 DEF v
      <4>3. CASE PortOf(t) # p \/ IndexOf(t) # i
        BY <1>8, <1>9, <3>1, <4>1, <4>3
      <4> QED
        BY <4>2, <4>3
    <3>4. out'[c][PortOf(idx)][IndexOf(idx) + 1]
            = ScalarOf(c, Steps, op.k, PortOf(idx), IndexOf(idx))
      BY <1>8, <1>9 DEF v
    <3> QED
      BY <1>1, <3>1, <3>2, <3>3, <3>4
  <2>2. RanRight'
    <3>1. Head(stream)' = op
      BY <1>1 DEF op
    <3>2. /\ \A t : PortOf(t)' = PortOf(t) /\ IndexOf(t)' = IndexOf(t)
          /\ \A e, r, k, q, j : ScalarOf(e, r, k, q, j)' = ScalarOf(e, r, k, q, j)
      BY <1>1, Frame
    <3> QED
      BY <1>1, <1>3, <1>10, <2>1, <3>1, <3>2 DEF RanRight
  <2>3. ASSUME NEW d \in 1..Len(batch), NEW r \in 1..Steps, Latest(Steps, Executed, d, r)
        PROVE  Made(d, r)'
    <3>1. CASE d # c
      <4>1. Made(d, r)
        BY <2>3 DEF BlockInv, Results
      <4>2. d_k \in 0..1 /\ d_k <= d_k' /\ d_k' \in 0..1
        BY <1>1 DEF BlockInv
      <4> QED
        BY <1>1, <1>9, <3>1, <4>1, <4>2, MadeStays
    <3>2. CASE d = c
      <4>1. Executed + 1 = First(Steps, c) + Steps
        BY <1>2, <1>5 DEF AtHead
      <4>2. First(Steps, c) \in Nat
        <5>1. Steps \in Nat /\ Steps > 0 /\ c \in Nat /\ c > 0
          BY <1>10
        <5> QED
          BY <5>1, FirstIs
      <4>3. r + 1 = Steps
        BY <1>10, <2>3, <3>2, <4>1, <4>2 DEF Latest
      <4>4. kind \in PointerKinds /\ r = 1
        BY <1>10, <1>12, <4>3 DEF Steps, KernelKinds, PointerKinds
      <4>5. PortsOf(r) = {}
        BY <4>4 DEF PortsOf, PointerKinds
      <4>6. 0 \in 0..d_k
        BY DEF BlockInv
      <4> QED
        BY <1>1, <4>5, <4>6, MadeNow
    <3> QED
      BY <3>1, <3>2
  <2>4. ASSUME NEW d, NEW r
        PROVE  Latest(Steps, Executed, d, r)' <=> Latest(Steps, Executed, d, r)
    BY <1>10 DEF Latest, First
  <2>5. \A d : First(Steps, d)' = First(Steps, d)
    BY <1>10 DEF First
  <2> QED
    BY <1>1, <1>10, <2>2, <2>3, <2>4, <2>5 DEF BlockInv, Results
<1> QED
  BY <1>1, <1>10, <1>11, <1>13 DEF BlockInv

LEMMA KernelEndsStep ==
  ASSUME BlockInv, Block!KernelEnds
  PROVE  BlockInv'
<1> DEFINE op == Head(stream)
<1>1. /\ UNCHANGED Block!block /\ d_k' = d_k /\ ptrs_dev' = ptrs_dev
      /\ stream' = Tail(stream) /\ batch' = batch /\ out' = out /\ ran' = {}
      /\ stream # <<>> /\ op.op = "kernel" /\ ran = Block!Threads(op.total)
  BY DEF Block!KernelEnds, Block!Runs
<1>2. PICK c \in 1..Len(batch), s \in 1..Steps : AtHead(c, s)
  BY <1>1, HeadIs DEF AtHead
<1>3. /\ c \in 1..Len(out) /\ Len(out) = Len(batch) /\ IsSeq(out)
      /\ IsOutput(out[c], batch[c]) /\ batch[c] \in Nat
      /\ Block!OutScalars(batch[c]) \in Nat /\ Scalars(batch[c]) \in Nat
      /\ op.call = c /\ op.op = OpName(s) /\ op.total = Scalars(batch[c])
      /\ op.k \in 0..d_k
  BY <1>1, <1>2, AtHeadIs DEF AtHead, IsStep
<1>4. ran = 0..(Scalars(batch[c]) - 1)
  BY <1>1, <1>3, ThreadsAre
<1>5. kind \in KernelKinds /\ s = Steps
  BY <1>1, <1>3, StepsAre
     DEF OpName, Steps, CopyKinds, KernelKinds, PointerKinds
<1>6. ASSUME NEW p \in PortsOf(s), NEW i \in 0..(Block!OutScalars(batch[c]) - 1)
      PROVE  out'[c][p][i + 1] = ScalarOf(c, s, op.k, p, i)
  <2>1. PICK idx \in 0..(Scalars(batch[c]) - 1) : p = PortOf(idx) /\ i = IndexOf(idx)
    BY <1>3, <1>5, PlacesAre DEF BlockInv
  <2>2. out[c][PortOf(idx)][IndexOf(idx) + 1]
          = ScalarOf(c, Steps, op.k, PortOf(idx), IndexOf(idx))
    BY <1>1, <1>3, <1>4, <2>1 DEF BlockInv, Results, RanRight
  <2> QED
    BY <1>1, <1>5, <2>1, <2>2
<1> HIDE DEF op
<1>7. Made(c, s)'
  <2>1. PICK k \in 0..d_k : k = op.k
    BY <1>3
  <2>2. \A p \in PortsOf(s), i \in 0..(Block!OutScalars(batch[c]) - 1) :
          out'[c][p][i + 1] = ScalarOf(c, s, k, p, i)
    BY <1>6, <2>1
  <2>3. UNCHANGED <<Block!block, d_k, batch>>
    BY <1>1
  <2> QED
    BY <2>2, <2>3, MadeNow
<1>8. kind \in PointerKinds => s # 1
  BY <1>1, <1>3 DEF OpName, CopyKinds, PointerKinds
<1>9. Executed + 1 = First(Steps, c) + s
  BY <1>2 DEF AtHead
<1> QED
  BY <1>1, <1>3, <1>7, <1>8, <1>9, PopStep

\* What the step before has made is there to be read.
LEMMA StepBefore ==
  ASSUME BlockInv, NEW c, NEW s, AtHead(c, s), s > 1
  PROVE  s - 1 \in 1..Steps /\ Made(c, s - 1)
<1>1. s - 1 \in 1..Steps /\ c \in 1..Len(batch) /\ Executed + 1 = First(Steps, c) + s
  BY StepsAre DEF AtHead
<1>2. Executed \in Nat /\ Steps \in Nat /\ Steps > 0 /\ c \in Nat /\ c > 0
  BY <1>1, StepsAre DEF BlockInv, Calls
<1>3. First(Steps, c) \in Nat
  BY <1>2, FirstIs
<1>4. Executed = First(Steps, c) + (s - 1)
  BY <1>1, <1>2, <1>3 DEF AtHead
<1>5. Latest(Steps, Executed, c, s - 1)
  BY <1>1, <1>4 DEF Latest
<1> QED
  BY <1>1, <1>5 DEF BlockInv, Results

\* An operation on all of one output port P of call c, which its step s makes
\* right there: it writes g.
WritesPort(c, s, P, g, k) ==
  /\ AtHead(c, s) /\ stream # <<>> /\ kind \notin PointerKinds
  /\ UNCHANGED <<Block!block, d_k, batch>> /\ stream' = Tail(stream) /\ ran' = {}
  /\ P \in 1..Block!OutPorts /\ PortsOf(s) \subseteq 1..Block!OutPorts
  /\ IsPort(g, batch[c]) /\ out' = Replaced(out, c, Replaced(out[c], P, g))
  /\ k \in 0..d_k
  /\ \A p \in PortsOf(s), i \in 0..(Block!OutScalars(batch[c]) - 1) :
       IF p = P THEN g[i + 1] = ScalarOf(c, s, k, p, i)
                ELSE out[c][p][i + 1] = ScalarOf(c, s, k, p, i)

LEMMA WholeStep ==
  ASSUME BlockInv, NEW c, NEW s, NEW P, NEW g, NEW k, WritesPort(c, s, P, g, k)
  PROVE  BlockInv'
<1> USE DEF WritesPort
<1> DEFINE y == Replaced(out[c], P, g)
<1>1. /\ c \in 1..Len(out) /\ Len(out) = Len(batch) /\ IsSeq(out)
      /\ IsOutput(out[c], batch[c])
  BY AtHeadIs
<1>2. /\ IsOutput(y, batch[c]) /\ y[P] = g
      /\ \A p \in 1..Block!OutPorts : p # P => y[p] = out[c][p]
  BY <1>1, WritePort
<1>3. out' = Replaced(out, c, y)
  OBVIOUS
<1> HIDE DEF y
<1>4. /\ IsSeq(out') /\ Len(out') = Len(out) /\ out'[c] = y
      /\ \A d \in 1..Len(batch) : d # c => out'[d] = out[d]
  <2>1. /\ IsSeq(Replaced(out, c, y)) /\ Len(Replaced(out, c, y)) = Len(out)
        /\ Replaced(out, c, y)[c] = y
        /\ \A d \in 1..Len(out) : d # c => Replaced(out, c, y)[d] = out[d]
    BY <1>1, ExceptIs
  <2> QED
    BY <1>1, <1>3, <2>1
<1>5. ASSUME NEW p \in PortsOf(s), NEW i \in 0..(Block!OutScalars(batch[c]) - 1)
      PROVE  out'[c][p][i + 1] = ScalarOf(c, s, k, p, i)
  <2>1. p \in 1..Block!OutPorts
    OBVIOUS
  <2>2. CASE p = P
    BY <1>2, <1>4, <2>2
  <2>3. CASE p # P
    <3>1. y[p] = out[c][p]
      BY <1>2, <2>1, <2>3
    <3> QED
      BY <1>4, <2>3, <3>1
  <2> QED
    BY <2>2, <2>3
<1>6. Made(c, s)'
  BY <1>5, MadeNow
<1> QED
  BY <1>1, <1>2, <1>4, <1>6, PopStep DEF AtHead

LEMMA RunCopyStep ==
  ASSUME BlockInv, Block!RunCopy
  PROVE  BlockInv'
<1> DEFINE op == Head(stream)
<1>1. /\ UNCHANGED Block!block /\ d_k' = d_k /\ ran' = ran
      /\ stream' = Tail(stream) /\ batch' = batch
      /\ stream # <<>> /\ op.op = "copy"
      /\ out' = [out EXCEPT ![op.call][op.port] =
                   [i \in DOMAIN @ |-> IF i <= op.total THEN Block!In(op.call, 1, i - 1)
                                                        ELSE @[i]]]
  BY DEF Block!RunCopy, Block!Runs
<1>2. PICK c \in 1..Len(batch), s \in 1..Steps : AtHead(c, s)
  BY <1>1, HeadIs DEF AtHead
<1> DEFINE n == Block!OutScalars(batch[c])
           port == IF kind = "tee" THEN s ELSE 1
<1>3. /\ op.call = c /\ op.op = OpName(s) /\ op.total = Scalars(batch[c])
      /\ op.port = port /\ n \in Nat /\ batch[c] \in Nat
      /\ IsOutput(out[c], batch[c]) /\ c \in 1..Len(out)
      /\ Block!OutPorts \in Nat /\ Block!OutPorts > 0
  BY <1>1, <1>2, AtHeadIs DEF AtHead, IsStep
<1>4. kind \in CopyKinds
  BY <1>1, <1>3 DEF OpName
<1>5. op.total = n
  BY <1>3, <1>4, ScalarsFill DEF BlockInv, CopyKinds
<1>6. /\ port \in 1..Block!OutPorts /\ PortsOf(s) \subseteq 1..Block!OutPorts
      /\ PortsOf(s) = IF kind = "tee" THEN 1..s ELSE {1}
  <2>1. CASE kind = "tee"
    <3>1. Block!OutPorts = 2 /\ Steps = 2
      BY <2>1 DEF Block!OutPorts, Steps
    <3> QED
      BY <2>1, <3>1 DEF PortsOf
  <2>2. CASE kind # "tee"
    BY <1>3, <1>4, <2>2 DEF PortsOf, CopyKinds, PointerKinds
  <2> QED
    BY <2>1, <2>2
<1> DEFINE g == [i \in 1..n |-> Block!In(c, 1, i - 1)]
<1>7. out' = Replaced(out, c, Replaced(out[c], port, g))
  <2>1. DOMAIN out[c] = 1..Block!OutPorts /\ DOMAIN out[c][port] = 1..n
    BY <1>3, <1>6 DEF IsOutput
  <2>2. [i \in DOMAIN out[c][port] |->
           IF i <= n THEN Block!In(c, 1, i - 1) ELSE out[c][port][i]] = g
    BY <1>3, <2>1
  <2> HIDE DEF n, port, g
  <2>3. out' = [out EXCEPT ![c][port] =
                   [i \in DOMAIN @ |-> IF i <= n THEN Block!In(c, 1, i - 1) ELSE @[i]]]
    BY <1>1, <1>3, <1>5
  <2> QED
    BY <2>2, <2>3 DEF Replaced
<1>8. ran' = {}
  BY <1>1 DEF BlockInv, Results, RanRight
<1>9. \A e, r, k, p, i : ScalarOf(e, r, k, p, i) = Block!In(e, 1, i)
  BY <1>4 DEF ScalarOf, CopyKinds
<1>10. ASSUME NEW p \in PortsOf(s), NEW i \in 0..(n - 1)
       PROVE  IF p = port THEN g[i + 1] = ScalarOf(c, s, 0, p, i)
                          ELSE out[c][p][i + 1] = ScalarOf(c, s, 0, p, i)
  <2>1. CASE p = port
    <3>1. i + 1 \in 1..n /\ i + 1 - 1 = i
      BY <1>3
    <3> QED
      BY <1>9, <2>1, <3>1
  <2>2. CASE p # port
    <3>1. kind = "tee" /\ s = 2 /\ p = 1
      <4>1. kind = "tee"
        BY <1>6, <2>2
      <4>2. Steps = 2
        BY <4>1 DEF Steps
      <4> QED
        BY <1>6, <2>2, <4>1, <4>2
    <3>2. Made(c, 1)
      BY <1>2, <3>1, StepBefore
    <3>3. PortsOf(1) = {1}
      BY <3>1 DEF PortsOf
    <3> QED
      BY <1>9, <2>2, <3>1, <3>2, <3>3 DEF Made
  <2> QED
    BY <2>1, <2>2
<1>11. 0 \in 0..d_k /\ kind \notin PointerKinds
  BY <1>4 DEF BlockInv, CopyKinds, PointerKinds
<1>12. IsPort(g, batch[c])
  BY DEF IsPort
<1>13. /\ stream # <<>> /\ UNCHANGED <<Block!block, d_k, batch>>
       /\ stream' = Tail(stream) /\ AtHead(c, s)
  BY <1>1, <1>2
<1> HIDE DEF op, port, g
<1>14. \A p \in PortsOf(s), i \in 0..(Block!OutScalars(batch[c]) - 1) :
         IF p = port THEN g[i + 1] = ScalarOf(c, s, 0, p, i)
                     ELSE out[c][p][i + 1] = ScalarOf(c, s, 0, p, i)
  BY <1>10
<1> HIDE DEF n
<1>15. WritesPort(c, s, port, g, 0)
  BY <1>6, <1>7, <1>8, <1>11, <1>12, <1>13, <1>14 DEF WritesPort
<1> QED
  BY <1>15, WholeStep

LEMMA RunMemsetStep ==
  ASSUME BlockInv, Block!RunMemset
  PROVE  BlockInv'
<1> DEFINE op == Head(stream)
<1>1. /\ UNCHANGED Block!block /\ d_k' = d_k /\ ran' = ran
      /\ stream' = Tail(stream) /\ batch' = batch
      /\ stream # <<>> /\ op.op = "memset"
      /\ out' = [out EXCEPT ![op.call][op.port] =
                   [i \in DOMAIN @ |-> IF i <= op.total THEN <<"zero">> ELSE @[i]]]
  BY DEF Block!RunMemset, Block!Runs
<1>2. PICK c \in 1..Len(batch), s \in 1..Steps : AtHead(c, s)
  BY <1>1, HeadIs DEF AtHead
<1> DEFINE n == Block!OutScalars(batch[c])
<1>3. /\ op.call = c /\ op.op = OpName(s) /\ op.total = Scalars(batch[c])
      /\ n \in Nat /\ batch[c] \in Nat /\ op.port = IF kind = "tee" THEN s ELSE 1
      /\ IsOutput(out[c], batch[c]) /\ c \in 1..Len(out)
      /\ Block!OutPorts \in Nat /\ Block!OutPorts > 0
  BY <1>1, <1>2, AtHeadIs DEF AtHead, IsStep
<1>4. kind = "null_source"
  BY <1>1, <1>3 DEF OpName
<1>5. op.total = n /\ op.port = 1
  BY <1>3, <1>4, ScalarsFill DEF BlockInv
<1>6. 1 \in 1..Block!OutPorts /\ PortsOf(s) = {1}
  BY <1>3, <1>4 DEF PortsOf, PointerKinds
<1> DEFINE g == [i \in 1..n |-> <<"zero">>]
<1>7. out' = Replaced(out, c, Replaced(out[c], 1, g))
  <2>1. DOMAIN out[c] = 1..Block!OutPorts /\ DOMAIN out[c][1] = 1..n
    BY <1>3, <1>6 DEF IsOutput
  <2>2. [i \in DOMAIN out[c][1] |-> IF i <= n THEN <<"zero">> ELSE out[c][1][i]] = g
    BY <1>3, <2>1
  <2> HIDE DEF n, g
  <2>3. out' = [out EXCEPT ![c][1] =
                   [i \in DOMAIN @ |-> IF i <= n THEN <<"zero">> ELSE @[i]]]
    BY <1>1, <1>3, <1>5
  <2> QED
    BY <2>2, <2>3 DEF Replaced
<1>8. ran' = {}
  BY <1>1 DEF BlockInv, Results, RanRight
<1>9. ASSUME NEW p \in PortsOf(s), NEW i \in 0..(n - 1)
      PROVE  p = 1 /\ g[i + 1] = ScalarOf(c, s, 0, p, i)
  <2>1. i + 1 \in 1..n
    BY <1>3
  <2>2. ScalarOf(c, s, 0, p, i) = <<"zero">>
    BY <1>4 DEF ScalarOf
  <2> QED
    BY <1>6, <2>1, <2>2
<1>10. 0 \in 0..d_k /\ kind \notin PointerKinds
  BY <1>4 DEF BlockInv, PointerKinds
<1>11. IsPort(g, batch[c])
  BY DEF IsPort
<1>12. /\ stream # <<>> /\ UNCHANGED <<Block!block, d_k, batch>>
       /\ stream' = Tail(stream) /\ AtHead(c, s) /\ PortsOf(s) \subseteq 1..Block!OutPorts
  BY <1>1, <1>2, <1>6
<1> HIDE DEF op, g
<1>13. \A p \in PortsOf(s), i \in 0..(Block!OutScalars(batch[c]) - 1) :
         IF p = 1 THEN g[i + 1] = ScalarOf(c, s, 0, p, i)
                  ELSE out[c][p][i + 1] = ScalarOf(c, s, 0, p, i)
  BY <1>9
<1> HIDE DEF n
<1>14. WritesPort(c, s, 1, g, 0)
  BY <1>6, <1>7, <1>8, <1>10, <1>11, <1>12, <1>13 DEF WritesPort
<1> QED
  BY <1>14, WholeStep

\* The logarithm: what each of its operations finds in the output.
LEMMA LogarithmGoesOn ==
  ASSUME kind = "nlog10_cupy", n_is_1 \in BOOLEAN, k_is_0 \in BOOLEAN,
         NEW s \in 1..Steps, NEW c, NEW i
  PROVE  Logarithm(c, s, i) = IF s = 1 THEN <<"log10", Block!In(c, 1, i)>>
                              ELSE <<ArrayName(s), Logarithm(c, s - 1, i)>>
<1> DEFINE log == <<"log10", Block!In(c, 1, i)>>
<1> HIDE DEF log
<1>1. Steps = (IF n_is_1 THEN 1 ELSE 2) + (IF k_is_0 THEN 0 ELSE 1)
  BY Zenon DEF Steps, PointerKinds
<1>2. \A r : Logarithm(c, r, i) =
         IF r = Steps /\ ~k_is_0
           THEN <<"plus k", IF r = 1 \/ n_is_1 THEN log ELSE <<"times n", log>>>>
           ELSE IF r = 1 \/ n_is_1 THEN log ELSE <<"times n", log>>
  BY Zenon DEF Logarithm, log
<1>3. \A r : ArrayName(r) = IF r = 1 THEN "log10"
                            ELSE IF r = 2 /\ ~n_is_1 THEN "times n" ELSE "plus k"
  BY DEF ArrayName
<1>4. CASE n_is_1 = TRUE /\ k_is_0 = TRUE
  <2>1. Steps = 1
    BY <1>1, <1>4
  <2> QED
    BY <1>2, <1>4, <2>1 DEF log
<1>5. CASE n_is_1 = TRUE /\ k_is_0 = FALSE
  <2>1. Steps = 2 /\ 1 # Steps /\ s \in {1, 2} /\ 2 - 1 = 1 /\ 2 # 1
    BY <1>1, <1>5
  <2>2. Logarithm(c, 1, i) = log /\ Logarithm(c, 2, i) = <<"plus k", log>>
    BY Zenon, <1>2, <1>5, <2>1
  <2>3. ArrayName(2) = "plus k"
    BY Zenon, <1>3, <1>5, <2>1
  <2> QED
    BY <2>1, <2>2, <2>3 DEF log
<1>6. CASE n_is_1 = FALSE /\ k_is_0 = TRUE
  <2>1. Steps = 2 /\ 1 # Steps /\ s \in {1, 2} /\ 2 - 1 = 1 /\ 2 # 1
    BY <1>1, <1>6
  <2>2. Logarithm(c, 1, i) = log /\ Logarithm(c, 2, i) = <<"times n", log>>
    BY Zenon, <1>2, <1>6, <2>1
  <2>3. ArrayName(2) = "times n"
    BY Zenon, <1>3, <1>6, <2>1
  <2> QED
    BY <2>1, <2>2, <2>3 DEF log
<1>7. CASE n_is_1 = FALSE /\ k_is_0 = FALSE
  <2>1. /\ Steps = 3 /\ 1 # Steps /\ 2 # Steps /\ s \in {1, 2, 3}
        /\ 2 - 1 = 1 /\ 3 - 1 = 2 /\ 2 # 1 /\ 3 # 1 /\ 3 # 2
    BY <1>1, <1>7
  <2>2. /\ Logarithm(c, 1, i) = log /\ Logarithm(c, 2, i) = <<"times n", log>>
        /\ Logarithm(c, 3, i) = <<"plus k", <<"times n", log>>>>
    BY Zenon, <1>2, <1>7, <2>1
  <2>3. ArrayName(2) = "times n" /\ ArrayName(3) = "plus k"
    BY Zenon, <1>3, <1>7, <2>1
  <2> QED
    BY <2>1, <2>2, <2>3 DEF log
<1> QED
  BY <1>4, <1>5, <1>6, <1>7

\* What an operation of CuPy gives for a scalar of its call.
LEMMA ArrayGives ==
  ASSUME BlockInv, NEW c, NEW s, AtHead(c, s), Head(stream).op = "array",
         NEW i \in 0..(Block!OutScalars(batch[c]) - 1)
  PROVE  Block!ArrayValue(Head(stream), i) = ScalarOf(c, s, Head(stream).k, 1, i)
<1> DEFINE op == Head(stream)
<1>1. op.call = c /\ op.op = OpName(s) /\ op.op = "array" /\ op.f = ArrayName(s)
      /\ s \in 1..Steps /\ c \in 1..Len(batch)
  BY DEF AtHead, IsStep
<1>2. kind \in Block!CupyKinds
  BY <1>1, BlocksAssumption
     DEF OpName, CopyKinds, KernelKinds, PointerKinds, BlockInv, Parameters
<1> HIDE DEF op
<1> SUFFICES Block!ArrayValue(op, i) = ScalarOf(c, s, op.k, 1, i)
  BY DEF op
<1>3. CASE kind = "add_cupy"
  BY <1>1, <1>3 DEF ArrayName, Block!ArrayValue, ScalarOf
<1>4. CASE kind = "multiply_const_cupy"
  BY <1>1, <1>4 DEF ArrayName, Block!ArrayValue, ScalarOf
<1>5. CASE kind = "complex_to_mag_cupy"
  BY Zenon, <1>1, <1>5 DEF ArrayName, Block!ArrayValue, ScalarOf
<1>6. CASE kind = "complex_to_mag_squared_cupy"
  BY Zenon, <1>1, <1>6 DEF ArrayName, Block!ArrayValue, ScalarOf
<1>7. CASE kind = "nlog10_cupy"
  <2>1. ScalarOf(c, s, op.k, 1, i) = Logarithm(c, s, i)
    BY <1>7 DEF ScalarOf
  <2>2. n_is_1 \in BOOLEAN /\ k_is_0 \in BOOLEAN
    BY DEF BlockInv, Parameters
  <2>3. Logarithm(c, s, i) = IF s = 1 THEN <<"log10", Block!In(c, 1, i)>>
                             ELSE <<ArrayName(s), Logarithm(c, s - 1, i)>>
    BY <1>1, <1>7, <2>2, LogarithmGoesOn
  <2>4. CASE s = 1
    <3>1. op.f = "log10"
      BY <1>1, <1>7, <2>4 DEF ArrayName
    <3>2. Block!ArrayValue(op, i) = <<op.f, Block!In(op.call, 1, i)>>
      BY Zenon, <3>1 DEF Block!ArrayValue
    <3> QED
      BY <1>1, <2>1, <2>3, <2>4, <3>1, <3>2
  <2>5. CASE s # 1
    <3>1. op.f \in {"times n", "plus k"}
      BY <1>1, <1>7, <2>5 DEF ArrayName
    <3>2. Block!ArrayValue(op, i) = <<op.f, out[c][1][i + 1]>>
      BY Zenon, <1>1, <3>1 DEF Block!ArrayValue
    <3>3. s > 1 /\ s - 1 \in 1..Steps /\ Made(c, s - 1)
      <4>1. s > 1
        BY <1>1, <2>5, StepsAre
      <4> QED
        BY <4>1, StepBefore
    <3>4. 1 \in PortsOf(s - 1)
      BY <1>7 DEF PortsOf, PointerKinds
    <3>5. \E k \in 0..d_k : out[c][1][i + 1] = ScalarOf(c, s - 1, k, 1, i)
      BY <3>3, <3>4 DEF Made
    <3>6. \A k : ScalarOf(c, s - 1, k, 1, i) = Logarithm(c, s - 1, i)
      BY <1>7 DEF ScalarOf
    <3> QED
      BY <1>1, <2>1, <2>3, <2>5, <3>2, <3>5, <3>6
  <2> QED
    BY <2>4, <2>5
<1> QED
  BY <1>2, <1>3, <1>4, <1>5, <1>6, <1>7 DEF Block!CupyKinds

LEMMA RunArrayStep ==
  ASSUME BlockInv, Block!RunArray
  PROVE  BlockInv'
<1> DEFINE op == Head(stream)
<1>1. /\ UNCHANGED Block!block /\ d_k' = d_k /\ ran' = ran
      /\ stream' = Tail(stream) /\ batch' = batch
      /\ stream # <<>> /\ op.op = "array"
      /\ out' = [out EXCEPT ![op.call][1] =
                   [i \in DOMAIN @ |-> IF i <= op.total THEN Block!ArrayValue(op, i - 1)
                                                        ELSE @[i]]]
  BY DEF Block!RunArray, Block!Runs
<1>2. PICK c \in 1..Len(batch), s \in 1..Steps : AtHead(c, s)
  BY <1>1, HeadIs DEF AtHead
<1> DEFINE n == Block!OutScalars(batch[c])
<1>3. /\ op.call = c /\ op.op = OpName(s) /\ op.total = Scalars(batch[c])
      /\ op.k \in 0..d_k /\ n \in Nat /\ batch[c] \in Nat
      /\ IsOutput(out[c], batch[c]) /\ c \in 1..Len(out)
      /\ Block!OutPorts \in Nat /\ Block!OutPorts > 0
  BY <1>1, <1>2, AtHeadIs DEF AtHead, IsStep
<1>4. kind \in Block!CupyKinds
  BY <1>1, <1>3, BlocksAssumption
     DEF OpName, CopyKinds, KernelKinds, PointerKinds, BlockInv, Parameters
<1>5. op.total = n
  BY <1>3, <1>4, ScalarsFill DEF BlockInv, Block!CupyKinds
<1>6. 1 \in 1..Block!OutPorts /\ PortsOf(s) = {1} /\ kind \notin PointerKinds
  BY <1>3, <1>4 DEF PortsOf, PointerKinds, Block!CupyKinds
<1> DEFINE g == [i \in 1..n |-> Block!ArrayValue(op, i - 1)]
<1>7. out' = Replaced(out, c, Replaced(out[c], 1, g))
  <2>1. DOMAIN out[c] = 1..Block!OutPorts /\ DOMAIN out[c][1] = 1..n
    BY <1>3, <1>6 DEF IsOutput
  <2>2. [i \in DOMAIN out[c][1] |->
           IF i <= n THEN Block!ArrayValue(op, i - 1) ELSE out[c][1][i]] = g
    <3> HIDE DEF op
    <3> QED
      BY <1>3, <2>1
  <2> HIDE DEF n, g, op
  <2>3. out' = [out EXCEPT ![c][1] =
                   [i \in DOMAIN @ |-> IF i <= n THEN Block!ArrayValue(op, i - 1) ELSE @[i]]]
    BY <1>1, <1>3, <1>5
  <2> QED
    BY <2>2, <2>3 DEF Replaced
<1>8. ran' = {}
  BY <1>1 DEF BlockInv, Results, RanRight
<1>9. ASSUME NEW p \in PortsOf(s), NEW i \in 0..(n - 1)
      PROVE  p = 1 /\ g[i + 1] = ScalarOf(c, s, op.k, p, i)
  <2>1. i + 1 \in 1..n /\ i + 1 - 1 = i
    BY <1>3
  <2>2. Block!ArrayValue(op, i) = ScalarOf(c, s, op.k, 1, i)
    BY <1>1, <1>2, ArrayGives
  <2> HIDE DEF op
  <2> QED
    BY <1>6, <2>1, <2>2
<1>10. IsPort(g, batch[c])
  BY DEF IsPort
<1>11. /\ stream # <<>> /\ UNCHANGED <<Block!block, d_k, batch>>
       /\ stream' = Tail(stream) /\ AtHead(c, s) /\ PortsOf(s) \subseteq 1..Block!OutPorts
  BY <1>1, <1>2, <1>6
<1> HIDE DEF op, g
<1>12. \A p \in PortsOf(s), i \in 0..(Block!OutScalars(batch[c]) - 1) :
         IF p = 1 THEN g[i + 1] = ScalarOf(c, s, op.k, p, i)
                  ELSE out[c][p][i + 1] = ScalarOf(c, s, op.k, p, i)
  BY <1>9
<1> HIDE DEF n
<1>13. WritesPort(c, s, 1, g, op.k)
  BY <1>3, <1>6, <1>7, <1>8, <1>10, <1>11, <1>12 DEF WritesPort
<1> QED
  BY <1>13, WholeStep

LEMMA RunPointersStep ==
  ASSUME BlockInv, Block!RunPointers
  PROVE  BlockInv'
<1> DEFINE op == Head(stream)
<1>1. /\ UNCHANGED Block!block /\ d_k' = d_k /\ ran' = ran
      /\ stream' = Tail(stream) /\ batch' = batch /\ out' = out
      /\ stream # <<>> /\ op.op = "pointers" /\ ptrs_dev' = op.call
  BY DEF Block!RunPointers, Block!Runs
<1>2. PICK c \in 1..Len(batch), s \in 1..Steps : AtHead(c, s)
  BY <1>1, HeadIs DEF AtHead
<1>3. /\ op.call = c /\ op.op = OpName(s) /\ c \in 1..Len(out) /\ Len(out) = Len(batch)
      /\ IsSeq(out) /\ IsOutput(out[c], batch[c])
      /\ Executed + 1 = First(Steps, c) + s
  BY <1>1, <1>2, AtHeadIs DEF AtHead
<1>4. kind \in PointerKinds /\ s = 1
  BY <1>1, <1>3 DEF OpName
<1>5. ran' = {}
  BY <1>1 DEF BlockInv, Results, RanRight
<1>6. Made(c, s)'
  <2>1. PortsOf(s) = {} /\ 0 \in 0..d_k
    BY <1>4 DEF PortsOf, PointerKinds, BlockInv
  <2> QED
    BY <1>1, <2>1, MadeNow
<1> HIDE DEF op
<1> QED
  BY <1>1, <1>3, <1>4, <1>5, <1>6, PopStep

\* Every step of a block keeps the invariant.
LEMMA BlockStep ==
  ASSUME BlockInv, [Block!Next]_(Block!vars)
  PROVE  BlockInv'
<1>1. ASSUME NEW n \in Block!Batches, Block!Work(n) PROVE BlockInv'
  <2>1. MaxBatch \in Nat /\ d_vlen \in Nat
    BY FftAssumption DEF BlockInv, Parameters
  <2>2. n \in Nat
    <3>1. CASE kind = "vector_to_stream"
      <4>1. PICK v \in 1..MaxBatch : n = v * d_vlen
        BY <3>1 DEF Block!Batches
      <4> QED
        BY <2>1, <4>1, Product
    <3>2. CASE kind # "vector_to_stream"
      BY <2>1, <3>2 DEF Block!Batches
    <3> QED
      BY <3>1, <3>2
  <2> QED
    BY <1>1, <2>2, WorkStep
<1>2. CASE Block!SetK
  BY <1>2, FactorStep DEF Block!SetK
<1>3. ASSUME NEW idx, Block!RunThread(idx) PROVE BlockInv'
  BY <1>3, RunThreadStep
<1>4. CASE Block!KernelEnds
  BY <1>4, KernelEndsStep
<1>5. CASE Block!RunCopy
  BY <1>5, RunCopyStep
<1>6. CASE Block!RunArray
  BY <1>6, RunArrayStep
<1>7. CASE Block!RunMemset
  BY <1>7, RunMemsetStep
<1>8. CASE Block!RunPointers
  BY <1>8, RunPointersStep
<1>9. CASE UNCHANGED Block!vars
  <2>1. d_k' \in 0..1 /\ d_k <= d_k'
    BY <1>9 DEF Block!vars, BlockInv
  <2> QED
    BY <1>9, <2>1, FactorStep DEF Block!vars
<1> QED
  BY <1>1, <1>2, <1>3, <1>4, <1>5, <1>6, <1>7, <1>8, <1>9 DEF Block!Next

-----------------------------------------------------------------------------
(* What the invariant says of the blocks.                                  *)

\* No operation of a block writes more than its call was granted.
\* A quotient is below the factor of a product that the number is below.
LEMMA QuotientBelow ==
  ASSUME NEW S \in Nat, S > 0, NEW m \in Nat, NEW idx \in 0..(m * S - 1)
  PROVE  idx \div S \in 0..(m - 1) /\ idx % S \in 0..(S - 1)
<1> DEFINE q == idx \div S
           r == idx % S
<1>1. m * S \in Nat /\ idx \in Nat /\ idx < m * S
  BY Product
<1>2. q \in Nat /\ r \in Nat /\ r < S /\ idx = S * q + r
  BY <1>1, DivisionIs
<1> HIDE DEF q, r
<1>3. q < m
  <2> SUFFICES ASSUME q >= m PROVE FALSE
    BY <1>2
  <2>1. PICK d \in Nat : q = m + d
    <3>1. q - m \in Nat /\ q = m + (q - m)
      BY <1>2
    <3> QED
      BY <3>1
  <2>2. S * q = m * S + S * d /\ S * d \in Nat
    BY <2>1
  <2> QED
    BY <1>1, <1>2, <2>2
<1>4. q \in 0..(m - 1) /\ r \in 0..(S - 1)
  BY <1>2, <1>3
<1> QED
  BY <1>4 DEF q, r

\* What the scheduler grants on the input side, and the kinds it is for.
LEMMA InputsAre ==
  ASSUME Parameters, NEW n \in Nat
  PROVE  /\ kind \in CopyKinds \cup KernelKinds \cup {"null_source"} \cup Block!CupyKinds
         /\ Block!InPorts = IF kind \in {"add", "add_cupy", "streams_to_vector"}
                              THEN d_num_streams
                              ELSE IF kind = "null_source" THEN 0 ELSE 1
         /\ kind # "streams_to_vector" => Block!InScalars(n) = Scalars(n)
         /\ kind = "streams_to_vector" =>
              Block!InScalars(n) = n /\ Scalars(n) = n * d_num_streams
<1>1. kind \in CopyKinds \cup KernelKinds \cup {"null_source"} \cup Block!CupyKinds
  BY BlocksAssumption DEF Parameters, CopyKinds, KernelKinds, PointerKinds
<1>2. Block!InPorts = IF kind \in {"add", "add_cupy", "streams_to_vector"}
                        THEN d_num_streams
                        ELSE IF kind = "null_source" THEN 0 ELSE 1
  BY DEF Block!InPorts
<1>3. kind \notin {"streams_to_vector", "vector_to_streams"} =>
        Block!InScalars(n) = Block!OutScalars(n) /\ Scalars(n) = Block!OutScalars(n)
  BY ScalarsFill DEF Block!InScalars
<1>4. kind = "vector_to_streams" => Block!InScalars(n) = Scalars(n)
  BY DEF Block!InScalars, Scalars
<1>5. kind = "streams_to_vector" =>
        Block!InScalars(n) = n /\ Scalars(n) = n * d_num_streams
  BY DEF Block!InScalars, Scalars
<1> QED
  BY <1>1, <1>2, <1>3, <1>4, <1>5

\* An input scalar lies in a port and at an index.
LEMMA InsideIs ==
  ASSUME NEW c, NEW p, NEW i
  PROVE  Block!InsideInput(c, Block!In(c, p, i))
           <=> p \in 1..Block!InPorts /\ i \in 0..(Block!InScalars(batch[c]) - 1)
  BY DEF Block!InsideInput, Block!In

\* The input scalars that a thread of a kernel reads are those of its call.
LEMMA KernelReads ==
  ASSUME BlockInv, NEW c, NEW s, AtHead(c, s), Head(stream).op = "kernel",
         NEW idx \in 0..(Scalars(batch[c]) - 1),
         NEW x \in Block!Reads(Block!KernelWrite(Head(stream), idx).value)
  PROVE  Block!InsideInput(c, x)
<1> DEFINE n == batch[c]
           k == Head(stream).k
           S == d_num_streams
           v == ScalarOf(c, Steps, k, PortOf(idx), IndexOf(idx))
<1>1. Parameters /\ n \in Nat /\ Scalars(n) \in Nat /\ idx \in Nat
      /\ S \in Nat /\ S > 0 /\ Head(stream).op = OpName(s)
  BY AtHeadIs DEF BlockInv, Parameters
<1>2. x \in Block!Reads(v)
  BY KernelWrites
<1>3. kind \in KernelKinds
  BY <1>1 DEF OpName, CopyKinds, KernelKinds, PointerKinds
<1> HIDE DEF k
<1>4. CASE kind = "load"
  <2>1. v = Block!In(c, 1, idx)
    BY <1>4 DEF ScalarOf, IndexOf
  <2>2. Block!Reads(v) = {Block!In(c, 1, idx)}
    BY <2>1 DEF Block!Reads, Block!In
  <2>3. Block!InPorts = 1 /\ Block!InScalars(n) = Scalars(n)
    BY <1>1, <1>4, InputsAre
  <2> QED
    BY <1>1, <1>2, <2>2, <2>3, InsideIs
<1>5. CASE kind = "multiply_const"
  <2>1. v = <<"times", k, Block!In(c, 1, idx)>>
    BY <1>5 DEF ScalarOf, IndexOf
  <2>2. Block!Reads(v) = {Block!In(c, 1, idx)}
    BY <2>1 DEF Block!Reads
  <2>3. Block!InPorts = 1 /\ Block!InScalars(n) = Scalars(n)
    BY <1>1, <1>5, InputsAre
  <2> QED
    BY <1>1, <1>2, <2>2, <2>3, InsideIs
<1>6. CASE kind = "add"
  <2>1. v = <<"sum", [q \in 1..S |-> Block!In(c, q, idx)]>>
    BY <1>6 DEF ScalarOf, IndexOf
  <2>2. Block!Reads(v) = {Block!In(c, q, idx) : q \in 1..S}
    BY <2>1 DEF Block!Reads
  <2>3. Block!InPorts = S /\ Block!InScalars(n) = Scalars(n)
    BY <1>1, <1>6, InputsAre
  <2>4. PICK q \in 1..S : x = Block!In(c, q, idx)
    BY <1>2, <2>2
  <2> QED
    BY <1>1, <2>3, <2>4, InsideIs
<1>7. CASE kind = "streams_to_vector"
  <2>1. v = Block!In(c, (idx % S) + 1, idx \div S)
    BY <1>7 DEF ScalarOf, IndexOf
  <2>2. Block!Reads(v) = {Block!In(c, (idx % S) + 1, idx \div S)}
    BY <2>1 DEF Block!Reads, Block!In
  <2>3. Block!InPorts = S /\ Block!InScalars(n) = n /\ Scalars(n) = n * S
    BY <1>1, <1>7, InputsAre
  <2>4. idx \div S \in 0..(n - 1) /\ idx % S \in 0..(S - 1)
    BY <1>1, <2>3, QuotientBelow
  <2>5. (idx % S) + 1 \in 1..S
    BY <1>1, <2>4
  <2> QED
    BY <1>2, <2>2, <2>3, <2>4, <2>5, InsideIs
<1>8. CASE kind = "vector_to_streams"
  <2>1. v = Block!In(c, 1, (idx \div S) * S + ((idx % S) + 1) - 1)
    BY <1>8 DEF ScalarOf, IndexOf, PortOf
  <2>2. (idx \div S) * S + ((idx % S) + 1) - 1 = idx
    BY <1>1, DivisionIs
  <2>3. Block!Reads(v) = {Block!In(c, 1, idx)}
    BY <2>1, <2>2 DEF Block!Reads, Block!In
  <2>4. Block!InPorts = 1 /\ Block!InScalars(n) = Scalars(n)
    BY <1>1, <1>8, InputsAre
  <2> QED
    BY <1>1, <1>2, <2>3, <2>4, InsideIs
<1> QED
  BY <1>3, <1>4, <1>5, <1>6, <1>7, <1>8 DEF KernelKinds, PointerKinds

\* No operation leaves what is granted to its call: a thread writes at its place
\* in the outputs, and the others go as far as the outputs do.
LEMMA BlockFits == BlockInv => Block!InBounds
<1> SUFFICES ASSUME BlockInv, stream # <<>>
             PROVE  Block!InBounds
  BY DEF Block!InBounds
<1>1. PICK c \in 1..Len(batch), s \in 1..Steps : AtHead(c, s)
  BY HeadIs DEF AtHead
<1> DEFINE op == Head(stream)
           n == batch[c]
           m == Block!OutScalars(n)
<1>2. /\ op.call = c /\ op.op = OpName(s) /\ n \in Nat /\ m \in Nat /\ Scalars(n) \in Nat
      /\ Block!OutPorts \in Nat /\ Block!OutPorts > 0 /\ Parameters
  BY <1>1, AtHeadIs DEF BlockInv
<1>3. /\ op.total = IF op.op = "pointers" THEN 0 ELSE Scalars(n)
      /\ op.op \in {"copy", "memset", "array"} => op.port = IF kind = "tee" THEN s ELSE 1
  BY <1>1 DEF AtHead, IsStep
<1>4. ASSUME op.op = "kernel", NEW idx \in Block!Threads(op.total)
      PROVE  Block!ThreadInside(op, idx)
  <2>1. idx \in 0..(Scalars(n) - 1)
    BY <1>2, <1>3, <1>4, ThreadsAre
  <2> DEFINE w == Block!KernelWrite(op, idx)
  <2>2. w.call = c /\ w.port = PortOf(idx) /\ w.index = IndexOf(idx)
    BY <1>1, <1>4, <2>1, KernelWrites
  <2>3. PortOf(idx) \in 1..Block!OutPorts /\ IndexOf(idx) \in 0..(m - 1)
    BY <1>2, <2>1, PlacesAre
  <2>4. Block!InsideOutput(c, w.port, w.index)
    BY <2>2, <2>3 DEF Block!InsideOutput
  <2>5. \A x \in Block!Reads(w.value) : Block!InsideInput(c, x)
    BY <1>1, <1>4, <2>1, KernelReads
  <2> QED
    BY <1>2, <2>2, <2>4, <2>5 DEF Block!ThreadInside
<1>5. ASSUME op.op \notin {"kernel", "pointers"}, NEW i \in 0..(op.total - 1)
      PROVE  /\ Block!InsideOutput(op.call, op.port, i)
             /\ op.op # "memset" => \A p \in 1..Block!InPorts :
                  Block!InsideInput(op.call, Block!In(op.call, p, i))
  <2>1. kind \notin KernelKinds
    BY <1>2, <1>5 DEF OpName, CopyKinds, KernelKinds, PointerKinds
  <2>2. op.total = m /\ Block!InScalars(n) = m
    BY <1>2, <1>3, <1>5, <2>1, ScalarsFill, InputsAre DEF KernelKinds, PointerKinds
  <2>3. op.port \in 1..Block!OutPorts
    <3>1. op.op \in {"copy", "memset", "array"}
      BY <1>2, <1>5 DEF OpName
    <3>2. CASE kind = "tee"
      <4>1. Steps = 2 /\ Block!OutPorts = 2
        BY <3>2 DEF Steps, Block!OutPorts
      <4> QED
        BY <1>3, <3>1, <3>2, <4>1
    <3>3. CASE kind # "tee"
      BY <1>2, <1>3, <3>1, <3>3
    <3> QED
      BY <3>2, <3>3
  <2>4. Block!InsideOutput(op.call, op.port, i)
    BY <1>2, <2>2, <2>3 DEF Block!InsideOutput
  <2>5. \A p \in 1..Block!InPorts : Block!InsideInput(op.call, Block!In(op.call, p, i))
    BY <1>2, <2>2, InsideIs
  <2> QED
    BY <2>4, <2>5
<1> HIDE DEF op
<1>6. Block!InBounds <=>
        CASE op.op = "kernel" -> \A idx \in Block!Threads(op.total) : Block!ThreadInside(op, idx)
          [] op.op = "pointers" -> TRUE
          [] OTHER ->
               \A i \in 0..(op.total - 1) :
                 /\ Block!InsideOutput(op.call, op.port, i)
                 /\ op.op # "memset" =>
                      \A p \in 1..Block!InPorts :
                        Block!InsideInput(op.call, Block!In(op.call, p, i))
  BY DEF Block!InBounds, op
<1> QED
  BY <1>4, <1>5, <1>6

\* A call that has no operation left has made what its last step makes.
LEMMA LastIsMade ==
  ASSUME BlockInv, NEW c \in 1..Len(batch), \A i \in 1..Len(stream) : stream[i].call # c
  PROVE  Made(c, Steps)
<1>1. Len(stream) \in Nat /\ Len(batch) \in Nat /\ Steps \in Nat /\ Steps > 0
      /\ Executed \in Nat /\ Executed = First(Steps, Len(batch) + 1) - Len(stream)
  BY LenIs, StepsAre DEF BlockInv, Calls, Executed
<1>2. First(Steps, c) \in Nat
  <2>1. c \in Nat /\ c > 0
    BY <1>1
  <2> QED
    BY <1>1, <2>1, FirstIs
<1>3. Executed >= First(Steps, c) + Steps
  <2> SUFFICES ASSUME Executed < First(Steps, c) + Steps PROVE FALSE
    BY <1>1, <1>2
  <2> DEFINE i == (First(Steps, c) + Steps) - Executed
  <2>1. c \in Nat /\ c > 0 /\ Len(batch) + 1 \in Nat /\ Len(batch) + 1 > c
        /\ Len(batch) + 1 > 0 /\ Steps \in 1..Steps
    BY <1>1
  <2>2. /\ First(Steps, c) + Steps <= First(Steps, Len(batch) + 1)
        /\ First(Steps, Len(batch) + 1) \in Nat
    BY <1>1, <2>1, FirstIs
  <2>3. i \in 1..Len(stream) /\ Executed + i = First(Steps, c) + Steps
    <3>1. PICK e \in Nat, f \in Nat, n \in Nat, m \in Nat, t \in Nat :
            e = Executed /\ f = First(Steps, c) /\ n = Steps /\ m = Len(stream)
            /\ t = First(Steps, Len(batch) + 1)
      BY <1>1, <1>2, <2>2
    <3>2. e = t - m /\ e < f + n /\ f + n <= t
      BY <1>1, <2>2, <3>1
    <3>3. (f + n) - e \in 1..m /\ e + ((f + n) - e) = f + n
      BY <3>2, PlaceLeft
    <3> QED
      BY <3>1, <3>3
  <2>4. CallAt(Steps, Executed + i) = c
    BY <1>1, <2>1, <2>3, NumberOf
  <2> HIDE DEF i
  <2>5. stream[i].call = c
    BY <2>3, <2>4 DEF BlockInv, Calls, IsStep
  <2> QED
    BY <2>3, <2>5
<1>4. Latest(Steps, Executed, c, Steps) /\ Steps \in 1..Steps
  BY <1>1, <1>2, <1>3 DEF Latest
<1> QED
  BY <1>4 DEF BlockInv, Results

\* What the last step of a call makes is what the block on the CPU gives.
LEMMA MadeIsReference ==
  ASSUME NullOutputs \subseteq {1}, Parameters, NEW c, batch[c] \in Nat, Made(c, Steps)
  PROVE  Block!Reference(c)
<1> DEFINE n == batch[c]
           m == Block!OutScalars(n)
<1>1. n \in Nat /\ m \in Nat
  BY ScalarsAre
<1>2. d_vlen \in Nat /\ d_vlen > 0 /\ d_num_streams \in Nat /\ d_num_streams > 0
      /\ n_is_1 \in BOOLEAN /\ k_is_0 \in BOOLEAN
  BY DEF Parameters
<1>3. PICK k \in 0..d_k :
        \A p \in PortsOf(Steps), i \in 0..(m - 1) :
          out[c][p][i + 1] = ScalarOf(c, Steps, k, p, i)
  BY DEF Made
<1>4. ASSUME NEW p \in PortsOf(Steps), NEW j \in 1..m
      PROVE  out[c][p][j] = ScalarOf(c, Steps, k, p, j - 1)
  <2>1. j - 1 \in 0..(m - 1) /\ j - 1 + 1 = j
    BY <1>1
  <2> QED
    BY <1>3, <2>1
<1>5. CASE kind \in {"copy", "load", "tee"}
  <2>1. Block!Reference(c) <=>
          \A p \in 1..Block!OutPorts, i \in 1..n : out[c][p][i] = Block!In(c, 1, i - 1)
    BY Zenon, <1>5 DEF Block!Reference
  <2>2. m = n /\ \A p \in 1..Block!OutPorts : p \in PortsOf(Steps)
    BY <1>5 DEF Block!OutScalars, Block!CupyKinds, Block!OutPorts, PortsOf, Steps,
                PointerKinds
  <2>3. \A s, l, p, i : ScalarOf(c, s, l, p, i) = Block!In(c, 1, i)
    BY <1>5 DEF ScalarOf
  <2> HIDE DEF n, m
  <2> QED
    BY <1>4, <2>1, <2>2, <2>3
<1>6. CASE kind = "null_source"
  <2>0. Block!OutPorts = 1
    BY <1>6 DEF Block!OutPorts, Parameters
  <2>1. Block!Reference(c) <=>
          \A p \in 1..Block!OutPorts, i \in 1..n : out[c][p][i] = <<"zero">>
    BY Zenon, <1>6 DEF Block!Reference
  <2>2. m = n /\ \A p \in 1..Block!OutPorts : p \in PortsOf(Steps)
    BY <1>6, <2>0 DEF Block!OutScalars, Block!CupyKinds, PortsOf, PointerKinds
  <2>3. \A s, l, p, i : ScalarOf(c, s, l, p, i) = <<"zero">>
    BY <1>6 DEF ScalarOf
  <2> HIDE DEF n, m
  <2> QED
    BY <1>4, <2>1, <2>2, <2>3
<1>7. CASE kind = "vector_to_stream"
  <2>1. Block!Reference(c) <=> \A i \in 1..n : out[c][1][i] = Block!In(c, 1, i - 1)
    BY Zenon, <1>7 DEF Block!Reference
  <2>2. m = n /\ 1 \in PortsOf(Steps)
    BY <1>7 DEF Block!OutScalars, Block!CupyKinds, PortsOf, PointerKinds
  <2>3. \A s, l, p, i : ScalarOf(c, s, l, p, i) = Block!In(c, 1, i)
    BY <1>7 DEF ScalarOf
  <2> HIDE DEF n, m
  <2> QED
    BY <1>4, <2>1, <2>2, <2>3
<1>8. CASE kind = "stream_to_vector"
  <2>1. Block!Reference(c) <=>
          \A v \in 0..(n - 1), l \in 1..d_vlen :
            out[c][1][v * d_vlen + l] = Block!In(c, 1, v * d_vlen + l - 1)
    BY Zenon, <1>8 DEF Block!Reference
  <2>2. m = n * d_vlen /\ 1 \in PortsOf(Steps)
    BY <1>8 DEF Block!OutScalars, Block!CupyKinds, PortsOf, PointerKinds
  <2>3. \A s, l, p, i : ScalarOf(c, s, l, p, i) = Block!In(c, 1, i)
    BY <1>8 DEF ScalarOf
  <2> HIDE DEF n, m
  <2>4. ASSUME NEW v \in 0..(n - 1), NEW l \in 1..d_vlen
        PROVE  out[c][1][v * d_vlen + l] = Block!In(c, 1, v * d_vlen + l - 1)
    <3> DEFINE j == v * d_vlen + l
    <3>1. j \in 1..m
      BY <1>1, <1>2, <2>2, PlaceIn
    <3>3. j = v * d_vlen + l /\ j - 1 = v * d_vlen + l - 1
      BY <1>1, <1>2, Product
    <3> HIDE DEF j
    <3>2. out[c][1][j] = Block!In(c, 1, j - 1)
      BY <1>4, <2>2, <2>3, <3>1
    <3> QED
      BY Zenon, <3>2, <3>3
  <2> QED
    BY <2>1, <2>4
<1>9. CASE kind \in {"multiply_const", "multiply_const_cupy"}
  <2>1. Block!Reference(c) <=>
          \E l \in 0..d_k : \A i \in 1..(n * d_vlen) :
            out[c][1][i] = <<"times", l, Block!In(c, 1, i - 1)>>
    BY Zenon, <1>9 DEF Block!Reference
  <2>2. m = n * d_vlen /\ 1 \in PortsOf(Steps)
    BY <1>9 DEF Block!OutScalars, Block!CupyKinds, PortsOf, PointerKinds
  <2>3. \A s, l, p, i : ScalarOf(c, s, l, p, i) = <<"times", l, Block!In(c, 1, i)>>
    BY <1>9 DEF ScalarOf
  <2> HIDE DEF n, m
  <2> QED
    BY <1>4, <2>1, <2>2, <2>3
<1>10. CASE kind = "complex_to_mag_cupy"
  <2>1. Block!Reference(c) <=>
          \A i \in 1..(n * d_vlen) : out[c][1][i] = <<"abs", Block!In(c, 1, i - 1)>>
    BY Zenon, <1>10 DEF Block!Reference
  <2>2. m = n * d_vlen /\ 1 \in PortsOf(Steps)
    BY <1>10 DEF Block!OutScalars, Block!CupyKinds, PortsOf, PointerKinds
  <2>3. \A s, l, p, i : ScalarOf(c, s, l, p, i) = <<"abs", Block!In(c, 1, i)>>
    BY Zenon, <1>10 DEF ScalarOf
  <2> HIDE DEF n, m
  <2> QED
    BY <1>4, <2>1, <2>2, <2>3
<1>11. CASE kind = "complex_to_mag_squared_cupy"
  <2>1. Block!Reference(c) <=>
          \A i \in 1..(n * d_vlen) : out[c][1][i] = <<"abs2", Block!In(c, 1, i - 1)>>
    BY Zenon, <1>11 DEF Block!Reference
  <2>2. m = n * d_vlen /\ 1 \in PortsOf(Steps)
    BY <1>11 DEF Block!OutScalars, Block!CupyKinds, PortsOf, PointerKinds
  <2>3. \A s, l, p, i : ScalarOf(c, s, l, p, i) = <<"abs2", Block!In(c, 1, i)>>
    BY Zenon, <1>11 DEF ScalarOf
  <2> HIDE DEF n, m
  <2> QED
    BY <1>4, <2>1, <2>2, <2>3
<1>12. CASE kind \in {"add", "add_cupy"}
  <2>1. Block!Reference(c) <=>
          \A i \in 1..(n * d_vlen) :
            out[c][1][i] = <<"sum", [p \in 1..d_num_streams |-> Block!In(c, p, i - 1)]>>
    BY Zenon, <1>12 DEF Block!Reference
  <2>2. m = n * d_vlen /\ 1 \in PortsOf(Steps)
    BY <1>12 DEF Block!OutScalars, Block!CupyKinds, PortsOf, PointerKinds, Steps
  <2>3. \A s, l, p, i : ScalarOf(c, s, l, p, i)
                          = <<"sum", [q \in 1..d_num_streams |-> Block!In(c, q, i)]>>
    BY <1>12 DEF ScalarOf
  <2> HIDE DEF n, m
  <2>4. ASSUME NEW i \in 1..(n * d_vlen)
        PROVE  out[c][1][i] = <<"sum", [p \in 1..d_num_streams |-> Block!In(c, p, i - 1)]>>
    <3>1. out[c][1][i] = ScalarOf(c, Steps, k, 1, i - 1)
      BY <1>4, <2>2
    <3> QED
      BY Zenon, <2>3, <3>1
  <2> QED
    BY Zenon, <2>1, <2>4
<1>13. CASE kind = "nlog10_cupy"
  <2> DEFINE log(i) == <<"log10", Block!In(c, 1, i - 1)>>
             scaled(i) == IF n_is_1 THEN log(i) ELSE <<"times n", log(i)>>
  <2>1. Block!Reference(c) <=>
          \A i \in 1..(n * d_vlen) :
            out[c][1][i] = IF k_is_0 THEN scaled(i) ELSE <<"plus k", scaled(i)>>
    BY Zenon, <1>13 DEF Block!Reference
  <2>2. m = n * d_vlen /\ 1 \in PortsOf(Steps)
    BY <1>13 DEF Block!OutScalars, Block!CupyKinds, PortsOf, PointerKinds
  <2>3. \A s, l, p, i : ScalarOf(c, s, l, p, i) = Logarithm(c, s, i)
    BY <1>13 DEF ScalarOf
  <2>4. Steps = (IF n_is_1 THEN 1 ELSE 2) + (IF k_is_0 THEN 0 ELSE 1)
    BY Zenon, <1>13 DEF Steps, PointerKinds
  <2>5. ASSUME NEW i
        PROVE  Logarithm(c, Steps, i - 1)
                 = IF k_is_0 THEN scaled(i) ELSE <<"plus k", scaled(i)>>
    <3>1. CASE n_is_1 = TRUE
      BY Zenon, <3>1 DEF Logarithm
    <3>2. CASE n_is_1 = FALSE
      <4>1. Steps # 1
        BY <1>2, <2>4, <3>2
      <4> QED
        BY Zenon, <3>2, <4>1 DEF Logarithm
    <3> QED
      BY <1>2, <3>1, <3>2
  <2> HIDE DEF n, m, scaled
  <2>6. ASSUME NEW i \in 1..(n * d_vlen)
        PROVE  out[c][1][i] = Logarithm(c, Steps, i - 1)
    BY <1>4, <2>2, <2>3
  <2> QED
    BY Zenon, <2>1, <2>5, <2>6
<1>14. CASE kind = "streams_to_vector"
  <2>1. Block!Reference(c) <=>
          \A v \in 0..(n - 1), l \in 1..d_num_streams :
            out[c][1][v * d_num_streams + l] = Block!In(c, l, v)
    BY Zenon, <1>14 DEF Block!Reference
  <2>2. m = n * d_num_streams /\ 1 \in PortsOf(Steps)
    BY <1>14 DEF Block!OutScalars, Block!CupyKinds, PortsOf, PointerKinds, Steps
  <2>3. \A s, l, p, i : ScalarOf(c, s, l, p, i)
                          = Block!In(c, (i % d_num_streams) + 1, i \div d_num_streams)
    BY <1>14 DEF ScalarOf
  <2> HIDE DEF n, m
  <2>4. ASSUME NEW v \in 0..(n - 1), NEW l \in 1..d_num_streams
        PROVE  out[c][1][v * d_num_streams + l] = Block!In(c, l, v)
    <3> DEFINE j == v * d_num_streams + l
    <3>1. /\ j \in 1..m
          /\ (j - 1) \div d_num_streams = v /\ (j - 1) % d_num_streams = l - 1
      BY <1>1, <1>2, <2>2, PlaceIn
    <3> HIDE DEF j
    <3>2. out[c][1][j] = Block!In(c, ((j - 1) % d_num_streams) + 1,
                                  (j - 1) \div d_num_streams)
      BY <1>4, <2>2, <2>3, <3>1
    <3>3. l - 1 + 1 = l
      BY <1>2
    <3> QED
      BY <3>1, <3>2, <3>3 DEF j
  <2> QED
    BY <2>1, <2>4
<1>15. CASE kind = "vector_to_streams"
  <2>1. Block!Reference(c) <=>
          \A v \in 0..(n - 1), l \in 1..d_num_streams :
            out[c][l][v + 1] = Block!In(c, 1, v * d_num_streams + l - 1)
    BY Zenon, <1>15 DEF Block!Reference
  <2>2. m = n /\ PortsOf(Steps) = 1..d_num_streams
    BY <1>15 DEF Block!OutScalars, Block!CupyKinds, PortsOf, PointerKinds, Steps
  <2>3. \A s, l, p, i : ScalarOf(c, s, l, p, i) = Block!In(c, 1, i * d_num_streams + p - 1)
    BY <1>15 DEF ScalarOf
  <2> HIDE DEF n, m
  <2> QED
    BY <1>3, <2>1, <2>2, <2>3
<1> QED
  BY <1>5, <1>6, <1>7, <1>8, <1>9, <1>10, <1>11, <1>12, <1>13, <1>14, <1>15,
     BlocksAssumption DEF Parameters, Block!CupyKinds

LEMMA BlockRight ==
  ASSUME NullOutputs \subseteq {1}
  PROVE  BlockInv => Block!OutputRight
<1> SUFFICES ASSUME BlockInv, NEW c \in 1..Len(batch),
                    \A i \in 1..Len(stream) : stream[i].call # c
             PROVE  Block!Reference(c)
  BY DEF Block!OutputRight
<1>1. Made(c, Steps)
  BY LastIsMade
<1> QED
  BY <1>1, MadeIsReference DEF BlockInv, Calls

-----------------------------------------------------------------------------
(* The FFT blocks.  The operations of a call are a pipeline: each reads    *)
(* the memory that the one before it has written, the first one the input. *)

FftParameters ==
  /\ d_fft_size \in Nat \ {0}
  /\ cupy \in BOOLEAN /\ d_forward \in BOOLEAN /\ d_shift \in BOOLEAN
  /\ d_has_window \in BOOLEAN /\ d_real_input \in BOOLEAN

Ishift == d_shift /\ ~d_forward
Fshift == d_shift /\ d_forward

\* How many steps of a call come before the transform; the one that has the
\* bins in their order; all of them.
WindowSteps == IF d_has_window THEN 1 ELSE 0
IshiftSteps == IF Ishift THEN 1 ELSE 0
Entering ==
  IF cupy THEN WindowSteps + IshiftSteps ELSE IF Preprocesses THEN 1 ELSE 0
Bins ==
  Entering + 1 + (IF cupy /\ d_real_input THEN IF d_forward THEN 1 ELSE 2 ELSE 0)
FftSteps == Bins + (IF Fshift THEN IF cupy THEN 2 ELSE 1 ELSE 0)

\* The operation of a step, the memory it writes and the one it reads.
FftKind(s) ==
  IF s = Entering + 1 /\ ~(cupy /\ d_real_input) THEN "fft"
  ELSE IF cupy THEN "array" ELSE "kernel"

To(s) ==
  IF s = FftSteps \/ (cupy /\ s = Bins) THEN "out" ELSE IF cupy THEN "tmp" ELSE "work"

From(s) == IF s = 1 THEN "in" ELSE To(s - 1)

ArrayOf(s) ==
  IF s <= Entering THEN IF s = 1 /\ d_has_window THEN "window" ELSE "ifftshift"
  ELSE IF s = Entering + 1 THEN IF d_forward THEN "fft" ELSE "ifft"
  ELSE IF s = Bins \/ s = FftSteps THEN "copy"
  ELSE IF s < Bins THEN "scale" ELSE "fftshift"

ShiftOf(s) ==
  IF s > Entering THEN fftshift_split ELSE IF Ishift THEN ifftshift_split ELSE 0

WindowOf(s) == IF s > Entering THEN FALSE ELSE d_has_window

IsFftStep(op, c, s, n) ==
  /\ op.call = c /\ op.vectors = n /\ op.kind = FftKind(s)
  /\ op.from = From(s) /\ op.to = To(s)
  /\ op.kind = "kernel" => op.shift = ShiftOf(s) /\ op.window = WindowOf(s)
  /\ op.kind = "array" => op.f = ArrayOf(s)
  /\ op.kind = "fft" => op.direction = Direction

LEMMA CountsAre ==
  ASSUME FftParameters
  PROVE  /\ Entering \in 0..2 /\ Bins \in (Entering + 1)..(Entering + 3)
         /\ FftSteps \in Bins..(Bins + 2)
<1>1. WindowSteps \in 0..1 /\ IshiftSteps \in 0..1
  BY DEF WindowSteps, IshiftSteps
<1>2. Entering \in 0..2
  BY <1>1 DEF Entering
<1>3. Bins \in (Entering + 1)..(Entering + 3)
  BY <1>2 DEF Bins
<1>4. FftSteps \in Bins..(Bins + 2)
  BY <1>2, <1>3 DEF FftSteps
<1> QED
  BY <1>2, <1>3, <1>4

\* The operations q of call c that follow the first a of them.
Segment(q, c, a, n) ==
  IsSeq(q) /\ \A k \in 1..Len(q) : IsFftStep(q[k], c, a + k, n)

LEMMA NoneAhead == \A c, a, n : Segment(<<>>, c, a, n)
  BY NoOp DEF Segment

LEMMA OneAhead ==
  ASSUME NEW op, NEW c, NEW a, NEW n, IsFftStep(op, c, a + 1, n)
  PROVE  Segment(<<op>>, c, a, n) /\ Len(<<op>>) = 1
<1> DEFINE q == <<op>>
<1>1. IsSeq(q) /\ Len(q) = 1 /\ q[1] = op
  BY OneOp
<1> HIDE DEF q
<1>2. \A k \in 1..Len(q) : k = 1
  BY <1>1
<1>3. Segment(q, c, a, n)
  BY Zenon, <1>1, <1>2 DEF Segment
<1> QED
  BY <1>1, <1>3 DEF q

LEMMA BothAhead ==
  ASSUME NEW q, NEW r, NEW c, NEW a \in Nat, NEW n, NEW b,
         Segment(q, c, a, n), Segment(r, c, b, n), b = a + Len(q)
  PROVE  Segment(q \o r, c, a, n) /\ Len(q \o r) = Len(q) + Len(r)
<1>1. /\ IsSeq(q \o r) /\ Len(q \o r) = Len(q) + Len(r)
      /\ \A i \in 1..Len(q) : (q \o r)[i] = q[i]
      /\ \A i \in 1..Len(r) : (q \o r)[Len(q) + i] = r[i]
  BY ConcatIs DEF Segment
<1>2. Len(q) \in Nat /\ Len(r) \in Nat
  BY LenIs DEF Segment
<1> DEFINE t == q \o r
<1> HIDE DEF t
<1>3. ASSUME NEW k \in 1..(Len(q) + Len(r)) PROVE IsFftStep(t[k], c, a + k, n)
  <2>1. CASE k <= Len(q)
    <3>1. k \in 1..Len(q)
      BY <1>2, <2>1
    <3>2. t[k] = q[k] /\ IsFftStep(q[k], c, a + k, n)
      BY <1>1, <3>1 DEF Segment, t
    <3> QED
      BY <3>2
  <2>2. CASE k > Len(q)
    <3> DEFINE j == k - Len(q)
    <3>1. j \in 1..Len(r) /\ k = Len(q) + j /\ b + j = a + k
      BY <1>2, <2>2
    <3> HIDE DEF j
    <3>2. t[Len(q) + j] = r[j] /\ IsFftStep(r[j], c, b + j, n)
      BY <1>1, <3>1 DEF Segment, t
    <3>3. t[k] = r[j] /\ IsFftStep(r[j], c, a + k, n)
      BY <3>1, <3>2
    <3> QED
      BY <3>3
  <2> QED
    BY <1>2, <2>1, <2>2
<1> QED
  BY <1>1, <1>3 DEF Segment, t

\* A call of fft enqueues the steps, on all its vectors.
LEMMA FftEnqueues ==
  ASSUME FftParameters, ~cupy, NEW c, NEW n, batch'[c] = n, d_plan_cache'[n].vectors = n
  PROVE  /\ Segment((Before(c) \o <<Transform(c)>>) \o Behind(c), c, 0, n)
         /\ Len((Before(c) \o <<Transform(c)>>) \o Behind(c)) = FftSteps
         /\ IsSeq(Before(c)) /\ IsSeq(<<Transform(c)>>) /\ IsSeq(Behind(c))
<1>1. /\ Entering = IF Preprocesses THEN 1 ELSE 0
      /\ Bins = Entering + 1 /\ FftSteps = Bins + (IF Fshift THEN 1 ELSE 0)
  BY DEF Entering, Bins, FftSteps
<1>2. Segment(Before(c), c, 0, n) /\ Len(Before(c)) = Entering
  <2>1. CASE Preprocesses
    <3> DEFINE op == Kernel(c, "in", "work",
                            IF d_shift /\ ~d_forward THEN ifftshift_split ELSE 0, d_has_window)
    <3>1. Before(c) = <<op>> /\ Entering = 1 /\ 0 + 1 = 1 /\ 1 <= Entering /\ ~(1 > Entering)
          /\ 1 # Entering + 1 /\ 1 # FftSteps
      BY <1>1, <2>1 DEF Before
    <3>2. IsFftStep(op, c, 1, n)
      BY Zenon, <3>1
         DEF IsFftStep, Kernel, FftKind, From, To, ShiftOf, WindowOf, Ishift
    <3> HIDE DEF op
    <3> QED
      BY <3>1, <3>2, OneAhead
  <2>2. CASE ~Preprocesses
    BY <1>1, <2>2, NoneAhead, NoOp DEF Before
  <2> QED
    BY <2>1, <2>2
<1>3. Segment(<<Transform(c)>>, c, Entering, n) /\ Len(<<Transform(c)>>) = 1
  <2>0. Entering \in Nat /\ (Entering + 1 = 1 <=> ~Preprocesses) /\ (Entering + 1) - 1 = Entering
        /\ (Preprocesses => Entering # FftSteps) /\ (Entering + 1 = FftSteps <=> ~Fshift)
    BY <1>1, CountsAre
  <2>1. Transform(c).from = From(Entering + 1)
    <3>1. Transform(c).from = IF Preprocesses THEN "work" ELSE "in"
      BY Zenon DEF Transform
    <3>2. To((Entering + 1) - 1) = To(Entering)
      BY <2>0
    <3>3. From(Entering + 1) = IF Entering + 1 = 1 THEN "in" ELSE To(Entering)
      BY <3>2 DEF From
    <3>4. Preprocesses => To(Entering) = "work"
      BY Zenon, <2>0 DEF To
    <3> QED
      BY Zenon, <2>0, <3>1, <3>3, <3>4
  <2>2. Transform(c).to = To(Entering + 1)
    BY Zenon, <2>0 DEF Transform, To, Fshift
  <2>3. /\ Transform(c).call = c /\ Transform(c).vectors = n
        /\ Transform(c).kind = FftKind(Entering + 1) /\ Transform(c).kind = "fft"
        /\ Transform(c).direction = Direction
    BY Zenon DEF Transform, FftKind
  <2>4. IsFftStep(Transform(c), c, Entering + 1, n)
    BY <2>1, <2>2, <2>3 DEF IsFftStep
  <2> QED
    BY <2>4, OneAhead
<1>4. Segment(Behind(c), c, Entering + 1, n)
      /\ Len(Behind(c)) = IF Fshift THEN 1 ELSE 0
  <2>1. CASE Fshift
    <3> DEFINE op == Kernel(c, Transform(c).to, "out", fftshift_split, FALSE)
               s == Entering + 2
    <3>1. Behind(c) = <<op>>
      BY <2>1 DEF Behind, Fshift
    <3>2. Entering \in Nat /\ FftSteps = s /\ s = Entering + 1 + 1 /\ s > Entering /\ s # 1
          /\ s # Entering + 1 /\ s - 1 = Entering + 1 /\ Entering + 1 # FftSteps
      BY <1>1, <2>1, CountsAre
    <3> HIDE DEF s
    <3>3. Transform(c).to = "work" /\ To(s - 1) = "work"
      BY Zenon, <2>1, <3>2 DEF Transform, To, Fshift
    <3>4. IsFftStep(op, c, s, n)
      BY Zenon, <3>2, <3>3 DEF IsFftStep, Kernel, FftKind, From, To, ShiftOf, WindowOf
    <3> HIDE DEF op
    <3> QED
      BY <2>1, <3>1, <3>2, <3>4, OneAhead
  <2>2. CASE ~Fshift
    BY <2>2, NoneAhead, NoOp DEF Behind, Fshift
  <2> QED
    BY <2>1, <2>2
<1> DEFINE b == Before(c)
           t == <<Transform(c)>>
           e == Behind(c)
<1>5. Entering \in Nat /\ 0 \in Nat /\ Entering = 0 + Len(b)
  BY <1>2, CountsAre
<1>6. IsSeq(b) /\ IsSeq(t) /\ IsSeq(e)
  BY <1>2, <1>3, <1>4 DEF Segment
<1> HIDE DEF b, t, e
<1>7. Segment(b \o t, c, 0, n) /\ Len(b \o t) = Entering + 1
  <2>1. Segment(b \o t, c, 0, n) /\ Len(b \o t) = Len(b) + Len(t)
    BY <1>2, <1>3, <1>5, BothAhead DEF b, t
  <2> QED
    BY <1>2, <1>3, <2>1 DEF b, t
<1>8. Segment((b \o t) \o e, c, 0, n) /\ Len((b \o t) \o e) = Len(b \o t) + Len(e)
  <2>1. Segment(e, c, Entering + 1, n) /\ Entering + 1 = 0 + Len(b \o t)
    BY <1>4, <1>5, <1>7 DEF e
  <2> QED
    BY <1>5, <1>7, <2>1, BothAhead
<1>9. Len((b \o t) \o e) = FftSteps
  BY <1>1, <1>4, <1>7, <1>8 DEF e
<1> QED
  BY <1>6, <1>8, <1>9 DEF b, t, e

\* So does a call of fft_cupy.
LEMMA CupyEnqueues ==
  ASSUME FftParameters, cupy, NEW c, NEW n, batch'[c] = n,
         ~d_real_input => d_plan_cache'[n].vectors = n
  PROVE  Segment(CupyWork(c), c, 0, n) /\ Len(CupyWork(c)) = FftSteps
<1> DEFINE w == IF d_has_window THEN <<Array(c, "window", "in", "tmp")>> ELSE <<>>
           h == IF Ishift
                  THEN <<Array(c, "ifftshift", IF d_has_window THEN "tmp" ELSE "in", "tmp")>>
                  ELSE <<>>
           curr_in == IF d_has_window \/ Ishift THEN "tmp" ELSE "in"
           plan == [kind |-> "fft", call |-> c, from |-> curr_in, to |-> "out",
                    direction |-> Direction, vectors |-> d_plan_cache'[batch'[c]].vectors]
           t == IF ~d_real_input THEN <<plan>>
                ELSE IF d_forward
                THEN <<Array(c, "fft", curr_in, "tmp"), Array(c, "copy", "tmp", "out")>>
                ELSE <<Array(c, "ifft", curr_in, "tmp"), Array(c, "scale", "tmp", "tmp"),
                       Array(c, "copy", "tmp", "out")>>
           e == IF Fshift
                  THEN <<Array(c, "fftshift", "out", "tmp"), Array(c, "copy", "tmp", "out")>>
                  ELSE <<>>
<1>1. CupyWork(c) = ((w \o h) \o t) \o e
  BY DEF CupyWork, Ishift, Fshift
<1>2. /\ Entering = WindowSteps + IshiftSteps /\ WindowSteps \in 0..1 /\ IshiftSteps \in 0..1
      /\ Bins = Entering + 1 + (IF d_real_input THEN IF d_forward THEN 1 ELSE 2 ELSE 0)
      /\ FftSteps = Bins + (IF Fshift THEN 2 ELSE 0)
  BY DEF Entering, Bins, FftSteps, WindowSteps, IshiftSteps
<1>3. Entering \in Nat /\ Bins \in Nat /\ FftSteps \in Nat
      /\ Bins >= Entering + 1 /\ FftSteps >= Bins
  BY CountsAre
<1>4. Segment(w, c, 0, n) /\ Len(w) = WindowSteps
  <2>1. CASE d_has_window
    <3> DEFINE op == Array(c, "window", "in", "tmp")
    <3>0. WindowSteps = 1
      BY <2>1 DEF WindowSteps
    <3>1. 0 + 1 = 1 /\ 1 <= Entering /\ 1 # Entering + 1 /\ 1 # Bins /\ 1 # FftSteps
      BY <1>2, <1>3, <3>0
    <3>2. IsFftStep(op, c, 1, n)
      BY Zenon, <2>1, <3>1 DEF IsFftStep, Array, FftKind, From, To, ArrayOf
    <3> HIDE DEF op
    <3>3. Segment(<<op>>, c, 0, n) /\ Len(<<op>>) = 1
      BY <3>1, <3>2, OneAhead
    <3> QED
      BY <2>1, <3>0, <3>3 DEF op
  <2>2. CASE ~d_has_window
    BY <2>2, NoneAhead, NoOp DEF WindowSteps
  <2> QED
    BY <2>1, <2>2
<1>5. Segment(h, c, WindowSteps, n) /\ Len(h) = IshiftSteps
  <2>1. CASE Ishift
    <3> DEFINE op == Array(c, "ifftshift", IF d_has_window THEN "tmp" ELSE "in", "tmp")
    <3>0. IshiftSteps = 1
      BY <2>1 DEF IshiftSteps
    <3>1. /\ Entering = WindowSteps + 1 /\ Entering <= Entering /\ Entering # Entering + 1
          /\ Entering # Bins /\ Entering # FftSteps
          /\ (d_has_window => Entering # 1 /\ Entering - 1 = 1 /\ 1 # Bins /\ 1 # FftSteps)
          /\ (~d_has_window => Entering = 1)
      BY <1>2, <1>3, <3>0 DEF WindowSteps
    <3>2. op.from = From(Entering)
      BY Zenon, <3>1 DEF Array, From, To
    <3>3. op.to = To(Entering) /\ op.f = ArrayOf(Entering)
      BY Zenon, <3>1 DEF Array, To, ArrayOf
    <3>4. op.kind = FftKind(Entering) /\ op.kind = "array" /\ op.call = c /\ op.vectors = n
      BY Zenon, <3>1 DEF Array, FftKind
    <3> HIDE DEF op
    <3>5. IsFftStep(op, c, Entering, n)
      BY <3>2, <3>3, <3>4 DEF IsFftStep
    <3>6. Segment(<<op>>, c, WindowSteps, n) /\ Len(<<op>>) = 1
      BY <3>1, <3>5, OneAhead
    <3> QED
      BY <2>1, <3>0, <3>6 DEF op
  <2>2. CASE ~Ishift
    BY <2>2, NoneAhead, NoOp DEF IshiftSteps
  <2> QED
    BY <2>1, <2>2
<1>6. From(Entering + 1) = curr_in
  <2>1. Entering # Bins /\ Entering # FftSteps /\ (Entering + 1) - 1 = Entering
    BY <1>3
  <2>2. Entering = 0 <=> ~(d_has_window \/ Ishift)
    BY <1>2 DEF WindowSteps, IshiftSteps
  <2>3. From(Entering + 1) = IF Entering = 0 THEN "in" ELSE To(Entering)
    BY <1>3, <2>1 DEF From
  <2>4. To(Entering) = "tmp"
    BY Zenon, <2>1 DEF To
  <2> QED
    BY Zenon, <2>2, <2>3, <2>4
<1> HIDE DEF curr_in
<1>7. Segment(t, c, Entering, n) /\ Len(t) = Bins - Entering
  <2>1. CASE ~d_real_input
    <3>0. Bins = Entering + 1 /\ ~(cupy /\ d_real_input)
      BY <1>2, <1>3, <2>1
    <3>1. /\ plan.from = From(Entering + 1) /\ plan.call = c /\ plan.vectors = n
          /\ plan.kind = FftKind(Entering + 1) /\ plan.to = To(Entering + 1)
          /\ plan.kind = "fft" /\ plan.direction = Direction
      BY Zenon, <1>6, <2>1, <3>0 DEF FftKind, To
    <3>2. t = <<plan>>
      BY <2>1
    <3> HIDE DEF plan, t
    <3>3. IsFftStep(plan, c, Entering + 1, n)
      BY <3>1 DEF IsFftStep
    <3>4. Segment(<<plan>>, c, Entering, n) /\ Len(<<plan>>) = 1
      BY <3>3, OneAhead
    <3> QED
      BY <1>3, <3>0, <3>2, <3>4
  <2>2. CASE d_real_input /\ d_forward
    <3> DEFINE x == Array(c, "fft", curr_in, "tmp")
               z == Array(c, "copy", "tmp", "out")
    <3>0. Bins = Entering + 2
      BY <1>2, <1>3, <2>2
    <3>1. /\ Entering + 1 # Bins /\ Entering + 1 # FftSteps /\ ~(Entering + 1 <= Entering)
          /\ Bins # 1 /\ Bins - 1 = Entering + 1 /\ Bins # Entering + 1 /\ ~(Bins <= Entering)
      BY <1>3, <3>0
    <3>2. IsFftStep(x, c, Entering + 1, n)
      <4>1. x.to = To(Entering + 1) /\ x.f = ArrayOf(Entering + 1)
        BY Zenon, <2>2, <3>1 DEF Array, To, ArrayOf
      <4>2. x.kind = FftKind(Entering + 1) /\ x.kind = "array" /\ x.call = c
            /\ x.vectors = n /\ x.from = From(Entering + 1)
        BY Zenon, <1>6, <2>2, <3>1 DEF Array, FftKind
      <4> HIDE DEF x
      <4> QED
        BY <4>1, <4>2 DEF IsFftStep
    <3>3. IsFftStep(z, c, Bins, n)
      BY Zenon, <2>2, <3>1 DEF IsFftStep, Array, FftKind, From, To, ArrayOf
    <3> HIDE DEF x, z
    <3>4. Segment(<<x>>, c, Entering, n) /\ Segment(<<z>>, c, Entering + 1, n)
          /\ Len(<<x>>) = 1 /\ Len(<<z>>) = 1
      BY <1>3, <3>0, <3>2, <3>3, OneAhead
    <3>5. Segment(<<x>> \o <<z>>, c, Entering, n) /\ Len(<<x>> \o <<z>>) = 1 + 1
      BY <1>3, <3>4, BothAhead
    <3>6. t = <<x>> \o <<z>>
      BY <2>2 DEF x, z
    <3> HIDE DEF t
    <3> QED
      BY <1>3, <3>0, <3>5, <3>6
  <2>3. CASE d_real_input /\ ~d_forward
    <3> DEFINE x == Array(c, "ifft", curr_in, "tmp")
               y == Array(c, "scale", "tmp", "tmp")
               z == Array(c, "copy", "tmp", "out")
               s == Entering + 2
    <3>0. Bins = Entering + 3 /\ s = Entering + 2
      BY <1>2, <1>3, <2>3
    <3>1. /\ Entering + 1 # Bins /\ Entering + 1 # FftSteps /\ ~(Entering + 1 <= Entering)
          /\ Bins # 1 /\ Bins - 1 = s /\ Bins # Entering + 1 /\ ~(Bins <= Entering)
          /\ s # 1 /\ s - 1 = Entering + 1 /\ s # Entering + 1 /\ ~(s <= Entering)
          /\ s # Bins /\ s # FftSteps /\ s < Bins
      BY <1>3, <3>0
    <3> HIDE DEF s
    <3>2. IsFftStep(x, c, Entering + 1, n)
      <4>1. x.to = To(Entering + 1) /\ x.f = ArrayOf(Entering + 1)
        BY Zenon, <2>3, <3>1 DEF Array, To, ArrayOf
      <4>2. x.kind = FftKind(Entering + 1) /\ x.kind = "array" /\ x.call = c
            /\ x.vectors = n /\ x.from = From(Entering + 1)
        BY Zenon, <1>6, <2>3, <3>1 DEF Array, FftKind
      <4> HIDE DEF x
      <4> QED
        BY <4>1, <4>2 DEF IsFftStep
    <3>3. IsFftStep(y, c, s, n)
      BY Zenon, <2>3, <3>1 DEF IsFftStep, Array, FftKind, From, To, ArrayOf
    <3>4. IsFftStep(z, c, Bins, n)
      BY Zenon, <2>3, <3>1 DEF IsFftStep, Array, FftKind, From, To, ArrayOf
    <3> HIDE DEF x, y, z
    <3>5. /\ Segment(<<x>>, c, Entering, n) /\ Segment(<<y>>, c, Entering + 1, n)
          /\ Segment(<<z>>, c, s, n)
          /\ Len(<<x>>) = 1 /\ Len(<<y>>) = 1 /\ Len(<<z>>) = 1
      BY <1>3, <3>0, <3>2, <3>3, <3>4, OneAhead
    <3>6. Segment(<<x>> \o <<y>>, c, Entering, n) /\ Len(<<x>> \o <<y>>) = 1 + 1
      BY <1>3, <3>5, BothAhead
    <3>7. Segment((<<x>> \o <<y>>) \o <<z>>, c, Entering, n)
          /\ Len((<<x>> \o <<y>>) \o <<z>>) = Len(<<x>> \o <<y>>) + 1
      <4>1. s = Entering + Len(<<x>> \o <<y>>)
        BY <1>3, <3>0, <3>6
      <4> QED
        BY <1>3, <3>5, <3>6, <4>1, BothAhead
    <3>8. t = (<<x>> \o <<y>>) \o <<z>>
      BY <2>3 DEF x, y, z
    <3> HIDE DEF t
    <3> QED
      BY <1>3, <3>0, <3>6, <3>7, <3>8
  <2> QED
    BY <2>1, <2>2, <2>3 DEF FftParameters
<1>8. Segment(e, c, Bins, n) /\ Len(e) = FftSteps - Bins
  <2>1. CASE Fshift
    <3> DEFINE x == Array(c, "fftshift", "out", "tmp")
               z == Array(c, "copy", "tmp", "out")
    <3>0. FftSteps = Bins + 2
      BY <1>2, <1>3, <2>1
    <3>1. /\ Bins + 1 # 1 /\ (Bins + 1) - 1 = Bins /\ Bins + 1 # Entering + 1
          /\ Bins + 1 # Bins /\ Bins + 1 # FftSteps /\ ~(Bins + 1 <= Entering)
          /\ ~(Bins + 1 < Bins)
          /\ FftSteps # 1 /\ FftSteps - 1 = Bins + 1 /\ FftSteps # Entering + 1
          /\ ~(FftSteps <= Entering)
      BY <1>3, <3>0
    <3>2. IsFftStep(x, c, Bins + 1, n)
      BY Zenon, <2>1, <3>1 DEF IsFftStep, Array, FftKind, From, To, ArrayOf
    <3>3. IsFftStep(z, c, FftSteps, n)
      BY Zenon, <2>1, <3>1 DEF IsFftStep, Array, FftKind, From, To, ArrayOf
    <3> HIDE DEF x, z
    <3>4. Segment(<<x>>, c, Bins, n) /\ Segment(<<z>>, c, Bins + 1, n)
          /\ Len(<<x>>) = 1 /\ Len(<<z>>) = 1
      BY <1>3, <3>0, <3>2, <3>3, OneAhead
    <3>5. Segment(<<x>> \o <<z>>, c, Bins, n) /\ Len(<<x>> \o <<z>>) = 1 + 1
      BY <1>3, <3>4, BothAhead
    <3>6. e = <<x>> \o <<z>>
      BY <2>1 DEF x, z
    <3> HIDE DEF e
    <3> QED
      BY <1>3, <3>0, <3>5, <3>6
  <2>2. CASE ~Fshift
    <3>1. FftSteps = Bins
      BY <1>2, <1>3, <2>2
    <3> QED
      BY <1>3, <2>2, <3>1, NoneAhead, NoOp
  <2> QED
    BY <2>1, <2>2
<1> HIDE DEF w, h, t, e
<1>9. Segment(w \o h, c, 0, n) /\ Len(w \o h) = Entering
  <2>1. WindowSteps = 0 + Len(w)
    BY <1>2, <1>4
  <2>2. Segment(w \o h, c, 0, n) /\ Len(w \o h) = Len(w) + Len(h)
    BY <1>4, <1>5, <2>1, BothAhead
  <2> QED
    BY <1>2, <1>4, <1>5, <2>2
<1>10. Segment((w \o h) \o t, c, 0, n) /\ Len((w \o h) \o t) = Bins
  <2>1. Entering = 0 + Len(w \o h)
    BY <1>3, <1>9
  <2>2. Segment((w \o h) \o t, c, 0, n) /\ Len((w \o h) \o t) = Len(w \o h) + Len(t)
    BY <1>7, <1>9, <2>1, BothAhead
  <2> QED
    BY <1>3, <1>7, <1>9, <2>2
<1>11. Segment(((w \o h) \o t) \o e, c, 0, n) /\ Len(((w \o h) \o t) \o e) = FftSteps
  <2>1. Bins = 0 + Len((w \o h) \o t)
    BY <1>3, <1>10
  <2>2. /\ Segment(((w \o h) \o t) \o e, c, 0, n)
        /\ Len(((w \o h) \o t) \o e) = Len((w \o h) \o t) + Len(e)
    BY <1>8, <1>10, <2>1, BothAhead
  <2> QED
    BY <1>3, <1>8, <1>10, <2>2
<1> QED
  BY <1>1, <1>11

-----------------------------------------------------------------------------
(* What the steps of an FFT block make.                                    *)

\* Item i lies at place i % S of vector i \div S.
LEMMA VectorOf ==
  ASSUME NEW S \in Nat, S > 0, NEW n \in Nat, NEW i \in 0..(n * S - 1)
  PROVE  /\ i \div S \in 0..(n - 1) /\ i % S \in 0..(S - 1)
         /\ (i \div S) * S + (i % S) = i
<1> DEFINE q == i \div S
           r == i % S
<1>1. i \in Nat /\ n * S \in Nat /\ i < n * S
  BY Product
<1>2. q \in Nat /\ r \in Nat /\ r < S /\ i = S * q + r
  BY <1>1, DivisionIs
<1> HIDE DEF q, r
<1>3. q < n
  <2> SUFFICES ASSUME q >= n PROVE FALSE
    BY <1>2
  <2>1. PICK d \in Nat : q = n + d
    <3>1. q - n \in Nat /\ q = n + (q - n)
      BY <1>2
    <3> QED
      BY <3>1
  <2>2. S * q = n * S + S * d /\ S * d \in Nat
    BY <2>1
  <2> QED
    BY <1>1, <1>2, <2>2
<1>4. q * S = S * q
  BY <1>2
<1> QED
  BY <1>2, <1>3, <1>4 DEF q, r

LEMMA InVector ==
  ASSUME NEW S \in Nat, S > 0, NEW n \in Nat, NEW v \in 0..(n - 1), NEW q \in 0..(S - 1)
  PROVE  v * S + q \in 0..(n * S - 1) /\ (v * S + q) \div S = v /\ (v * S + q) % S = q
<1> DEFINE l == q + 1
<1>1. l \in 1..S /\ v \in Nat /\ v * S \in Nat /\ n * S \in Nat
  BY Product
<1>2. v * S + l - 1 = v * S + q /\ l - 1 = q
  BY <1>1
<1>3. /\ v * S + l \in 1..(n * S)
      /\ (v * S + l - 1) \div S = v /\ (v * S + l - 1) % S = l - 1
  BY <1>1, PlaceIn
<1> HIDE DEF l
<1>4. v * S + q \in 0..(n * S - 1)
  BY <1>1, <1>2, <1>3
<1> QED
  BY <1>2, <1>3, <1>4

LEMMA SmallRemainder ==
  ASSUME NEW S \in Nat, S > 0, NEW q \in 0..(S - 1)
  PROVE  q % S = q
<1>1. (S * 0 + q) % S = q
  BY DivisionUnique
<1>2. S * 0 + q = q
  OBVIOUS
<1> QED
  BY <1>1, <1>2

\* The item at place q of vector v, of the type it has before the transform.
Tag == IF cupy /\ d_real_input THEN "real" ELSE "complex"

WindowedItem(c, v, q, tag) ==
  LET item == <<"item", c, v * d_fft_size + q, tag>>
  IN IF d_has_window THEN Windowed(item, q) ELSE item

Entered(c, s, v, p) ==
  WindowedItem(c, v, IF Ishift /\ s = Entering THEN (p + ifftshift_split) % d_fft_size ELSE p,
               Tag)

\* What is transformed.
VectorIn(c, v) ==
  [k \in 1..d_fft_size |->
     WindowedItem(c, v, IF Ishift THEN (k - 1 + ifftshift_split) % d_fft_size ELSE k - 1,
                  "complex")]

\* Item i after step s of call c, and before it.
Meant(c, s, i) ==
  LET v == i \div d_fft_size
      p == i % d_fft_size
      bin(q) == Bin(Direction, q, VectorIn(c, v))
  IN IF s <= Entering THEN Entered(c, s, v, p)
     ELSE IF s > Bins THEN bin((p + fftshift_split) % d_fft_size)
     ELSE IF cupy /\ d_real_input /\ ~d_forward /\ s = Entering + 1 THEN Divided(bin(p))
     ELSE bin(p)

Source(c, s, i) == IF s = 1 THEN Item(c, i) ELSE Meant(c, s - 1, i)

\* The vector that a transform finds, when its step is the first or follows those
\* that enter the items.
LEMMA Enters ==
  ASSUME FftParameters, NEW c, NEW n \in Nat, NEW v \in 0..(n - 1),
         NEW k \in 1..d_fft_size
  PROVE  /\ ~(cupy /\ d_real_input) =>
              Source(c, Entering + 1, v * d_fft_size + k - 1) = VectorIn(c, v)[k]
         /\ cupy =>
              ToComplex(Source(c, Entering + 1, v * d_fft_size + k - 1)) = VectorIn(c, v)[k]
<1> DEFINE N == d_fft_size
           i == v * N + k - 1
           q == IF Ishift THEN (k - 1 + ifftshift_split) % N ELSE k - 1
<1>1. N \in Nat /\ N > 0
  BY DEF FftParameters
<1>2. i \div N = v /\ i % N = k - 1 /\ i = v * N + (k - 1)
  BY <1>1, PlaceIn
<1>3. VectorIn(c, v)[k] = WindowedItem(c, v, q, "complex")
  BY DEF VectorIn
<1>4. Entering \in 0..2
  BY CountsAre
<1>5. CASE Entering = 0
  <2>1. ~d_has_window /\ ~Ishift /\ (~cupy => ~d_real_input)
    BY <1>5 DEF Entering, WindowSteps, IshiftSteps, Preprocesses, Ishift
  <2>2. Source(c, Entering + 1, i) = Item(c, i)
    BY <1>5 DEF Source
  <2>3. VectorIn(c, v)[k] = <<"item", c, i, "complex">>
    BY <1>2, <1>3, <2>1 DEF WindowedItem
  <2> HIDE DEF i
  <2>4. ToComplex(Item(c, i)) = <<"item", c, i, "complex">>
    BY DEF ToComplex, Item
  <2>5. ~(cupy /\ d_real_input) => Item(c, i) = <<"item", c, i, "complex">>
    BY <2>1 DEF Item
  <2> QED
    BY <2>2, <2>3, <2>4, <2>5 DEF i
<1>6. CASE Entering # 0
  <2>1. /\ Entering + 1 # 1 /\ (Entering + 1) - 1 = Entering /\ Entering <= Entering
    BY <1>4, <1>6
  <2>2. Source(c, Entering + 1, i) = Meant(c, Entering, i)
    BY Zenon, <2>1 DEF Source
  <2>3. Meant(c, Entering, i) = Entered(c, Entering, v, k - 1)
    BY Zenon, <1>2, <2>1 DEF Meant
  <2>4. Entered(c, Entering, v, k - 1) = WindowedItem(c, v, q, Tag)
    BY Zenon DEF Entered
  <2> HIDE DEF i, q
  <2>5. ToComplex(WindowedItem(c, v, q, Tag)) = WindowedItem(c, v, q, "complex")
    <3> DEFINE item(tag) == <<"item", c, v * d_fft_size + q, tag>>
    <3>1. CASE d_has_window
      <4>1. WindowedItem(c, v, q, Tag) = Windowed(item(Tag), q)
            /\ WindowedItem(c, v, q, "complex") = Windowed(item("complex"), q)
        BY <3>1 DEF WindowedItem
      <4>2. ToComplex(Windowed(item(Tag), q)) = Windowed(item("complex"), q)
        BY DEF ToComplex, Windowed
      <4> QED
        BY <4>1, <4>2
    <3>2. CASE ~d_has_window
      <4>1. WindowedItem(c, v, q, Tag) = item(Tag)
            /\ WindowedItem(c, v, q, "complex") = item("complex")
        BY <3>2 DEF WindowedItem
      <4>2. ToComplex(item(Tag)) = item("complex")
        BY DEF ToComplex
      <4> QED
        BY <4>1, <4>2
    <3> QED
      BY <3>1, <3>2
  <2>6. ~(cupy /\ d_real_input) => Tag = "complex"
    BY DEF Tag
  <2> QED
    BY <1>3, <2>2, <2>3, <2>4, <2>5, <2>6 DEF i
<1> QED
  BY <1>5, <1>6

\* The memory that step s reads holds what the step before it has made, over
\* the n vectors of the call.
Reads(c, s, n) ==
  \A j \in 0..(n * d_fft_size - 1) : Load(From(s), c, j) = Source(c, s, j)

LEMMA TransformGives ==
  ASSUME FftParameters, NEW c, NEW s, FftKind(s) = "fft", NEW n \in Nat, Reads(c, s, n),
         NEW i \in 0..(n * d_fft_size - 1)
  PROVE  Bin(Direction, i % d_fft_size,
             [p \in 1..d_fft_size |->
                Load(From(s), c, (i \div d_fft_size) * d_fft_size + p - 1)])
           = Meant(c, s, i)
<1> DEFINE N == d_fft_size
           v == i \div N
           x == [p \in 1..N |-> Load(From(s), c, v * N + p - 1)]
<1>1. N \in Nat /\ N > 0
  BY DEF FftParameters
<1>2. v \in 0..(n - 1)
  BY <1>1, VectorOf
<1>3. s = Entering + 1 /\ ~(cupy /\ d_real_input)
  BY DEF FftKind
<1>4. x = VectorIn(c, v)
  <2>1. ASSUME NEW p \in 1..N
        PROVE  Load(From(s), c, v * N + p - 1) = VectorIn(c, v)[p]
    <3>1. v * N + p \in 1..(n * N) /\ v * N \in Nat
      BY <1>1, <1>2, PlaceIn, Product
    <3>2. v * N + p - 1 \in 0..(n * N - 1)
      BY <1>1, <3>1
    <3>3. Load(From(s), c, v * N + p - 1) = Source(c, s, v * N + p - 1)
      BY <3>2 DEF Reads
    <3>4. Source(c, Entering + 1, v * N + p - 1) = VectorIn(c, v)[p]
      BY <1>2, <1>3, Enters
    <3> QED
      BY <1>3, <3>3, <3>4
  <2>2. VectorIn(c, v) = [p \in 1..N |-> VectorIn(c, v)[p]]
    BY DEF VectorIn
  <2> HIDE DEF v
  <2> QED
    BY <2>1, <2>2
<1>5. ~(s <= Entering) /\ ~(s > Bins)
  BY <1>3, CountsAre
<1>6. Meant(c, s, i) = Bin(Direction, i % N, VectorIn(c, v))
  BY Zenon, <1>3, <1>5 DEF Meant
<1> QED
  BY <1>4, <1>6

LEMMA KernelGives ==
  ASSUME FftParameters, NEW c, NEW s \in 1..FftSteps, FftKind(s) = "kernel", NEW n \in Nat,
         Reads(c, s, n), NEW i \in 0..(n * d_fft_size - 1), NEW op, IsFftStep(op, c, s, n)
  PROVE  KernelValue(op, i) = Meant(c, s, i)
<1> DEFINE N == d_fft_size
           v == i \div N
           p == i % N
           src == (p + ShiftOf(s)) % N
<1>1. N \in Nat /\ N > 0
  BY DEF FftParameters
<1>2. v \in 0..(n - 1) /\ p \in 0..(N - 1)
  BY <1>1, VectorOf
<1>3. ~cupy /\ s # Entering + 1
  BY DEF FftKind
<1>4. Entering = (IF Preprocesses THEN 1 ELSE 0) /\ Bins = Entering + 1
      /\ FftSteps = Bins + (IF Fshift THEN 1 ELSE 0)
  BY <1>3 DEF Entering, Bins, FftSteps
<1>5. ifftshift_split \in Nat /\ fftshift_split \in Nat
  BY <1>1, DivisionIs DEF ifftshift_split, fftshift_split
<1>6. ShiftOf(s) \in Nat
  BY <1>5 DEF ShiftOf
<1>7. src \in 0..(N - 1)
  BY <1>1, <1>2, <1>6, DivisionIs
<1> DEFINE j == v * N + src
<1>8. j \in 0..(n * N - 1) /\ j \div N = v /\ j % N = src
  BY <1>1, <1>2, <1>7, InVector
<1>9. KernelValue(op, i)
        = IF WindowOf(s) THEN Windowed(ToComplex(Load(From(s), c, j)), src)
                         ELSE ToComplex(Load(From(s), c, j))
  BY Zenon DEF KernelValue, ReadIndex, ShiftedPos, IsFftStep
<1>10. Load(From(s), c, j) = Source(c, s, j)
  BY <1>8 DEF Reads
<1>11. CASE s <= Entering
  <2>1. s = 1 /\ Entering = 1 /\ ~(s > Entering)
    BY <1>4, <1>11
  <2>2. Source(c, s, j) = Item(c, j)
    BY <2>1 DEF Source
  <2>3. ToComplex(Item(c, j)) = <<"item", c, j, "complex">>
    <3> HIDE DEF j
    <3> QED
      BY DEF ToComplex, Item
  <2>4. src = IF Ishift /\ s = Entering THEN (p + ifftshift_split) % N ELSE p
    <3>1. CASE Ishift
      BY <2>1, <3>1 DEF ShiftOf
    <3>2. CASE ~Ishift
      <4>1. ShiftOf(s) = 0 /\ p + 0 = p /\ p % N = p
        BY <1>1, <1>2, <2>1, <3>2, SmallRemainder DEF ShiftOf
      <4> HIDE DEF p
      <4> QED
        BY <3>2, <4>1
    <3> QED
      BY <3>1, <3>2
  <2>5. Meant(c, s, i) = WindowedItem(c, v, src, Tag)
    <3>1. Meant(c, s, i) = Entered(c, s, v, p)
      BY Zenon, <1>11 DEF Meant
    <3> HIDE DEF src
    <3> QED
      BY Zenon, <2>4, <3>1 DEF Entered
  <2>6. Tag = "complex"
    BY <1>3 DEF Tag
  <2>7. WindowOf(s) = d_has_window
    BY Zenon, <2>1 DEF WindowOf
  <2> QED
    BY Zenon, <1>9, <1>10, <2>2, <2>3, <2>5, <2>6, <2>7 DEF WindowedItem
<1>12. CASE s > Entering
  <2>1. s > Bins /\ s # 1 /\ s - 1 = Entering + 1 /\ s = Entering + 2
    BY <1>3, <1>4, <1>12
  <2>2. ~(Entering + 1 <= Entering) /\ ~(Entering + 1 > Bins) /\ ~(s <= Entering)
    BY <1>4, <2>1
  <2>3. Source(c, s, j) = Meant(c, Entering + 1, j)
    BY Zenon, <2>1 DEF Source
  <2> HIDE DEF j
  <2>4. Meant(c, Entering + 1, j) = Bin(Direction, src, VectorIn(c, v))
    BY Zenon, <1>3, <1>8, <2>2 DEF Meant
  <2>5. Meant(c, s, i) = Bin(Direction, src, VectorIn(c, v))
    <3>1. Meant(c, s, i) = Bin(Direction, (p + fftshift_split) % N, VectorIn(c, v))
      BY Zenon, <2>1, <2>2 DEF Meant
    <3>2. ShiftOf(s) = fftshift_split
      BY <1>12 DEF ShiftOf
    <3> QED
      BY <3>1, <3>2
  <2>6. WindowOf(s) = FALSE
    BY Zenon, <1>12 DEF WindowOf
  <2> HIDE DEF src, v
  <2>7. ToComplex(Bin(Direction, src, VectorIn(c, v))) = Bin(Direction, src, VectorIn(c, v))
    BY DEF ToComplex, Bin
  <2> QED
    BY <1>9, <1>10, <2>3, <2>4, <2>5, <2>6, <2>7
<1> QED
  BY <1>4, <1>11, <1>12

LEMMA CupyGives ==
  ASSUME FftParameters, NEW c, NEW s \in 1..FftSteps, FftKind(s) = "array", NEW n \in Nat,
         Reads(c, s, n), NEW i \in 0..(n * d_fft_size - 1), NEW op, IsFftStep(op, c, s, n)
  PROVE  ArrayValue(op, i) = Meant(c, s, i)
<1> DEFINE N == d_fft_size
           v == i \div N
           p == i % N
           at(q) == Load(op.from, op.call, v * N + (q % N))
           x == [k \in 1..N |-> ToComplex(at(k - 1))]
<1>1. N \in Nat /\ N > 0 /\ d_forward \in BOOLEAN /\ d_real_input \in BOOLEAN
      /\ d_has_window \in BOOLEAN
  BY DEF FftParameters
<1>2. v \in 0..(n - 1) /\ p \in 0..(N - 1) /\ v * N + p = i
  BY <1>1, VectorOf
<1>3. op.call = c /\ op.from = From(s) /\ op.kind = FftKind(s) /\ op.f = ArrayOf(s)
  BY DEF IsFftStep
<1>4. cupy /\ (s = Entering + 1 => d_real_input)
  BY DEF FftKind
<1>5. /\ Entering \in Nat /\ Bins \in Nat /\ FftSteps \in Nat /\ s \in 1..FftSteps
      /\ Entering = WindowSteps + IshiftSteps /\ WindowSteps \in 0..1 /\ IshiftSteps \in 0..1
      /\ Bins = Entering + 1 + (IF d_real_input THEN IF d_forward THEN 1 ELSE 2 ELSE 0)
      /\ FftSteps = Bins + (IF Fshift THEN 2 ELSE 0)
  BY <1>4, CountsAre DEF Entering, Bins, FftSteps, WindowSteps, IshiftSteps
<1>6. ASSUME NEW q \in Nat
      PROVE  /\ q % N \in 0..(N - 1) /\ at(q) = Source(c, s, v * N + (q % N))
             /\ (v * N + (q % N)) \div N = v /\ (v * N + (q % N)) % N = q % N
  <2>1. q % N \in 0..(N - 1)
    BY <1>1, DivisionIs
  <2>2. /\ v * N + (q % N) \in 0..(n * N - 1)
        /\ (v * N + (q % N)) \div N = v /\ (v * N + (q % N)) % N = q % N
    BY <1>1, <1>2, <2>1, InVector
  <2> QED
    BY <1>3, <2>1, <2>2 DEF Reads
<1>7. p \in Nat /\ p % N = p /\ at(p) = Source(c, s, i)
  BY <1>1, <1>2, <1>6, SmallRemainder
<1>8. ifftshift_split \in Nat /\ ifftshift_split = N \div 2
      /\ fftshift_split \in Nat /\ fftshift_split = (N + 1) \div 2
  BY <1>1, DivisionIs DEF ifftshift_split, fftshift_split
<1>9. \A j : Item(c, j) = <<"item", c, j, Tag>>
  BY <1>4 DEF Item, Tag
<1>10. CASE s = 1 /\ d_has_window
  <2>1. s <= Entering /\ ~(Ishift /\ s = Entering)
    BY <1>5, <1>10 DEF WindowSteps, IshiftSteps
  <2>2. op.f = "window"
    BY <1>3, <1>10, <2>1 DEF ArrayOf
  <2>3. ArrayValue(op, i) = Windowed(at(p), p)
    BY Zenon, <2>2 DEF ArrayValue
  <2>4. at(p) = <<"item", c, v * N + p, Tag>>
    BY <1>2, <1>7, <1>9, <1>10 DEF Source
  <2>5. Meant(c, s, i) = WindowedItem(c, v, p, Tag)
    BY Zenon, <2>1 DEF Meant, Entered
  <2> QED
    BY Zenon, <1>10, <2>3, <2>4, <2>5 DEF WindowedItem
<1>11. CASE s <= Entering /\ ~(s = 1 /\ d_has_window)
  <2> DEFINE q == (p + ifftshift_split) % N
  <2>1. Ishift /\ s = Entering /\ (s = 1 => ~d_has_window)
        /\ (s # 1 => d_has_window /\ s - 1 = 1 /\ 1 # Entering /\ s - 1 <= Entering)
    BY <1>5, <1>11 DEF WindowSteps, IshiftSteps
  <2>2. op.f = "ifftshift"
    BY Zenon, <1>3, <1>11 DEF ArrayOf
  <2>3. ArrayValue(op, i) = at(p + ifftshift_split)
    BY Zenon, <1>8, <2>2 DEF ArrayValue
  <2>4. /\ q \in 0..(N - 1) /\ at(p + ifftshift_split) = Source(c, s, v * N + q)
        /\ (v * N + q) \div N = v /\ (v * N + q) % N = q
    BY <1>6, <1>7, <1>8
  <2>5. Meant(c, s, i) = WindowedItem(c, v, q, Tag)
    BY Zenon, <1>11, <2>1 DEF Meant, Entered
  <2> HIDE DEF q
  <2>6. CASE s = 1
    <3>1. Source(c, s, v * N + q) = <<"item", c, v * N + q, Tag>>
      BY <1>9, <2>6 DEF Source
    <3>2. WindowedItem(c, v, q, Tag) = <<"item", c, v * N + q, Tag>>
      BY Zenon, <2>1, <2>6 DEF WindowedItem
    <3> QED
      BY <2>3, <2>4, <2>5, <3>1, <3>2
  <2>7. CASE s # 1
    <3>1. Source(c, s, v * N + q) = Meant(c, s - 1, v * N + q)
      BY <2>7 DEF Source
    <3>2. Meant(c, s - 1, v * N + q) = Entered(c, s - 1, v, q)
      BY Zenon, <2>1, <2>4, <2>7 DEF Meant
    <3>3. Entered(c, 1, v, q) = WindowedItem(c, v, q, Tag)
      BY Zenon, <2>1, <2>7 DEF Entered
    <3> QED
      BY <2>1, <2>3, <2>4, <2>5, <2>7, <3>1, <3>2, <3>3
  <2> QED
    BY <2>6, <2>7
<1>12. CASE s = Entering + 1
  <2>1. ~(s <= Entering) /\ ~(s > Bins) /\ d_real_input
    BY <1>4, <1>5, <1>12
  <2>2. op.f = IF d_forward THEN "fft" ELSE "ifft"
    BY Zenon, <1>3, <1>12, <2>1 DEF ArrayOf
  <2>3. x = VectorIn(c, v)
    <3>1. ASSUME NEW k \in 1..N PROVE ToComplex(at(k - 1)) = VectorIn(c, v)[k]
      <4>1. k - 1 \in Nat /\ k - 1 \in 0..(N - 1)
        BY <1>1
      <4>2. (k - 1) % N = k - 1
        BY <1>1, <4>1, SmallRemainder
      <4>3. at(k - 1) = Source(c, s, v * N + (k - 1))
        BY <1>6, <4>1, <4>2
      <4>4. v * N + (k - 1) = v * N + k - 1
        OBVIOUS
      <4>5. ToComplex(Source(c, Entering + 1, v * N + k - 1)) = VectorIn(c, v)[k]
        BY <1>2, <1>4, Enters
      <4> QED
        BY <1>12, <4>3, <4>4, <4>5
    <3>2. VectorIn(c, v) = [k \in 1..N |-> VectorIn(c, v)[k]]
      BY DEF VectorIn
    <3> HIDE DEF v, at
    <3> QED
      BY <3>1, <3>2
  <2>4. CASE d_forward
    <3>1. ArrayValue(op, i) = Bin("forward", p, x)
      BY Zenon, <2>2, <2>4 DEF ArrayValue
    <3>2. Meant(c, s, i) = Bin("forward", p, VectorIn(c, v))
      BY Zenon, <2>1, <2>4 DEF Meant, Direction
    <3> QED
      BY <2>3, <3>1, <3>2
  <2>5. CASE ~d_forward
    <3>1. ArrayValue(op, i) = Divided(Bin("inverse", p, x))
      BY Zenon, <2>2, <2>5 DEF ArrayValue
    <3>2. Meant(c, s, i) = Divided(Bin("inverse", p, VectorIn(c, v)))
      BY Zenon, <1>4, <1>12, <2>1, <2>5 DEF Meant, Direction
    <3> QED
      BY <2>3, <3>1, <3>2
  <2> QED
    BY <2>4, <2>5
<1> DEFINE bin(q) == Bin(Direction, q, VectorIn(c, v))
<1>13. CASE s > Entering + 1 /\ s < Bins
  <2>1. /\ ~(s <= Entering) /\ ~(s > Bins) /\ s # Entering + 1 /\ s # Bins /\ s # FftSteps
        /\ s # 1 /\ s - 1 = Entering + 1 /\ ~(Entering + 1 <= Entering)
        /\ ~(Entering + 1 > Bins) /\ d_real_input /\ ~d_forward
    BY <1>5, <1>13
  <2>2. op.f = "scale"
    BY Zenon, <1>3, <1>13, <2>1 DEF ArrayOf
  <2>3. at(p) = Divided(bin(p))
    <3>1. Source(c, s, i) = Meant(c, Entering + 1, i)
      BY Zenon, <2>1 DEF Source
    <3>2. Meant(c, Entering + 1, i) = Divided(bin(p))
      BY Zenon, <1>4, <2>1 DEF Meant
    <3> QED
      BY <1>7, <3>1, <3>2
  <2>4. ArrayValue(op, i)
          = IF at(p)[1] = "divided" THEN at(p)[2] ELSE <<"scaled", at(p)>>
    BY Zenon, <2>2 DEF ArrayValue
  <2>5. Meant(c, s, i) = bin(p)
    BY Zenon, <2>1 DEF Meant
  <2> HIDE DEF at, bin, p
  <2> QED
    BY <2>3, <2>4, <2>5 DEF Divided
<1>14. CASE s = Bins /\ s > Entering + 1
  <2>1. /\ ~(s <= Entering) /\ ~(s > Bins) /\ s # Entering + 1
        /\ s # 1 /\ ~(s - 1 <= Entering) /\ ~(s - 1 > Bins)
        /\ d_real_input /\ (s - 1 = Entering + 1 => d_forward)
    BY <1>5, <1>14
  <2>2. op.f = "copy"
    BY Zenon, <1>3, <1>14, <2>1 DEF ArrayOf
  <2>3. ArrayValue(op, i) = at(p)
    BY Zenon, <2>2 DEF ArrayValue
  <2>4. Source(c, s, i) = Meant(c, s - 1, i)
    BY <2>1 DEF Source
  <2>5. Meant(c, s - 1, i) = bin(p)
    BY Zenon, <2>1 DEF Meant
  <2>6. Meant(c, s, i) = bin(p)
    BY Zenon, <2>1 DEF Meant
  <2> QED
    BY <1>7, <2>3, <2>4, <2>5, <2>6
<1>15. CASE s = Bins + 1
  <2>1. /\ ~(s <= Entering) /\ s > Bins /\ s # Entering + 1 /\ s # Bins /\ s # FftSteps
        /\ ~(s < Bins) /\ s # 1 /\ s - 1 = Bins /\ ~(Bins <= Entering) /\ ~(Bins > Bins)
        /\ Fshift
    BY <1>5, <1>15
  <2>2. op.f = "fftshift"
    BY Zenon, <1>3, <2>1 DEF ArrayOf
  <2> DEFINE q == (p + fftshift_split) % N
  <2>3. ArrayValue(op, i) = at(p + fftshift_split)
    BY Zenon, <1>8, <2>2 DEF ArrayValue
  <2>4. /\ at(p + fftshift_split) = Source(c, s, v * N + q)
        /\ (v * N + q) \div N = v /\ (v * N + q) % N = q
    BY <1>6, <1>7, <1>8
  <2>5. Meant(c, s, i) = bin(q)
    BY Zenon, <2>1 DEF Meant
  <2> HIDE DEF q
  <2>6. Source(c, s, v * N + q) = Meant(c, Bins, v * N + q)
    BY Zenon, <2>1 DEF Source
  <2>7. Meant(c, Bins, v * N + q) = bin(q)
    BY Zenon, <2>1, <2>4 DEF Meant, Fshift
  <2> QED
    BY <2>3, <2>4, <2>5, <2>6, <2>7
<1>16. CASE s = Bins + 2
  <2>1. /\ ~(s <= Entering) /\ s > Bins /\ s # Entering + 1 /\ s = FftSteps
        /\ s # 1 /\ s - 1 > Bins /\ ~(s - 1 <= Entering)
    BY <1>5, <1>16
  <2>2. op.f = "copy"
    BY Zenon, <1>3, <2>1 DEF ArrayOf
  <2>3. ArrayValue(op, i) = at(p)
    BY Zenon, <2>2 DEF ArrayValue
  <2>4. Source(c, s, i) = Meant(c, s - 1, i)
    BY <2>1 DEF Source
  <2>5. Meant(c, s - 1, i) = bin((p + fftshift_split) % N)
    BY Zenon, <2>1 DEF Meant
  <2>6. Meant(c, s, i) = bin((p + fftshift_split) % N)
    BY Zenon, <2>1 DEF Meant
  <2> QED
    BY <1>7, <2>3, <2>4, <2>5, <2>6
<1> QED
  <2>1. \/ s <= Entering \/ s = Entering + 1 \/ (s > Entering + 1 /\ s < Bins)
        \/ (s = Bins /\ s > Entering + 1) \/ s = Bins + 1 \/ s = Bins + 2
    BY <1>5
  <2> QED
    BY <1>10, <1>11, <1>12, <1>13, <1>14, <1>15, <1>16, <2>1

-----------------------------------------------------------------------------
(* The states of an FFT block.                                             *)

FftExecuted == First(FftSteps, Len(batch) + 1) - Len(stream)

FftCalls ==
  /\ IsSeq(stream) /\ IsSeq(batch) /\ IsSeq(out) /\ IsSeq(tmp) /\ IsSeq(d_work_dev)
  /\ Len(out) = Len(batch) /\ Len(tmp) = Len(batch)
  /\ FftExecuted \in Nat
  /\ \A c \in 1..Len(batch) :
       /\ batch[c] \in Nat /\ IsSeq(out[c]) /\ Len(out[c]) = Items(batch[c])
       /\ ~cupy /\ UsesStaging => Items(batch[c]) <= Len(d_work_dev)
  /\ \A b \in DOMAIN d_plan_cache : d_plan_cache[b] = [vectors |-> b]
  /\ \A i \in 1..Len(stream) :
       IsFftStep(stream[i], CallAt(FftSteps, FftExecuted + i),
                 StepAt(FftSteps, FftExecuted + i), batch[CallAt(FftSteps, FftExecuted + i)])

\* Step s of call c has left in memory what it should.
Holds(c, s, n) ==
  /\ \A i \in 0..(n * d_fft_size - 1) : Load(To(s), c, i) = Meant(c, s, i)
  /\ To(s) = "tmp" => Len(tmp[c]) = n * d_fft_size

\* The threads of the kernel at the head that have run have, too.
FftThreads ==
  IF stream # <<>> /\ Head(stream).kind = "kernel"
    THEN LET op == Head(stream) IN
         /\ ran \subseteq 0..(Items(op.vectors) - 1)
         /\ \A i \in ran :
              Load(op.to, op.call, i) = Meant(op.call, StepAt(FftSteps, FftExecuted + 1), i)
    ELSE ran = {}

FftResults ==
  /\ FftThreads
  /\ \A c \in 1..Len(batch), s \in 1..FftSteps :
       Latest(FftSteps, FftExecuted, c, s) => Holds(c, s, batch[c])

FftInv == FftParameters /\ FftCalls /\ FftResults

LEMMA FftStarts == Init => FftInv
<1> SUFFICES ASSUME Init PROVE FftInv
  OBVIOUS
<1>1. FftParameters
  BY FftAssumption DEF Init, FftParameters
<1>2. /\ stream = <<>> /\ batch = <<>> /\ out = <<>> /\ ran = {} /\ tmp = <<>>
      /\ d_work_dev = <<>> /\ DOMAIN d_plan_cache = {}
  BY DEF Init
<1>3. IsSeq(<<>>) /\ Len(<<>>) = 0
  BY NoOp
<1>4. FftExecuted = 0
  <2>1. FftSteps \in Nat
    BY <1>1, CountsAre
  <2>2. First(FftSteps, 1) = 0
    BY <2>1 DEF First
  <2> QED
    BY <1>2, <1>3, <2>2 DEF FftExecuted
<1>5. FftCalls
  BY <1>2, <1>3, <1>4 DEF FftCalls
<1>6. FftResults
  BY <1>2, <1>3 DEF FftResults, FftThreads
<1> QED
  BY <1>1, <1>5, <1>6 DEF FftInv

\* The parameters do not change, and neither does what is meant by the steps.
LEMMA FftFrame ==
  ASSUME UNCHANGED parameters
  PROVE  /\ FftParameters' = FftParameters /\ FftSteps' = FftSteps /\ cupy' = cupy
         /\ UsesStaging' = UsesStaging /\ d_fft_size' = d_fft_size /\ Direction' = Direction
         /\ \A n : Items(n)' = Items(n)
         /\ \A s : To(s)' = To(s)
         /\ \A s : /\ FftKind(s)' = FftKind(s) /\ From(s)' = From(s) /\ ArrayOf(s)' = ArrayOf(s)
                   /\ ShiftOf(s)' = ShiftOf(s) /\ WindowOf(s)' = WindowOf(s)
         /\ \A c, i : Item(c, i)' = Item(c, i)
         /\ \A op, c, s, n : IsFftStep(op, c, s, n)' = IsFftStep(op, c, s, n)
         /\ \A c, s, i : Meant(c, s, i)' = Meant(c, s, i)
<1>1. /\ cupy' = cupy /\ d_fft_size' = d_fft_size /\ d_forward' = d_forward
      /\ d_shift' = d_shift /\ d_has_window' = d_has_window /\ d_real_input' = d_real_input
  BY DEF parameters
<1>2. FftParameters' = FftParameters /\ UsesStaging' = UsesStaging
      /\ Preprocesses' = Preprocesses /\ Ishift' = Ishift /\ Fshift' = Fshift
      /\ ifftshift_split' = ifftshift_split /\ fftshift_split' = fftshift_split
      /\ Tag' = Tag /\ Direction' = Direction
  BY <1>1 DEF FftParameters, UsesStaging, Preprocesses, Ishift, Fshift, ifftshift_split,
              fftshift_split, Tag, Direction
<1>3. WindowSteps' = WindowSteps /\ IshiftSteps' = IshiftSteps
  BY <1>1, <1>2 DEF WindowSteps, IshiftSteps
<1>4. Entering' = Entering
  BY <1>1, <1>2, <1>3 DEF Entering
<1>5. Bins' = Bins
  BY <1>1, <1>4 DEF Bins
<1>6. FftSteps' = FftSteps
  BY <1>1, <1>2, <1>5 DEF FftSteps
<1>7. ASSUME NEW s PROVE To(s)' = To(s)
  BY <1>1, <1>5, <1>6 DEF To
<1>8. ASSUME NEW s
      PROVE  /\ FftKind(s)' = FftKind(s) /\ From(s)' = From(s) /\ ArrayOf(s)' = ArrayOf(s)
             /\ ShiftOf(s)' = ShiftOf(s) /\ WindowOf(s)' = WindowOf(s)
  BY <1>1, <1>2, <1>4, <1>5, <1>6, <1>7 DEF FftKind, From, ArrayOf, ShiftOf, WindowOf
<1>9. ASSUME NEW op, NEW c, NEW s, NEW n
      PROVE  IsFftStep(op, c, s, n)' = IsFftStep(op, c, s, n)
  BY <1>2, <1>7, <1>8 DEF IsFftStep
<1>10. ASSUME NEW c, NEW v, NEW q, NEW tag
       PROVE  WindowedItem(c, v, q, tag)' = WindowedItem(c, v, q, tag)
  BY <1>1 DEF WindowedItem, Windowed
<1>11. ASSUME NEW c, NEW v PROVE VectorIn(c, v)' = VectorIn(c, v)
  BY <1>1, <1>2, <1>10 DEF VectorIn
<1>12. ASSUME NEW c, NEW s, NEW v, NEW p PROVE Entered(c, s, v, p)' = Entered(c, s, v, p)
  BY <1>1, <1>2, <1>4, <1>10 DEF Entered
<1>13. ASSUME NEW c, NEW s, NEW i PROVE Meant(c, s, i)' = Meant(c, s, i)
  BY <1>1, <1>2, <1>4, <1>5, <1>11, <1>12 DEF Meant, Bin, Divided
<1>14. ASSUME NEW c, NEW i PROVE Item(c, i)' = Item(c, i)
  BY <1>1 DEF Item
<1>15. ASSUME NEW n PROVE Items(n)' = Items(n)
  BY <1>1 DEF Items
<1> QED
  BY <1>1, <1>2, <1>6, <1>7, <1>8, <1>9, <1>13, <1>14, <1>15

\* The memory that can be read, by its name.
LEMMA LoadIs ==
  ASSUME NEW c, NEW i
  PROVE  /\ Load("in", c, i) = Item(c, i) /\ Load("work", c, i) = d_work_dev[i + 1]
         /\ Load("tmp", c, i) = tmp[c][i + 1] /\ Load("out", c, i) = out[c][i + 1]
         /\ Load("in", c, i)' = Item(c, i)' /\ Load("work", c, i)' = d_work_dev'[i + 1]
         /\ Load("tmp", c, i)' = tmp'[c][i + 1] /\ Load("out", c, i)' = out'[c][i + 1]
<1>1. Load("in", c, i) = Item(c, i) /\ Load("in", c, i)' = Item(c, i)'
  BY Zenon DEF Load
<1>2. Load("work", c, i) = d_work_dev[i + 1] /\ Load("work", c, i)' = d_work_dev'[i + 1]
  BY Zenon DEF Load
<1>3. Load("tmp", c, i) = tmp[c][i + 1] /\ Load("tmp", c, i)' = tmp'[c][i + 1]
  BY Zenon DEF Load
<1>4. Load("out", c, i) = out[c][i + 1] /\ Load("out", c, i)' = out'[c][i + 1]
  BY Zenon DEF Load
<1> QED
  BY <1>1, <1>2, <1>3, <1>4

\* An operation has put g into the memory of a call, at every i of is.
Stored(mem, c, is, g) ==
  /\ d_work_dev' = IF mem # "work" THEN d_work_dev ELSE
       [j \in 1..Len(d_work_dev) |-> IF j - 1 \in is THEN g[j - 1] ELSE d_work_dev[j]]
  /\ tmp' = IF mem # "tmp" THEN tmp ELSE
       Replaced(tmp, c, [j \in 1..Len(out[c]) |-> g[j - 1]])
  /\ out' = IF mem # "out" THEN out ELSE
       Replaced(out, c, [j \in 1..Len(out[c]) |-> IF j - 1 \in is THEN g[j - 1]
                                                                  ELSE out[c][j]])

\* The memory keeps its shape, whatever is stored.
Shaped ==
  /\ IsSeq(d_work_dev') /\ Len(d_work_dev') = Len(d_work_dev)
  /\ IsSeq(tmp') /\ Len(tmp') = Len(tmp) /\ IsSeq(out') /\ Len(out') = Len(out)
  /\ \A d \in 1..Len(batch) : IsSeq(out'[d]) /\ Len(out'[d]) = Len(out[d])

\* There is room for it.
Lands(mem, c, is, g) ==
  /\ UNCHANGED parameters /\ c \in 1..Len(batch) /\ mem \in {"work", "tmp", "out"}
  /\ is \subseteq 0..(Items(batch[c]) - 1)
  /\ mem = "tmp" => is = 0..(Items(batch[c]) - 1)
  /\ mem = "work" => Items(batch[c]) <= Len(d_work_dev)
  /\ Stored(mem, c, is, g)

LEMMA StoreLands ==
  ASSUME FftInv, NEW c, NEW mem, NEW is, NEW g, Lands(mem, c, is, g)
  PROVE  /\ Shaped
         /\ mem = "tmp" => Len(tmp'[c]) = Items(batch[c])
         /\ \A i \in is : Load(mem, c, i)' = g[i]
         /\ \A i \in 0..(Items(batch[c]) - 1) : i \notin is =>
              Load(mem, c, i)' = Load(mem, c, i)
         /\ \A m \in {"in", "work", "tmp", "out"}, d \in 1..Len(batch) :
              m # mem \/ (d # c /\ m # "work") => \A i : Load(m, d, i)' = Load(m, d, i)
<1> USE DEF Lands
<1>1. /\ IsSeq(d_work_dev) /\ IsSeq(tmp) /\ IsSeq(out) /\ Len(tmp) = Len(batch)
      /\ Len(out) = Len(batch) /\ IsSeq(out[c]) /\ Len(out[c]) = Items(batch[c])
      /\ \A d \in 1..Len(batch) : IsSeq(out[d])
  BY DEF FftInv, FftCalls
<1>2. Len(d_work_dev) \in Nat /\ Len(out[c]) \in Nat
  BY <1>1, LenIs
<1>3. \A d, i : Item(d, i)' = Item(d, i)
  BY FftFrame
<1>4. CASE mem = "work"
  <2> DEFINE w == [j \in 1..Len(d_work_dev) |->
                     IF j - 1 \in is THEN g[j - 1] ELSE d_work_dev[j]]
  <2>1. d_work_dev' = w /\ tmp' = tmp /\ out' = out
    BY <1>4 DEF Stored
  <2>2. w = [j \in 1..Len(d_work_dev) |-> w[j]]
        /\ \A j \in 1..Len(d_work_dev) :
             w[j] = IF j - 1 \in is THEN g[j - 1] ELSE d_work_dev[j]
    OBVIOUS
  <2> HIDE DEF w
  <2>3. IsSeq(w) /\ Len(w) = Len(d_work_dev)
    BY <1>2, <2>2, AnySeq
  <2>4. Shaped
    BY <1>1, <2>1, <2>3 DEF Shaped
  <2>5. ASSUME NEW i \in 0..(Items(batch[c]) - 1)
        PROVE  w[i + 1] = IF i \in is THEN g[i] ELSE d_work_dev[i + 1]
    <3>1. i + 1 \in 1..Len(d_work_dev) /\ i + 1 - 1 = i
      BY <1>1, <1>2, <1>4
    <3> QED
      BY <2>2, <3>1
  <2>6. ASSUME NEW m \in {"in", "tmp", "out"}, NEW d, NEW i
        PROVE  Load(m, d, i)' = Load(m, d, i)
    BY <1>3, <2>1, LoadIs
  <2>7. \A i : Load("work", c, i)' = w[i + 1] /\ Load("work", c, i) = d_work_dev[i + 1]
    BY <2>1, LoadIs
  <2> QED
    BY <1>4, <2>4, <2>5, <2>6, <2>7
<1>5. CASE mem = "tmp"
  <2> DEFINE x == [j \in 1..Len(out[c]) |-> g[j - 1]]
  <2>1. d_work_dev' = d_work_dev /\ tmp' = Replaced(tmp, c, x) /\ out' = out
    BY <1>5 DEF Stored
  <2>2. \A i \in 0..(Items(batch[c]) - 1) : x[i + 1] = g[i]
    <3> SUFFICES ASSUME NEW i \in 0..(Items(batch[c]) - 1) PROVE x[i + 1] = g[i]
      OBVIOUS
    <3>1. i + 1 \in 1..Len(out[c]) /\ i + 1 - 1 = i
      BY <1>1, <1>2
    <3> QED
      BY <3>1
  <2>a. x = [j \in 1..Len(out[c]) |-> x[j]]
    OBVIOUS
  <2> HIDE DEF x
  <2>b. Len(x) = Items(batch[c])
    BY <1>1, <1>2, <2>a, AnySeq
  <2>3. /\ IsSeq(Replaced(tmp, c, x)) /\ Len(Replaced(tmp, c, x)) = Len(tmp)
        /\ Replaced(tmp, c, x)[c] = x
        /\ \A d \in 1..Len(tmp) : d # c => Replaced(tmp, c, x)[d] = tmp[d]
    <3>1. IsSeq(tmp) /\ c \in 1..Len(tmp)
      BY <1>1
    <3> QED
      BY <3>1, ExceptIs
  <2>4. Shaped
    BY <1>1, <2>1, <2>3 DEF Shaped
  <2>5. ASSUME NEW m \in {"in", "work", "out"}, NEW d, NEW i
        PROVE  Load(m, d, i)' = Load(m, d, i)
    BY <1>3, <2>1, LoadIs
  <2>6. \A d, i : Load("tmp", d, i)' = Replaced(tmp, c, x)[d][i + 1]
                  /\ Load("tmp", d, i) = tmp[d][i + 1]
    BY <2>1, LoadIs
  <2>7. \A i \in 0..(Items(batch[c]) - 1) : Load("tmp", c, i)' = g[i]
    BY <2>2, <2>3, <2>6
  <2>8. \A d \in 1..Len(batch) : d # c => \A i : Load("tmp", d, i)' = Load("tmp", d, i)
    BY <1>1, <2>3, <2>6
  <2> QED
    BY <1>5, <2>1, <2>3, <2>4, <2>5, <2>7, <2>8, <2>b
<1>6. CASE mem = "out"
  <2> DEFINE x == [j \in 1..Len(out[c]) |-> IF j - 1 \in is THEN g[j - 1] ELSE out[c][j]]
  <2>1. d_work_dev' = d_work_dev /\ tmp' = tmp /\ out' = Replaced(out, c, x)
    BY <1>6 DEF Stored
  <2>2. x = [j \in 1..Len(out[c]) |-> x[j]]
        /\ \A j \in 1..Len(out[c]) : x[j] = IF j - 1 \in is THEN g[j - 1] ELSE out[c][j]
    OBVIOUS
  <2> HIDE DEF x
  <2>3. IsSeq(x) /\ Len(x) = Len(out[c])
    BY <1>2, <2>2, AnySeq
  <2>4. /\ IsSeq(Replaced(out, c, x)) /\ Len(Replaced(out, c, x)) = Len(out)
        /\ Replaced(out, c, x)[c] = x
        /\ \A d \in 1..Len(out) : d # c => Replaced(out, c, x)[d] = out[d]
    <3>1. IsSeq(out) /\ c \in 1..Len(out)
      BY <1>1
    <3> QED
      BY <3>1, ExceptIs
  <2>5. Shaped
    BY <1>1, <2>1, <2>3, <2>4 DEF Shaped
  <2>6. ASSUME NEW i \in 0..(Items(batch[c]) - 1)
        PROVE  x[i + 1] = IF i \in is THEN g[i] ELSE out[c][i + 1]
    <3>1. i + 1 \in 1..Len(out[c]) /\ (i + 1) - 1 = i
      BY <1>1, <1>2
    <3>2. x[i + 1] = IF (i + 1) - 1 \in is THEN g[(i + 1) - 1] ELSE out[c][i + 1]
      BY Zenon, <2>2, <3>1
    <3> QED
      BY Zenon, <3>1, <3>2
  <2>7. ASSUME NEW m \in {"in", "work", "tmp"}, NEW d, NEW i
        PROVE  Load(m, d, i)' = Load(m, d, i)
    BY <1>3, <2>1, LoadIs
  <2>8. \A d, i : Load("out", d, i)' = Replaced(out, c, x)[d][i + 1]
                  /\ Load("out", d, i) = out[d][i + 1]
    BY <2>1, LoadIs
  <2>9. \A i \in 0..(Items(batch[c]) - 1) :
          Load("out", c, i)' = IF i \in is THEN g[i] ELSE Load("out", c, i)
    BY <2>4, <2>6, <2>8
  <2>10. \A d \in 1..Len(batch) : d # c => \A i : Load("out", d, i)' = Load("out", d, i)
    BY <1>1, <2>4, <2>8
  <2> QED
    BY <1>6, <2>5, <2>7, <2>9, <2>10
<1> QED
  BY <1>4, <1>5, <1>6

\* The step of a call that is first in the stream.
AtFftHead(c, s) ==
  /\ c \in 1..Len(batch) /\ s \in 1..FftSteps
  /\ FftExecuted + 1 = First(FftSteps, c) + s
  /\ IsFftStep(Head(stream), c, s, batch[c])

LEMMA FftHeadIs ==
  ASSUME FftInv, stream # <<>>
  PROVE  \E c, s : AtFftHead(c, s) /\ s = StepAt(FftSteps, FftExecuted + 1)
<1>1. Len(stream) \in Nat /\ Len(stream) > 0 /\ Head(stream) = stream[1]
      /\ Len(batch) \in Nat
  BY LenIs DEF FftInv, FftCalls
<1>2. FftExecuted = First(FftSteps, Len(batch) + 1) - Len(stream) /\ FftExecuted \in Nat
  BY DEF FftExecuted, FftInv, FftCalls
<1>3. 1 \in 1..Len(stream) /\ FftSteps \in Nat /\ FftSteps > 0
  BY <1>1, CountsAre DEF FftInv
<1> DEFINE c == CallAt(FftSteps, FftExecuted + 1)
           s == StepAt(FftSteps, FftExecuted + 1)
<1>4. /\ c \in 1..Len(batch) /\ s \in 1..FftSteps
      /\ FftExecuted + 1 = First(FftSteps, c) + s
  BY <1>1, <1>2, <1>3, LeftIs
<1>5. IsFftStep(Head(stream), c, s, batch[c])
  BY <1>1, <1>3 DEF FftInv, FftCalls
<1> HIDE DEF c, s
<1>6. AtFftHead(c, s)
  BY <1>4, <1>5 DEF AtFftHead
<1> QED
  BY <1>6 DEF s

\* What the step at the head finds, and where it may write.
LEMMA FftHeadReads ==
  ASSUME FftInv, NEW c, NEW s, AtFftHead(c, s)
  PROVE  /\ Reads(c, s, batch[c]) /\ batch[c] \in Nat /\ Items(batch[c]) \in Nat
         /\ To(s) \in {"work", "tmp", "out"}
         /\ To(s) = "work" => Items(batch[c]) <= Len(d_work_dev)
         /\ From(s) = "work" => Items(batch[c]) <= Len(d_work_dev)
         /\ From(s) = "tmp" => Len(tmp[c]) = Items(batch[c])
         /\ (cupy => FftKind(s) # "kernel") /\ (To(s) = "tmp" => cupy)
         /\ (FftKind(s) = "kernel" => From(s) # To(s))
<1>0. /\ c \in 1..Len(batch) /\ s \in 1..FftSteps
      /\ FftExecuted + 1 = First(FftSteps, c) + s /\ FftExecuted \in Nat
      /\ batch[c] \in Nat
  BY DEF AtFftHead, FftInv, FftCalls
<1>1. FftSteps \in Nat /\ FftSteps > 0 /\ c \in Nat /\ c > 0 /\ s \in Nat
  BY <1>0, CountsAre DEF FftInv
<1>2. First(FftSteps, c) \in Nat
  BY <1>1, FirstIs
<1>3. Reads(c, s, batch[c]) /\ (From(s) = "tmp" => Len(tmp[c]) = Items(batch[c]))
  <2>1. CASE s = 1
    <3>1. From(s) = "in" /\ \A j : Source(c, s, j) = Item(c, j)
      BY <2>1 DEF From, Source
    <3> QED
      BY <3>1, LoadIs DEF Reads
  <2>2. CASE s # 1
    <3>1. s - 1 \in 1..FftSteps /\ FftExecuted = First(FftSteps, c) + (s - 1)
      BY <1>0, <1>1, <1>2, <2>2
    <3>2. Holds(c, s - 1, batch[c])
      BY <1>0, <3>1 DEF FftInv, FftResults, Latest
    <3>3. From(s) = To(s - 1) /\ \A j : Source(c, s, j) = Meant(c, s - 1, j)
      BY <2>2 DEF From, Source
    <3> QED
      BY <3>2, <3>3 DEF Holds, Reads, Items
  <2> QED
    BY <2>1, <2>2
<1>4. Items(batch[c]) \in Nat
  BY <1>0, Product DEF Items, FftInv, FftParameters
<1>5. To(s) \in {"work", "tmp", "out"} /\ (cupy => FftKind(s) # "kernel")
      /\ (To(s) = "tmp" => cupy)
  BY DEF To, FftKind
<1>6. ASSUME NEW r \in 1..FftSteps, To(r) = "work"
      PROVE  Items(batch[c]) <= Len(d_work_dev)
  <2>1. ~cupy /\ r # FftSteps
    BY <1>6 DEF To
  <2>2. Entering = (IF Preprocesses THEN 1 ELSE 0) /\ Bins = Entering + 1
        /\ FftSteps = Bins + (IF Fshift THEN 1 ELSE 0)
    BY <2>1 DEF Entering, Bins, FftSteps
  <2>3. Preprocesses \/ Fshift
    BY <1>6, <2>1, <2>2
  <2>4. UsesStaging
    BY <2>3 DEF UsesStaging, Preprocesses, Fshift
  <2> QED
    BY <1>0, <2>1, <2>4 DEF FftInv, FftCalls
<1>7. FftKind(s) = "kernel" => From(s) # To(s)
  <2> SUFFICES ASSUME FftKind(s) = "kernel" PROVE From(s) # To(s)
    OBVIOUS
  <2>1. ~cupy /\ s # Entering + 1
    BY DEF FftKind
  <2>2. CASE s = 1
    BY <2>2 DEF From, To
  <2>3. CASE s # 1
    <3>1. Entering = (IF Preprocesses THEN 1 ELSE 0) /\ Bins = Entering + 1
          /\ FftSteps = Bins + (IF Fshift THEN 1 ELSE 0)
      BY <2>1 DEF Entering, Bins, FftSteps
    <3>2. s = FftSteps /\ s - 1 # FftSteps
      BY <1>0, <1>1, <2>1, <2>3, <3>1
    <3>3. From(s) = "work" /\ To(s) = "out"
      BY Zenon, <2>1, <2>3, <3>2 DEF From, To
    <3> QED
      BY <3>3
  <2> QED
    BY <2>2, <2>3
<1>8. From(s) = "work" => Items(batch[c]) <= Len(d_work_dev)
  <2> SUFFICES ASSUME From(s) = "work" PROVE Items(batch[c]) <= Len(d_work_dev)
    OBVIOUS
  <2>1. s # 1 /\ To(s - 1) = "work"
    BY DEF From
  <2>2. s - 1 \in 1..FftSteps
    BY <1>0, <1>1, <2>1
  <2> QED
    BY <1>6, <2>1, <2>2
<1> QED
  BY <1>0, <1>3, <1>4, <1>5, <1>6, <1>7, <1>8

\* The calls keep their batches, their outputs and the plans.
LEMMA FftShapesStay ==
  ASSUME FftInv, UNCHANGED <<parameters, d_plan_cache, batch>>, Shaped
  PROVE  /\ IsSeq(batch') /\ IsSeq(out') /\ IsSeq(tmp') /\ IsSeq(d_work_dev')
         /\ Len(out') = Len(batch') /\ Len(tmp') = Len(batch')
         /\ \A d \in 1..Len(batch') :
              /\ batch'[d] \in Nat /\ IsSeq(out'[d]) /\ Len(out'[d]) = Items(batch[d])'
              /\ ~cupy' /\ UsesStaging' => Items(batch[d])' <= Len(d_work_dev')
         /\ \A b \in DOMAIN d_plan_cache' : d_plan_cache'[b] = [vectors |-> b]
         /\ FftParameters'
<1>1. UNCHANGED parameters /\ batch' = batch /\ d_plan_cache' = d_plan_cache
  OBVIOUS
<1>2. /\ FftParameters' /\ cupy' = cupy /\ UsesStaging' = UsesStaging
      /\ \A n : Items(n)' = Items(n)
  BY <1>1, FftFrame DEF FftInv
<1>3. \A d : Items(batch[d])' = Items(batch[d])
  BY <1>1, <1>2 DEF Items
<1>4. ASSUME NEW d \in 1..Len(batch)
      PROVE  /\ batch'[d] \in Nat /\ IsSeq(out'[d]) /\ Len(out'[d]) = Items(batch[d])
             /\ ~cupy /\ UsesStaging => Items(batch[d]) <= Len(d_work_dev')
  <2>1. /\ batch[d] \in Nat /\ Len(out[d]) = Items(batch[d])
        /\ ~cupy /\ UsesStaging => Items(batch[d]) <= Len(d_work_dev)
    BY DEF FftInv, FftCalls
  <2>2. IsSeq(out'[d]) /\ Len(out'[d]) = Len(out[d]) /\ Len(d_work_dev') = Len(d_work_dev)
    BY DEF Shaped
  <2> QED
    BY <1>1, <2>1, <2>2
<1>5. /\ IsSeq(batch) /\ Len(out) = Len(batch) /\ Len(tmp) = Len(batch)
      /\ \A b \in DOMAIN d_plan_cache : d_plan_cache[b] = [vectors |-> b]
  BY DEF FftInv, FftCalls
<1>6. IsSeq(batch') /\ IsSeq(out') /\ IsSeq(tmp') /\ IsSeq(d_work_dev')
      /\ Len(out') = Len(batch') /\ Len(tmp') = Len(batch')
  BY <1>1, <1>5 DEF Shaped
<1> QED
  BY <1>1, <1>2, <1>3, <1>4, <1>5, <1>6

\* An operation of step s of call c ends, which has made what it should.
FftPops(c, s) ==
  /\ stream # <<>> /\ AtFftHead(c, s)
  /\ UNCHANGED <<parameters, d_plan_cache, batch>> /\ stream' = Tail(stream) /\ ran' = {}
  /\ Shaped
  /\ \A i \in 0..(batch[c] * d_fft_size - 1) : Load(To(s), c, i)' = Meant(c, s, i)
  /\ To(s) = "tmp" => Len(tmp'[c]) = batch[c] * d_fft_size
  /\ \A d \in 1..Len(batch) : d # c => \A i : Load("out", d, i)' = Load("out", d, i)

LEMMA FftPopStep ==
  ASSUME FftInv, NEW c, NEW s, FftPops(c, s)
  PROVE  FftInv'
<1>0. /\ stream # <<>> /\ UNCHANGED parameters /\ batch' = batch
      /\ UNCHANGED <<parameters, d_plan_cache, batch>>
      /\ stream' = Tail(stream) /\ ran' = {} /\ Shaped
      /\ c \in 1..Len(batch) /\ s \in 1..FftSteps
      /\ FftExecuted + 1 = First(FftSteps, c) + s
  BY DEF FftPops, AtFftHead
<1>1. /\ FftSteps \in Nat /\ FftSteps > 0 /\ FftSteps' = FftSteps /\ Len(batch) \in Nat
      /\ d_fft_size' = d_fft_size /\ (\A r : To(r)' = To(r))
      /\ \A d, r, i : Meant(d, r, i)' = Meant(d, r, i)
  <2>1. FftSteps \in Nat /\ FftSteps > 0 /\ Len(batch) \in Nat
    BY CountsAre, LenIs DEF FftInv, FftCalls
  <2>2. /\ FftSteps' = FftSteps /\ d_fft_size' = d_fft_size /\ (\A r : To(r)' = To(r))
        /\ \A d, r, i : Meant(d, r, i)' = Meant(d, r, i)
    BY <1>0, FftFrame
  <2> QED
    BY <2>1, <2>2
<1>2. /\ IsSeq(stream') /\ Len(stream') = Len(stream) - 1
      /\ \A i \in 1..Len(stream') : stream'[i] = stream[i + 1]
      /\ Len(stream) \in Nat /\ Len(stream) > 0
  BY <1>0, TailIs, LenIs DEF FftInv, FftCalls
<1>3. FftExecuted' = FftExecuted + 1 /\ FftExecuted \in Nat
  <2>1. First(FftSteps, Len(batch) + 1) \in Nat
    <3>1. Len(batch) + 1 \in Nat /\ Len(batch) + 1 > 0
      BY <1>1
    <3> QED
      BY <1>1, <3>1, FirstIs
  <2> QED
    BY <1>0, <1>1, <1>2, <2>1 DEF FftExecuted, FftInv, FftCalls
<1>4. FftCalls' /\ FftParameters'
  <2>1. ASSUME NEW i \in 1..Len(stream')
        PROVE  IsFftStep(stream[i], CallAt(FftSteps, FftExecuted + i),
                         StepAt(FftSteps, FftExecuted + i),
                         batch[CallAt(FftSteps, FftExecuted + i)])'
    <3>1. i + 1 \in 1..Len(stream) /\ FftExecuted' + i = FftExecuted + (i + 1)
      BY <1>2, <1>3
    <3> DEFINE d == CallAt(FftSteps, FftExecuted + (i + 1))
               r == StepAt(FftSteps, FftExecuted + (i + 1))
    <3>2. IsFftStep(stream[i + 1], d, r, batch[d])
      BY <3>1 DEF FftInv, FftCalls
    <3>3. /\ stream'[i] = stream[i + 1]
          /\ CallAt(FftSteps, FftExecuted + i)' = d /\ StepAt(FftSteps, FftExecuted + i)' = r
      BY <1>1, <1>2, <3>1 DEF CallAt, StepAt
    <3> HIDE DEF d, r
    <3> QED
      BY <1>0, <3>2, <3>3, FftFrame DEF IsFftStep
  <2>2. FftExecuted' \in Nat
    BY <1>3
  <2> QED
    BY <1>0, <1>2, <2>1, <2>2, FftShapesStay DEF FftCalls
<1>5. FftResults'
  <2>1. FftThreads'
    BY <1>0 DEF FftThreads
  <2>2. ASSUME NEW d \in 1..Len(batch), NEW r \in 1..FftSteps,
               Latest(FftSteps, FftExecuted + 1, d, r)
        PROVE  Holds(d, r, batch[d])'
    <3>1. (d = c /\ r = s) \/ (d # c /\ Latest(FftSteps, FftExecuted, d, r))
      BY SMTT(40), <1>0, <1>1, <1>3, <2>2, LatestMoves
    <3>2. CASE d = c /\ r = s
      BY <1>0, <1>1, <3>2 DEF Holds, FftPops
    <3>3. CASE d # c /\ Latest(FftSteps, FftExecuted, d, r)
      <4>1. Holds(d, r, batch[d])
        BY <3>3 DEF FftInv, FftResults
      <4>2. r = FftSteps
        <5> SUFFICES ASSUME r # FftSteps PROVE FALSE
          OBVIOUS
        <5>1. FftExecuted = First(FftSteps, d) + r
          BY <3>3 DEF Latest
        <5>2. First(FftSteps, d) \in Nat /\ d \in Nat /\ d > 0 /\ c \in Nat /\ c > 0
          BY <1>0, <1>1, FirstIs
        <5>3. FftExecuted + 1 = First(FftSteps, d) + (r + 1) /\ r + 1 \in 1..FftSteps
          BY <1>1, <1>3, <5>1, <5>2
        <5>4. CallAt(FftSteps, First(FftSteps, d) + (r + 1)) = d
          BY <1>1, <5>2, <5>3, NumberOf
        <5>5. CallAt(FftSteps, First(FftSteps, c) + s) = c
          BY <1>0, <1>1, <5>2, NumberOf
        <5> QED
          BY <1>0, <3>3, <5>3, <5>4, <5>5
      <4>3. To(r) = "out"
        BY <4>2 DEF To
      <4>4. \A i : Load("out", d, i)' = Load("out", d, i)
        BY <3>3 DEF FftPops
      <4> QED
        BY <1>0, <1>1, <4>1, <4>3, <4>4 DEF Holds
    <3> QED
      BY <3>1, <3>2, <3>3
  <2>3. ASSUME NEW d, NEW r
        PROVE  Latest(FftSteps, FftExecuted, d, r)' <=> Latest(FftSteps, FftExecuted + 1, d, r)
    BY <1>1, <1>3 DEF Latest, First
  <2> QED
    BY <1>0, <1>1, <1>3, <2>1, <2>2, <2>3 DEF FftResults
<1> QED
  BY <1>4, <1>5 DEF FftInv

\* An operation on all items of a call: it writes g.
FftWhole(c, s, g) ==
  /\ stream # <<>> /\ AtFftHead(c, s)
  /\ UNCHANGED <<parameters, d_plan_cache, batch>> /\ stream' = Tail(stream) /\ ran' = {}
  /\ Stored(To(s), c, 0..(Items(batch[c]) - 1), g)
  /\ \A i \in 0..(Items(batch[c]) - 1) : g[i] = Meant(c, s, i)

LEMMA FftWholeStep ==
  ASSUME FftInv, NEW c, NEW s, NEW g, FftWhole(c, s, g)
  PROVE  FftInv'
<1>1. /\ AtFftHead(c, s) /\ c \in 1..Len(batch) /\ UNCHANGED parameters
  BY DEF FftWhole, AtFftHead
<1>2. To(s) \in {"work", "tmp", "out"}
      /\ (To(s) = "work" => Items(batch[c]) <= Len(d_work_dev))
  BY <1>1, FftHeadReads
<1>3. PICK m, is : m = To(s) /\ is = 0..(Items(batch[c]) - 1)
  OBVIOUS
<1>4. Stored(m, c, is, g) /\ \A i \in is : g[i] = Meant(c, s, i)
  BY <1>3 DEF FftWhole
<1>5. /\ Shaped
      /\ m = "tmp" => Len(tmp'[c]) = Items(batch[c])
      /\ \A i \in is : Load(m, c, i)' = g[i]
      /\ \A mem \in {"in", "work", "tmp", "out"}, d \in 1..Len(batch) :
           mem # m \/ (d # c /\ mem # "work") => \A i : Load(mem, d, i)' = Load(mem, d, i)
  <2>1. /\ m \in {"work", "tmp", "out"}
        /\ (m = "work" => Items(batch[c]) <= Len(d_work_dev))
        /\ is \subseteq 0..(Items(batch[c]) - 1)
        /\ (m = "tmp" => is = 0..(Items(batch[c]) - 1))
    BY <1>2, <1>3
  <2>2. Lands(m, c, is, g)
    BY <1>1, <1>4, <2>1 DEF Lands
  <2> QED
    BY <2>2, StoreLands
<1>6. \A i \in 0..(Items(batch[c]) - 1) : Load(To(s), c, i)' = Meant(c, s, i)
  <2>1. To(s)' = To(s)
    BY <1>1, FftFrame
  <2> QED
    BY <1>3, <1>4, <1>5, <2>1
<1>7. \A d \in 1..Len(batch) : d # c => \A i : Load("out", d, i)' = Load("out", d, i)
  BY <1>5
<1>8. FftPops(c, s)
  BY <1>1, <1>3, <1>5, <1>6, <1>7 DEF FftPops, FftWhole, Items
<1> QED
  BY <1>8, FftPopStep

LEMMA RunTransformStep ==
  ASSUME FftInv, RunTransform
  PROVE  FftInv'
<1> DEFINE op == Head(stream)
<1>1. PICK c, s : AtFftHead(c, s)
  BY FftHeadIs DEF RunTransform
<1>2. /\ op.call = c /\ op.vectors = batch[c] /\ op.kind = FftKind(s)
      /\ op.from = From(s) /\ op.to = To(s) /\ c \in 1..Len(batch)
  BY <1>1 DEF AtFftHead, IsFftStep
<1>3. /\ Reads(c, s, batch[c]) /\ batch[c] \in Nat /\ Items(batch[c]) \in Nat
      /\ Len(out[c]) = Items(batch[c]) /\ FftParameters
  BY <1>1, <1>2, FftHeadReads DEF FftInv, FftCalls
<1> DEFINE is == 0..(Items(batch[c]) - 1)
           val(i) == Bin(Direction, i % d_fft_size,
                         [p \in 1..d_fft_size |->
                            Load(From(s), c, (i \div d_fft_size) * d_fft_size + p - 1)])
           g == [i \in is |-> val(i)]
<1>4. /\ stream # <<>> /\ op.kind = "fft" /\ stream' = Tail(stream)
      /\ UNCHANGED <<parameters, d_plan_cache, batch>> /\ ran' = ran
  BY DEF RunTransform
<1>5. ran = {} /\ op.direction = Direction
  BY <1>1, <1>4 DEF FftInv, FftResults, FftThreads, AtFftHead, IsFftStep
<1>6. \A i \in is : val(i) = Meant(c, s, i)
  BY <1>2, <1>3, <1>4, TransformGives DEF Items
<1>7. /\ d_work_dev' = IF To(s) # "work" THEN d_work_dev ELSE
           [j \in 1..d_work_items |-> IF j - 1 \in is THEN val(j - 1) ELSE d_work_dev[j]]
      /\ tmp' = IF To(s) # "tmp" THEN tmp ELSE
           [tmp EXCEPT ![c] = [j \in 1..Len(out[c]) |-> val(j - 1)]]
      /\ out' = IF To(s) # "out" THEN out ELSE
           [out EXCEPT ![c] = [j \in 1..Len(@) |-> IF j - 1 \in is THEN val(j - 1) ELSE @[j]]]
  BY <1>2, <1>5 DEF RunTransform, Store
<1> HIDE DEF val, op
<1>8. Stored(To(s), c, is, g)
  <2>1. \A i \in is : g[i] = val(i)
    OBVIOUS
  <2>2. \A j \in 1..Len(out[c]) : j - 1 \in is
    BY <1>3
  <2> HIDE DEF is, g
  <2>3. [j \in 1..Len(d_work_dev) |-> IF j - 1 \in is THEN val(j - 1) ELSE d_work_dev[j]]
        = [j \in 1..Len(d_work_dev) |-> IF j - 1 \in is THEN g[j - 1] ELSE d_work_dev[j]]
    BY <2>1
  <2>4. [j \in 1..Len(out[c]) |-> val(j - 1)] = [j \in 1..Len(out[c]) |-> g[j - 1]]
    BY <2>1, <2>2
  <2>5. [j \in 1..Len(out[c]) |-> IF j - 1 \in is THEN val(j - 1) ELSE out[c][j]]
        = [j \in 1..Len(out[c]) |-> IF j - 1 \in is THEN g[j - 1] ELSE out[c][j]]
    BY <2>1
  <2>6. tmp' = IF To(s) # "tmp" THEN tmp ELSE
          Replaced(tmp, c, [j \in 1..Len(out[c]) |-> g[j - 1]])
    BY <1>7, <2>4 DEF Replaced
  <2>7. out' = IF To(s) # "out" THEN out ELSE
          Replaced(out, c, [j \in 1..Len(out[c]) |->
                              IF j - 1 \in is THEN g[j - 1] ELSE out[c][j]])
    BY <1>7, <2>5 DEF Replaced
  <2>8. d_work_dev' = IF To(s) # "work" THEN d_work_dev ELSE
          [j \in 1..Len(d_work_dev) |-> IF j - 1 \in is THEN g[j - 1] ELSE d_work_dev[j]]
    BY <1>7, <2>3 DEF d_work_items
  <2> QED
    BY <2>6, <2>7, <2>8 DEF Stored
<1>9. FftWhole(c, s, g)
  BY <1>1, <1>4, <1>5, <1>6, <1>8 DEF FftWhole
<1> HIDE DEF g
<1> QED
  BY <1>9, FftWholeStep

LEMMA RunFftArrayStep ==
  ASSUME FftInv, RunArray
  PROVE  FftInv'
<1> DEFINE op == Head(stream)
<1>1. PICK c, s : AtFftHead(c, s)
  BY FftHeadIs DEF RunArray
<1>2. /\ op.call = c /\ op.vectors = batch[c] /\ op.kind = FftKind(s)
      /\ op.to = To(s) /\ c \in 1..Len(batch) /\ s \in 1..FftSteps
      /\ IsFftStep(op, c, s, batch[c])
  BY <1>1 DEF AtFftHead, IsFftStep
<1>3. /\ Reads(c, s, batch[c]) /\ batch[c] \in Nat /\ Items(batch[c]) \in Nat
      /\ Len(out[c]) = Items(batch[c]) /\ FftParameters
  BY <1>1, <1>2, FftHeadReads DEF FftInv, FftCalls
<1> DEFINE is == 0..(Items(batch[c]) - 1)
           val(i) == ArrayValue(op, i)
           g == [i \in is |-> val(i)]
<1>4. /\ stream # <<>> /\ op.kind = "array" /\ stream' = Tail(stream)
      /\ UNCHANGED <<parameters, d_plan_cache, batch>> /\ ran' = ran
  BY DEF RunArray
<1>5. ran = {}
  BY <1>4 DEF FftInv, FftResults, FftThreads
<1>6. \A i \in is : val(i) = Meant(c, s, i)
  <2> SUFFICES ASSUME NEW i \in is PROVE ArrayValue(op, i) = Meant(c, s, i)
    OBVIOUS
  <2>1. i \in 0..(batch[c] * d_fft_size - 1) /\ FftKind(s) = "array"
    BY <1>2, <1>4 DEF Items
  <2> HIDE DEF op, is, val
  <2> QED
    BY <1>2, <1>3, <2>1, CupyGives
<1>7. /\ d_work_dev' = IF To(s) # "work" THEN d_work_dev ELSE
           [j \in 1..d_work_items |-> IF j - 1 \in is THEN val(j - 1) ELSE d_work_dev[j]]
      /\ tmp' = IF To(s) # "tmp" THEN tmp ELSE
           [tmp EXCEPT ![c] = [j \in 1..Len(out[c]) |-> val(j - 1)]]
      /\ out' = IF To(s) # "out" THEN out ELSE
           [out EXCEPT ![c] = [j \in 1..Len(@) |-> IF j - 1 \in is THEN val(j - 1) ELSE @[j]]]
  BY <1>2 DEF RunArray, Store
<1> HIDE DEF val, op
<1>8. Stored(To(s), c, is, g)
  <2>1. \A i \in is : g[i] = val(i)
    OBVIOUS
  <2>2. \A j \in 1..Len(out[c]) : j - 1 \in is
    BY <1>3
  <2> HIDE DEF is, g
  <2>3. [j \in 1..Len(d_work_dev) |-> IF j - 1 \in is THEN val(j - 1) ELSE d_work_dev[j]]
        = [j \in 1..Len(d_work_dev) |-> IF j - 1 \in is THEN g[j - 1] ELSE d_work_dev[j]]
    BY <2>1
  <2>4. [j \in 1..Len(out[c]) |-> val(j - 1)] = [j \in 1..Len(out[c]) |-> g[j - 1]]
    BY <2>1, <2>2
  <2>5. [j \in 1..Len(out[c]) |-> IF j - 1 \in is THEN val(j - 1) ELSE out[c][j]]
        = [j \in 1..Len(out[c]) |-> IF j - 1 \in is THEN g[j - 1] ELSE out[c][j]]
    BY <2>1
  <2>6. tmp' = IF To(s) # "tmp" THEN tmp ELSE
          Replaced(tmp, c, [j \in 1..Len(out[c]) |-> g[j - 1]])
    BY <1>7, <2>4 DEF Replaced
  <2>7. out' = IF To(s) # "out" THEN out ELSE
          Replaced(out, c, [j \in 1..Len(out[c]) |->
                              IF j - 1 \in is THEN g[j - 1] ELSE out[c][j]])
    BY <1>7, <2>5 DEF Replaced
  <2>8. d_work_dev' = IF To(s) # "work" THEN d_work_dev ELSE
          [j \in 1..Len(d_work_dev) |-> IF j - 1 \in is THEN g[j - 1] ELSE d_work_dev[j]]
    BY <1>7, <2>3 DEF d_work_items
  <2> QED
    BY <2>6, <2>7, <2>8 DEF Stored
<1>9. FftWhole(c, s, g)
  BY <1>1, <1>4, <1>5, <1>6, <1>8 DEF FftWhole
<1> HIDE DEF g
<1> QED
  BY <1>9, FftWholeStep

LEMMA FftThreadsAre ==
  ASSUME NEW total \in Nat
  PROVE  Threads(total) = 0..(total - 1)
<1>1. Block!Threads(total) = 0..(total - 1)
  BY ThreadsAre
<1>2. Grid(total) = Block!GridSize(total)
  BY DEF Grid, Block!GridSize
<1> QED
  BY <1>1, <1>2 DEF Threads, Block!Threads

\* Before an operation of call c is executed its call has made the step before
\* and the other calls, if any step, their last one.
LEMMA LatestAre ==
  ASSUME NEW L \in Nat, L > 0, NEW e \in Nat, NEW c \in Nat, c > 0, NEW s \in 1..L,
         e + 1 = First(L, c) + s, NEW d \in Nat, d > 0, NEW r, Latest(L, e, d, r)
  PROVE  (d = c /\ s > 1 /\ r = s - 1) \/ (d # c /\ r = L)
<1>1. First(L, c) \in Nat /\ First(L, d) \in Nat /\ r \in 1..L
  BY FirstIs DEF Latest
<1>2. CASE d = c
  BY <1>1, <1>2 DEF Latest
<1>3. CASE d # c /\ r # L
  <2>1. e + 1 = First(L, d) + (r + 1) /\ r + 1 \in 1..L
    BY <1>1, <1>3 DEF Latest
  <2>2. CallAt(L, First(L, d) + (r + 1)) = d
    BY <2>1, NumberOf
  <2>3. CallAt(L, First(L, c) + s) = c
    BY NumberOf
  <2> QED
    BY <1>3, <2>1, <2>2, <2>3
<1> QED
  BY <1>2, <1>3

LEMMA FftRunThreadStep ==
  ASSUME FftInv, NEW idx, RunThread(idx)
  PROVE  FftInv'
<1> DEFINE op == Head(stream)
<1>1. PICK c, s : AtFftHead(c, s) /\ s = StepAt(FftSteps, FftExecuted + 1)
  BY FftHeadIs DEF RunThread
<1>2. /\ op.call = c /\ op.vectors = batch[c] /\ op.kind = FftKind(s)
      /\ op.to = To(s) /\ c \in 1..Len(batch) /\ s \in 1..FftSteps
      /\ IsFftStep(op, c, s, batch[c]) /\ FftExecuted + 1 = First(FftSteps, c) + s
  BY <1>1 DEF AtFftHead, IsFftStep
<1>3. /\ stream # <<>> /\ op.kind = "kernel" /\ stream' = stream /\ batch' = batch
      /\ UNCHANGED parameters /\ UNCHANGED <<parameters, d_plan_cache, batch>>
      /\ ran' = ran \cup {idx} /\ idx \in Threads(Items(op.vectors))
      /\ Store(op.to, op.call, {idx}, LAMBDA i : KernelValue(op, i))
  BY DEF RunThread
<1>4. FftKind(s) = "kernel"
  BY <1>2, <1>3
<1>5. /\ Reads(c, s, batch[c]) /\ batch[c] \in Nat /\ Items(batch[c]) \in Nat
      /\ Len(out[c]) = Items(batch[c]) /\ FftParameters
      /\ To(s) \in {"work", "out"} /\ From(s) # To(s)
      /\ (To(s) = "work" => Items(batch[c]) <= Len(d_work_dev))
  BY <1>1, <1>2, <1>4, FftHeadReads DEF FftInv, FftCalls
<1>6. idx \in 0..(Items(batch[c]) - 1) /\ idx \in 0..(batch[c] * d_fft_size - 1)
  BY <1>2, <1>3, <1>5, FftThreadsAre DEF Items
<1>7. KernelValue(op, idx) = Meant(c, s, idx)
  <2> HIDE DEF op
  <2> QED
    BY <1>2, <1>4, <1>5, <1>6, KernelGives
<1>8. PICK m, g : m = To(s) /\ g = [i \in {idx} |-> Meant(c, s, i)]
  OBVIOUS
<1>9. Stored(m, c, {idx}, g)
  <2> DEFINE val(i) == KernelValue(op, i)
  <2>1. /\ d_work_dev' = IF To(s) # "work" THEN d_work_dev ELSE
             [j \in 1..d_work_items |-> IF j - 1 \in {idx} THEN val(j - 1) ELSE d_work_dev[j]]
        /\ tmp' = IF To(s) # "tmp" THEN tmp ELSE
             [tmp EXCEPT ![c] = [j \in 1..Len(out[c]) |-> val(j - 1)]]
        /\ out' = IF To(s) # "out" THEN out ELSE
             [out EXCEPT ![c] = [j \in 1..Len(@) |->
                                   IF j - 1 \in {idx} THEN val(j - 1) ELSE @[j]]]
    BY <1>2, <1>3 DEF Store
  <2>2. \A i \in {idx} : val(i) = g[i]
    BY <1>7, <1>8
  <2> HIDE DEF val
  <2>3. [j \in 1..Len(d_work_dev) |-> IF j - 1 \in {idx} THEN val(j - 1) ELSE d_work_dev[j]]
        = [j \in 1..Len(d_work_dev) |-> IF j - 1 \in {idx} THEN g[j - 1] ELSE d_work_dev[j]]
    BY <2>2
  <2>4. [j \in 1..Len(out[c]) |-> IF j - 1 \in {idx} THEN val(j - 1) ELSE out[c][j]]
        = [j \in 1..Len(out[c]) |-> IF j - 1 \in {idx} THEN g[j - 1] ELSE out[c][j]]
    BY <2>2
  <2>5. m # "tmp" /\ tmp' = tmp
    BY <1>5, <1>8, <2>1
  <2>6. out' = IF m # "out" THEN out ELSE
          Replaced(out, c, [j \in 1..Len(out[c]) |->
                              IF j - 1 \in {idx} THEN g[j - 1] ELSE out[c][j]])
    BY <1>8, <2>1, <2>4 DEF Replaced
  <2>7. d_work_dev' = IF m # "work" THEN d_work_dev ELSE
          [j \in 1..Len(d_work_dev) |-> IF j - 1 \in {idx} THEN g[j - 1] ELSE d_work_dev[j]]
    BY <1>8, <2>1, <2>3 DEF d_work_items
  <2> QED
    BY <2>5, <2>6, <2>7 DEF Stored
<1>10. Lands(m, c, {idx}, g)
  BY <1>2, <1>3, <1>5, <1>6, <1>8, <1>9 DEF Lands
<1>11. /\ Shaped
       /\ \A i \in {idx} : Load(m, c, i)' = g[i]
       /\ \A i \in 0..(Items(batch[c]) - 1) : i \notin {idx} => Load(m, c, i)' = Load(m, c, i)
       /\ \A mem \in {"in", "work", "tmp", "out"}, d \in 1..Len(batch) :
            mem # m \/ (d # c /\ mem # "work") => \A i : Load(mem, d, i)' = Load(mem, d, i)
  BY <1>10, StoreLands
<1> HIDE DEF op
<1>12. /\ FftSteps \in Nat /\ FftSteps > 0 /\ FftSteps' = FftSteps /\ Len(batch) \in Nat
       /\ d_fft_size' = d_fft_size /\ (\A r : To(r)' = To(r)) /\ (\A n : Items(n)' = Items(n))
       /\ \A d, r, i : Meant(d, r, i)' = Meant(d, r, i)
       /\ FftExecuted \in Nat
  BY <1>3, FftFrame, CountsAre, LenIs DEF FftInv, FftCalls
<1>13. FftExecuted' = FftExecuted
  BY <1>3, <1>12 DEF FftExecuted, First
<1>14. FftCalls' /\ FftParameters'
  <2>1. ASSUME NEW i \in 1..Len(stream)
        PROVE  IsFftStep(stream[i], CallAt(FftSteps, FftExecuted + i),
                         StepAt(FftSteps, FftExecuted + i),
                         batch[CallAt(FftSteps, FftExecuted + i)])'
    <3> DEFINE d == CallAt(FftSteps, FftExecuted + i)
               r == StepAt(FftSteps, FftExecuted + i)
    <3>1. IsFftStep(stream[i], d, r, batch[d])
      BY DEF FftInv, FftCalls
    <3>2. CallAt(FftSteps, FftExecuted + i)' = d /\ StepAt(FftSteps, FftExecuted + i)' = r
      BY <1>12, <1>13 DEF CallAt, StepAt
    <3> HIDE DEF d, r
    <3> QED
      BY <1>3, <3>1, <3>2, FftFrame DEF IsFftStep
  <2>2. FftExecuted' \in Nat /\ IsSeq(stream')
    BY <1>3, <1>12, <1>13 DEF FftInv, FftCalls
  <2> QED
    BY <1>3, <1>11, <2>1, <2>2, FftShapesStay DEF FftCalls
<1>15. FftResults'
  <2>1. /\ ran' \subseteq 0..(Items(batch[c]) - 1)
        /\ \A i \in ran' : Load(m, c, i)' = Meant(c, s, i)
    <3>1. /\ ran \subseteq 0..(Items(batch[c]) - 1)
          /\ \A i \in ran : Load(m, c, i) = Meant(c, s, i)
      BY <1>1, <1>2, <1>3, <1>8 DEF FftInv, FftResults, FftThreads, op
    <3>2. Load(m, c, idx)' = Meant(c, s, idx)
      BY <1>8, <1>11
    <3> QED
      BY <1>3, <1>6, <1>11, <3>1, <3>2
  <2>2. FftThreads'
    <3>1. Head(stream)' = op /\ StepAt(FftSteps, FftExecuted + 1)' = s
      BY <1>1, <1>3, <1>12, <1>13 DEF op, StepAt
    <3>2. op.to = m /\ op.call = c /\ op.vectors = batch[c]
      BY <1>2, <1>8
    <3> QED
      BY <1>3, <1>12, <2>1, <3>1, <3>2 DEF FftThreads
  <2>3. ASSUME NEW d \in 1..Len(batch), NEW r \in 1..FftSteps,
               Latest(FftSteps, FftExecuted, d, r)
        PROVE  Holds(d, r, batch[d])'
    <3>1. Holds(d, r, batch[d])
      BY <2>3 DEF FftInv, FftResults
    <3>2. (d = c /\ s > 1 /\ r = s - 1) \/ (d # c /\ r = FftSteps)
      <4>1. c \in Nat /\ c > 0 /\ d \in Nat /\ d > 0
        BY <1>2, <1>12
      <4> QED
        BY <1>2, <1>12, <2>3, <4>1, LatestAre
    <3>3. PICK mem : mem = To(r)
      OBVIOUS
    <3>4. \A i : Load(mem, d, i)' = Load(mem, d, i)
      <4>1. CASE d = c /\ s > 1 /\ r = s - 1
        <5>1. mem = From(s) /\ mem # m /\ mem \in {"in", "work", "tmp", "out"}
          <6>1. From(s) = To(s - 1)
            BY <4>1 DEF From
          <6> QED
            BY <1>5, <1>8, <3>3, <4>1, <6>1 DEF To
        <5> QED
          BY <1>11, <5>1
      <4>2. CASE d # c /\ r = FftSteps
        <5>1. mem = "out"
          BY <3>3, <4>2 DEF To
        <5> QED
          BY <1>11, <4>2, <5>1
      <4> QED
        BY <3>2, <4>1, <4>2
    <3>5. To(r)' = mem /\ batch'[d] = batch[d] /\ tmp' = tmp
      BY <1>3, <1>5, <1>8, <1>9, <1>12, <3>3 DEF Stored
    <3> QED
      BY <1>12, <3>1, <3>3, <3>4, <3>5 DEF Holds
  <2>4. ASSUME NEW d, NEW r
        PROVE  Latest(FftSteps, FftExecuted, d, r)' <=> Latest(FftSteps, FftExecuted, d, r)
    BY <1>12, <1>13 DEF Latest, First
  <2> QED
    BY <1>3, <1>12, <2>2, <2>3, <2>4 DEF FftResults
<1> QED
  BY <1>14, <1>15 DEF FftInv

LEMMA FftKernelEndsStep ==
  ASSUME FftInv, KernelEnds
  PROVE  FftInv'
<1> DEFINE op == Head(stream)
<1>1. PICK c, s : AtFftHead(c, s) /\ s = StepAt(FftSteps, FftExecuted + 1)
  BY FftHeadIs DEF KernelEnds
<1>2. /\ op.call = c /\ op.vectors = batch[c] /\ op.to = To(s) /\ c \in 1..Len(batch)
  BY <1>1 DEF AtFftHead, IsFftStep
<1>3. /\ stream # <<>> /\ op.kind = "kernel" /\ stream' = Tail(stream) /\ ran' = {}
      /\ UNCHANGED parameters /\ UNCHANGED <<parameters, d_plan_cache, batch>>
      /\ d_work_dev' = d_work_dev /\ tmp' = tmp /\ out' = out
      /\ ran = Threads(Items(op.vectors))
  BY DEF KernelEnds
<1>4. Items(batch[c]) \in Nat /\ To(s) \in {"work", "tmp", "out"}
  BY <1>1, FftHeadReads
<1>5. ran = 0..(batch[c] * d_fft_size - 1)
  BY <1>2, <1>3, <1>4, FftThreadsAre DEF Items
<1>6. \A i \in 0..(batch[c] * d_fft_size - 1) : Load(To(s), c, i) = Meant(c, s, i)
  BY <1>1, <1>2, <1>3, <1>5 DEF FftInv, FftResults, FftThreads
<1> HIDE DEF op
<1>7. Shaped
  BY <1>3 DEF Shaped, FftInv, FftCalls
<1>8. \A d, i : /\ Load("work", d, i)' = Load("work", d, i)
                /\ Load("tmp", d, i)' = Load("tmp", d, i)
                /\ Load("out", d, i)' = Load("out", d, i)
  BY <1>3, LoadIs
<1>9. \A i : Load(To(s), c, i)' = Load(To(s), c, i)
  <2>1. To(s)' = To(s)
    BY <1>3, FftFrame
  <2>2. PICK m : m = To(s)
    OBVIOUS
  <2>3. \A i : Load(m, c, i)' = Load(m, c, i)
    BY <1>4, <1>8, <2>2
  <2> QED
    BY <2>1, <2>2, <2>3
<1>10. To(s) # "tmp"
  BY <1>1, <1>3, FftHeadReads DEF op, AtFftHead, IsFftStep
<1>11. FftPops(c, s)
  BY <1>1, <1>3, <1>6, <1>7, <1>8, <1>9, <1>10 DEF FftPops
<1> QED
  BY <1>11, FftPopStep

-----------------------------------------------------------------------------
(* The work calls of the FFT blocks.                                       *)

Regrouped(q, r, s, t) == ((q \o r) \o s) \o t = q \o ((r \o s) \o t)

LEMMA ConcatFour ==
  ASSUME NEW q, NEW r, NEW s, NEW t, IsSeq(q), IsSeq(r), IsSeq(s), IsSeq(t)
  PROVE  Regrouped(q, r, s, t)
<1>1. PICK Q, R, S, T : q \in Seq(Q) /\ r \in Seq(R) /\ s \in Seq(S) /\ t \in Seq(T)
  BY DEF IsSeq
<1>2. PICK A : A = ((Q \cup R) \cup S) \cup T
  OBVIOUS
<1>3. q \in Seq(A) /\ r \in Seq(A) /\ s \in Seq(A) /\ t \in Seq(A)
  <2>1. Q \subseteq A /\ R \subseteq A /\ S \subseteq A /\ T \subseteq A
    BY <1>2
  <2> QED
    BY <1>1, <2>1, SeqMonotonic
<1>4. (q \o r) \o s = q \o (r \o s)
  BY <1>3, ConcatAssociative
<1>5. r \o s \in Seq(A)
  BY <1>3, ConcatProperties
<1>6. (q \o (r \o s)) \o t = q \o ((r \o s) \o t)
  <2> DEFINE p == r \o s
  <2>1. p \in Seq(A) /\ q \in Seq(A) /\ t \in Seq(A)
    BY <1>3, <1>5
  <2> HIDE DEF p
  <2>2. (q \o p) \o t = q \o (p \o t)
    BY <2>1, ConcatAssociative
  <2> QED
    BY <2>2 DEF p
<1> QED
  BY <1>4, <1>6 DEF Regrouped

\* A work call enqueues its steps and makes room for its results.  It replaces
\* the staging buffer only when the stream is empty.
FftWorks(n, new) ==
  /\ n \in Nat /\ UNCHANGED parameters /\ ran' = ran
  /\ batch' = Append(batch, n) /\ stream' = stream \o new
  /\ tmp' = Append(tmp, <<>>) /\ out' = Append(out, [i \in 1..Items(n) |-> Unset])
  /\ Segment(new, Len(batch) + 1, 0, n) /\ Len(new) = FftSteps
  /\ \A b \in DOMAIN d_plan_cache' : d_plan_cache'[b] = [vectors |-> b]
  /\ IsSeq(d_work_dev') /\ Len(d_work_dev) <= Len(d_work_dev')
  /\ ~cupy /\ UsesStaging => Items(n) <= Len(d_work_dev')
  /\ d_work_dev' # d_work_dev => stream = <<>>

LEMMA FftWorkStep ==
  ASSUME FftInv, NEW n, NEW new, FftWorks(n, new)
  PROVE  FftInv'
<1> USE DEF FftWorks
<1> DEFINE c == Len(batch) + 1
           L == FftSteps
           E == FftExecuted
           fresh == [i \in 1..Items(n) |-> Unset]
<1>1. /\ L \in Nat /\ L > 0 /\ FftSteps' = L /\ d_fft_size' = d_fft_size /\ cupy' = cupy
      /\ UsesStaging' = UsesStaging /\ FftParameters'
      /\ (\A r : To(r)' = To(r)) /\ (\A m : Items(m)' = Items(m))
      /\ \A d, r, i : Meant(d, r, i)' = Meant(d, r, i)
  BY SMTT(40), FftFrame, CountsAre DEF FftInv
<1>2. /\ Len(batch) \in Nat /\ Len(stream) \in Nat /\ Len(out) = Len(batch)
      /\ Len(tmp) = Len(batch) /\ IsSeq(batch) /\ IsSeq(stream) /\ IsSeq(out) /\ IsSeq(tmp)
      /\ c \in Nat /\ c > 0 /\ IsSeq(d_work_dev) /\ Len(d_work_dev) \in Nat
      /\ Len(d_work_dev') \in Nat
  BY LenIs DEF FftInv, FftCalls
<1>3. /\ IsSeq(batch') /\ Len(batch') = c /\ batch'[c] = n
      /\ \A d \in 1..Len(batch) : batch'[d] = batch[d]
  BY <1>2, AppendIs
<1>4. /\ IsSeq(out') /\ Len(out') = c /\ out'[c] = fresh
      /\ \A d \in 1..Len(batch) : out'[d] = out[d]
  <2>1. out' = Append(out, fresh)
    OBVIOUS
  <2> HIDE DEF fresh, FftWorks
  <2> QED
    BY <1>2, <2>1, AppendIs
<1>5. /\ IsSeq(tmp') /\ Len(tmp') = c
      /\ \A d \in 1..Len(batch) : tmp'[d] = tmp[d]
  BY <1>2, AppendIs
<1>6. /\ IsSeq(stream') /\ Len(stream') = Len(stream) + L
      /\ \A i \in 1..Len(stream) : stream'[i] = stream[i]
      /\ \A i \in 1..L : stream'[Len(stream) + i] = new[i]
  <2>1. IsSeq(stream) /\ IsSeq(new) /\ Len(new) = L /\ stream' = stream \o new
    BY <1>2 DEF Segment
  <2>2. /\ IsSeq(stream \o new) /\ Len(stream \o new) = Len(stream) + Len(new)
        /\ \A i \in 1..Len(stream) : (stream \o new)[i] = stream[i]
        /\ \A i \in 1..Len(new) : (stream \o new)[Len(stream) + i] = new[i]
    <3>1. IsSeq(stream) /\ IsSeq(new)
      BY <2>1
    <3> HIDE DEF FftWorks, c, L, E, fresh
    <3> QED
      BY <3>1, ConcatIs
  <2> QED
    BY <2>1, <2>2
<1>7. \A i \in 1..L : IsFftStep(new[i], c, i, n)
  <2> SUFFICES ASSUME NEW i \in 1..L PROVE IsFftStep(new[i], c, i, n)
    OBVIOUS
  <2>1. IsFftStep(new[i], c, 0 + i, n) /\ 0 + i = i
    BY <1>1 DEF Segment
  <2> QED
    BY <2>1
<1>8. /\ First(L, c) \in Nat /\ First(L, c + 1) = First(L, c) + L
      /\ E = First(L, c) - Len(stream) /\ E \in Nat /\ E <= First(L, c)
  <2>1. First(L, c) \in Nat /\ First(L, c + 1) = First(L, c) + L
    BY <1>1, <1>2, FirstIs
  <2>2. E = First(L, c) - Len(stream) /\ E \in Nat
    BY DEF FftExecuted, FftInv, FftCalls
  <2> QED
    BY SMTT(40), <1>2, <2>1, <2>2
<1>9. FftExecuted' = E
  <2>1. FftExecuted' = First(FftSteps', Len(batch') + 1) - Len(stream')
    BY DEF FftExecuted, First
  <2>2. FftExecuted' = First(L, c + 1) - (Len(stream) + L)
    BY <1>1, <1>3, <1>6, <2>1
  <2> QED
    BY SMTT(40), <1>1, <1>2, <1>8, <2>2
<1> HIDE DEF FftWorks
<1>10. ASSUME NEW d \in 1..c
       PROVE  /\ batch'[d] \in Nat /\ IsSeq(out'[d]) /\ Len(out'[d]) = Items(batch'[d])
              /\ ~cupy /\ UsesStaging => Items(batch'[d]) <= Len(d_work_dev')
  <2>1. CASE d = c
    <3>1. Items(n) \in Nat /\ n \in Nat
      BY Product DEF FftWorks, Items, FftInv, FftParameters
    <3>2. fresh = [i \in 1..Items(n) |-> fresh[i]]
      OBVIOUS
    <3> HIDE DEF fresh
    <3>3. IsSeq(fresh) /\ Len(fresh) = Items(n)
      BY <3>1, <3>2, AnySeq
    <3> QED
      BY <1>3, <1>4, <2>1, <3>1, <3>3 DEF FftWorks
  <2>2. CASE d \in 1..Len(batch)
    <3>1. /\ batch[d] \in Nat /\ IsSeq(out[d]) /\ Len(out[d]) = Items(batch[d])
          /\ ~cupy /\ UsesStaging => Items(batch[d]) <= Len(d_work_dev)
      BY <2>2 DEF FftInv, FftCalls
    <3>2. batch'[d] = batch[d] /\ out'[d] = out[d] /\ Len(d_work_dev) <= Len(d_work_dev')
      BY <1>3, <1>4, <2>2 DEF FftWorks
    <3>3. Items(batch[d]) \in Nat
      BY <3>1, Product DEF Items, FftInv, FftParameters
    <3> QED
      BY <1>2, <3>1, <3>2, <3>3
  <2> QED
    BY <1>2, <2>1, <2>2
<1>11. ASSUME NEW i \in 1..Len(stream')
       PROVE  IsFftStep(stream[i], CallAt(FftSteps, FftExecuted + i),
                        StepAt(FftSteps, FftExecuted + i),
                        batch[CallAt(FftSteps, FftExecuted + i)])'
  <2> DEFINE d == CallAt(L, E + i)
             r == StepAt(L, E + i)
  <2>1. CallAt(FftSteps, FftExecuted + i)' = d /\ StepAt(FftSteps, FftExecuted + i)' = r
    BY <1>1, <1>9 DEF CallAt, StepAt
  <2>2. IsFftStep(stream'[i], d, r, batch'[d])
    <3>1. CASE i \in 1..Len(stream)
      <4>1. IsFftStep(stream[i], d, r, batch[d])
        BY <3>1 DEF FftInv, FftCalls
      <4>2. d \in 1..Len(batch)
        BY <1>1, <1>2, <1>8, <3>1, LeftIs
      <4> HIDE DEF d, r
      <4> QED
        BY <1>3, <1>6, <3>1, <4>1, <4>2
    <3>2. CASE i \in (Len(stream) + 1)..(Len(stream) + L)
      <4> DEFINE s == i - Len(stream)
      <4>1. s \in 1..L /\ E + i = First(L, c) + s /\ i = Len(stream) + s
        <5> HIDE DEF c, L, E
        <5> QED
          BY SMTT(40), <1>1, <1>2, <1>8, <3>2, PlaceBehind
      <4>2. d = c /\ r = s
        BY <1>1, <1>2, <4>1, NumberOf
      <4>3. stream'[i] = new[s]
        BY <1>6, <4>1
      <4> HIDE DEF d, r, s
      <4> QED
        BY <1>3, <1>7, <4>1, <4>2, <4>3
    <3> QED
      BY <1>1, <1>2, <1>6, <3>1, <3>2
  <2> HIDE DEF d, r
  <2>3. UNCHANGED parameters
    BY DEF FftWorks
  <2> QED
    BY <2>1, <2>2, <2>3, FftFrame DEF IsFftStep
<1>12. FftCalls'
  <2>1. ASSUME NEW d \in 1..c
        PROVE  /\ Len(out'[d]) = Items(batch[d])'
               /\ ~cupy' /\ UsesStaging' => Items(batch[d])' <= Len(d_work_dev')
    <3>1. Items(batch[d])' = Items(batch'[d])
      BY <1>1 DEF Items
    <3> QED
      BY <1>1, <1>10, <3>1
  <2> QED
    BY <1>3, <1>4, <1>5, <1>6, <1>8, <1>9, <1>10, <1>11, <2>1 DEF FftCalls, FftWorks
<1>13. ASSUME NEW d \in 1..Len(batch), NEW mem \in {"work", "tmp", "out"},
              mem = "out" \/ stream # <<>>, NEW i
       PROVE  Load(mem, d, i)' = Load(mem, d, i)
  <2>1. out'[d] = out[d] /\ tmp'[d] = tmp[d]
    BY <1>4, <1>5
  <2>2. stream # <<>> => d_work_dev' = d_work_dev
    BY DEF FftWorks
  <2> QED
    BY <1>13, <2>1, <2>2, LoadIs
<1>14. ASSUME NEW d \in 1..c, NEW r \in 1..L, Latest(L, E, d, r)
       PROVE  Holds(d, r, batch[d])'
  <2>1. d # c
    BY <1>1, <1>8, <1>14 DEF Latest
  <2>2. d \in 1..Len(batch) /\ d \in Nat /\ d > 0 /\ c > d
    BY <1>2, <2>1
  <2>3. Holds(d, r, batch[d])
    BY <1>14, <2>2 DEF FftInv, FftResults
  <2>4. PICK mem : mem = To(r)
    OBVIOUS
  <2>5. mem \in {"work", "tmp", "out"}
    BY <2>4 DEF To
  <2>6. mem = "out" \/ stream # <<>>
    <3> SUFFICES ASSUME stream = <<>>, mem # "out" PROVE FALSE
      OBVIOUS
    <3>1. E = First(L, c)
      BY <1>8, NoOp
    <3>2. r # L
      BY <2>4 DEF To
    <3>3. First(L, d) + L <= First(L, c) /\ First(L, d) \in Nat
      BY <1>1, <1>2, <2>2, FirstIs
    <3> QED
      BY <1>1, <1>8, <1>14, <3>1, <3>2, <3>3 DEF Latest
  <2>7. To(r)' = mem /\ batch'[d] = batch[d] /\ tmp'[d] = tmp[d]
    BY <1>1, <1>3, <1>5, <2>2, <2>4
  <2>8. \A i : Load(mem, d, i)' = Load(mem, d, i)
    BY <1>13, <2>2, <2>5, <2>6
  <2> QED
    BY <1>1, <2>3, <2>4, <2>7, <2>8 DEF Holds
<1>15. FftThreads'
  <2>0. ran' = ran
    BY DEF FftWorks
  <2>1. CASE stream = <<>>
    <3>1. ran' = {}
      BY <2>0, <2>1 DEF FftInv, FftResults, FftThreads
    <3> QED
      BY <3>1 DEF FftThreads
  <2>2. CASE stream # <<>>
    <3> DEFINE op == Head(stream)
    <3>1. stream' # <<>> /\ Head(stream') = op
      <4>1. Len(stream) > 0 /\ op = stream[1]
        BY <1>2, <2>2, LenIs
      <4>2. stream' # <<>> /\ Head(stream') = stream'[1]
        BY <1>1, <1>2, <1>6, <4>1, LenIs
      <4> QED
        BY <1>2, <1>6, <4>1, <4>2
    <3>2. PICK d, s : AtFftHead(d, s)
      BY <2>2, FftHeadIs
    <3>3. d \in 1..Len(batch) /\ op.call = d /\ op.to = To(s)
      BY <3>2 DEF AtFftHead, IsFftStep
    <3>4. PICK mem : mem = op.to
      OBVIOUS
    <3>5. mem \in {"work", "tmp", "out"}
      BY <3>3, <3>4 DEF To
    <3>6. \A i : Load(mem, d, i)' = Load(mem, d, i)
      BY <1>13, <2>2, <3>3, <3>5
    <3>7. IF op.kind = "kernel"
            THEN /\ ran \subseteq 0..(Items(op.vectors) - 1)
                 /\ \A i \in ran :
                      Load(mem, d, i) = Meant(d, StepAt(FftSteps, FftExecuted + 1), i)
            ELSE ran = {}
      BY <2>2, <3>3, <3>4 DEF FftInv, FftResults, FftThreads
    <3>8. Head(stream)' = op /\ StepAt(FftSteps, FftExecuted + 1)' = StepAt(L, E + 1)
      BY <1>1, <1>9, <3>1 DEF StepAt
    <3> HIDE DEF op
    <3> QED
      BY <1>1, <2>0, <3>1, <3>3, <3>4, <3>6, <3>7, <3>8 DEF FftThreads
  <2> QED
    BY <2>1, <2>2
<1>16. FftResults'
  <2>1. ASSUME NEW d, NEW r
        PROVE  Latest(FftSteps, FftExecuted, d, r)' <=> Latest(L, E, d, r)
    BY <1>1, <1>9 DEF Latest, First
  <2> QED
    BY <1>1, <1>3, <1>9, <1>14, <1>15, <2>1 DEF FftResults
<1> QED
  BY <1>1, <1>12, <1>16 DEF FftInv

\* The cached plans are those of their batch sizes.
LEMMA PlansAre ==
  ASSUME FftInv, NEW n, d_plan_cache' = Plans(n)
  PROVE  /\ \A b \in DOMAIN d_plan_cache' : d_plan_cache'[b] = [vectors |-> b]
         /\ d_plan_cache'[n].vectors = n
<1>1. \A b \in DOMAIN d_plan_cache : d_plan_cache[b] = [vectors |-> b]
  BY DEF FftInv, FftCalls
<1>2. /\ DOMAIN d_plan_cache' = DOMAIN d_plan_cache \cup {n}
      /\ \A b \in DOMAIN d_plan_cache \cup {n} :
           d_plan_cache'[b] = IF b \in DOMAIN d_plan_cache THEN d_plan_cache[b]
                                                           ELSE [vectors |-> n]
  BY DEF Plans
<1>3. \A b \in DOMAIN d_plan_cache' : d_plan_cache'[b] = [vectors |-> b]
  BY <1>1, <1>2
<1>4. d_plan_cache'[n] = [vectors |-> n]
  BY <1>2, <1>3
<1> QED
  BY <1>3, <1>4

LEMMA FftWorkCall ==
  ASSUME FftInv, NEW n \in Nat, Work(n)
  PROVE  FftInv'
<1> DEFINE c == Len(batch) + 1
           b == Before(c)
           t == <<Transform(c)>>
           e == Behind(c)
<1>1. /\ ~cupy /\ batch' = Append(batch, n) /\ d_plan_cache' = Plans(n)
      /\ d_work_dev' = (IF UsesStaging THEN Staging(n) ELSE d_work_dev)
      /\ (d_work_dev' # d_work_dev => stream = <<>>)
      /\ stream' = ((stream \o b) \o t) \o e
      /\ tmp' = Append(tmp, <<>>) /\ out' = Append(out, [i \in 1..Items(n) |-> Unset])
      /\ UNCHANGED parameters /\ ran' = ran
  BY DEF Work
<1>2. IsSeq(batch) /\ IsSeq(stream) /\ IsSeq(d_work_dev) /\ FftParameters
  BY DEF FftInv, FftCalls
<1>3. batch'[c] = n
  BY <1>1, <1>2, AppendIs
<1>4. /\ \A k \in DOMAIN d_plan_cache' : d_plan_cache'[k] = [vectors |-> k]
      /\ d_plan_cache'[n].vectors = n
  BY <1>1, PlansAre
<1> HIDE DEF c
<1>5. /\ Segment((b \o t) \o e, c, 0, n) /\ Len((b \o t) \o e) = FftSteps
      /\ IsSeq(b) /\ IsSeq(t) /\ IsSeq(e)
  BY <1>1, <1>2, <1>3, <1>4, FftEnqueues
<1> HIDE DEF b, t, e
<1>6. stream' = stream \o ((b \o t) \o e)
  <2>1. PICK q, x, y, z : q = stream /\ x = b /\ y = t /\ z = e
    OBVIOUS
  <2>2. IsSeq(q) /\ IsSeq(x) /\ IsSeq(y) /\ IsSeq(z)
    BY <1>2, <1>5, <2>1
  <2>3. Regrouped(q, x, y, z)
    BY <2>2, ConcatFour
  <2>4. ((q \o x) \o y) \o z = q \o ((x \o y) \o z)
    BY <2>3 DEF Regrouped
  <2> QED
    BY <1>1, <2>1, <2>4
<1>7. /\ IsSeq(d_work_dev') /\ Len(d_work_dev) <= Len(d_work_dev')
      /\ ~cupy /\ UsesStaging => Items(n) <= Len(d_work_dev')
  <2>1. Len(d_work_dev) \in Nat /\ Items(n) \in Nat
    BY <1>2, LenIs, Product DEF Items, FftParameters
  <2> DEFINE x == [i \in 1..Items(n) |-> Unset]
  <2>2. x = [i \in 1..Items(n) |-> x[i]]
    OBVIOUS
  <2>3. d_work_dev' = IF UsesStaging /\ ~(Items(n) <= Len(d_work_dev)) THEN x ELSE d_work_dev
    BY <1>1 DEF Staging, d_work_items
  <2> HIDE DEF x
  <2>4. IsSeq(x) /\ Len(x) = Items(n)
    BY <2>1, <2>2, AnySeq
  <2> QED
    BY <1>2, <2>1, <2>3, <2>4
<1>8. PICK new : new = (b \o t) \o e
  OBVIOUS
<1>9. FftWorks(n, new)
  BY <1>1, <1>4, <1>5, <1>6, <1>7, <1>8 DEF FftWorks, c
<1> QED
  BY <1>9, FftWorkStep

LEMMA FftWorkCupyCall ==
  ASSUME FftInv, NEW n \in Nat, Work_cupy(n)
  PROVE  FftInv'
<1> DEFINE c == Len(batch) + 1
<1>1. /\ cupy /\ batch' = Append(batch, n)
      /\ d_plan_cache' = (IF d_real_input THEN d_plan_cache ELSE Plans(n))
      /\ stream' = stream \o CupyWork(c)
      /\ tmp' = Append(tmp, <<>>) /\ out' = Append(out, [i \in 1..Items(n) |-> Unset])
      /\ UNCHANGED parameters /\ ran' = ran /\ d_work_dev' = d_work_dev
  BY DEF Work_cupy
<1>2. IsSeq(batch) /\ IsSeq(stream) /\ IsSeq(d_work_dev) /\ FftParameters
  BY DEF FftInv, FftCalls
<1>3. batch'[c] = n
  BY <1>1, <1>2, AppendIs
<1>4. /\ \A k \in DOMAIN d_plan_cache' : d_plan_cache'[k] = [vectors |-> k]
      /\ (~d_real_input => d_plan_cache'[n].vectors = n)
  <2>1. CASE d_real_input
    BY <1>1, <2>1 DEF FftInv, FftCalls
  <2>2. CASE ~d_real_input
    BY <1>1, <2>2, PlansAre
  <2> QED
    BY <2>1, <2>2
<1> HIDE DEF c
<1>5. Segment(CupyWork(c), c, 0, n) /\ Len(CupyWork(c)) = FftSteps
  BY <1>1, <1>2, <1>3, <1>4, CupyEnqueues
<1>6. Len(d_work_dev) <= Len(d_work_dev')
  BY <1>1, <1>2, LenIs
<1>7. PICK new : new = CupyWork(c)
  OBVIOUS
<1>8. FftWorks(n, new)
  BY <1>1, <1>2, <1>4, <1>5, <1>6, <1>7 DEF FftWorks, c
<1> QED
  BY <1>8, FftWorkStep

LEMMA FftStays ==
  ASSUME FftInv, UNCHANGED vars
  PROVE  FftInv'
<1>1. /\ UNCHANGED parameters /\ stream' = stream /\ batch' = batch /\ out' = out /\ ran' = ran
      /\ tmp' = tmp /\ d_work_dev' = d_work_dev /\ d_plan_cache' = d_plan_cache
      /\ UNCHANGED <<parameters, d_plan_cache, batch>>
  BY DEF vars
<1>2. /\ FftSteps' = FftSteps /\ (\A r : To(r)' = To(r)) /\ (\A n : Items(n)' = Items(n))
      /\ d_fft_size' = d_fft_size /\ (\A d, i : Item(d, i)' = Item(d, i))
      /\ \A d, r, i : Meant(d, r, i)' = Meant(d, r, i)
  BY <1>1, FftFrame
<1>3. FftExecuted' = FftExecuted
  BY <1>1, <1>2 DEF FftExecuted, First
<1>4. Shaped
  BY <1>1 DEF Shaped, FftInv, FftCalls
<1>5. FftCalls' /\ FftParameters'
  <2>1. ASSUME NEW i \in 1..Len(stream)
        PROVE  IsFftStep(stream[i], CallAt(FftSteps, FftExecuted + i),
                         StepAt(FftSteps, FftExecuted + i),
                         batch[CallAt(FftSteps, FftExecuted + i)])'
    <3> DEFINE d == CallAt(FftSteps, FftExecuted + i)
               r == StepAt(FftSteps, FftExecuted + i)
    <3>1. IsFftStep(stream[i], d, r, batch[d])
      BY DEF FftInv, FftCalls
    <3>2. CallAt(FftSteps, FftExecuted + i)' = d /\ StepAt(FftSteps, FftExecuted + i)' = r
      BY <1>2, <1>3 DEF CallAt, StepAt
    <3> HIDE DEF d, r
    <3> QED
      BY <1>1, <3>1, <3>2, FftFrame DEF IsFftStep
  <2>2. FftExecuted' \in Nat /\ IsSeq(stream')
    BY <1>1, <1>3 DEF FftInv, FftCalls
  <2> QED
    BY <1>1, <1>4, <2>1, <2>2, FftShapesStay DEF FftCalls
<1>6. \A m, d, i : Load(m, d, i)' = Load(m, d, i)
  BY <1>1, <1>2 DEF Load
<1>7. FftResults'
  <2>1. ASSUME NEW d, NEW r
        PROVE  Latest(FftSteps, FftExecuted, d, r)' <=> Latest(FftSteps, FftExecuted, d, r)
    BY <1>2, <1>3 DEF Latest, First
  <2>2. ASSUME NEW d, NEW r, Holds(d, r, batch[d]) PROVE Holds(d, r, batch[d])'
    BY <1>1, <1>2, <1>6, <2>2 DEF Holds
  <2>3. FftThreads'
    <3>1. StepAt(FftSteps, FftExecuted + 1)' = StepAt(FftSteps, FftExecuted + 1)
      BY <1>2, <1>3 DEF StepAt
    <3> DEFINE op == Head(stream)
    <3>2. Head(stream)' = op
      BY <1>1
    <3>3. IF stream # <<>> /\ op.kind = "kernel"
            THEN /\ ran \subseteq 0..(Items(op.vectors) - 1)
                 /\ \A i \in ran :
                      Load(op.to, op.call, i)
                        = Meant(op.call, StepAt(FftSteps, FftExecuted + 1), i)
            ELSE ran = {}
      BY DEF FftInv, FftResults, FftThreads
    <3> HIDE DEF op
    <3> QED
      BY <1>1, <1>2, <1>6, <3>1, <3>2, <3>3 DEF FftThreads
  <2> QED
    BY <1>1, <1>2, <2>1, <2>2, <2>3 DEF FftInv, FftResults
<1> QED
  BY <1>5, <1>7 DEF FftInv

LEMMA FftStep ==
  ASSUME FftInv, [Next]_vars
  PROVE  FftInv'
<1>1. ASSUME NEW n \in 1..MaxBatch, Work(n) PROVE FftInv'
  BY <1>1, FftWorkCall, FftAssumption
<1>2. ASSUME NEW n \in 1..MaxBatch, Work_cupy(n) PROVE FftInv'
  BY <1>2, FftWorkCupyCall, FftAssumption
<1>3. CASE RunArray
  BY <1>3, RunFftArrayStep
<1>4. ASSUME NEW idx, RunThread(idx) PROVE FftInv'
  BY <1>4, FftRunThreadStep
<1>5. CASE KernelEnds
  BY <1>5, FftKernelEndsStep
<1>6. CASE RunTransform
  BY <1>6, RunTransformStep
<1>7. CASE UNCHANGED vars
  BY <1>7, FftStays
<1> QED
  BY <1>1, <1>2, <1>3, <1>4, <1>5, <1>6, <1>7 DEF Next

-----------------------------------------------------------------------------
(* What the invariant says of the FFT blocks.                              *)

\* The memory that the step at the head reads, and the one that it writes, hold
\* all items of its call.
LEMMA FftMemory ==
  ASSUME FftInv, NEW c, NEW s, AtFftHead(c, s)
  PROVE  /\ Size(From(s), c) \in Nat /\ Items(batch[c]) <= Size(From(s), c)
         /\ To(s) # "tmp" => Size(To(s), c) \in Nat /\ Items(batch[c]) <= Size(To(s), c)
<1>1. /\ Items(batch[c]) \in Nat /\ To(s) \in {"work", "tmp", "out"}
      /\ To(s) = "work" => Items(batch[c]) <= Len(d_work_dev)
      /\ From(s) = "work" => Items(batch[c]) <= Len(d_work_dev)
      /\ From(s) = "tmp" => Len(tmp[c]) = Items(batch[c])
      /\ Len(out[c]) = Items(batch[c])
  BY FftHeadReads DEF AtFftHead, FftInv, FftCalls
<1>2. Len(d_work_dev) \in Nat
  BY LenIs DEF FftInv, FftCalls
<1>3. From(s) \in {"in", "work", "tmp", "out"}
  BY DEF From, To
<1>4. /\ Size("in", c) = Items(batch[c]) /\ Size("work", c) = Len(d_work_dev)
      /\ Size("tmp", c) = Len(tmp[c]) /\ Size("out", c) = Len(out[c])
  BY Zenon DEF Size, d_work_items
<1>5. ASSUME NEW m, \/ m \in {"in", "out"}
                    \/ m = "work" /\ Items(batch[c]) <= Len(d_work_dev)
                    \/ m = "tmp" /\ Len(tmp[c]) = Items(batch[c])
      PROVE  Size(m, c) \in Nat /\ Items(batch[c]) <= Size(m, c)
  BY <1>1, <1>2, <1>4, <1>5
<1>6. Size(From(s), c) \in Nat /\ Items(batch[c]) <= Size(From(s), c)
  BY <1>1, <1>3, <1>5
<1>7. To(s) # "tmp" => Size(To(s), c) \in Nat /\ Items(batch[c]) <= Size(To(s), c)
  BY <1>1, <1>5
<1> QED
  BY <1>6, <1>7

\* No thread and no library call leaves the memory of its call.
LEMMA FftFits == FftInv => FftInside
<1> SUFFICES ASSUME FftInv, stream # <<>>
             PROVE  LET op == Head(stream) IN
                    IF op.kind = "kernel"
                      THEN \A idx \in Threads(Items(op.vectors)) : ThreadInside(op, idx)
                      ELSE /\ Items(op.vectors) <= Size(op.from, op.call)
                           /\ op.to # "tmp" => Items(op.vectors) <= Size(op.to, op.call)
  BY DEF FftInside
<1> DEFINE op == Head(stream)
           N == d_fft_size
<1>1. PICK c, s : AtFftHead(c, s)
  BY FftHeadIs
<1>2. /\ op.call = c /\ op.vectors = batch[c] /\ op.kind = FftKind(s)
      /\ op.from = From(s) /\ op.to = To(s)
      /\ (op.kind = "kernel" => op.shift = ShiftOf(s))
  BY <1>1 DEF AtFftHead, IsFftStep
<1>3. /\ Size(From(s), c) \in Nat /\ Items(batch[c]) <= Size(From(s), c)
      /\ To(s) # "tmp" => Size(To(s), c) \in Nat /\ Items(batch[c]) <= Size(To(s), c)
      /\ batch[c] \in Nat /\ Items(batch[c]) \in Nat /\ N \in Nat /\ N > 0
      /\ (FftKind(s) = "kernel" => To(s) # "tmp")
  BY <1>1, FftMemory, FftHeadReads, CountsAre DEF FftInv, FftParameters
<1> HIDE DEF op
<1>4. ASSUME op.kind = "kernel", NEW idx \in Threads(Items(op.vectors))
      PROVE  ThreadInside(op, idx)
  <2>1. idx \in 0..(Items(batch[c]) - 1) /\ idx \in 0..(batch[c] * N - 1)
    BY <1>2, <1>3, <1>4, FftThreadsAre DEF Items
  <2>2. idx \div N \in 0..(batch[c] - 1) /\ idx % N \in 0..(N - 1)
    BY <1>3, <2>1, VectorOf
  <2>3. ShiftOf(s) \in Nat
    BY <1>3, DivisionIs DEF ShiftOf, ifftshift_split, fftshift_split
  <2>4. ((idx % N) + ShiftOf(s)) % N \in 0..(N - 1)
    BY <1>3, <2>2, <2>3, DivisionIs
  <2>5. ShiftedPos(idx, op.shift) = ((idx % N) + ShiftOf(s)) % N
    BY <1>2, <1>4 DEF ShiftedPos
  <2>6. (idx \div N) * N + ShiftedPos(idx, op.shift) \in 0..(batch[c] * N - 1)
    BY <1>3, <2>2, <2>4, <2>5, InVector
  <2>7. ReadIndex(idx, op.shift) \in 0..(Items(batch[c]) - 1)
    BY <2>6 DEF ReadIndex, Items
  <2>8. /\ ReadIndex(idx, op.shift) \in Nat /\ ReadIndex(idx, op.shift) < Items(batch[c])
        /\ idx \in Nat /\ idx < Items(batch[c])
    BY <1>3, <2>1, <2>7
  <2>9. Items(batch[c]) <= Size(op.from, op.call) /\ Items(batch[c]) <= Size(op.to, op.call)
    BY <1>2, <1>3, <1>4
  <2>10. Size(op.from, op.call) \in Nat /\ Size(op.to, op.call) \in Nat
    BY <1>2, <1>3, <1>4
  <2> QED
    BY <1>3, <2>4, <2>5, <2>8, <2>9, <2>10 DEF ThreadInside
<1>5. CASE op.kind = "kernel"
  BY <1>4, <1>5 DEF op
<1>6. CASE op.kind # "kernel"
  BY <1>2, <1>3, <1>6 DEF op
<1> QED
  BY <1>5, <1>6

\* A call that has no operation left has made what its last step makes.
LEMMA FftLastIsMade ==
  ASSUME FftInv, NEW c \in 1..Len(batch), \A i \in 1..Len(stream) : stream[i].call # c
  PROVE  Holds(c, FftSteps, batch[c])
<1> DEFINE L == FftSteps
<1>1. /\ Len(stream) \in Nat /\ Len(batch) \in Nat /\ L \in Nat /\ L > 0
      /\ FftExecuted \in Nat /\ FftExecuted = First(L, Len(batch) + 1) - Len(stream)
  BY LenIs, CountsAre DEF FftInv, FftCalls, FftExecuted
<1>2. First(L, c) \in Nat
  <2>1. c \in Nat /\ c > 0
    BY <1>1
  <2> QED
    BY <1>1, <2>1, FirstIs
<1>3. FftExecuted >= First(L, c) + L
  <2> SUFFICES ASSUME FftExecuted < First(L, c) + L PROVE FALSE
    BY <1>1, <1>2
  <2> DEFINE i == (First(L, c) + L) - FftExecuted
  <2>1. c \in Nat /\ c > 0 /\ Len(batch) + 1 \in Nat /\ Len(batch) + 1 > c
        /\ Len(batch) + 1 > 0 /\ L \in 1..L
    BY <1>1
  <2>2. /\ First(L, c) + L <= First(L, Len(batch) + 1)
        /\ First(L, Len(batch) + 1) \in Nat
    BY <1>1, <2>1, FirstIs
  <2>3. i \in 1..Len(stream) /\ FftExecuted + i = First(L, c) + L
    <3> HIDE DEF L
    <3>1. PICK e \in Nat, f \in Nat, n \in Nat, m \in Nat, t \in Nat :
            e = FftExecuted /\ f = First(L, c) /\ n = L /\ m = Len(stream)
            /\ t = First(L, Len(batch) + 1)
      BY <1>1, <1>2, <2>2
    <3>2. e = t - m /\ e < f + n /\ f + n <= t
      BY <1>1, <2>2, <3>1
    <3>3. (f + n) - e \in 1..m /\ e + ((f + n) - e) = f + n
      BY <3>2, PlaceLeft
    <3> QED
      BY <3>1, <3>3
  <2>4. CallAt(L, FftExecuted + i) = c
    BY <1>1, <2>1, <2>3, NumberOf
  <2> HIDE DEF i
  <2>5. stream[i].call = c
    BY <2>3, <2>4 DEF FftInv, FftCalls, IsFftStep
  <2> QED
    BY <2>3, <2>5
<1>4. Latest(L, FftExecuted, c, L) /\ L \in 1..L
  BY <1>1, <1>2, <1>3 DEF Latest
<1> QED
  BY <1>4 DEF FftInv, FftResults

LEMMA IntegerDivisionIs ==
  ASSUME NEW a \in Int, NEW n \in Nat, n > 0
  PROVE  /\ a \div n \in Int /\ a % n \in Int /\ 0 <= a % n /\ a % n < n
         /\ a = n * (a \div n) + (a % n)
  OBVIOUS

\* Shifting by half a vector back is shifting by the other half.
LEMMA RemainderShifts ==
  ASSUME NEW N \in Nat, N > 0, NEW q \in 0..(N - 1)
  PROVE  (q - (N \div 2)) % N = (q + ((N + 1) \div 2)) % N
         /\ (q - (N \div 2)) % N \in 0..(N - 1)
<1> DEFINE h == N \div 2
           k == (N + 1) \div 2
<1>1. h \in Nat /\ k \in Nat /\ h + k = N
  OBVIOUS
<1> HIDE DEF h, k
<1>2. CASE q >= h
  <2>1. (N * 0 + (q - h)) % N = q - h /\ (N * 1 + (q - h)) % N = q - h
    <3>1. q - h \in Nat /\ q - h < N
      BY <1>1, <1>2
    <3> QED
      BY <3>1, DivisionUnique
  <2>2. N * 0 + (q - h) = q - h /\ N * 1 + (q - h) = q + k
    BY <1>1
  <2>3. (q - h) % N = q - h /\ (q + k) % N = q - h
    BY <2>1, <2>2
  <2> QED
    BY <1>1, <1>2, <2>3 DEF h, k
<1>3. CASE q < h
  <2>1. q + k \in Nat /\ q + k < N
    BY <1>1, <1>3
  <2>2. (q + k) % N = q + k
    <3>1. q + k \in 0..(N - 1)
      BY <2>1
    <3> QED
      BY <3>1, SmallRemainder
  <2>3. (q - h) % N = q + k
    <3> DEFINE a == q - h
               d == a \div N
               r == a % N
    <3>1. a \in Int /\ a = (q + k) - N
      BY <1>1
    <3>2. d \in Int /\ r \in Int /\ 0 <= r /\ r < N /\ a = N * d + r
      <4>1. a \in Int
        BY <3>1
      <4> HIDE DEF a
      <4> QED
        BY <4>1, IntegerDivisionIs
    <3> HIDE DEF a, d, r
    <3>3. N * (d + 1) = N * d + N
      BY <3>2
    <3>4. N * (d + 1) = (q + k) - r
      BY <1>1, <3>1, <3>2, <3>3
    <3>5. N * (d + 1) < N /\ N * (d + 1) > -N
      BY <2>1, <3>2, <3>4
    <3>6. d + 1 = 0
      <4>1. CASE d + 1 >= 1
        <5>1. N * (d + 1) >= N
          <6>1. PICK e \in Nat : d + 1 = 1 + e
            <7>1. (d + 1) - 1 \in Nat /\ d + 1 = 1 + ((d + 1) - 1)
              BY <3>2, <4>1
            <7> QED
              BY <7>1
          <6>2. N * (d + 1) = N + N * e /\ N * e \in Nat
            BY <6>1
          <6> QED
            BY <6>2
        <5> QED
          BY <3>2, <3>5, <5>1
      <4>2. CASE d + 1 <= -1
        <5>1. N * (d + 1) <= -N
          <6>1. PICK e \in Nat : d + 1 = -1 - e
            <7>1. -1 - (d + 1) \in Nat /\ d + 1 = -1 - (-1 - (d + 1))
              BY <3>2, <4>2
            <7> QED
              BY <7>1
          <6>2. N * (d + 1) = -N - N * e /\ N * e \in Nat
            BY <6>1
          <6> QED
            BY <6>2
        <5> QED
          BY <3>2, <3>5, <5>1
      <4> QED
        BY <3>2, <4>1, <4>2
    <3>7. r = q + k
      BY <1>1, <3>2, <3>4, <3>6
    <3> QED
      BY <3>7 DEF r, a
  <2> QED
    BY <2>1, <2>2, <2>3 DEF h, k
<1> QED
  BY <1>1, <1>2, <1>3

\* Bin k - 1 of what comes out of the last step.
BinOut(c, v, k) ==
  Bin(Direction, IF Fshift THEN (k - 1 + fftshift_split) % d_fft_size ELSE k - 1, VectorIn(c, v))

LEMMA LastStepIs ==
  ASSUME FftParameters, NEW c, NEW n \in Nat, NEW v \in 0..(n - 1), NEW k \in 1..d_fft_size
  PROVE  Meant(c, FftSteps, v * d_fft_size + k - 1) = BinOut(c, v, k)
<1> DEFINE N == d_fft_size
           i == v * N + k - 1
<1>1. N \in Nat /\ N > 0
  BY DEF FftParameters
<1>2. i \div N = v /\ i % N = k - 1
  BY <1>1, PlaceIn
<1>3. Entering \in 0..2 /\ Bins \in (Entering + 1)..(Entering + 3)
      /\ FftSteps \in Bins..(Bins + 2)
  BY CountsAre
<1>4. ~(FftSteps <= Entering)
  BY <1>3
<1>5. Fshift => FftSteps > Bins
  BY <1>3 DEF FftSteps
<1>6. ~Fshift => FftSteps = Bins /\ ~(FftSteps > Bins)
  BY <1>3 DEF FftSteps
<1>7. cupy /\ d_real_input /\ ~d_forward => FftSteps # Entering + 1
  BY <1>3 DEF Bins
<1> HIDE DEF i
<1>8. Meant(c, FftSteps, i)
        = IF FftSteps > Bins
          THEN Bin(Direction, (k - 1 + fftshift_split) % d_fft_size, VectorIn(c, v))
          ELSE Bin(Direction, k - 1, VectorIn(c, v))
  BY Zenon, <1>2, <1>4, <1>7 DEF Meant
<1>9. CASE Fshift
  BY <1>5, <1>8, <1>9 DEF BinOut, i
<1>10. CASE ~Fshift
  BY <1>6, <1>8, <1>10 DEF BinOut, i
<1> QED
  BY <1>9, <1>10

\* That is what the reference gives.
LEMMA ReferenceIs ==
  ASSUME FftParameters, NEW c, NEW v
  PROVE  Reference(c, v) = [k \in 1..d_fft_size |-> BinOut(c, v, k)]
<1> DEFINE N == d_fft_size
           item(p) == <<"item", c, v * N + p - 1, "complex">>
           x == [p \in 1..N |-> IF d_has_window THEN Windowed(item(p), p - 1) ELSE item(p)]
           y == IF d_shift /\ ~d_forward THEN Ifftshift(x) ELSE x
           bins == [p \in 1..N |-> Bin(Direction, p - 1, y)]
<1>1. N \in Nat /\ N > 0
  BY DEF FftParameters
<1>2. x = [p \in 1..N |-> WindowedItem(c, v, p - 1, "complex")]
  BY DEF WindowedItem
<1>3. Reference(c, v) = IF d_shift /\ d_forward THEN Fftshift(bins) ELSE bins
  BY Zenon DEF Reference, Direction
<1> HIDE DEF x
<1>4. y = VectorIn(c, v)
  <2>1. CASE Ishift
    <3>1. y = [p \in 1..N |-> x[((p - 1 - (-(N \div 2))) % N) + 1]]
      BY <2>1 DEF Ishift, Ifftshift, Roll
    <3>2. ASSUME NEW p \in 1..N
          PROVE  x[((p - 1 - (-(N \div 2))) % N) + 1]
                   = WindowedItem(c, v, (p - 1 + ifftshift_split) % N, "complex")
      <4> DEFINE q == (p - 1 + N \div 2) % N
      <4>1. N \div 2 \in Nat /\ p - 1 - (-(N \div 2)) = p - 1 + N \div 2
            /\ p - 1 + N \div 2 \in Nat
        BY <1>1
      <4>2. q \in Nat /\ q < N
        BY <1>1, <4>1, DivisionIs
      <4>3. ((p - 1 - (-(N \div 2))) % N) + 1 = q + 1
        BY <4>1
      <4> HIDE DEF q
      <4>4. q + 1 \in 1..N /\ (q + 1) - 1 = q
        BY <1>1, <4>2
      <4>5. x[q + 1] = WindowedItem(c, v, (q + 1) - 1, "complex")
        BY <1>2, <4>4
      <4> QED
        BY <4>3, <4>4, <4>5 DEF q, ifftshift_split
    <3>3. VectorIn(c, v)
            = [p \in 1..N |-> WindowedItem(c, v, (p - 1 + ifftshift_split) % N, "complex")]
      BY <2>1 DEF VectorIn
    <3> HIDE DEF y
    <3> QED
      BY <3>1, <3>2, <3>3
  <2>2. CASE ~Ishift
    BY <1>2, <2>2 DEF Ishift, VectorIn
  <2> QED
    BY <2>1, <2>2
<1> HIDE DEF y
<1>5. CASE Fshift
  <2>1. Reference(c, v) = [p \in 1..N |-> bins[((p - 1 - (N \div 2)) % N) + 1]]
    BY <1>3, <1>5 DEF Fshift, Fftshift, Roll
  <2>2. ASSUME NEW p \in 1..N
        PROVE  bins[((p - 1 - (N \div 2)) % N) + 1] = BinOut(c, v, p)
    <3> DEFINE q == (p - 1 - (N \div 2)) % N
    <3>1. q = (p - 1 + ((N + 1) \div 2)) % N /\ q \in 0..(N - 1)
      <4>1. p - 1 \in 0..(N - 1)
        BY <1>1
      <4> QED
        BY <1>1, <4>1, RemainderShifts
    <3> HIDE DEF q
    <3>2. q + 1 \in 1..N /\ (q + 1) - 1 = q
      BY <1>1, <3>1
    <3>3. bins[q + 1] = Bin(Direction, q, VectorIn(c, v))
      BY <1>4, <3>2
    <3>4. BinOut(c, v, p) = Bin(Direction, q, VectorIn(c, v))
      BY <1>5, <3>1 DEF BinOut, fftshift_split
    <3> QED
      BY <3>3, <3>4 DEF q
  <2> HIDE DEF bins
  <2> QED
    BY <2>1, <2>2
<1>6. CASE ~Fshift
  <2>1. Reference(c, v) = bins
    BY <1>3, <1>6 DEF Fshift
  <2>2. ASSUME NEW p PROVE BinOut(c, v, p) = Bin(Direction, p - 1, VectorIn(c, v))
    BY <1>6 DEF BinOut
  <2> QED
    BY <1>4, <2>1, <2>2
<1> QED
  BY <1>5, <1>6

LEMMA FftIsRight == FftInv => FftRight
<1> SUFFICES ASSUME FftInv, NEW c \in 1..Len(batch),
                    \A i \in 1..Len(stream) : stream[i].call # c,
                    NEW v \in 0..(batch[c] - 1)
             PROVE  SubSeq(out[c], v * d_fft_size + 1, (v + 1) * d_fft_size)
                      = Reference(c, v)
  BY DEF FftRight
<1> DEFINE N == d_fft_size
           n == batch[c]
           lo == v * N + 1
           hi == (v + 1) * N
           x == out[c]
<1>1. N \in Nat /\ N > 0 /\ FftParameters /\ n \in Nat /\ v \in Nat
  BY DEF FftInv, FftParameters, FftCalls
<1>2. lo \in Int /\ hi \in Int /\ v * N \in Nat /\ hi = v * N + N
  BY <1>1
<1>3. hi - lo + 1 = N /\ lo <= hi
  BY <1>1, <1>2
<1>4. ASSUME NEW k \in 1..N
      PROVE  x[v * N + k] = BinOut(c, v, k)
  <2>1. Holds(c, FftSteps, n)
    BY FftLastIsMade
  <2>2. v * N + k \in 1..(n * N) /\ n * N \in Nat
    BY <1>1, PlaceIn, Product
  <2>3. v * N + k - 1 \in 0..(n * N - 1) /\ (v * N + k - 1) + 1 = v * N + k
    BY <1>1, <1>2, <2>2
  <2>4. To(FftSteps) = "out"
    BY DEF To
  <2>5. PICK i : i = v * N + k - 1
    OBVIOUS
  <2>6. Load("out", c, i) = Meant(c, FftSteps, i)
    BY <2>1, <2>3, <2>4, <2>5 DEF Holds
  <2>7. Load("out", c, i) = x[i + 1]
    BY LoadIs
  <2>8. Meant(c, FftSteps, v * N + k - 1) = BinOut(c, v, k)
    BY <1>1, LastStepIs
  <2> QED
    BY <2>3, <2>5, <2>6, <2>7, <2>8
<1> DEFINE s == SubSeq(x, lo, hi)
<1>5. PICK S : S = {x[j] : j \in lo..hi}
  OBVIOUS
<1>6. \A j \in lo..hi : x[j] \in S
  BY <1>5
<1> HIDE DEF x, lo, hi
<1>7. s \in Seq(S) /\ Len(s) = N /\ \A j \in 1..N : s[j] = x[lo + j - 1]
  <2>1. /\ SubSeq(x, lo, hi) \in Seq(S)
        /\ Len(SubSeq(x, lo, hi)) = IF lo <= hi THEN hi - lo + 1 ELSE 0
        /\ \A j \in 1..(hi - lo + 1) : SubSeq(x, lo, hi)[j] = x[lo + j - 1]
    BY <1>2, <1>6, SubSeqProperties
  <2> QED
    BY <1>3, <2>1
<1> HIDE DEF s
<1>8. s = [j \in 1..N |-> s[j]]
  BY <1>7, LenProperties
<1>9. ASSUME NEW j \in 1..N PROVE s[j] = BinOut(c, v, j)
  <2>1. lo + j - 1 = v * N + j
    BY <1>1, <1>2 DEF lo
  <2> QED
    BY <1>4, <1>7, <2>1
<1>10. s = Reference(c, v)
  BY <1>1, <1>8, <1>9, ReferenceIs
<1> QED
  BY <1>10 DEF s, x, lo, hi

-----------------------------------------------------------------------------
(* All the blocks.                                                         *)

GpuInv == IF kind = "fft" THEN FftInv ELSE BlockInv

LEMMA KindsAre == "fft" \notin Kinds
  BY BlocksAssumption DEF Block!CupyKinds

LEMMA GpuInvariant == MCSpec => []GpuInv
<1>1. MCInit => GpuInv
  <2>1. Init /\ BlockIdle => GpuInv
    BY FftStarts DEF BlockIdle, GpuInv
  <2>2. Block!Init /\ FftIdle => GpuInv
    <3> SUFFICES ASSUME Block!Init PROVE GpuInv
      OBVIOUS
    <3>1. BlockInv
      BY BlockStarts
    <3>2. kind # "fft"
      BY <3>1, KindsAre DEF BlockInv, Parameters
    <3> QED
      BY <3>1, <3>2 DEF GpuInv
  <2> QED
    BY <2>1, <2>2 DEF MCInit
<1>2. GpuInv /\ [MCNext]_mcvars => GpuInv'
  <2> SUFFICES ASSUME GpuInv, [MCNext]_mcvars PROVE GpuInv'
    OBVIOUS
  <2>1. CASE kind = "fft"
    <3>1. [Next]_vars /\ kind' = kind
      BY <2>1 DEF MCNext, mcvars, block_vars
    <3>2. FftInv'
      BY <2>1, <3>1, FftStep DEF GpuInv
    <3> QED
      BY <2>1, <3>1, <3>2 DEF GpuInv
  <2>2. CASE kind # "fft"
    <3>1. [Block!Next]_(Block!vars)
      BY <2>2 DEF MCNext, mcvars, block_vars, vars, Block!vars, Block!block
    <3>2. BlockInv'
      BY <2>2, <3>1, BlockStep DEF GpuInv
    <3>3. kind' # "fft"
      BY <3>2, KindsAre DEF BlockInv, Parameters
    <3> QED
      BY <3>2, <3>3 DEF GpuInv
  <2> QED
    BY <2>1, <2>2
<1> QED
  BY <1>1, <1>2, PTL DEF MCSpec

\* Whatever calls are under way, and whatever sizes they have, no thread of a
\* kernel reads or writes outside the inputs and the outputs that the scheduler
\* has granted to its own call and the staging buffer as it is by then: that the
\* threads beyond the last item do nothing, that a division and a remainder find
\* the place of a scalar in its stream, that a shift stays within its vector,
\* that the pointers in the table are those of the call, and that the staging
\* buffer is as large as the largest batch that uses it.  Nor does a copy, a
\* memset, cuFFT or an array operation of CuPy.
THEOREM NothingIsOverrun == MCSpec => []InBounds
<1>1. GpuInv => InBounds
  BY FftFits, BlockFits DEF GpuInv, InBounds
<1> QED
  BY <1>1, GpuInvariant, PTL

\* A work call whose operations have executed has produced what the block on
\* the CPU produces, for every size of an FFT, odd ones with their unequal
\* shifts included, in both directions, for every vector length, number of
\* streams, batch and number of threads of a CUDA block, in whatever order the
\* threads have run and whichever calls came before, after or between.  The
\* assumption is what the code needs: null_source zeroes its first output only.
THEOREM EveryOutputIsRight ==
  ASSUME NullOutputs \subseteq {1}
  PROVE  MCSpec => []OutputRight
<1>1. GpuInv => OutputRight
  BY FftIsRight, BlockRight DEF GpuInv, OutputRight
<1> QED
  BY <1>1, GpuInvariant, PTL
=============================================================================
