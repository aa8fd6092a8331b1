----------------------------- MODULE BufferSize -----------------------------
(***************************************************************************)
(* How large a cuda_buffer is made: the arithmetic of                      *)
(* cuda_buffer::do_allocate_buffer, for any request.  The loop has no      *)
(* bound, so its result is proved, not enumerated.                         *)
(***************************************************************************)
EXTENDS Integers, TLAPS

CONSTANTS
  final_nitems, sizeof_item,  \* the request
  vmm_granularity,            \* of the device
  min_cuda_bytes,             \* the floor in the user's preferences
  UnsignedRange               \* the number of values of an unsigned

\* External: what the scheduler passes to allocate_buffer, which checks nothing,
\* for the stream of a port, and the granularity that the driver returns.
SizeAssumption ==
  /\ final_nitems \in Nat /\ min_cuda_bytes \in Nat
  /\ sizeof_item \in Nat \ {0} /\ vmm_granularity \in Nat \ {0}
  /\ UnsignedRange \in Nat \ {0}

VARIABLES
  aligned_bytes,   \* the candidate size
  d_bufsize,       \* the number of items
  pc               \* "start", "align", "done"

vars == <<aligned_bytes, d_bufsize, pc>>

Init == aligned_bytes = 0 /\ d_bufsize = 0 /\ pc = "start"

target_bytes ==
  IF final_nitems * sizeof_item > min_cuda_bytes
    THEN final_nitems * sizeof_item ELSE min_cuda_bytes

RoundUp ==
  /\ pc = "start"
  /\ aligned_bytes' = ((target_bytes + vmm_granularity - 1) \div vmm_granularity)
                        * vmm_granularity
  /\ pc' = "align"
  /\ UNCHANGED d_bufsize

\* The loop, until there are no partial items.
Grow ==
  /\ pc = "align"
  /\ aligned_bytes % sizeof_item # 0
  /\ aligned_bytes' = aligned_bytes + vmm_granularity
  /\ UNCHANGED <<d_bufsize, pc>>

\* The cast to unsigned keeps the remainder.
Finish ==
  /\ pc = "align"
  /\ aligned_bytes % sizeof_item = 0
  /\ d_bufsize' = (aligned_bytes \div sizeof_item) % UnsignedRange
  /\ pc' = "done"
  /\ UNCHANGED aligned_bytes

Next == RoundUp \/ Grow \/ Finish

Spec == Init /\ [][Next]_vars

-----------------------------------------------------------------------------
\* A size that the rings can be made of: whole granules, so that both halves
\* of the device mapping can be mapped, and whole items, so that they wrap.
Fits(n) ==
  n >= target_bytes /\ n % vmm_granularity = 0 /\ n % sizeof_item = 0

\* The loop stops at the least size there is.
LeastFit ==
  pc = "done" =>
    Fits(aligned_bytes) /\ \A n \in Nat : Fits(n) => aligned_bytes <= n

\* "so that d_bufsize * sizeof_item == aligned_bytes (no partial items)", when
\* the number of items is one an unsigned can hold.
NoPartialItems ==
  (pc = "done" /\ aligned_bytes \div sizeof_item < UnsignedRange) =>
    d_bufsize * sizeof_item = aligned_bytes

-----------------------------------------------------------------------------
\* While it searches, the candidate is a multiple of the granularity that is
\* large enough, and every smaller size has been ruled out.
Searched ==
  /\ aligned_bytes \in Nat
  /\ aligned_bytes >= target_bytes
  /\ aligned_bytes % vmm_granularity = 0
  /\ \A n \in Nat : Fits(n) => aligned_bytes <= n

Inv ==
  /\ pc \in {"start", "align", "done"}
  /\ pc # "start" => Searched
  /\ pc = "done" =>
       /\ aligned_bytes % sizeof_item = 0
       /\ d_bufsize = (aligned_bytes \div sizeof_item) % UnsignedRange

\* Division with remainder, as the integers have it.
LEMMA DivMod ==
  ASSUME NEW a \in Nat, NEW g \in Nat \ {0}
  PROVE  /\ a \div g \in Nat
         /\ a % g \in 0..(g - 1)
         /\ a = g * (a \div g) + (a % g)
  BY SMTT(30)

\* A product has no remainder.
LEMMA MulMod ==
  ASSUME NEW q \in Nat, NEW g \in Nat \ {0}
  PROVE  (q * g) % g = 0
  BY SMTT(30)

\* Two multiples of g that differ, differ by at least g.
LEMMA MultiplesApart ==
  ASSUME NEW p \in Nat, NEW q \in Nat, NEW g \in Nat \ {0}, p * g < q * g
  PROVE  p * g <= q * g - g
  BY SMTT(30)

\* The same, for numbers without remainder.
LEMMA NextMultiple ==
  ASSUME NEW a \in Nat, NEW b \in Nat, NEW g \in Nat \ {0},
         a % g = 0, b % g = 0, a < b
  PROVE  a + g <= b
<1> DEFINE p == a \div g
           q == b \div g
<1>1. p \in Nat /\ q \in Nat
  BY DivMod
<1>2. a = p * g /\ b = q * g
  <2>1. a = g * p /\ b = g * q
    BY DivMod
  <2> HIDE DEF p, q
  <2> QED BY <1>1, <2>1
<1>3. p * g <= q * g - g
  <2> HIDE DEF p, q
  <2> QED BY <1>1, <1>2, MultiplesApart
<1> HIDE DEF p, q
<1> QED BY <1>1, <1>2, <1>3

\* One more granule is a multiple again.
LEMMA AddGranule ==
  ASSUME NEW a \in Nat, NEW g \in Nat \ {0}, a % g = 0
  PROVE  (a + g) % g = 0
<1> DEFINE p == a \div g
<1>1. p \in Nat /\ a = g * p
  BY DivMod
<1> HIDE DEF p
<1>2. a + g = (p + 1) * g /\ p + 1 \in Nat
  BY <1>1
<1> QED BY <1>2, MulMod

\* Rounding up gives the least multiple of g that is not below a.
LEMMA Rounded ==
  ASSUME NEW a \in Nat, NEW g \in Nat \ {0}
  PROVE  LET r == ((a + g - 1) \div g) * g
         IN /\ r \in Nat /\ r >= a /\ r % g = 0
            /\ \A n \in Nat : n >= a /\ n % g = 0 => r <= n
<1> DEFINE p == (a + g - 1) \div g
           r == p * g
<1>1. a + g - 1 \in Nat
  OBVIOUS
<1>2. p \in Nat /\ (a + g - 1) % g \in 0..(g - 1)
      /\ a + g - 1 = g * p + ((a + g - 1) % g)
  BY <1>1, DivMod
<1>3. r \in Nat /\ r >= a /\ r < a + g
  <2> DEFINE m == (a + g - 1) % g
  <2>1. m \in 0..(g - 1) /\ a + g - 1 = g * p + m
    BY <1>2
  <2> HIDE DEF p, m
  <2> QED BY <1>2, <2>1
<1>4. r % g = 0
  <2> HIDE DEF p
  <2> QED BY <1>2, MulMod
<1>5. ASSUME NEW n \in Nat, n >= a, n % g = 0
      PROVE  r <= n
  <2>1. SUFFICES ASSUME n < r PROVE FALSE
    BY <1>3
  <2>2. n + g <= r
    <3> HIDE DEF r
    <3> QED BY <1>3, <1>4, <1>5, <2>1, NextMultiple
  <2> HIDE DEF r
  <2> QED BY <1>3, <1>5, <2>2
<1> HIDE DEF r
<1>6. r \in Nat /\ r >= a /\ r % g = 0 /\ \A n \in Nat : n >= a /\ n % g = 0 => r <= n
  BY <1>3, <1>4, <1>5
<1> QED BY <1>6 DEF r, p

LEMMA TargetType == SizeAssumption => target_bytes \in Nat
  BY SMTT(30) DEF SizeAssumption, target_bytes

\* Inv is inductive.
THEOREM Invariance == SizeAssumption => (Spec => []Inv)
<1> SUFFICES ASSUME SizeAssumption PROVE Spec => []Inv
  OBVIOUS
<1> USE DEF SizeAssumption
<1>1. Init => Inv
  BY DEF Init, Inv
<1>2. ASSUME Inv, [Next]_vars PROVE Inv'
  <2>1. CASE RoundUp
    <3>1. aligned_bytes' \in Nat /\ aligned_bytes' >= target_bytes
          /\ aligned_bytes' % vmm_granularity = 0
          /\ \A n \in Nat : n >= target_bytes /\ n % vmm_granularity = 0
               => aligned_bytes' <= n
      BY <2>1, TargetType, Rounded DEF RoundUp
    <3> QED BY <2>1, <3>1 DEF RoundUp, Inv, Searched, Fits, target_bytes
  <2>2. CASE Grow
    <3>1. Searched /\ aligned_bytes % sizeof_item # 0
          /\ aligned_bytes' = aligned_bytes + vmm_granularity /\ pc' = "align"
      BY <1>2, <2>2 DEF Inv, Grow
    <3>2. aligned_bytes' % vmm_granularity = 0
      BY <3>1, AddGranule DEF Searched
    <3>3. ASSUME NEW n \in Nat, Fits(n) PROVE aligned_bytes' <= n
      <4>1. aligned_bytes <= n /\ aligned_bytes # n
        BY <3>1, <3>3 DEF Searched, Fits
      <4>2. /\ aligned_bytes \in Nat /\ aligned_bytes % vmm_granularity = 0
            /\ n % vmm_granularity = 0 /\ vmm_granularity \in Nat \ {0}
        BY <3>1, <3>3 DEF Searched, Fits
      <4>3. aligned_bytes < n
        BY <4>1, <4>2
      <4> QED BY <3>1, <4>2, <4>3, NextMultiple
    <3>4. aligned_bytes' \in Nat /\ aligned_bytes' >= target_bytes
      BY <3>1, TargetType DEF Searched
    <3>5. Searched'
      BY <3>2, <3>3, <3>4 DEF Searched, Fits, target_bytes
    <3> QED BY <3>1, <3>5 DEF Inv
  <2>3. CASE Finish
    BY <1>2, <2>3 DEF Finish, Inv, Searched, Fits, target_bytes
  <2>4. CASE UNCHANGED vars
    BY <1>2, <2>4 DEF vars, Inv, Searched, Fits, target_bytes
  <2> QED BY <1>2, <2>1, <2>2, <2>3, <2>4 DEF Next
<1> QED BY <1>1, <1>2, PTL DEF Spec

\* do_allocate_buffer ends with the least size that fits the request, the
\* granularity of the device and the size of an item.
THEOREM SizeIsLeast == SizeAssumption => (Spec => []LeastFit)
<1> SUFFICES ASSUME SizeAssumption PROVE Spec => []LeastFit
  OBVIOUS
<1>1. Inv => LeastFit
  BY DEF Inv, Searched, LeastFit, Fits
<1>2. Spec => []Inv
  BY Invariance
<1> QED BY <1>1, <1>2, PTL

\* With fewer than 2^32 items no item is cut by the end of the ring.
THEOREM ItemsAreWhole == SizeAssumption => (Spec => []NoPartialItems)
<1> SUFFICES ASSUME SizeAssumption PROVE Spec => []NoPartialItems
  OBVIOUS
<1>1. ASSUME Inv, pc = "done", aligned_bytes \div sizeof_item < UnsignedRange
      PROVE  d_bufsize * sizeof_item = aligned_bytes
  <2> DEFINE q == aligned_bytes \div sizeof_item
  <2>1. q \in Nat /\ aligned_bytes = sizeof_item * q
    <3>1. aligned_bytes \in Nat /\ aligned_bytes % sizeof_item = 0
      BY <1>1 DEF Inv, Searched
    <3>2. sizeof_item \in Nat \ {0}
      BY DEF SizeAssumption
    <3>3. q \in Nat /\ aligned_bytes = sizeof_item * q + (aligned_bytes % sizeof_item)
      BY <3>1, <3>2, DivMod
    <3> HIDE DEF q
    <3> QED BY <3>1, <3>2, <3>3
  <2>2. d_bufsize = q % UnsignedRange /\ q < UnsignedRange
    BY <1>1 DEF Inv
  <2>3. sizeof_item \in Nat /\ UnsignedRange \in Nat \ {0}
    BY DEF SizeAssumption
  <2> HIDE DEF q
  <2>4. q % UnsignedRange = q
    BY <2>1, <2>2, <2>3, SMTT(30)
  <2>5. d_bufsize = q
    BY <2>2, <2>4
  <2>6. sizeof_item * q = q * sizeof_item
    BY <2>1, <2>3
  <2> QED BY <2>1, <2>5, <2>6
<1>2. Inv => NoPartialItems
  BY <1>1 DEF NoPartialItems
<1>3. Spec => []Inv
  BY Invariance
<1> QED BY <1>2, <1>3, PTL
=============================================================================
