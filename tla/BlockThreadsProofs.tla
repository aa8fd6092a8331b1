------------------------- MODULE BlockThreadsProofs -------------------------
(***************************************************************************)
(* Proofs about the code that runs in the thread of a block.  The Python   *)
(* wrapper: for every set of outputs and any nesting of calls.  throttle   *)
(* and probe_rate: for all rates, weights, sizes of work calls and numbers *)
(* of calls, with the setters that other threads call racing them.         *)
(***************************************************************************)
EXTENDS MCBlockThreads, SequenceTheorems, TLAPS

-----------------------------------------------------------------------------
(* The Python wrapper.                                                     *)

\* While the flag is up, all kernels launched so far are recorded.
FlagMeansMarked ==
  (work_done /\ pc = "user") =>
    /\ produced # {}
    /\ read_done = kernels
    /\ \A o \in Outputs : writer[o] <= dev_ready[o]

\* When a call has returned, they are recorded whatever the flag says.
ReturnMeansMarked ==
  pc = "returned" =>
    /\ read_done = kernels
    /\ \A o \in Outputs : writer[o] <= dev_ready[o]

Busy == frames # <<>> <=> pc = "user"

WriterLaunched == \A o \in Outputs : writer[o] <= kernels /\ dev_ready[o] <= kernels

Nested == TypeOK /\ ProduceRestored /\ Busy

WrapperInv == Nested /\ WriterLaunched /\ FlagMeansMarked /\ ReturnMeansMarked
           /\ PublishedIsMarked

-----------------------------------------------------------------------------
\* What wrapped() does to self.produce on its way in and out.
LEMMA EnterNested ==
  ASSUME Nested, Enter
  PROVE  /\ frames' \in Seq(Nat) /\ produce' \in Nat /\ work_done' = FALSE
         /\ ProduceRestored' /\ frames' # <<>>
  BY DEF Nested, TypeOK, ProduceRestored, Enter

LEMMA LeaveNested ==
  ASSUME Nested, Leave, pc = "user"
  PROVE  /\ frames' \in Seq(Nat) /\ produce' \in Nat
         /\ ProduceRestored' /\ (frames' # <<>> <=> Len(frames) # 1)
<1>1. frames \in Seq(Nat) /\ Len(frames) >= 1 /\ Len(frames) \in Nat
  BY DEF Nested, TypeOK, Busy
<1>2. /\ Len(frames') = Len(frames) - 1
      /\ \A i \in 1..Len(frames') : frames'[i] = frames[i]
      /\ frames' \in Seq(Nat)
  <2>1. \A i \in 1..(Len(frames) - 1) : frames[i] \in Nat
    BY <1>1
  <2>2. frames' = SubSeq(frames, 1, Len(frames) - 1)
    BY DEF Leave
  <2> DEFINE n == Len(frames) - 1
  <2>3. /\ SubSeq(frames, 1, n) \in Seq(Nat)
        /\ Len(SubSeq(frames, 1, n)) = n
        /\ \A i \in 1..n : SubSeq(frames, 1, n)[i] = frames[i]
    <3>1. n \in Nat /\ \A i \in 1..n : frames[i] \in Nat
      BY <1>1, <2>1
    <3> HIDE DEF n
    <3>2. /\ SubSeq(frames, 1, n) \in Seq(Nat)
          /\ Len(SubSeq(frames, 1, n)) = IF 1 <= n THEN n - 1 + 1 ELSE 0
          /\ \A i \in 1..(n - 1 + 1) : SubSeq(frames, 1, n)[i] = frames[1 + i - 1]
      BY <3>1, SubSeqProperties
    <3>3. n - 1 + 1 = n /\ \A i \in 1..n : 1 + i - 1 = i
      BY <3>1
    <3> QED
      BY <3>1, <3>2, <3>3
  <2>4. frames' \in Seq(Nat)
    BY <2>2, <2>3
  <2>5. Len(frames') = n
    BY <2>2, <2>3
  <2>6. ASSUME NEW i \in 1..Len(frames') PROVE (frames')[i] = frames[i]
    BY <2>2, <2>3, <2>5
  <2> QED
    BY <2>4, <2>5, <2>6
<1>3. produce' = Len(frames) - 1
  BY <1>1 DEF Nested, ProduceRestored, Leave
<1> QED
  BY <1>1, <1>2, <1>3 DEF Nested, ProduceRestored

\* The attribute self.produce and the types survive every step, whatever the
\* user does.
LEMMA NestedStep ==
  ASSUME Nested, [Next]_vars
  PROVE  Nested'
<1> SUFFICES ASSUME Nested, Next PROVE Nested'
  BY DEF vars, user, records, Nested, TypeOK, ProduceRestored, Busy
<1>1. CASE CallWork
  BY <1>1, EnterNested DEF CallWork, Nested, TypeOK, Busy, records
<1>2. CASE CallSuper
  BY <1>2, EnterNested DEF CallSuper, Nested, TypeOK, Busy, records, user
<1>3. ASSUME NEW S \in SUBSET Outputs, Launch(S) PROVE Nested'
  BY <1>3 DEF Launch, Nested, TypeOK, Busy, ProduceRestored, records
<1>4. ASSUME NEW o \in Outputs, safe_produce(o) PROVE Nested'
  BY <1>4 DEF safe_produce, mark_work_done, Nested, TypeOK, Busy,
              ProduceRestored, records
<1>5. CASE Return
  <2>1. pc = "user" /\ Leave
    BY <1>5 DEF Return
  <2> QED
    BY <1>5, <2>1, LeaveNested
    DEF Return, mark_work_done, Nested, TypeOK, Busy, records, user
<1>6. CASE Raise
  <2>1. pc = "user" /\ Leave
    BY <1>6 DEF Raise
  <2> QED
    BY <1>6, <2>1, LeaveNested DEF Raise, Nested, TypeOK, Busy, records, user
<1>7. CASE Publish
  BY <1>7 DEF Publish, Nested, TypeOK, Busy, ProduceRestored, records, user
<1> QED
  BY <1>1, <1>2, <1>3, <1>4, <1>5, <1>6, <1>7 DEF Next

LEMMA InitNested == Init => Nested
<1> SUFFICES ASSUME Init PROVE Nested
  OBVIOUS
<1>1. <<>> \in Seq(Nat) /\ Len(<<>>) = 0
  BY EmptySeq
<1>2. ProduceRestored /\ Busy
  BY <1>1 DEF Init, ProduceRestored, Busy
<1>3. TypeOK
  BY <1>1 DEF Init, TypeOK
<1> QED
  BY <1>2, <1>3 DEF Nested

\* Python's self.produce is the original again after every call of every
\* block, also when user code raises at any depth.
THEOREM AlwaysRestored == Spec => []ProduceRestored
<1>1. Spec => []Nested
  BY InitNested, NestedStep, PTL DEF Spec
<1> QED
  BY <1>1, PTL DEF Nested

THEOREM WrapperTyping == Spec => []TypeOK
<1>1. Spec => []Nested
  BY InitNested, NestedStep, PTL DEF Spec
<1> QED
  BY <1>1, PTL DEF Nested

-----------------------------------------------------------------------------
\* Under the condition the wrapper does not state: no kernel is launched after
\* the first produce() of a call.
LEMMA WrapperStep ==
  ASSUME KernelsFirst, WrapperInv, [Next]_vars
  PROVE  WrapperInv'
<1> USE DEF WriterLaunched, FlagMeansMarked, ReturnMeansMarked,
            PublishedIsMarked
<1>0. Nested' /\ Nested
  BY NestedStep DEF WrapperInv
<1> SUFFICES ASSUME Next PROVE WrapperInv'
  BY <1>0 DEF vars, user, records, WrapperInv
<1>t. TypeOK
  BY <1>0 DEF Nested
<1>1. CASE CallWork
  BY <1>0, <1>t, <1>1 DEF CallWork, Enter, WrapperInv, records, TypeOK
<1>2. CASE CallSuper
  BY <1>0, <1>t, <1>2 DEF CallSuper, Enter, WrapperInv, records, user, TypeOK
<1>3. ASSUME NEW S \in SUBSET Outputs, Launch(S) PROVE WrapperInv'
  <2>1. ~work_done /\ pc = "user" /\ pc' = pc
    BY <1>3 DEF Launch, WrapperInv
  <2> QED
    BY <1>0, <1>t, <1>3, <2>1 DEF Launch, WrapperInv, records, TypeOK
<1>4. ASSUME NEW o \in Outputs, safe_produce(o) PROVE WrapperInv'
  <2>1. produce > 0
    <3>1. pc = "user"
      BY <1>4 DEF safe_produce
    <3> QED
      BY <1>0, <1>t, <3>1 DEF Nested, ProduceRestored, Busy, TypeOK
  <2>2. CASE work_done
    BY <1>0, <1>t, <1>4, <2>2 DEF safe_produce, WrapperInv, records, TypeOK
  <2>3. CASE ~work_done
    <3>1. /\ mark_work_done /\ work_done' = TRUE /\ pc = "user" /\ pc' = pc
          /\ kernels' = kernels /\ writer' = writer
          /\ produced' = produced \cup {o}
          /\ published' = [published EXCEPT ![o] = writer[o]]
      BY <1>4, <2>1, <2>3 DEF safe_produce
    <3> QED
      BY <1>0, <1>t, <3>1 DEF mark_work_done, WrapperInv, TypeOK
  <2> QED
    BY <2>2, <2>3, <1>t DEF TypeOK
<1>5. CASE Return
  <2>1. pc = "user" /\ UNCHANGED <<user, published, work_done>>
    BY <1>5 DEF Return
  <2>2. read_done' = kernels /\ \A o \in Outputs : writer[o] <= dev_ready'[o]
                             /\ dev_ready[o] <= dev_ready'[o]
                             /\ dev_ready'[o] <= kernels
    <3>1. CASE work_done
      BY <1>5, <1>t, <2>1, <3>1 DEF Return, WrapperInv, records, TypeOK
    <3>2. CASE ~work_done
      BY <1>5, <1>t, <3>2 DEF Return, mark_work_done, WrapperInv, TypeOK
    <3> QED
      BY <3>1, <3>2, <1>t DEF TypeOK
  <2> QED
    BY <1>0, <1>t, <2>1, <2>2 DEF WrapperInv, user, Nested, TypeOK
<1>6. CASE Raise
  BY <1>0, <1>t, <1>6 DEF Raise, WrapperInv, records, user, TypeOK
<1>7. CASE Publish
  BY <1>0, <1>t, <1>7 DEF Publish, WrapperInv, records, user, TypeOK
<1> QED
  BY <1>1, <1>2, <1>3, <1>4, <1>5, <1>6, <1>7 DEF Next

LEMMA WrapperStarts == Init => WrapperInv
  BY InitNested DEF Init, WrapperInv, WriterLaunched, FlagMeansMarked,
                    ReturnMeansMarked, PublishedIsMarked

LEMMA WrapperAlways == KernelsFirst => (Spec => []WrapperInv)
<1> SUFFICES ASSUME KernelsFirst PROVE Spec => []WrapperInv
  OBVIOUS
<1>1. WrapperInv /\ [Next]_vars => WrapperInv'
  BY WrapperStep
<1> QED
  BY WrapperStarts, <1>1, PTL DEF Spec

\* A block that launches all its kernels before it produces never hands items
\* downstream whose kernel is not recorded, however its calls are nested.
THEOREM AlwaysMarked == KernelsFirst => (Spec => []PublishedIsMarked)
<1>1. WrapperInv => PublishedIsMarked
  BY DEF WrapperInv
<1> QED
  BY <1>1, WrapperAlways, PTL

\* And when such a call has returned, whether it produced or not, the outputs
\* and the inputs are recorded behind the last kernel.
THEOREM AlwaysReturnedMarked == KernelsFirst => (Spec => []ReturnedIsMarked)
<1>1. WrapperInv => ReturnedIsMarked
  BY DEF WrapperInv, ReturnMeansMarked, ReturnedIsMarked
<1> QED
  BY <1>1, WrapperAlways, PTL

-----------------------------------------------------------------------------
(* Throttle.                                                               *)

\* While no rate is being set, the items counted are due, or they are those of
\* one work call at most.
OnTime ==
  (setter = "idle" /\ throttle # "asleep") =>
    \/ d_total_samples <= (IF throttle = "idle" THEN batch ELSE MaxBatch)
    \/ now >= d_start_time + d_total_samples * d_sample_rate

\* A work call that counts its items at a rate of the past starts from none.
RateIsFresh ==
  (setter = "idle" /\ throttle = "loaded") =>
    d_total_samples = 0 \/ rate = d_sample_rate

\* What it then waits for.
DueAt ==
  (setter = "idle" /\ throttle = "asleep") =>
    \/ d_total_samples <= batch
    \/ rate = d_sample_rate /\ target_time = d_start_time + d_total_samples * rate

ThrottleInv == T!TypeOK /\ d_start_time <= now /\ OnTime /\ RateIsFresh /\ DueAt

\* The constants are numbers.
LEMMA ThrottleConstants ==
  /\ \A r \in Rates : r \in Nat /\ r > 0
  /\ MaxBatch \in Nat /\ MaxTime \in Nat /\ MaxSets \in Nat
  BY ThreadsAssumption

\* Products of counts and rates are times.
LEMMA Product == \A m, n \in Nat : m * n \in Nat
  OBVIOUS

LEMMA Monotone ==
  \A m, n, r \in Nat : m <= n => m * r <= n * r
  OBVIOUS

LEMMA ThrottleStarts == T!Init => ThrottleInv
<1> SUFFICES ASSUME T!Init PROVE ThrottleInv
  OBVIOUS
<1>1. T!TypeOK
  BY ThrottleConstants DEF T!Init, T!TypeOK
<1>2. d_total_samples = 0 /\ batch = 0 /\ d_start_time = 0 /\ now = 0
  BY DEF T!Init
<1> QED
  BY <1>1, <1>2 DEF T!Init, ThrottleInv, OnTime, RateIsFresh, DueAt

LEMMA ThrottleTypes ==
  ASSUME T!TypeOK, T!Next
  PROVE  T!TypeOK'
<1> USE ThrottleConstants DEF T!TypeOK, T!worker, T!shared
<1>1. CASE T!Tick
  BY <1>1 DEF T!Tick
<1>2. ASSUME NEW n \in 1..MaxBatch, T!Submit(n) PROVE T!TypeOK'
  BY <1>2 DEF T!Submit
<1>3. CASE T!LoadRate
  BY <1>3 DEF T!LoadRate
<1>4. CASE T!CountSamples
  <2>1. d_total_samples + batch \in Nat /\ rate \in Nat
    OBVIOUS
  <2>2. (d_total_samples + batch) * rate \in Nat
    BY <2>1, Product
  <2> QED
    BY <1>4, <2>1, <2>2 DEF T!CountSamples
<1>5. CASE T!WakeUp
  BY <1>5 DEF T!WakeUp
<1>6. ASSUME NEW r \in Rates \cup {0}, T!StoreRate(r) PROVE T!TypeOK'
  BY <1>6 DEF T!StoreRate
<1>7. CASE T!ResetTiming
  BY <1>7 DEF T!ResetTiming
<1> QED
  BY <1>1, <1>2, <1>3, <1>4, <1>5, <1>6, <1>7 DEF T!Next, T!Work

LEMMA ThrottleStep ==
  ASSUME ThrottleInv, [T!Next]_(T!vars)
  PROVE  ThrottleInv'
<1>t. T!TypeOK /\ T!TypeOK'
  BY ThrottleTypes DEF ThrottleInv, T!vars, T!worker, T!shared, T!TypeOK
<1>c. /\ now \in Nat /\ d_start_time \in Nat /\ d_total_samples \in Nat
      /\ batch \in Nat /\ batch <= MaxBatch /\ rate \in Nat /\ d_sample_rate \in Nat
      /\ MaxBatch \in Nat /\ target_time \in Nat
      /\ d_total_samples * d_sample_rate \in Nat
      /\ d_total_samples * rate \in Nat
  <2>1. /\ now \in Nat /\ d_start_time \in Nat /\ d_total_samples \in Nat
        /\ batch \in Nat /\ batch <= MaxBatch /\ rate \in Nat /\ d_sample_rate \in Nat
        /\ MaxBatch \in Nat /\ target_time \in Nat
    BY <1>t, ThrottleConstants DEF T!TypeOK
  <2> QED
    BY <2>1, Product
<1> DEFINE Rest == d_start_time <= now /\ OnTime /\ RateIsFresh /\ DueAt
<1>r. Rest
  BY DEF ThrottleInv
<1> SUFFICES ASSUME T!Next PROVE Rest'
  BY <1>t, <1>r DEF ThrottleInv, T!vars, T!worker, T!shared, OnTime, RateIsFresh, DueAt
<1> USE DEF T!worker, T!shared
<1>1. CASE T!Tick
  <2>1. /\ now' = now + 1 /\ d_start_time' = d_start_time /\ throttle' = throttle
        /\ d_total_samples' = d_total_samples /\ d_sample_rate' = d_sample_rate
        /\ setter' = setter /\ batch' = batch /\ rate' = rate /\ target_time' = target_time
    BY <1>1 DEF T!Tick
  <2>2. now + 1 >= now
    BY <1>c
  <2>3. OnTime'
    BY <1>c, <1>r, <2>1 DEF OnTime
  <2> QED
    BY <1>c, <1>r, <2>1, <2>2, <2>3 DEF RateIsFresh, DueAt
<1>2. ASSUME NEW n \in 1..MaxBatch, T!Submit(n) PROVE Rest'
  <2>1. /\ now' = now /\ d_start_time' = d_start_time
        /\ throttle = "idle" /\ throttle' = "copied"
        /\ d_total_samples' = d_total_samples /\ d_sample_rate' = d_sample_rate
        /\ setter' = setter
    BY <1>2 DEF T!Submit
  <2>2. OnTime'
    BY <1>c, <1>r, <2>1 DEF OnTime
  <2> QED
    BY <1>r, <2>1, <2>2 DEF RateIsFresh, DueAt
<1>3. CASE T!LoadRate
  BY <1>3, <1>r DEF T!LoadRate, OnTime, RateIsFresh, DueAt
<1>4. CASE T!CountSamples
  <2>1. /\ now' = now /\ d_start_time' = d_start_time /\ rate' = rate
        /\ throttle = "loaded" /\ throttle' = "asleep"
        /\ d_total_samples' = d_total_samples + batch /\ d_sample_rate' = d_sample_rate
        /\ setter' = setter /\ batch' = batch
        /\ target_time' = d_start_time + d_total_samples' * rate
    BY <1>4 DEF T!CountSamples
  <2>2. d_total_samples = 0 => d_total_samples' = batch
    BY <1>c, <2>1
  <2>3. DueAt'
    BY <1>c, <1>r, <2>1, <2>2 DEF RateIsFresh, DueAt
  <2> QED
    BY <1>r, <2>1, <2>3 DEF OnTime, RateIsFresh
<1>5. CASE T!WakeUp
  <2>1. /\ now' = now /\ d_start_time' = d_start_time
        /\ throttle = "asleep" /\ throttle' = "idle" /\ now >= target_time
        /\ d_total_samples' = d_total_samples /\ d_sample_rate' = d_sample_rate
        /\ setter' = setter /\ batch' = batch
    BY <1>5 DEF T!WakeUp
  <2>2. OnTime'
    BY <1>c, <1>r, <2>1 DEF OnTime, DueAt
  <2> QED
    BY <1>r, <2>1, <2>2 DEF RateIsFresh, DueAt
<1>6. ASSUME NEW r \in Rates \cup {0}, T!StoreRate(r) PROVE Rest'
  BY <1>6, <1>r DEF T!StoreRate, OnTime, RateIsFresh, DueAt
<1>7. CASE T!ResetTiming
  <2>1. now' = now /\ d_start_time' = now /\ d_total_samples' = 0
    BY <1>7 DEF T!ResetTiming
  <2>2. batch' \in Nat
    BY <1>t DEF T!TypeOK
  <2>3. 0 <= batch' /\ 0 <= MaxBatch
    BY <1>c, <2>2
  <2> QED
    BY <1>c, <2>1, <2>3 DEF OnTime, RateIsFresh, DueAt
<1> QED
  BY <1>1, <1>2, <1>3, <1>4, <1>5, <1>6, <1>7 DEF T!Next, T!Work

-----------------------------------------------------------------------------
(* Probe.                                                                  *)

\* The weights d_weight will have when the stores of a set_alpha are through.
Meant(x) == IF x \in DOMAIN pending THEN pending[x] ELSE d_weight[x]

WeightsOK ==
  /\ \A x \in DOMAIN pending : pending[x] \in 0..One
  /\ \A x \in DOMAIN loaded : loaded[x] \in 0..One
  /\ Meant("alpha") + Meant("beta") = One

\* Weights that were loaded with no set_alpha under way are the present ones.
LoadedTogether ==
  /\ probe # "averaging" => DOMAIN loaded = {}
  /\ (~raced /\ DOMAIN loaded # {}) =>
       /\ DOMAIN pending = {}
       /\ \A x \in DOMAIN loaded : loaded[x] = d_weight[x]

\* The average lies between rates, and so does what it is made of.
Between ==
  /\ probe = "averaging" => rate_this_update \in published_rates
  /\ DOMAIN loaded # {} => d_avg # 0
  /\ d_avg # 0 /\ ~raced =>
       /\ \E r \in published_rates : r <= d_avg
       /\ \E r \in published_rates : r >= d_avg

ProbeInv == P!TypeOK /\ WeightsOK /\ LoadedTogether /\ Between /\ P!ItemsReported

LEMMA ProbeConstants ==
  /\ MaxBatch \in Nat /\ ProbeTime \in Nat /\ ProbeItems \in Nat
  /\ ProbeSets \in Nat /\ MaxStarts \in Nat /\ Limit \in Nat /\ d_min_update_time \in Nat
  /\ Unit \in Nat /\ Unit > 0 /\ \A d \in 1..ProbeTime : Unit % d = 0
  /\ One \in Nat /\ One > 0
  BY ThreadsAssumption

\* Division rounds down.
LEMMA DivisionIs ==
  ASSUME NEW s \in Nat, NEW n \in Nat, n > 0
  PROVE  /\ s \div n \in Nat /\ s % n \in Nat
         /\ s % n < n /\ s = n * (s \div n) + (s % n)
  OBVIOUS

LEMMA DivisionBetween ==
  ASSUME NEW s \in Nat, NEW n \in Nat, n > 0, NEW lo \in Nat, NEW hi \in Nat,
         lo * n <= s, s <= hi * n
  PROVE  lo <= s \div n /\ s \div n <= hi
<1> DEFINE q == s \div n
<1>1. q \in Nat /\ n * q <= s /\ s < n * (q + 1)
  <2>1. q \in Nat /\ s % n \in Nat /\ s % n < n /\ s = n * q + (s % n)
    BY DivisionIs
  <2>2. n * q \in Nat /\ n * (q + 1) = n * q + n
    BY <2>1
  <2> HIDE DEF q
  <2> QED
    BY <2>1, <2>2
<1> HIDE DEF q
<1>2. lo <= q
  <2> SUFFICES ASSUME q + 1 <= lo PROVE FALSE
    BY <1>1
  <2>1. (q + 1) * n <= lo * n
    BY <1>1, Monotone
  <2> QED
    BY <1>1, <2>1
<1>3. q <= hi
  <2> SUFFICES ASSUME hi + 1 <= q PROVE FALSE
    BY <1>1
  <2>1. (hi + 1) * n <= q * n
    BY <1>1, Monotone
  <2> QED
    BY <1>1, <2>1
<1> QED
  BY <1>2, <1>3 DEF q

\* A rate is exact: times the interval it gives back the items.
LEMMA RatesAreExact ==
  ASSUME NEW m \in Nat, NEW u \in Nat, NEW d \in Nat, d > 0, u % d = 0
  PROVE  (m * u) \div d \in Nat /\ ((m * u) \div d) * d = m * u
<1>1. PICK q \in Nat : u = d * q
  BY DivisionIs
<1>2. m * q \in Nat /\ m * u = (m * q) * d /\ m * u \in Nat
  BY <1>1
<1>3. (m * u) \div d = m * q
  <2>1. m * q <= (m * u) \div d /\ (m * u) \div d <= m * q
    BY <1>2, DivisionBetween
  <2>2. (m * u) \div d \in Nat
    BY <1>2, DivisionIs
  <2> QED
    BY <1>2, <2>1, <2>2
<1> QED
  BY <1>2, <1>3

\* A weighted average lies between the numbers it is made of.
LEMMA AverageBetween ==
  ASSUME NEW x \in Nat, NEW y \in Nat, NEW a \in Nat, NEW b \in Nat,
         NEW n \in Nat, n > 0, a + b = n, NEW lo \in Nat, NEW hi \in Nat,
         lo <= x, lo <= y, x <= hi, y <= hi
  PROVE  /\ (x * a + y * b) \div n \in Nat
         /\ lo <= (x * a + y * b) \div n /\ (x * a + y * b) \div n <= hi
<1>1. lo * a <= x * a /\ lo * b <= y * b /\ x * a <= hi * a /\ y * b <= hi * b
  BY Monotone
<1>2. lo * n = lo * a + lo * b /\ hi * n = hi * a + hi * b
  OBVIOUS
<1>3. /\ x * a \in Nat /\ y * b \in Nat /\ lo * a \in Nat /\ lo * b \in Nat
      /\ hi * a \in Nat /\ hi * b \in Nat
  BY Product
<1>4. /\ x * a + y * b \in Nat
      /\ lo * n <= x * a + y * b /\ x * a + y * b <= hi * n
  BY <1>1, <1>2, <1>3
<1> HIDE <1>1
<1> QED
  BY <1>4, DivisionBetween, DivisionIs

LEMMA ProbeStarts == P!Init => ProbeInv
<1> SUFFICES ASSUME P!Init PROVE ProbeInv
  OBVIOUS
<1>1. PICK a \in 0..One : d_weight = [alpha |-> a, beta |-> One - a]
  BY DEF P!Init
<1>2. /\ DOMAIN d_weight = {"alpha", "beta"}
      /\ d_weight["alpha"] = a /\ d_weight["beta"] = One - a
      /\ One - a \in 0..One /\ a + (One - a) = One
  BY <1>1, ProbeConstants
<1>3. loaded = <<>> /\ pending = <<>> /\ DOMAIN <<>> = {}
  BY DEF P!Init
<1>4. P!TypeOK
  <2>1. \A x \in DOMAIN d_weight : d_weight[x] \in 0..One
    BY <1>2
  <2>2. DOMAIN loaded = {} /\ DOMAIN pending = {}
    BY <1>3
  <2>3. /\ now = 0 /\ d_avg = 0 /\ d_last_update = 0 /\ d_lastthru = 0
        /\ probe = "stopped" /\ rate_this_update = 0 /\ alphas = 0 /\ starts = 0
        /\ items = 0 /\ published_rates = {} /\ reported = 0 /\ raced = FALSE
    BY DEF P!Init
  <2>4. 0 \in Nat /\ 0 \in 0..ProbeTime /\ 0 \in 0..0 /\ 0 \in 0..ProbeItems
        /\ 0 \in 0..ProbeSets /\ 0 \in 0..MaxStarts
    BY ProbeConstants
  <2> QED
    BY <1>2, <2>1, <2>2, <2>3, <2>4 DEF P!TypeOK
<1>5. WeightsOK
  BY <1>2, <1>3 DEF WeightsOK, Meant
<1>6. P!ItemsReported
  BY ProbeConstants DEF P!Init, P!ItemsReported
<1> QED
  BY <1>3, <1>4, <1>5, <1>6 DEF P!Init, ProbeInv, LoadedTogether, Between

\* The time is up: what Update makes of the items so far.
LEMMA RateOfInterval ==
  ASSUME P!TypeOK, NEW n \in 1..MaxBatch, P!Update(n)
  PROVE  /\ rate_this_update' \in Nat /\ P!diff \in 1..ProbeTime
         /\ reported' = reported + (d_lastthru + n) * Unit
<1>1. /\ d_lastthru \in Nat /\ n \in Nat /\ Unit \in Nat /\ reported \in Nat
      /\ P!diff \in 1..ProbeTime /\ P!diff \in Nat /\ P!diff > 0
  <2>1. /\ now \in 0..ProbeTime /\ d_last_update \in 0..now /\ items \in Nat
        /\ d_lastthru \in 0..items /\ ProbeTime \in Nat /\ MaxBatch \in Nat /\ Unit \in Nat
        /\ reported \in Nat
    BY ProbeConstants DEF P!TypeOK
  <2>2. P!diff = now - d_last_update /\ P!diff > 0
    BY DEF P!Update, P!diff
  <2> QED
    BY <2>1, <2>2
<1>2. Unit % P!diff = 0
  BY <1>1, ProbeConstants
<1>3. /\ ((d_lastthru + n) * Unit) \div P!diff \in Nat
      /\ (((d_lastthru + n) * Unit) \div P!diff) * P!diff = (d_lastthru + n) * Unit
  <2>1. d_lastthru + n \in Nat
    BY <1>1
  <2> QED
    BY <1>1, <1>2, <2>1, RatesAreExact
<1>4. /\ rate_this_update' = ((d_lastthru + n) * Unit) \div P!diff
      /\ reported' = reported + rate_this_update' * P!diff
  BY DEF P!Update
<1> QED
  BY <1>1, <1>3, <1>4

\* The new average, from weights that are not torn.
LEMMA NewAverage ==
  ASSUME P!TypeOK, WeightsOK, DOMAIN loaded = DOMAIN d_weight
  PROVE  /\ P!new_avg \in Nat
         /\ (LoadedTogether /\ ~raced) =>
              \A lo, hi \in Nat :
                lo <= rate_this_update /\ lo <= d_avg
                  /\ rate_this_update <= hi /\ d_avg <= hi
                => lo <= P!new_avg /\ P!new_avg <= hi
<1> DEFINE a == loaded["alpha"]
           b == loaded["beta"]
<1>1. /\ a \in Nat /\ b \in Nat /\ rate_this_update \in Nat /\ d_avg \in Nat
      /\ One \in Nat /\ One > 0 /\ DOMAIN loaded = {"alpha", "beta"}
  BY ProbeConstants DEF P!TypeOK, WeightsOK
<1>2. P!new_avg = (rate_this_update * a + d_avg * b) \div One
  BY DEF P!new_avg
<1>3. P!new_avg \in Nat
  <2>1. rate_this_update * a \in Nat /\ d_avg * b \in Nat
    BY <1>1, Product
  <2>2. rate_this_update * a + d_avg * b \in Nat
    BY <2>1
  <2> QED
    BY <1>1, <1>2, <2>2, DivisionIs
<1>4. ASSUME LoadedTogether, ~raced,
             NEW lo \in Nat, NEW hi \in Nat, lo <= rate_this_update, lo <= d_avg,
             rate_this_update <= hi, d_avg <= hi
      PROVE  lo <= P!new_avg /\ P!new_avg <= hi
  <2>1. a + b = One
    BY <1>1, <1>4 DEF LoadedTogether, WeightsOK, Meant
  <2> HIDE DEF a, b
  <2> QED
    BY <1>1, <1>2, <1>4, <2>1, AverageBetween
<1> QED
  BY <1>3, <1>4

LEMMA ProbeTypes ==
  ASSUME P!TypeOK, WeightsOK, P!Next
  PROVE  P!TypeOK'
<1> USE DEF P!clock, P!worker, P!history
<1>c. /\ now \in Nat /\ now <= ProbeTime /\ ProbeTime \in Nat /\ MaxBatch \in Nat
      /\ items \in Nat /\ d_lastthru \in Nat /\ d_lastthru <= items
      /\ d_last_update \in Nat /\ d_last_update <= now
      /\ 0 \in Nat /\ ProbeItems \in Nat /\ ProbeSets \in Nat /\ MaxStarts \in Nat
      /\ One \in Nat /\ reported \in Nat /\ Unit \in Nat
  BY ProbeConstants DEF P!TypeOK
<1>1. CASE P!Tick
  BY <1>1, <1>c DEF P!Tick, P!TypeOK
<1>2. CASE P!Start
  <2>1. /\ items' \in 0..ProbeItems /\ d_lastthru' \in 0..items' /\ d_last_update' \in 0..now'
        /\ d_avg' \in Nat /\ reported' \in Nat
    BY <1>2, <1>c DEF P!Start
  <2>2. starts' \in 0..MaxStarts
    BY <1>2, <1>c DEF P!Start, P!TypeOK
  <2> QED
    BY <1>2, <2>1, <2>2 DEF P!Start, P!TypeOK
<1>3. CASE P!Stop
  BY <1>3 DEF P!Stop, P!TypeOK
<1>4. ASSUME NEW n \in 1..MaxBatch, P!Count(n) PROVE P!TypeOK'
  <2>1. /\ items' \in 0..ProbeItems /\ d_lastthru' \in 0..items'
    BY <1>4, <1>c DEF P!Count
  <2> QED
    BY <1>4, <2>1 DEF P!Count, P!TypeOK
<1>5. ASSUME NEW n \in 1..MaxBatch, P!Update(n) PROVE P!TypeOK'
  <2>1. /\ items' \in 0..ProbeItems /\ d_lastthru' \in 0..items' /\ d_last_update' \in 0..now'
    BY <1>5, <1>c DEF P!Update
  <2>2. rate_this_update' \in Nat /\ reported' \in Nat
    <3>1. reported' = reported + (d_lastthru + n) * Unit /\ rate_this_update' \in Nat
      BY <1>5, RateOfInterval
    <3>2. d_lastthru + n \in Nat
      BY <1>c
    <3>3. (d_lastthru + n) * Unit \in Nat
      BY <1>c, <3>2, Product
    <3> QED
      BY <1>c, <3>1, <3>3
  <2> QED
    BY <1>5, <2>1, <2>2 DEF P!Update, P!TypeOK
<1>6. CASE P!FirstAverage
  BY <1>6, <1>c DEF P!FirstAverage, P!Publish, P!TypeOK
<1>7. CASE P!ExponentialAverage
  <2>1. d_avg' \in Nat
    BY <1>7, NewAverage DEF P!ExponentialAverage, P!Publish, P!TypeOK
  <2> QED
    BY <1>7, <2>1, <1>c DEF P!ExponentialAverage, P!Publish, P!TypeOK
<1>8. ASSUME NEW x \in {"alpha", "beta"}, P!LoadWeight(x) PROVE P!TypeOK'
  <2>1. DOMAIN loaded' = DOMAIN loaded \cup {x} /\ x \in DOMAIN d_weight
    BY <1>8 DEF P!LoadWeight
  <2> QED
    BY <1>8, <2>1 DEF P!LoadWeight, P!TypeOK
<1>9. ASSUME NEW x \in {"alpha", "beta"}, P!StoreWeight(x) PROVE P!TypeOK'
  <2>1. /\ DOMAIN pending' = DOMAIN pending \ {x} /\ pending[x] \in 0..One
        /\ DOMAIN d_weight' = DOMAIN d_weight
        /\ \A y \in DOMAIN d_weight : d_weight'[y] = IF y = x THEN pending[x] ELSE d_weight[y]
    BY <1>9 DEF P!StoreWeight, WeightsOK
  <2> QED
    BY <1>9, <2>1 DEF P!StoreWeight, P!TypeOK
<1>10. ASSUME NEW a \in 0..One, P!SetAlpha(a) PROVE P!TypeOK'
  <2>1. DOMAIN pending' = {"alpha", "beta"}
    BY <1>10 DEF P!SetAlpha
  <2>2. alphas' \in 0..ProbeSets
    BY <1>10, <1>c DEF P!SetAlpha, P!TypeOK
  <2> QED
    BY <1>10, <2>1, <2>2 DEF P!SetAlpha, P!TypeOK
<1> QED
  BY <1>1, <1>2, <1>3, <1>4, <1>5, <1>6, <1>7, <1>8, <1>9, <1>10 DEF P!Next

\* The weights: every set_alpha means two that add up to one.
LEMMA ProbeWeights ==
  ASSUME P!TypeOK, WeightsOK, LoadedTogether, P!Next
  PROVE  WeightsOK' /\ LoadedTogether'
<1> USE DEF P!clock, P!worker, P!history
<1>t. /\ DOMAIN d_weight = {"alpha", "beta"} /\ \A x \in DOMAIN d_weight : d_weight[x] \in 0..One
      /\ raced \in BOOLEAN /\ DOMAIN <<>> = {}
  BY DEF P!TypeOK
<1>1. ASSUME d_weight' = d_weight, pending' = pending, loaded' = loaded, raced' = raced,
             probe # "averaging"
      PROVE  WeightsOK' /\ LoadedTogether'
  BY <1>1 DEF WeightsOK, LoadedTogether, Meant
<1>2. CASE P!Stop \/ \E n \in 1..MaxBatch : P!Count(n) \/ P!Update(n)
  BY <1>1, <1>2 DEF P!Stop, P!Count, P!Update
<1>8. CASE P!Tick
  BY <1>8 DEF P!Tick, WeightsOK, LoadedTogether, Meant
<1>3. CASE P!Start
  <2>1. /\ d_weight' = d_weight /\ pending' = pending /\ loaded' = loaded
        /\ probe = "stopped"
    BY <1>3 DEF P!Start
  <2> QED
    BY <2>1 DEF WeightsOK, LoadedTogether, Meant
<1>4. CASE P!FirstAverage \/ P!ExponentialAverage
  <2>1. d_weight' = d_weight /\ pending' = pending /\ loaded' = <<>> /\ raced' = raced
    BY <1>4 DEF P!FirstAverage, P!ExponentialAverage, P!Publish
  <2>2. DOMAIN loaded' = {}
    BY <2>1
  <2> QED
    BY <2>1, <2>2 DEF WeightsOK, LoadedTogether, Meant
<1>5. ASSUME NEW x \in {"alpha", "beta"}, P!LoadWeight(x)
      PROVE  WeightsOK' /\ LoadedTogether'
  <2>1. /\ DOMAIN loaded' = DOMAIN loaded \cup {x}
        /\ \A y \in DOMAIN loaded' :
             loaded'[y] = IF y = x THEN d_weight[x] ELSE loaded[y]
        /\ d_weight' = d_weight /\ pending' = pending
        /\ raced' = (raced \/ pending # <<>>)
        /\ x \in DOMAIN d_weight /\ probe' = "averaging"
    BY <1>5 DEF P!LoadWeight
  <2>2. WeightsOK'
    BY <1>t, <2>1 DEF WeightsOK, Meant
  <2>3. ~raced' => ~raced /\ DOMAIN pending' = {}
    BY <1>t, <2>1
  <2>4. LoadedTogether'
    BY <2>1, <2>3 DEF LoadedTogether
  <2> QED
    BY <2>2, <2>4
<1>6. ASSUME NEW x \in {"alpha", "beta"}, P!StoreWeight(x)
      PROVE  WeightsOK' /\ LoadedTogether'
  <2>1. /\ x \in DOMAIN pending
        /\ DOMAIN pending' = DOMAIN pending \ {x}
        /\ \A y \in DOMAIN pending' : pending'[y] = pending[y]
        /\ DOMAIN d_weight' = DOMAIN d_weight
        /\ \A y \in DOMAIN d_weight : d_weight'[y] = IF y = x THEN pending[x] ELSE d_weight[y]
        /\ loaded' = loaded /\ raced' = raced /\ probe' = probe
    BY <1>6 DEF P!StoreWeight
  <2>2. Meant("alpha")' = Meant("alpha") /\ Meant("beta")' = Meant("beta")
    BY <1>t, <2>1 DEF Meant
  <2>3. WeightsOK'
    BY <2>1, <2>2 DEF WeightsOK
  <2>4. LoadedTogether'
    BY <2>1 DEF LoadedTogether
  <2> QED
    BY <2>3, <2>4
<1>7. ASSUME NEW a \in 0..One, P!SetAlpha(a)
      PROVE  WeightsOK' /\ LoadedTogether'
  <2>1. /\ pending' = [alpha |-> a, beta |-> One - a] /\ loaded' = loaded
        /\ raced' = (raced \/ (probe = "averaging" /\ loaded # <<>>))
        /\ d_weight' = d_weight /\ probe' = probe
    BY <1>7 DEF P!SetAlpha
  <2>2. /\ DOMAIN pending' = {"alpha", "beta"}
        /\ pending'["alpha"] = a /\ pending'["beta"] = One - a
        /\ One - a \in 0..One /\ a + (One - a) = One
    BY <2>1, ProbeConstants
  <2>3. WeightsOK'
    BY <2>1, <2>2 DEF WeightsOK, Meant
  <2>4. ~raced' => DOMAIN loaded' = {}
    BY <1>t, <2>1 DEF LoadedTogether
  <2> QED
    BY <2>1, <2>3, <2>4 DEF LoadedTogether
<1> QED
  BY <1>2, <1>3, <1>4, <1>5, <1>6, <1>7, <1>8 DEF P!Next

\* The average, whichever way the loads and stores of the weights interleave.
LEMMA ProbeBetween ==
  ASSUME P!TypeOK, WeightsOK, LoadedTogether, Between, P!Next
  PROVE  Between'
<1> USE DEF P!clock, P!worker, P!history
<1>t. published_rates \subseteq Nat /\ d_avg \in Nat /\ rate_this_update \in Nat /\ raced \in BOOLEAN
      /\ DOMAIN <<>> = {}
  BY DEF P!TypeOK
<1>1. CASE P!Start
  BY <1>1, <1>t DEF P!Start, Between, LoadedTogether
<1>2. CASE P!Tick \/ P!Stop \/ \E n \in 1..MaxBatch : P!Count(n)
  BY <1>2, <1>t DEF P!Tick, P!Stop, P!Count, Between
<1>3. ASSUME NEW n \in 1..MaxBatch, P!Update(n) PROVE Between'
  <2>1. /\ published_rates' = published_rates \cup {rate_this_update'} /\ d_avg' = d_avg
        /\ raced' = raced /\ loaded' = loaded
    BY <1>3 DEF P!Update
  <2> QED
    BY <2>1 DEF Between
<1>4. CASE P!FirstAverage
  <2>1. /\ probe = "averaging" /\ probe' = "idle" /\ d_avg' = rate_this_update
        /\ DOMAIN loaded' = {} /\ published_rates' = published_rates
    BY <1>4, <1>t DEF P!FirstAverage, P!Publish
  <2>2. d_avg' \in published_rates' /\ d_avg' <= d_avg' /\ d_avg' >= d_avg'
    BY <1>t, <2>1 DEF Between
  <2> QED
    BY <2>1, <2>2 DEF Between
<1>5. CASE P!ExponentialAverage
  <2>1. /\ probe = "averaging" /\ probe' = "idle"
        /\ DOMAIN loaded = DOMAIN d_weight
        /\ d_avg' = IF P!new_avg < Limit THEN P!new_avg ELSE rate_this_update
        /\ DOMAIN loaded' = {} /\ published_rates' = published_rates /\ raced' = raced
    BY <1>5, <1>t DEF P!ExponentialAverage, P!Publish
  <2> SUFFICES ASSUME ~raced PROVE /\ \E r \in published_rates : r <= d_avg'
                                   /\ \E r \in published_rates : r >= d_avg'
    BY <2>1 DEF Between
  <2>2. DOMAIN loaded # {} /\ rate_this_update \in published_rates /\ d_avg # 0
    BY <2>1 DEF Between, P!TypeOK
  <2>3. PICK lo \in published_rates, hi \in published_rates : lo <= d_avg /\ d_avg <= hi
    BY <1>t, <2>2 DEF Between
  <2>4. PICK l \in published_rates : l <= rate_this_update /\ l <= d_avg
    BY <1>t, <2>2, <2>3
  <2>5. PICK h \in published_rates : rate_this_update <= h /\ d_avg <= h
    BY <1>t, <2>2, <2>3
  <2>6. P!new_avg \in Nat /\ l <= P!new_avg /\ P!new_avg <= h
    BY <1>t, <2>1, <2>4, <2>5, NewAverage
  <2>7. CASE P!new_avg < Limit
    BY <1>t, <2>1, <2>6, <2>7
  <2>8. CASE ~(P!new_avg < Limit)
    BY <1>t, <2>1, <2>2, <2>8
  <2> QED
    BY <2>7, <2>8
<1>6. ASSUME NEW x \in {"alpha", "beta"}, P!LoadWeight(x) PROVE Between'
  <2>1. /\ d_avg' = d_avg /\ d_avg # 0 /\ raced' = (raced \/ pending # <<>>)
        /\ rate_this_update' = rate_this_update /\ published_rates' = published_rates
        /\ probe' = probe
    BY <1>6 DEF P!LoadWeight
  <2> QED
    BY <1>t, <2>1 DEF Between
<1>7. ASSUME NEW x \in {"alpha", "beta"}, P!StoreWeight(x) PROVE Between'
  BY <1>7 DEF P!StoreWeight, Between
<1>8. ASSUME NEW a \in 0..One, P!SetAlpha(a) PROVE Between'
  BY <1>8, <1>t DEF P!SetAlpha, Between
<1> QED
  BY <1>1, <1>2, <1>3, <1>4, <1>5, <1>6, <1>7, <1>8 DEF P!Next

\* The items, and the rates that stand for them.
LEMMA ProbeItemsStep ==
  ASSUME P!TypeOK, P!ItemsReported, P!Next
  PROVE  P!ItemsReported'
<1> USE DEF P!clock, P!worker, P!history, P!ItemsReported
<1>c. d_lastthru \in Nat /\ Unit \in Nat /\ items \in Nat /\ reported \in Nat /\ MaxBatch \in Nat
  BY ProbeConstants DEF P!TypeOK
<1>1. CASE P!Start
  BY <1>1, <1>c DEF P!Start
<1>2. ASSUME NEW n \in 1..MaxBatch, P!Count(n) PROVE P!ItemsReported'
  <2>1. d_lastthru' = d_lastthru + n /\ items' = items + n /\ reported' = reported
    BY <1>2 DEF P!Count
  <2>2. (d_lastthru + n) * Unit = d_lastthru * Unit + n * Unit
        /\ (items + n) * Unit = items * Unit + n * Unit
    BY <1>c
  <2>3. d_lastthru * Unit \in Nat /\ n * Unit \in Nat /\ items * Unit \in Nat
    BY <1>c
  <2> QED
    BY <1>c, <2>1, <2>2, <2>3
<1>3. ASSUME NEW n \in 1..MaxBatch, P!Update(n) PROVE P!ItemsReported'
  <2>1. /\ d_lastthru' = 0 /\ items' = items + n
        /\ reported' = reported + (d_lastthru + n) * Unit
    BY <1>3, RateOfInterval DEF P!Update
  <2>2. (d_lastthru + n) * Unit = d_lastthru * Unit + n * Unit
        /\ (items + n) * Unit = items * Unit + n * Unit /\ 0 * Unit = 0
    BY <1>c
  <2>3. d_lastthru * Unit \in Nat /\ n * Unit \in Nat /\ items * Unit \in Nat
    BY <1>c
  <2> QED
    BY <1>c, <2>1, <2>2, <2>3
<1>4. CASE UNCHANGED <<items, d_lastthru, reported>>
  BY <1>4
<1> QED
  BY <1>1, <1>2, <1>3, <1>4
  DEF P!Next, P!Tick, P!Stop, P!FirstAverage, P!ExponentialAverage, P!Publish,
      P!LoadWeight, P!StoreWeight, P!SetAlpha

LEMMA ProbeStep ==
  ASSUME ProbeInv, [P!Next]_(P!vars)
  PROVE  ProbeInv'
<1>1. CASE P!Next
  BY <1>1, ProbeTypes, ProbeWeights, ProbeBetween, ProbeItemsStep DEF ProbeInv
<1>2. CASE UNCHANGED P!vars
  BY <1>2
  DEF P!vars, P!clock, P!worker, P!history, ProbeInv, P!TypeOK, WeightsOK, Meant,
      LoadedTogether, Between, P!ItemsReported
<1> QED
  BY <1>1, <1>2

-----------------------------------------------------------------------------
(* The blocks.                                                             *)

ThreadsInv ==
  /\ block = "throttle" => ThrottleInv
  /\ block = "probe_rate" => ProbeInv
  /\ block # "throttle" => ThrottleIdle

LEMMA ThreadsStart == MCInit => ThreadsInv
  BY ThrottleStarts, ProbeStarts DEF MCInit, ThreadsInv

LEMMA ThreadsStep ==
  ASSUME ThreadsInv, [MCNext]_mcvars
  PROVE  ThreadsInv'
<1>1. ASSUME block = "throttle", T!Next, block' = block PROVE ThreadsInv'
  BY <1>1, ThrottleStep DEF ThreadsInv
<1>2. ASSUME block = "probe_rate", P!Next, UNCHANGED throttle_vars, block' = block
      PROVE  ThreadsInv'
  BY <1>2, ProbeStep DEF ThreadsInv, ThrottleIdle, throttle_vars
<1>3. ASSUME UNCHANGED <<now, throttle_vars, probe_vars, block>> PROVE ThreadsInv'
  <2>1. UNCHANGED T!vars /\ UNCHANGED P!vars
    BY <1>3 DEF throttle_vars, probe_vars, T!vars, T!worker, T!shared,
                P!vars, P!clock, P!worker, P!history
  <2> QED
    BY <1>3, <2>1, ThrottleStep, ProbeStep DEF ThreadsInv, ThrottleIdle, throttle_vars
<1> QED
  BY <1>1, <1>2, <1>3 DEF MCNext, mcvars

LEMMA ThreadsAlways == MCSpec => []ThreadsInv
  BY ThreadsStart, ThreadsStep, PTL DEF MCSpec

\* The counters, clocks and weights of throttle and probe_rate keep their
\* types, whatever the setters do and when.
THEOREM BlocksTyping == MCSpec => []BlocksTypeOK
<1>1. ThreadsInv => BlocksTypeOK
  BY DEF ThreadsInv, BlocksTypeOK, ThrottleInv, ProbeInv
<1> QED
  BY <1>1, ThreadsAlways, PTL

\* However set_sample_rate races a work call of the throttle, the block does not
\* get ahead of the rate that is set by more than one work call.
THEOREM ThrottleHolds == MCSpec => []NeverTooFast
<1>1. ASSUME ThreadsInv, block = "throttle" PROVE T!NeverTooFast
  <2> SUFFICES ASSUME throttle = "idle", setter = "idle"
               PROVE  now >= d_start_time + (d_total_samples - batch) * d_sample_rate
    BY DEF T!NeverTooFast
  <2>1. /\ now \in Nat /\ d_start_time \in Nat /\ d_total_samples \in Nat
        /\ batch \in Nat /\ d_sample_rate \in Nat /\ d_start_time <= now
    BY <1>1, ThrottleConstants DEF ThreadsInv, ThrottleInv, T!TypeOK
  <2> DEFINE p == d_total_samples * d_sample_rate
             q == batch * d_sample_rate
  <2>2. /\ (d_total_samples - batch) * d_sample_rate = p - q
        /\ p \in Nat /\ q \in Nat
        /\ d_total_samples <= batch => p <= q
    BY <2>1, Product, Monotone
  <2>3. d_total_samples <= batch \/ now >= d_start_time + p
    BY <1>1 DEF ThreadsInv, ThrottleInv, OnTime
  <2> HIDE DEF p, q
  <2> QED
    BY <2>1, <2>2, <2>3
<1>2. ThreadsInv => NeverTooFast
  BY <1>1 DEF NeverTooFast
<1> QED
  BY <1>2, ThreadsAlways, PTL

\* A work call of the throttle that no set_sample_rate races sleeps for its own
\* items and those of the call before it at most.
THEOREM SleepsAreBounded == MCSpec => SleepsBounded
<1> DEFINE Sleeps ==
      (T!CountSamples /\ setter = "idle" /\ rate = d_sample_rate)
        => target_time' <= now + 2 * MaxBatch * rate
<1>1. ASSUME ThreadsInv, T!CountSamples, setter = "idle", rate = d_sample_rate
      PROVE  target_time' <= now + 2 * MaxBatch * rate
  <2>1. /\ throttle = "loaded"
        /\ target_time' = d_start_time + (d_total_samples + batch) * rate
    BY <1>1 DEF T!CountSamples
  <2>2. ThrottleInv
    BY <1>1, <2>1 DEF ThreadsInv, ThrottleIdle
  <2>3. /\ now \in Nat /\ d_start_time \in Nat /\ d_total_samples \in Nat
        /\ batch \in Nat /\ batch <= MaxBatch /\ MaxBatch \in Nat /\ rate \in Nat
        /\ d_start_time <= now
    BY <2>2, ThrottleConstants DEF ThrottleInv, T!TypeOK
  <2> DEFINE p == d_total_samples * rate
             q == batch * rate
             m == MaxBatch * rate
  <2>4. /\ (d_total_samples + batch) * rate = p + q /\ 2 * MaxBatch * rate = m + m
        /\ p \in Nat /\ q \in Nat /\ m \in Nat /\ q <= m
        /\ d_total_samples <= MaxBatch => p <= m
    BY <2>3, Product, Monotone
  <2>5. d_total_samples <= MaxBatch \/ now >= d_start_time + p
    BY <1>1, <2>1, <2>2 DEF ThrottleInv, OnTime
  <2> HIDE DEF p, q, m
  <2> QED
    BY <2>1, <2>3, <2>4, <2>5
<1>2. ThreadsInv => Sleeps
  BY <1>1
<1>3. ThreadsInv /\ [MCNext]_mcvars => [Sleeps]_(T!vars)
  BY <1>2
<1> QED
  BY <1>3, ThreadsAlways, PTL DEF MCSpec, SleepsBounded, T!SleepsBounded

\* The rates that a probe publishes, each times its interval, give every item
\* since start() once.
THEOREM AllItemsReported == MCSpec => []ItemsReported
<1>1. ThreadsInv => ItemsReported
  BY DEF ThreadsInv, ProbeInv, ItemsReported
<1> QED
  BY <1>1, ThreadsAlways, PTL

\* An average is between published rates, unless a set_alpha ran while it was
\* made.
THEOREM AverageHolds == MCSpec => []AverageWithinRates
<1>1. ThreadsInv => AverageWithinRates
  BY DEF ThreadsInv, ProbeInv, Between, AverageWithinRates, P!AverageWithinRates
<1> QED
  BY <1>1, ThreadsAlways, PTL
=============================================================================
