------------------------------ MODULE Throttle ------------------------------
(***************************************************************************)
(* The throttle block: the thread of the block, that submits a copy and    *)
(* then sleeps until the items so far are due, and another thread that     *)
(* calls set_sample_rate().  The rate is an atomic; the start time and the *)
(* count of samples are under d_mutex.                                     *)
(*                                                                         *)
(* Time is counted in ticks and a rate is its reciprocal, the ticks from   *)
(* one item to the next, so that total / rate is the product total * rate. *)
(***************************************************************************)
EXTENDS Integers

CONSTANTS
  Rates,      \* the rates that are set: ticks per item
  MaxBatch,   \* the largest noutput_items
  MaxTime,    \* bound: the clock stops here
  MaxSets     \* bound: calls of set_sample_rate

VARIABLES
  now,               \* steady_clock
  d_sample_rate,
  d_start_time,
  d_total_samples,
  pc,                \* the block's thread: "idle", "copied", "loaded", "asleep"
  batch,             \* noutput_items of its work call
  rate,              \* its local copy of the rate
  target_time,       \* what it sleeps until
  setter,            \* the other thread: "idle", or "stored" before it locks
  sets               \* calls of set_sample_rate so far

worker == <<pc, batch, rate, target_time>>
shared == <<d_sample_rate, d_start_time, d_total_samples>>
vars == <<now, shared, worker, setter, sets>>

-----------------------------------------------------------------------------
\* start(), before the threads run.
Init ==
  /\ now = 0
  /\ d_sample_rate \in Rates
  /\ d_start_time = 0
  /\ d_total_samples = 0
  /\ pc = "idle"
  /\ batch = 0
  /\ rate = d_sample_rate
  /\ target_time = 0
  /\ setter = "idle"
  /\ sets = 0

Tick ==
  /\ now < MaxTime
  /\ now' = now + 1
  /\ UNCHANGED <<shared, worker, setter, sets>>

\* work: the copy is enqueued and mark_work_done returns.
Submit(n) ==
  /\ pc = "idle"
  /\ batch' = n
  /\ pc' = "copied"
  /\ UNCHANGED <<now, shared, rate, target_time, setter, sets>>

LoadRate ==
  /\ pc = "copied"
  /\ rate' = d_sample_rate
  /\ pc' = "loaded"
  /\ UNCHANGED <<now, shared, batch, target_time, setter, sets>>

\* Fault: each work call is timed for itself, from the start time.
CountSamples_alone ==
  /\ pc = "loaded"
  /\ d_total_samples' = d_total_samples + batch
  /\ target_time' = d_start_time + batch * rate
  /\ pc' = "asleep"
  /\ UNCHANGED <<now, d_sample_rate, d_start_time, batch, rate, setter, sets>>

\* The samples are counted under the mutex; the rate may have been set since.
CountSamples ==
  /\ pc = "loaded"
  /\ d_total_samples' = d_total_samples + batch
  /\ target_time' = d_start_time + d_total_samples' * rate
  /\ pc' = "asleep"
  /\ UNCHANGED <<now, d_sample_rate, d_start_time, batch, rate, setter, sets>>

WakeUp ==
  /\ pc = "asleep"
  /\ now >= target_time
  /\ pc' = "idle"
  /\ UNCHANGED <<now, shared, batch, rate, target_time, setter, sets>>

\* Fault: the argument is not validated.
StoreRate_any(r) ==
  /\ setter = "idle"
  /\ sets < MaxSets
  /\ d_sample_rate' = r
  /\ setter' = "stored"
  /\ sets' = sets + 1
  /\ UNCHANGED <<now, d_start_time, d_total_samples, worker>>

\* set_sample_rate, up to its lock and from there.  It throws, and changes
\* nothing, when the argument is not finite and positive.
StoreRate(r) ==
  /\ r > 0
  /\ setter = "idle"
  /\ sets < MaxSets
  /\ d_sample_rate' = r
  /\ setter' = "stored"
  /\ sets' = sets + 1
  /\ UNCHANGED <<now, d_start_time, d_total_samples, worker>>

\* Fault: the count is left as it is.
ResetTiming_time ==
  /\ setter = "stored"
  /\ d_start_time' = now
  /\ setter' = "idle"
  /\ UNCHANGED <<now, d_sample_rate, d_total_samples, worker, sets>>

ResetTiming ==
  /\ setter = "stored"
  /\ d_start_time' = now
  /\ d_total_samples' = 0
  /\ setter' = "idle"
  /\ UNCHANGED <<now, d_sample_rate, worker, sets>>

Work == (\E n \in 1..MaxBatch : Submit(n)) \/ LoadRate \/ CountSamples \/ WakeUp

Next ==
  \/ Tick
  \/ Work
  \/ \E r \in Rates \cup {0} : StoreRate(r)
  \/ ResetTiming

Spec == Init /\ [][Next]_vars

-----------------------------------------------------------------------------
TypeOK ==
  /\ now \in Nat
  /\ d_sample_rate \in Rates
  /\ d_start_time \in Nat
  /\ d_total_samples \in Nat
  /\ pc \in {"idle", "copied", "loaded", "asleep"}
  /\ batch \in 0..MaxBatch
  /\ rate \in Rates
  /\ target_time \in Nat
  /\ setter \in {"idle", "stored"}
  /\ sets \in 0..MaxSets

\* The block never runs ahead of the rate that is set, counted from the last
\* reset, by more than one work call: a call that has read the rate before it
\* was set is made up for by the next one, and one that counted its samples
\* before they were reset is forgotten.
NeverTooFast ==
  (pc = "idle" /\ setter = "idle") =>
    now >= d_start_time + (d_total_samples - batch) * d_sample_rate

\* A work call that runs while no rate is being set sleeps for at most its own
\* items and those of the call before it.
SleepsBounded ==
  [][(CountSamples /\ setter = "idle" /\ rate = d_sample_rate)
       => target_time' <= now + 2 * MaxBatch * rate]_vars

Slowest(r) == \A q \in Rates : q <= r

\* "Reset timing to avoid discontinuities when changing the rate mid-run":
\* no work call sleeps longer than its own items take at the slowest rate r.
NoDiscontinuity ==
  [][\A r \in Rates : (CountSamples /\ Slowest(r))
       => target_time' <= now + batch * r]_vars
=============================================================================
