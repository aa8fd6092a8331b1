----------------------------- MODULE ProbeRate -----------------------------
(***************************************************************************)
(* The probe_rate block: its thread counts items and publishes, at most    *)
(* once in d_min_update_time, the rate since the last update and a running *)
(* average.  Another thread calls set_alpha(), which writes d_alpha and    *)
(* d_beta with no lock; start() runs while the block has no thread.        *)
(*                                                                         *)
(* Time is in ticks, a rate in units of 1 / Unit items per tick, a weight  *)
(* in units of 1 / One.  Division rounds down, which keeps an average      *)
(* between the numbers it is made of.                                      *)
(***************************************************************************)
EXTENDS Integers

CONSTANTS
  d_min_update_time,
  Unit,        \* a multiple of every number of ticks up to MaxTime
  One,         \* the weight 1; alpha is any weight from 0 to 1
  Limit,       \* 1e15: an average as large as this is dropped
  MaxBatch,    \* the largest noutput_items
  MaxItems,    \* bound: items after a start
  MaxTime,     \* bound: the clock stops here
  MaxSets,     \* bound: calls of set_alpha
  MaxStarts    \* bound: how often the flowgraph is started

VARIABLES
  now,             \* steady_clock
  d_weight,        \* d_weight.alpha, d_weight.beta
  d_avg,
  d_last_update,
  d_lastthru,
  pc,              \* the block's thread: "stopped", "idle", "averaging"
  rate_this_update,
  loaded,          \* the weights that thread has loaded
  pending,         \* the stores a set_alpha in the other thread has left
  sets, starts,    \* calls so far
  items,           \* items since start()
  published,       \* the rates that were published since start()
  reported,        \* and what they add up to, each times its interval
  raced            \* whether a set_alpha ran during an average since start()

clock == <<d_last_update, d_lastthru>>
worker == <<pc, rate_this_update, loaded>>
history == <<items, published, reported>>
vars == <<now, d_weight, d_avg, clock, worker, pending, sets, starts, history, raced>>

-----------------------------------------------------------------------------
Init ==
  /\ now = 0
  /\ \E a \in 0..One : d_weight = [alpha |-> a, beta |-> One - a]
  /\ d_avg = 0 /\ d_last_update = 0 /\ d_lastthru = 0
  /\ pc = "stopped" /\ rate_this_update = 0 /\ loaded = <<>>
  /\ pending = <<>>
  /\ sets = 0 /\ starts = 0
  /\ items = 0 /\ published = {} /\ reported = 0 /\ raced = FALSE

Tick ==
  /\ now < MaxTime
  /\ now' = now + 1
  /\ UNCHANGED <<d_weight, d_avg, clock, worker, pending, sets, starts, history, raced>>

\* Fault: the items since the last update are kept.
Start_average ==
  /\ pc = "stopped" /\ starts < MaxStarts
  /\ d_avg' = 0 /\ d_last_update' = now
  /\ pc' = "idle"
  /\ starts' = starts + 1
  /\ items' = 0 /\ published' = {} /\ reported' = 0 /\ raced' = FALSE
  /\ UNCHANGED <<now, d_weight, d_lastthru, rate_this_update, loaded, pending, sets>>

\* Fault: the average of the run before is kept.
Start_counts ==
  /\ pc = "stopped" /\ starts < MaxStarts
  /\ d_lastthru' = 0 /\ d_last_update' = now
  /\ pc' = "idle"
  /\ starts' = starts + 1
  /\ items' = 0 /\ published' = {} /\ reported' = 0 /\ raced' = FALSE
  /\ UNCHANGED <<now, d_weight, d_avg, rate_this_update, loaded, pending, sets>>

Start ==
  /\ pc = "stopped" /\ starts < MaxStarts
  /\ d_avg' = 0 /\ d_lastthru' = 0 /\ d_last_update' = now
  /\ pc' = "idle"
  /\ starts' = starts + 1
  /\ items' = 0 /\ published' = {} /\ reported' = 0 /\ raced' = FALSE
  /\ UNCHANGED <<now, d_weight, rate_this_update, loaded, pending, sets>>

Stop ==
  /\ pc = "idle"
  /\ pc' = "stopped"
  /\ UNCHANGED <<now, d_weight, d_avg, clock, rate_this_update, loaded, pending,
                 sets, starts, history, raced>>

-----------------------------------------------------------------------------
(* work.  The plain members it shares with set_alpha are the two weights.  *)

diff == now - d_last_update

\* The items are counted, and the time is not up.
Count(n) ==
  /\ pc = "idle" /\ items + n <= MaxItems
  /\ items' = items + n
  /\ diff < d_min_update_time \/ diff = 0
  /\ d_lastthru' = d_lastthru + n
  /\ UNCHANGED <<now, d_weight, d_avg, d_last_update, worker, pending, sets,
                 starts, published, reported, raced>>

\* The time is up: a new interval begins, with its rate to be averaged.
Update(n) ==
  /\ pc = "idle" /\ items + n <= MaxItems
  /\ items' = items + n
  /\ diff >= d_min_update_time /\ diff > 0
  /\ rate_this_update' = ((d_lastthru + n) * Unit) \div diff
  /\ d_lastthru' = 0 /\ d_last_update' = now
  /\ published' = published \cup {rate_this_update'}
  /\ reported' = reported + rate_this_update' * diff
  /\ pc' = "averaging"
  /\ UNCHANGED <<now, d_weight, d_avg, loaded, pending, sets, starts, raced>>

\* d_avg is stored, the two rates are published, and work returns.
Publish(avg) ==
  /\ d_avg' = avg
  /\ pc' = "idle"
  /\ rate_this_update' = 0 /\ loaded' = <<>>
  /\ UNCHANGED <<now, d_weight, clock, pending, sets, starts, history, raced>>

FirstAverage == pc = "averaging" /\ d_avg = 0 /\ Publish(rate_this_update)

\* The compiler may load the weights, and set_alpha store them, in any order.
LoadWeight(x) ==
  /\ pc = "averaging" /\ d_avg # 0
  /\ x \in DOMAIN d_weight \ DOMAIN loaded
  /\ loaded' = [y \in DOMAIN loaded \cup {x} |->
                  IF y = x THEN d_weight[x] ELSE loaded[y]]
  /\ raced' = (raced \/ pending # <<>>)
  /\ UNCHANGED <<now, d_weight, d_avg, clock, pc, rate_this_update, pending,
                 sets, starts, history>>

new_avg == (rate_this_update * loaded.alpha + d_avg * loaded.beta) \div One

\* "Reset to current rate on overflow".
ExponentialAverage ==
  /\ pc = "averaging" /\ DOMAIN loaded = DOMAIN d_weight
  /\ Publish(IF new_avg < Limit THEN new_avg ELSE rate_this_update)

-----------------------------------------------------------------------------
(* set_alpha, in another thread.                                           *)

SetAlpha(a) ==
  /\ pending = <<>> /\ sets < MaxSets
  /\ pending' = [alpha |-> a, beta |-> One - a]
  /\ sets' = sets + 1
  /\ raced' = (raced \/ (pc = "averaging" /\ loaded # <<>>))
  /\ UNCHANGED <<now, d_weight, d_avg, clock, worker, starts, history>>

StoreWeight(x) ==
  /\ x \in DOMAIN pending
  /\ d_weight' = [d_weight EXCEPT ![x] = pending[x]]
  /\ pending' = [y \in DOMAIN pending \ {x} |-> pending[y]]
  /\ UNCHANGED <<now, d_avg, clock, worker, sets, starts, history, raced>>

Next ==
  \/ Tick \/ Start \/ Stop
  \/ \E n \in 1..MaxBatch : Count(n) \/ Update(n)
  \/ FirstAverage \/ ExponentialAverage
  \/ \E x \in {"alpha", "beta"} : LoadWeight(x) \/ StoreWeight(x)
  \/ \E a \in 0..One : SetAlpha(a)

Spec == Init /\ [][Next]_vars

-----------------------------------------------------------------------------
TypeOK ==
  /\ now \in 0..MaxTime
  /\ DOMAIN d_weight = {"alpha", "beta"}
  /\ \A x \in DOMAIN d_weight : d_weight[x] \in 0..One
  /\ d_avg \in Nat /\ d_last_update \in 0..now /\ d_lastthru \in 0..items
  /\ pc \in {"stopped", "idle", "averaging"}
  /\ rate_this_update \in Nat
  /\ DOMAIN loaded \subseteq DOMAIN d_weight /\ DOMAIN pending \subseteq DOMAIN d_weight
  /\ sets \in 0..MaxSets /\ starts \in 0..MaxStarts
  /\ items \in 0..MaxItems
  /\ published \subseteq Nat /\ reported \in Nat
  /\ raced \in BOOLEAN

\* The rates that are published, each over the time it stands for, account for
\* every item since start(): none is lost between two updates, none counted in
\* two, and none left over from before a stop.
ItemsReported == reported + d_lastthru * Unit = items * Unit

\* rate() is an average of rates published since start(), neither smaller nor
\* larger than all of them, as long as no set_alpha ran during an update.
AverageWithinRates ==
  (d_avg # 0 /\ pc = "idle" /\ ~raced) =>
    /\ \E r \in published : r <= d_avg
    /\ \E r \in published : r >= d_avg
=============================================================================
