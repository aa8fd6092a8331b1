--------------------------- MODULE MCBlockThreads ---------------------------
(***************************************************************************)
(* The code of a block in its own thread, and what other threads may do to *)
(* it: a block written in Python, a throttle or a probe_rate in each       *)
(* behaviour.  The clock is a variable of both C++ blocks.                 *)
(***************************************************************************)
EXTENDS PyWork

CONSTANTS
  Rates, MaxBatch, MaxTime, MaxSets,                 \* of Throttle
  d_min_update_time, Unit, One, Limit, ProbeItems,   \* of ProbeRate
  ProbeTime, ProbeSets, MaxStarts

\* A rate is positive; the unit of the probe's rates makes each of them exact.
ASSUME ThreadsAssumption ==
  /\ Rates \subseteq Nat \ {0}
  /\ {MaxBatch, MaxTime, MaxSets} \subseteq Nat
  /\ {d_min_update_time, Limit, ProbeItems, ProbeTime, ProbeSets, MaxStarts} \subseteq Nat
  /\ Unit \in Nat \ {0} /\ \A d \in 1..ProbeTime : Unit % d = 0
  /\ One \in Nat \ {0}

VARIABLES
  block, now,
  d_sample_rate, d_start_time, d_total_samples,          \* of Throttle
  throttle, batch, rate, target_time, setter, sets,
  d_weight, d_avg, d_last_update, d_lastthru, probe,     \* of ProbeRate
  rate_this_update, loaded, pending, alphas, starts, items, published_rates, reported,
  raced

throttle_vars == <<d_sample_rate, d_start_time, d_total_samples, throttle, batch,
                   rate, target_time, setter, sets>>
probe_vars == <<d_weight, d_avg, d_last_update, d_lastthru, probe,
                rate_this_update, loaded, pending, alphas, starts, items,
                published_rates, reported, raced>>
mcvars == <<vars, block, now, throttle_vars, probe_vars>>

T == INSTANCE Throttle WITH pc <- throttle
P == INSTANCE ProbeRate WITH
  pc <- probe, sets <- alphas, published <- published_rates,
  MaxItems <- ProbeItems, MaxTime <- ProbeTime, MaxSets <- ProbeSets

-----------------------------------------------------------------------------
ThrottleIdle ==
  /\ d_sample_rate = 0 /\ d_start_time = 0 /\ d_total_samples = 0
  /\ throttle = "idle" /\ batch = 0 /\ rate = 0 /\ target_time = 0
  /\ setter = "idle" /\ sets = 0

ProbeIdle ==
  /\ d_weight = <<>> /\ d_avg = 0 /\ d_last_update = 0 /\ d_lastthru = 0
  /\ probe = "stopped" /\ rate_this_update = 0 /\ loaded = <<>> /\ pending = <<>>
  /\ alphas = 0 /\ starts = 0 /\ items = 0 /\ published_rates = {} /\ reported = 0
  /\ raced = FALSE

MCInit ==
  /\ Init
  /\ \/ block = "python" /\ ThrottleIdle /\ ProbeIdle /\ now = 0
     \/ block = "throttle" /\ T!Init /\ ProbeIdle
     \/ block = "probe_rate" /\ P!Init /\ ThrottleIdle

MCNext ==
  /\ \/ block = "python" /\ Next /\ UNCHANGED <<now, throttle_vars, probe_vars>>
     \/ block = "throttle" /\ T!Next /\ UNCHANGED <<vars, probe_vars>>
     \/ block = "probe_rate" /\ P!Next /\ UNCHANGED <<vars, throttle_vars>>
  /\ UNCHANGED block

MCSpec == MCInit /\ [][MCNext]_mcvars

-----------------------------------------------------------------------------
(* The properties of PyWork are those of its module.                       *)

\* The C++ blocks: their state keeps its types.
BlocksTypeOK == (block = "throttle" => T!TypeOK) /\ (block = "probe_rate" => P!TypeOK)

\* Throttle: the block never runs ahead of its rate by more than a work call.
NeverTooFast == block = "throttle" => T!NeverTooFast

\* Throttle: a work call sleeps for its own items and those before at most.
SleepsBounded == T!SleepsBounded

\* Probe: the published rates account for every item since start().
ItemsReported == block = "probe_rate" => P!ItemsReported

\* Probe: an average lies within the rates it is made of.
AverageWithinRates == block = "probe_rate" => P!AverageWithinRates
=============================================================================
