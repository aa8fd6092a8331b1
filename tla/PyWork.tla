------------------------------- MODULE PyWork -------------------------------
(***************************************************************************)
(* The Python wrapper around work() and general_work(): wrapped() in       *)
(* python/cuda/cuda_block.py, with the code of the user in between.  The   *)
(* user launches kernels, calls self.produce(), returns a count or the     *)
(* value WORK_CALLED_PRODUCE, raises, or calls the method of its base      *)
(* class, which is wrapped as well and shares the attributes of self.  An  *)
(* exception that leaves the outermost call ends the thread of the block.  *)
(*                                                                         *)
(* Only the stream of this block matters here: kernels are numbered in the *)
(* order they are launched, and a record of an event stands for the        *)
(* kernels launched before it.                                             *)
(***************************************************************************)
EXTENDS Integers, Sequences

CONSTANTS
  Outputs,       \* the output ports
  Depth,         \* how many wrapped methods may be nested
  MaxKernels,    \* bound: kernels launched by all calls together
  KernelsFirst   \* whether the user launches nothing after its first produce()

ASSUME PyWorkAssumption ==
  /\ Depth \in Nat \ {0}
  /\ MaxKernels \in Nat
  /\ KernelsFirst \in BOOLEAN

VARIABLES
  kernels,     \* kernels launched
  writer,      \* writer[o]: the last kernel that writes output o
  dev_ready,   \* dev_ready[o]: the last device-ready record of output o
  read_done,   \* the last read-done record of the inputs
  published,   \* published[o]: the last kernel whose items are handed downstream
  produced,    \* the outputs that the current call has called produce() for
  produce,     \* self.produce: how many _safe_produce are around the original
  work_done,   \* self._cuda_work_done
  frames,      \* orig_produce of each active wrapped(), the innermost last
  pc           \* where the thread of the block is

user == <<kernels, writer, produced>>
records == <<dev_ready, read_done>>
vars == <<user, records, published, produce, work_done, frames, pc>>

-----------------------------------------------------------------------------
\* mark_work_done records all outputs and all inputs on the block's stream.
mark_work_done ==
  /\ dev_ready' = [o \in Outputs |-> kernels]
  /\ read_done' = kernels

\* Fault: the flag of the last call is still there.
Enter_noreset ==
  /\ produce' = produce + 1
  /\ frames' = Append(frames, produce)
  /\ UNCHANGED work_done

\* The head of wrapped(): it resets the flag and replaces self.produce.
Enter ==
  /\ work_done' = FALSE
  /\ produce' = produce + 1
  /\ frames' = Append(frames, produce)

\* The scheduler calls work().
CallWork ==
  /\ pc = "idle"
  /\ Enter
  /\ produced' = {}
  /\ pc' = "user"
  /\ UNCHANGED <<kernels, writer, records, published>>

\* A subclass calls the work() of its base class with what it was given.  Where
\* as_cupy refuses arrays that are CuPy arrays already, Raise follows at once.
CallSuper ==
  /\ pc = "user"
  /\ Len(frames) < Depth
  /\ Enter
  /\ UNCHANGED <<user, records, published, pc>>

-----------------------------------------------------------------------------
(* The user's code.                                                        *)

\* A kernel that reads the inputs and writes the outputs in S.
Launch(S) ==
  /\ pc = "user"
  /\ KernelsFirst => produced = {}
  /\ kernels < MaxKernels
  /\ kernels' = kernels + 1
  /\ writer' = [o \in Outputs |-> IF o \in S THEN kernels + 1 ELSE writer[o]]
  /\ UNCHANGED <<records, published, produced, produce, work_done, frames, pc>>

\* Every _safe_produce around the original marks the work unless that is done.
safe_produce(o) ==
  /\ pc = "user"
  /\ IF produce > 0 /\ ~work_done
       THEN mark_work_done /\ work_done' = TRUE
       ELSE UNCHANGED <<records, work_done>>
  /\ published' = [published EXCEPT ![o] = writer[o]]
  /\ produced' = produced \cup {o}
  /\ UNCHANGED <<kernels, writer, produce, frames, pc>>

-----------------------------------------------------------------------------
(* The tail of wrapped().                                                  *)

\* Fault: one replacement too many is taken off.
Leave_twice ==
  /\ produce' = frames[Len(frames)] - 1
  /\ frames' = SubSeq(frames, 1, Len(frames) - 1)

\* The finally clause.
Leave ==
  /\ produce' = frames[Len(frames)]
  /\ frames' = SubSeq(frames, 1, Len(frames) - 1)

\* Fault: the call is never marked when it did not produce.
Return_unmarked ==
  /\ pc = "user"
  /\ Leave
  /\ pc' = IF Len(frames) = 1 THEN "returned" ELSE "user"
  /\ UNCHANGED <<user, records, published, work_done>>

\* The user's code returns.  The flag is left as it is.
Return ==
  /\ pc = "user"
  /\ Leave
  /\ IF work_done THEN UNCHANGED records ELSE mark_work_done
  /\ pc' = IF Len(frames) = 1 THEN "returned" ELSE "user"
  /\ UNCHANGED <<user, published, work_done>>

\* Fault: the original produce() is restored on the normal way out only.
Raise_unrestored ==
  /\ pc = "user"
  /\ frames' = SubSeq(frames, 1, Len(frames) - 1)
  /\ pc' = IF Len(frames) = 1 THEN "raised" ELSE "user"
  /\ UNCHANGED <<user, records, published, produce, work_done>>

\* The user's code raises.  The caller of a base class may catch it and go on.
Raise ==
  /\ pc = "user"
  /\ Leave
  /\ pc' = IF Len(frames) = 1 THEN "raised" ELSE "user"
  /\ UNCHANGED <<user, records, published, work_done>>

\* The scheduler takes a count as the items of every output (produce_each);
\* a call that used produce() has returned WORK_CALLED_PRODUCE.
Publish ==
  /\ pc = "returned"
  /\ published' = IF produced = {} THEN writer ELSE published
  /\ pc' = "idle"
  /\ UNCHANGED <<user, records, produce, work_done, frames>>

-----------------------------------------------------------------------------
Init ==
  /\ kernels = 0
  /\ writer = [o \in Outputs |-> 0]
  /\ dev_ready = [o \in Outputs |-> 0]
  /\ read_done = 0
  /\ published = [o \in Outputs |-> 0]
  /\ produced = {}
  /\ produce = 0
  /\ work_done = FALSE
  /\ frames = <<>>
  /\ pc = "idle"

Next ==
  \/ CallWork
  \/ CallSuper
  \/ \E S \in SUBSET Outputs : Launch(S)
  \/ \E o \in Outputs : safe_produce(o)
  \/ Return
  \/ Raise
  \/ Publish

Spec == Init /\ [][Next]_vars

-----------------------------------------------------------------------------
TypeOK ==
  /\ kernels \in Nat
  /\ writer \in [Outputs -> Nat]
  /\ dev_ready \in [Outputs -> Nat]
  /\ read_done \in Nat
  /\ published \in [Outputs -> Nat]
  /\ produced \in SUBSET Outputs
  /\ produce \in Nat
  /\ work_done \in BOOLEAN
  /\ frames \in Seq(Nat)
  /\ pc \in {"idle", "user", "returned", "raised"}

\* "the wrapper ensures correct synchronisation ordering automatically": no
\* items are handed downstream before the device-ready event is recorded
\* behind the kernel that writes them, whatever calls are nested, raise or
\* are cut short.
PublishedIsMarked == \A o \in Outputs : published[o] <= dev_ready[o]

\* When a call has come back to the scheduler, which may then tell the writers
\* of the inputs that their items are consumed, every kernel is recorded as read.
ReturnedIsMarked == pc = "returned" => read_done = kernels

\* self.produce is the original again after every call, also one that raised,
\* and inside nested calls it is always the replacement made by the innermost.
ProduceRestored ==
  /\ produce = Len(frames)
  /\ \A i \in 1..Len(frames) : frames[i] = i - 1
=============================================================================
