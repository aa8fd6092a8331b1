---------------------------- MODULE MCFlowgraph ----------------------------
(***************************************************************************)
(* A flowgraph from its start to its end.  Its buffers are built one after *)
(* the other, as in BufferAlloc; a failure ends the attempt.  When all of  *)
(* them are live the blocks run, as in CudaGraph, and at the end each      *)
(* buffer waits for its events and gives its rings back.                   *)
(***************************************************************************)
EXTENDS MCCudaGraph

CONSTANT Built   \* the buffers built: those of the blocks, and others

ASSUME BuiltAssumption == Buffers \subseteq Built

VARIABLES started, stage, at, resources, fields, resets

alloc_vars == <<stage, at, resources, fields, resets>>
mcvars == <<vars, started, alloc_vars>>

Alloc == INSTANCE BufferAlloc WITH Buffers <- Built, held <- resources

MCInit == Init /\ Alloc!Init /\ started = FALSE

\* Attempts at building the buffers, with those that fail.
Build ==
  /\ ~started
  /\ Alloc!Next
  /\ UNCHANGED <<vars, started>>

Start ==
  /\ ~started
  /\ \A b \in Built : stage[b] = "live"
  /\ started' = TRUE
  /\ UNCHANGED <<vars, alloc_vars>>

Operate ==
  /\ started
  /\ \/ \E k \in Blocks : Thread(k) \/ Halt(k)
     \/ \E s \in Streams : Exec(s)
     \/ \E b \in Buffers : Destroy(b)
  /\ UNCHANGED <<started, alloc_vars>>

\* ~cuda_buffer: its stream has run dry, and what the buffer holds goes.
Release(b) ==
  /\ started
  /\ \/ Free(b) /\ Alloc!Close(b)
     \/ /\ Alloc!reset_host(b) \/ Alloc!reset_device(b) \/ Alloc!Gone(b)
        /\ UNCHANGED vars
  /\ UNCHANGED started

MCNext ==
  \/ Build
  \/ Start
  \/ Operate
  \/ \E b \in Buffers : Release(b)

MCSpec == MCInit /\ [][MCNext]_mcvars

-----------------------------------------------------------------------------
(* The properties of CudaGraph are those of its module.                    *)

\* The state of the construction keeps its types.
AllocTypeOK == Alloc!TypeOK

\* A buffer that is not there holds no part of its rings.
NoRingLeftBehind == Alloc!NoRingLeftBehind

\* What is pinned or mapped on the device is there.
NothingDangles == Alloc!NothingDangles
=============================================================================
