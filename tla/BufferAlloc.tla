----------------------------- MODULE BufferAlloc -----------------------------
(***************************************************************************)
(* Construction and destruction of cuda_buffers: the rings of              *)
(* host_mmap_ring and device_vmm_ring, then a stream and three events.     *)
(* Every call to the operating system or the driver may fail; it throws,   *)
(* and what was acquired before is given back by the code at the call      *)
(* (undo) and by the destructors of the two ring objects, which go by the  *)
(* fields that are set at that moment.  The flowgraph's thread builds and  *)
(* destroys one buffer at a time, and may build a new one after a failure. *)
(***************************************************************************)
EXTENDS Integers, Sequences

CONSTANT Buffers

VARIABLES
  stage,    \* stage[b]: "none", "building", "unwinding", "live", "closing"
  at,       \* at[b]: the next step of the construction
  held,     \* held[b]: what the operating system and the driver hold for b
  fields,   \* fields[b]: the data members that are set
  resets    \* resets[b]: the rings whose reset() has run

vars == <<stage, at, held, fields, resets>>

HostRing == {"fd", "host_va", "host_half1", "host_half2", "pinned"}
DeviceRing == {"dev_va", "dev_phys", "dev_half1", "dev_half2"}
Rings == HostRing \cup DeviceRing
Handles == {"stream", "dev_ready", "host_ready", "read_done"}

\* A step: what it acquires, the members it sets before the call and after
\* it, what it closes afterwards, and what it gives back itself if it fails.
Step(gets, before, after, closes, undo) ==
  [gets |-> gets, before |-> before, after |-> after, closes |-> closes,
   undo |-> undo]

\* memfd_create, ftruncate, the reservation and the two halves.
host_create == <<
  Step({"fd"}, {"d_bytes"}, {}, {}, {}),
  Step({}, {}, {}, {}, {"fd"}),
  Step({"host_va"}, {}, {}, {}, {"fd"}),
  Step({"host_half1"}, {}, {}, {}, {"host_va", "fd"}),
  Step({"host_half2"}, {}, {"d_base"}, {"fd"}, {"host_half1", "host_va", "fd"}) >>

register_pinned == << Step({"pinned"}, {}, {"d_registered"}, {}, {}) >>

\* Queries, reservation, physical memory, the two halves, access rights.
device_create == <<
  Step({}, {}, {}, {}, {}),
  Step({"dev_va"}, {"d_aligned_bytes"}, {"d_ptr"}, {}, {}),
  Step({"dev_phys"}, {}, {"d_handle"}, {}, {}),
  Step({"dev_half1"}, {}, {}, {}, {}),
  Step({"dev_half2"}, {}, {}, {}, {}),
  Step({}, {}, {}, {}, {}) >>

stream_and_events == <<
  Step({"stream"}, {}, {}, {}, {}),
  Step({"dev_ready"}, {}, {}, {}, {}),
  Step({"host_ready"}, {}, {}, {}, {}),
  Step({"read_done"}, {}, {}, {}, {}) >>

Construction ==
  host_create \o register_pinned \o device_create \o stream_and_events

-----------------------------------------------------------------------------
Init ==
  /\ stage = [b \in Buffers |-> "none"]
  /\ at = [b \in Buffers |-> 1]
  /\ held = [b \in Buffers |-> {}]
  /\ fields = [b \in Buffers |-> {}]
  /\ resets = [b \in Buffers |-> {}]

\* Fault: a second attempt takes up where the last one failed, one step late.
Begin_again(b) ==
  /\ \A c \in Buffers : stage[c] \in {"none", "live"}
  /\ stage[b] = "none"
  /\ stage' = [stage EXCEPT ![b] = "building"]
  /\ at' = [at EXCEPT ![b] = @ + 1]
  /\ UNCHANGED <<held, fields, resets>>

Begin(b) ==
  /\ \A c \in Buffers : stage[c] \in {"none", "live"}
  /\ stage[b] = "none"
  /\ stage' = [stage EXCEPT ![b] = "building"]
  /\ at' = [at EXCEPT ![b] = 1]
  /\ UNCHANGED <<held, fields, resets>>

Succeed(b) ==
  LET s == Construction[at[b]]
  IN /\ stage[b] = "building"
     /\ held' = [held EXCEPT ![b] = (@ \cup s.gets) \ s.closes]
     /\ fields' = [fields EXCEPT ![b] = @ \cup s.before \cup s.after]
     /\ at' = [at EXCEPT ![b] = @ + 1]
     /\ stage' = IF at[b] = Len(Construction)
                   THEN [stage EXCEPT ![b] = "live"] ELSE stage
     /\ UNCHANGED resets

\* The call throws, and the construction of the buffer is abandoned: its
\* destructor does not run, those of the ring objects do.
Fail(b) ==
  LET s == Construction[at[b]]
  IN /\ stage[b] = "building"
     /\ held' = [held EXCEPT ![b] = @ \ s.undo]
     /\ fields' = [fields EXCEPT ![b] = @ \cup s.before]
     /\ stage' = [stage EXCEPT ![b] = "unwinding"]
     /\ UNCHANGED <<at, resets>>

\* ~cuda_buffer, up to the two rings.
Close(b) ==
  /\ \A c \in Buffers : stage[c] \in {"none", "live"}
  /\ stage[b] = "live"
  /\ stage' = [stage EXCEPT ![b] = "closing"]
  /\ held' = [held EXCEPT ![b] = @ \ Handles]
  /\ UNCHANGED <<at, fields, resets>>

Resetting(b, ring) ==
  /\ stage[b] \in {"unwinding", "closing"}
  /\ ring \notin resets[b]
  /\ resets' = [resets EXCEPT ![b] = @ \cup {ring}]

\* Fault: the mapping goes while its pages are pinned.
reset_host_pinned(b) ==
  /\ Resetting(b, "host")
  /\ held' = [held EXCEPT ![b] = @ \
       (IF {"d_base", "d_bytes"} \subseteq fields[b]
          THEN {"host_va", "host_half1", "host_half2"} ELSE {})]
  /\ fields' = [fields EXCEPT ![b] = @ \ {"d_base", "d_bytes", "d_registered"}]
  /\ UNCHANGED <<stage, at>>

\* host_mmap_ring::reset; munmap takes 2 * d_bytes from d_base.
reset_host(b) ==
  /\ Resetting(b, "host")
  /\ held' = [held EXCEPT ![b] = @ \
       ((IF {"d_registered", "d_base"} \subseteq fields[b]
           THEN {"pinned"} ELSE {})
        \cup
        (IF {"d_base", "d_bytes"} \subseteq fields[b]
           THEN {"host_va", "host_half1", "host_half2"} ELSE {}))]
  /\ fields' = [fields EXCEPT ![b] = @ \ {"d_base", "d_bytes", "d_registered"}]
  /\ UNCHANGED <<stage, at>>

\* Fault: reset() gives up when there is no physical memory.
reset_device_handle(b) ==
  /\ Resetting(b, "device")
  /\ held' = [held EXCEPT ![b] = @ \
       (IF {"d_ptr", "d_handle"} \subseteq fields[b] THEN DeviceRing ELSE {})]
  /\ fields' = [fields EXCEPT ![b] = @ \ {"d_ptr", "d_handle", "d_aligned_bytes"}]
  /\ UNCHANGED <<stage, at>>

\* device_vmm_ring::reset.  It unmaps both halves whether or not they were
\* mapped: the driver refuses, and reset() goes on.
reset_device(b) ==
  /\ Resetting(b, "device")
  /\ held' = [held EXCEPT ![b] = @ \
       ((IF {"d_ptr", "d_handle"} \subseteq fields[b]
           THEN {"dev_half1", "dev_half2", "dev_phys"} ELSE {})
        \cup
        (IF {"d_ptr", "d_aligned_bytes"} \subseteq fields[b]
           THEN {"dev_va"} ELSE {}))]
  /\ fields' = [fields EXCEPT ![b] = @ \ {"d_ptr", "d_handle", "d_aligned_bytes"}]
  /\ UNCHANGED <<stage, at>>

\* The object is gone; what a failed constructor still holds stays behind.
Gone(b) ==
  /\ resets[b] = {"host", "device"}
  /\ stage' = [stage EXCEPT ![b] = "none"]
  /\ resets' = [resets EXCEPT ![b] = {}]
  /\ UNCHANGED <<at, held, fields>>

Next == \E b \in Buffers :
  \/ Begin(b)
  \/ Succeed(b)
  \/ Fail(b)
  \/ Close(b)
  \/ reset_host(b)
  \/ reset_device(b)
  \/ Gone(b)

Spec == Init /\ [][Next]_vars

-----------------------------------------------------------------------------
TypeOK ==
  /\ stage \in [Buffers -> {"none", "building", "unwinding", "live", "closing"}]
  /\ at \in [Buffers -> 1..Len(Construction) + 1]
  /\ held \in [Buffers -> SUBSET (Rings \cup Handles)]
  /\ fields \in [Buffers -> SUBSET {"d_bytes", "d_base", "d_registered",
                                    "d_aligned_bytes", "d_ptr", "d_handle"}]
  /\ resets \in [Buffers -> SUBSET {"host", "device"}]

\* Wherever the construction fails, and however often it is tried, the rings
\* leave nothing behind: no descriptor, no mapping, no pinned page, no memory
\* of the device.
NoRingLeftBehind == \A b \in Buffers : stage[b] = "none" => held[b] \cap Rings = {}

\* Nothing is pinned that is not mapped, and nothing is mapped on the device
\* without the memory and the addresses it is mapped with.
NothingDangles ==
  \A b \in Buffers :
    /\ "pinned" \in held[b] => {"host_va", "host_half1"} \subseteq held[b]
    /\ held[b] \cap {"dev_half1", "dev_half2"} # {}
         => {"dev_va", "dev_phys"} \subseteq held[b]
=============================================================================
