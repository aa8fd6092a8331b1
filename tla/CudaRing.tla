------------------------------ MODULE CudaRing ------------------------------
(***************************************************************************)
(* The index and memory layer of gr::cuda_buffer: one ring of N items that *)
(* is mapped twice in virtual memory, one writer and any number of         *)
(* readers, each with an index in 0..N-1.  The scheduler of GNU Radio      *)
(* (external) calls space_available before a work call, and post_work and  *)
(* update_write_pointer after it.  GPU asynchrony is left to CudaGraph:    *)
(* here a transfer has happened when post_work returns.                    *)
(*                                                                         *)
(* Items are numbered from 0 in the order in which they are produced; a    *)
(* cell of a ring holds the number of the item written there last.         *)
(***************************************************************************)
EXTENDS Integers, FiniteSets

CONSTANTS
  N,         \* d_bufsize, in items
  Readers,   \* the d_readers of the buffer
  Hists,     \* the histories considered, functions from readers to 0..N-2
  MaxItems   \* bound: the source stops after this many items

ASSUME RingAssumption ==
  /\ N \in Nat /\ N >= 2
  /\ Hists \subseteq [Readers -> 0..N-2]
  /\ MaxItems \in Nat

VARIABLES
  Dma,     \* TRUE: host-to-device or device-to-host; FALSE: device-to-device
  Hist,    \* Hist[r]: history() - 1 of reader r, the items it looks back at
  d_write_index,          \* in 0..N-1
  d_read_index,           \* of every reader, in 0..N-1
  nwritten,               \* items published by update_write_pointer
  nread,                  \* nitems_read() of every reader
  d_last_min_items_read,  \* what space_available last pruned up to
  tags,                   \* offsets of the stored tags; every item carries one
  wring,                  \* the memory the writer writes (host or device)
  rring,                  \* the memory the readers read (device or host)
  pc,                     \* where the writer's thread is
  claim                   \* noutput_items of the writer's current work call

setup == <<Dma, Hist>>
vars == <<setup, d_write_index, d_read_index, nwritten, nread,
          d_last_min_items_read, tags, wring, rring, pc, claim>>

Cells == 0..N-1
Blank == -1     \* a cell nothing was ever written to

-----------------------------------------------------------------------------
(* Index arithmetic.                                                       *)

\* Fault: the wrap is off by one.
index_add_late(a, b) == IF a + b > N THEN a + b - N ELSE a + b

index_add(a, b) == IF a + b >= N THEN a + b - N ELSE a + b

\* Fault: buffer_single_mapped::index_sub, which drops a.
index_sub_base(a, b) == IF a >= b THEN a - b ELSE N - b

index_sub(a, b) == IF a >= b THEN a - b ELSE N - b + a

\* History is preloaded: a new reader starts Hist[r] items behind the writer.
items_available(r) == index_sub(d_write_index, d_read_index[r])

\* Faults: no sentinel slot, and one slot too many.
space_available_all(n) ==
  n <= N /\ \A r \in Readers : n <= N - items_available(r)
space_available_less(n) ==
  n <= N - 1 /\ \A r \in Readers : n < N - items_available(r) - 1

\* The writer may produce n more items: n <= d_bufsize - most_data - 1, where
\* most_data is the number of items waiting for the slowest reader.
space_available(n) ==
  /\ n <= N - 1
  /\ \A r \in Readers : n <= N - items_available(r) - 1

-----------------------------------------------------------------------------
(* Memory.  An address v of the double mapping (0 <= v < 2N) reaches cell  *)
(* v or v - N, so the k-th item written from index a lands in              *)
(* index_add(a, k).  A DMA address is good only in the pinned half, v < N. *)

\* Fault: one copy that runs on into the second half of the mapping.
post_segments_whole(wi, n) == {[at |-> wi, len |-> n]}

\* The n addresses from wi on, as the copies post_work issues.
post_segments(wi, n) ==
  IF n <= N - wi
    THEN {[at |-> wi, len |-> n]}
    ELSE {[at |-> wi, len |-> N - wi], [at |-> 0, len |-> n - (N - wi)]}

Copied(segments) == UNION {seg.at..(seg.at + seg.len - 1) : seg \in segments}

-----------------------------------------------------------------------------
Init ==
  /\ Dma \in BOOLEAN /\ Hist \in Hists
  /\ d_write_index = 0
  /\ d_read_index = [r \in Readers |-> index_sub(0, Hist[r])]
  /\ nwritten = 0
  /\ nread = [r \in Readers |-> 0]
  /\ d_last_min_items_read = 0
  /\ tags = {}
  /\ wring = [c \in Cells |-> Blank]
  /\ rring = [c \in Cells |-> Blank]
  /\ pc = "idle"
  /\ claim = 0

\* Fault: the maximum instead of the minimum.
MaxItemsRead(m) ==
  /\ \E r \in Readers : m = nread[r]
  /\ \A r \in Readers : m >= nread[r]

\* m is the number of items every reader has consumed.
MinItemsRead(m) ==
  /\ \E r \in Readers : m = nread[r]
  /\ \A r \in Readers : m <= nread[r]

\* Fault: the tags are never pruned.
PruneTags_never == UNCHANGED <<d_last_min_items_read, tags>>

\* The tail of space_available: tags all readers have consumed are dropped,
\* up to the minimum of the previous call that saw it move.
PruneTags ==
  IF Readers = {}
    THEN UNCHANGED <<d_last_min_items_read, tags>>
    ELSE \E m \in 0..nwritten :
           /\ MinItemsRead(m)
           /\ IF m # d_last_min_items_read
                THEN /\ tags' = {t \in tags : t >= d_last_min_items_read}
                     /\ d_last_min_items_read' = m
                ELSE UNCHANGED <<d_last_min_items_read, tags>>

\* The scheduler asks for space, under the buffer's mutex, and hands the
\* block at most half of the ring.  With no space the thread goes to wait.
AskSpace(n) ==
  /\ pc = "idle"
  /\ nwritten + n <= MaxItems
  /\ space_available(n)
  /\ n <= N \div 2
  /\ PruneTags
  /\ claim' = n
  /\ pc' = "work"
  /\ UNCHANGED <<setup, d_write_index, d_read_index, nwritten, nread, wring,
                 rring>>

\* space_available is called also when it returns too little: it prunes.
AskInVain ==
  /\ pc = "idle"
  /\ nwritten < MaxItems
  /\ ~space_available(1)
  /\ PruneTags
  /\ UNCHANGED <<setup, d_write_index, d_read_index, nwritten, nread, wring,
                 rring, pc, claim>>

\* The work call writes claim items from write_pointer() on, and tags them.
Work ==
  /\ pc = "work"
  /\ wring' = [c \in Cells |->
                 IF index_sub(c, d_write_index) < claim
                   THEN nwritten + index_sub(c, d_write_index)
                   ELSE wring[c]]
  /\ rring' = IF Dma THEN rring ELSE wring'
  /\ tags' = tags \cup nwritten..(nwritten + claim - 1)
  /\ pc' = "post"
  /\ UNCHANGED <<setup, d_write_index, d_read_index, nwritten, nread,
                 d_last_min_items_read, claim>>

post_work ==
  /\ pc = "post"
  /\ rring' = IF Dma
                THEN [c \in Cells |->
                        IF c \in Copied(post_segments(d_write_index, claim))
                          THEN wring[c] ELSE rring[c]]
                ELSE rring
  /\ pc' = "publish"
  /\ UNCHANGED <<setup, d_write_index, d_read_index, nwritten, nread,
                 d_last_min_items_read, tags, wring, claim>>

update_write_pointer ==
  /\ pc = "publish"
  /\ d_write_index' = index_add(d_write_index, claim)
  /\ nwritten' = nwritten + claim
  /\ claim' = 0
  /\ pc' = "idle"
  /\ UNCHANGED <<setup, d_read_index, nread, d_last_min_items_read, tags, wring,
                 rring>>

\* Reader r has worked on n new items, with its history in front of them.
update_read_pointer(r, n) ==
  /\ n + Hist[r] <= items_available(r)
  /\ d_read_index' = [d_read_index EXCEPT ![r] = index_add(@, n)]
  /\ nread' = [nread EXCEPT ![r] = @ + n]
  /\ UNCHANGED <<setup, d_write_index, nwritten, d_last_min_items_read, tags,
                 wring, rring, pc, claim>>

Produce ==
  \/ \E n \in 1..N : AskSpace(n)
  \/ Work
  \/ post_work
  \/ update_write_pointer

Consume(r) == \E n \in 1..N : update_read_pointer(r, n)

Next ==
  \/ Produce
  \/ AskInVain
  \/ \E r \in Readers : Consume(r)

Spec == Init /\ [][Next]_vars

\* Every block has a thread of its own that the scheduler keeps running.
FairSpec ==
  /\ Spec
  /\ WF_vars(Produce)
  /\ \A r \in Readers : WF_vars(Consume(r))

-----------------------------------------------------------------------------
(* Properties.                                                             *)

TypeOK ==
  /\ Dma \in BOOLEAN /\ Hist \in Hists
  /\ d_write_index \in Cells
  /\ d_read_index \in [Readers -> Cells]
  /\ nwritten \in Nat
  /\ nread \in [Readers -> Nat]
  /\ d_last_min_items_read \in Nat
  /\ tags \in SUBSET Nat
  /\ wring \in [Cells -> Int]
  /\ rring \in [Cells -> Int]
  /\ pc \in {"idle", "work", "post", "publish"}
  /\ claim \in 0..N

\* The modular indices never lose count: what index_sub says is waiting for a
\* reader is what was produced and not consumed, plus its history.  A reader
\* is never lapped, and a full ring is never mistaken for an empty one.
CountsAgree ==
  \A r \in Readers : items_available(r) = nwritten - nread[r] + Hist[r]

\* Every item that waits for a reader, its history included, is intact in the
\* memory that reader reads, at the cell its index and the double mapping lead
\* to, also while the writer is in the middle of its next work call.
ReadersFindTheirItems ==
  \A r \in Readers : \A i \in 0..N-1 :
    LET item == nread[r] - Hist[r] + i
    IN (i < items_available(r) /\ item >= 0)
         => rring[index_add(d_read_index[r], i)] = item

\* The copies of post_work stay in the pinned half of the host mapping
\* (register_pinned pins N of the 2N bytes) and do not overlap.
CopiesStayPinned ==
  LET segs == post_segments(d_write_index, claim)
  IN pc = "post" =>
       /\ Copied(segs) \subseteq Cells
       /\ \A s, t \in segs : s # t => s.at + s.len <= t.at \/ t.at + t.len <= s.at

\* space_available drops no tag of an item that some reader has still to consume.
NoTagLost ==
  \A t \in 0..(nwritten - 1) :
    (\E r \in Readers : t >= nread[r]) => t \in tags

\* Tags do not pile up: pruning lags behind by one move of the slowest reader,
\* so at most 2(N-1) items have a tag stored.
TagBacklogBounded ==
  Readers # {} => \A t \in tags : t + 2 * (N - 1) >= nwritten + claim

\* No dead zone: whatever the histories of the readers, the writer can always
\* go on and every reader gets every item.
AllDelivered == <>(\A r \in Readers : nread[r] = MaxItems)

-----------------------------------------------------------------------------
(* The ring implements the FIFO its users see.                             *)

Fifo == INSTANCE RingFifo WITH
  Capacity <- N - 1,
  sent <- nwritten,
  queue <- [r \in Readers |->
              [i \in 1..(nwritten - nread[r]) |->
                 rring[index_add(index_add(d_read_index[r], Hist[r]), i - 1)]]]

FifoSpec == Fifo!Spec
=============================================================================
