--------------------------- MODULE CudaRingProofs ---------------------------
(***************************************************************************)
(* Proofs about CudaRing, for every ring size, set of readers and history. *)
(* The inductive invariant Inv says, cell by cell, which item a ring holds *)
(* relative to the write index; what a reader finds follows from the fact  *)
(* that index_sub counts the items between two indices.                    *)
(***************************************************************************)
EXTENDS CudaRing, SequenceTheorems, TLAPS

-----------------------------------------------------------------------------
(* The inductive invariant.                                                *)

\* While a work call is in progress, it has claimed free cells only.
ClaimFits ==
  /\ pc = "idle" => claim = 0
  /\ pc # "idle" => claim >= 1 /\ claim <= N - 1
  /\ pc # "idle" => \A r \in Readers : claim + items_available(r) <= N - 1

NothingReadAhead == \A r \in Readers : nread[r] <= nwritten

\* The cells behind the write index hold the last items published, the cells
\* claimed by a work call excepted.
CellsBehind ==
  \A c \in Cells : LET off == index_sub(d_write_index, c) IN
    (off >= 1 /\ off <= N - claim /\ off <= nwritten) => rring[c] = nwritten - off

\* The claimed cells hold the items of the call: in the writer's ring when
\* post_work begins, in the readers' ring when it has ended.
CellsAhead ==
  \A c \in Cells : LET off == index_sub(c, d_write_index) IN off < claim =>
    /\ pc = "post" => wring[c] = nwritten + off
    /\ (pc = "publish" \/ (pc = "post" /\ ~Dma)) => rring[c] = nwritten + off

\* Without DMA the writer and the readers share one memory.
OneMemory == ~Dma => wring = rring

Inv == /\ TypeOK /\ ClaimFits /\ NothingReadAhead /\ CountsAgree
       /\ CellsBehind /\ CellsAhead /\ OneMemory

-----------------------------------------------------------------------------
(* Index arithmetic.                                                       *)

\* The indices stay in the ring, and so do the distances between them.
LEMMA AddRange ==
  ASSUME NEW a \in Cells, NEW n \in 0..N
  PROVE  index_add(a, n) \in Cells
  BY RingAssumption DEF Cells, index_add

LEMMA SubRange ==
  ASSUME NEW a \in Cells, NEW b \in Cells
  PROVE  index_sub(a, b) \in Cells
  BY RingAssumption DEF Cells, index_sub

\* Moving the write index on adds to the items between the indices, as long as
\* it does not reach the read index from behind.
LEMMA AddToWriter ==
  ASSUME NEW a \in Cells, NEW b \in Cells, NEW n \in 0..N,
         index_sub(a, b) + n <= N - 1
  PROVE  index_sub(index_add(a, n), b) = index_sub(a, b) + n
  BY RingAssumption DEF Cells, index_add, index_sub

\* Moving the read index on takes from them.
LEMMA AddToReader ==
  ASSUME NEW a \in Cells, NEW b \in Cells, NEW n \in 0..N,
         n <= index_sub(a, b)
  PROVE  index_sub(a, index_add(b, n)) = index_sub(a, b) - n
  BY RingAssumption DEF Cells, index_add, index_sub

\* The distances from a to b and from b to a add up to the ring.
LEMMA SubIsAntisymmetric ==
  ASSUME NEW a \in Cells, NEW b \in Cells
  PROVE  /\ a = b => index_sub(a, b) = 0
         /\ a # b => index_sub(a, b) + index_sub(b, a) = N
  BY RingAssumption DEF Cells, index_sub

\* A cell just passed by the write index was ahead of it before.
LEMMA PassedCell ==
  ASSUME NEW a \in Cells, NEW c \in Cells, NEW n \in 0..(N - 1)
  PROVE  LET off == index_sub(index_add(a, n), c)
         IN /\ (off >= 1 /\ off <= n) => index_sub(c, a) = n - off
            /\ off > n => index_sub(a, c) = off - n
  BY RingAssumption DEF Cells, index_add, index_sub

\* The copies of post_work cover exactly the claimed cells.
LEMMA SegmentsCoverClaim ==
  ASSUME NEW a \in Cells, NEW n \in 0..(N - 1)
  PROVE  \A c \in Cells : c \in Copied(post_segments(a, n)) <=> index_sub(c, a) < n
<1> TAKE c \in Cells
<1>1. CASE n <= N - a
  <2>1. Copied(post_segments(a, n)) = a..(a + n - 1)
    BY <1>1 DEF Copied, post_segments
  <2> QED
    BY <1>1, <2>1, RingAssumption DEF Cells, index_sub
<1>2. CASE ~(n <= N - a)
  <2>1. Copied(post_segments(a, n)) = a..(a + (N - a) - 1) \cup 0..(0 + (n - (N - a)) - 1)
    BY <1>2 DEF Copied, post_segments
  <2> QED
    BY <1>2, <2>1, RingAssumption DEF Cells, index_sub
<1> QED
  BY <1>1, <1>2

-----------------------------------------------------------------------------
LEMMA InitInv == Init => Inv
<1> SUFFICES ASSUME Init PROVE Inv
  OBVIOUS
<1> USE RingAssumption
<1>1. \A r \in Readers : Hist[r] \in Nat /\ Hist[r] <= N - 2
  BY DEF Init
<1>2. TypeOK
  BY <1>1 DEF Init, TypeOK, Cells, index_sub, Blank
<1>3. CountsAgree
  BY <1>1 DEF Init, CountsAgree, items_available, index_sub, Cells
<1>4. ClaimFits /\ NothingReadAhead /\ CellsAhead /\ OneMemory
  BY DEF Init, ClaimFits, NothingReadAhead, CellsAhead, OneMemory, index_sub, Cells
<1>5. CellsBehind
  BY DEF Init, CellsBehind, index_sub, Cells
<1> QED
  BY <1>2, <1>3, <1>4, <1>5 DEF Inv

\* PruneTags keeps the types and touches nothing else of the invariant.
LEMMA PruneTypes ==
  TypeOK /\ PruneTags => d_last_min_items_read' \in Nat /\ tags' \in SUBSET Nat
<1> SUFFICES ASSUME TypeOK, PruneTags
             PROVE  d_last_min_items_read' \in Nat /\ tags' \in SUBSET Nat
  OBVIOUS
<1>1. d_last_min_items_read \in Nat /\ tags \in SUBSET Nat /\ nwritten \in Nat
  BY DEF TypeOK
<1>2. CASE UNCHANGED <<d_last_min_items_read, tags>>
  BY <1>1, <1>2
<1>3. CASE \E m \in 0..nwritten :
             /\ tags' = {t \in tags : t >= d_last_min_items_read}
             /\ d_last_min_items_read' = m
  <2>1. PICK m \in 0..nwritten : /\ tags' = {t \in tags : t >= d_last_min_items_read}
                                 /\ d_last_min_items_read' = m
    BY <1>3
  <2>2. d_last_min_items_read' \in Nat
    BY <1>1, <2>1
  <2>3. tags' \in SUBSET Nat
    BY <1>1, <2>1
  <2> QED
    BY <2>2, <2>3
<1> QED
  BY <1>2, <1>3 DEF PruneTags

LEMMA NextInv == Inv /\ [Next]_vars => Inv'
<1> SUFFICES ASSUME Inv, [Next]_vars PROVE Inv'
  OBVIOUS
<1> USE RingAssumption
<1> USE DEF Inv
<1>1. ASSUME NEW n \in 1..N, AskSpace(n) PROVE Inv'
  <2>1. TypeOK'
    BY <1>1, PruneTypes DEF AskSpace, setup, TypeOK
  <2>2. ClaimFits'
    <3>1. \A r \in Readers : items_available(r) \in Cells
      BY SubRange DEF TypeOK, items_available
    <3>2. \A r \in Readers : items_available(r)' = items_available(r)
      BY <1>1 DEF AskSpace, setup, items_available
    <3>3. claim' = n /\ pc' = "work" /\ space_available(n)
      BY <1>1 DEF AskSpace, setup
    <3> QED
      BY <3>1, <3>2, <3>3 DEF ClaimFits, space_available, Cells
  <2>3. NothingReadAhead' /\ CountsAgree'
    BY <1>1 DEF AskSpace, setup, NothingReadAhead, CountsAgree, items_available
  <2>4. CellsBehind'
    <3> SUFFICES ASSUME NEW c \in Cells,
                        index_sub(d_write_index, c) >= 1,
                        index_sub(d_write_index, c) <= N - n,
                        index_sub(d_write_index, c) <= nwritten
                 PROVE  rring[c] = nwritten - index_sub(d_write_index, c)
      BY <1>1 DEF AskSpace, setup, CellsBehind
    <3>1. index_sub(d_write_index, c) \in Cells /\ claim = 0
      BY <1>1, SubRange DEF AskSpace, setup, ClaimFits, TypeOK
    <3> QED
      BY <3>1 DEF CellsBehind, Cells
  <2>5. CellsAhead' /\ OneMemory'
    BY <1>1 DEF AskSpace, setup, CellsAhead, OneMemory
  <2> QED
    BY <2>1, <2>2, <2>3, <2>4, <2>5
<1>2. ASSUME AskInVain PROVE Inv'
  <2>1. TypeOK'
    BY <1>2, PruneTypes DEF AskInVain, setup, TypeOK
  <2> QED
    BY <1>2, <2>1 DEF AskInVain, setup, ClaimFits, NothingReadAhead, CountsAgree,
                      CellsBehind, CellsAhead, OneMemory, items_available
<1>3. ASSUME Work PROVE Inv'
  <2>1. TypeOK'
    <3>1. \A c \in Cells : nwritten + index_sub(c, d_write_index) \in Int
      <4> TAKE c \in Cells
      <4>1. nwritten \in Int /\ \A i \in Cells : i \in Int
        BY DEF TypeOK, Cells
      <4>2. index_sub(c, d_write_index) \in Cells
        BY SubRange DEF TypeOK
      <4> QED
        BY <4>1, <4>2
    <3>2. wring' \in [Cells -> Int] /\ rring' \in [Cells -> Int]
      BY <1>3, <3>1 DEF Work, setup, TypeOK
    <3>3. tags' \in SUBSET Nat
      BY <1>3 DEF Work, setup, TypeOK
    <3> QED
      BY <1>3, <3>2, <3>3 DEF Work, setup, TypeOK
  <2>2. ClaimFits' /\ NothingReadAhead' /\ CountsAgree'
    BY <1>3 DEF Work, setup, ClaimFits, NothingReadAhead, CountsAgree, items_available
  <2>3. CellsBehind'
    <3> SUFFICES ASSUME NEW c \in Cells,
                        index_sub(d_write_index, c) >= 1,
                        index_sub(d_write_index, c) <= N - claim,
                        index_sub(d_write_index, c) <= nwritten
                 PROVE  rring'[c] = nwritten - index_sub(d_write_index, c)
      BY <1>3 DEF Work, setup, CellsBehind
    <3>1. ~(index_sub(c, d_write_index) < claim)
      <4>1. /\ d_write_index \in Cells /\ claim \in Int
            /\ index_sub(c, d_write_index) \in Int /\ index_sub(d_write_index, c) \in Int
        BY SubRange DEF TypeOK, Cells
      <4>2. c # d_write_index
        BY <4>1, SubIsAntisymmetric
      <4> QED
        BY <4>1, <4>2, SubIsAntisymmetric
    <3>2. rring'[c] = rring[c]
      BY <1>3, <3>1 DEF Work, setup, OneMemory
    <3> QED
      BY <3>2 DEF CellsBehind
  <2>4. CellsAhead' /\ OneMemory'
    BY <1>3 DEF Work, setup, CellsAhead, OneMemory, TypeOK
  <2> QED
    BY <2>1, <2>2, <2>3, <2>4
<1>4. ASSUME post_work PROVE Inv'
  <2>1. TypeOK'
    BY <1>4 DEF post_work, setup, TypeOK
  <2>2. ClaimFits' /\ NothingReadAhead' /\ CountsAgree'
    BY <1>4 DEF post_work, setup, ClaimFits, NothingReadAhead, CountsAgree, items_available
  <2>3. claim \in 0..(N - 1) /\ d_write_index \in Cells
    BY <1>4 DEF post_work, setup, ClaimFits, TypeOK
  <2>4. \A c \in Cells :
          rring'[c] = IF Dma /\ index_sub(c, d_write_index) < claim THEN wring[c] ELSE rring[c]
    BY <1>4, <2>3, SegmentsCoverClaim DEF post_work, setup
  <2>5. CellsBehind'
    <3> SUFFICES ASSUME NEW c \in Cells,
                        index_sub(d_write_index, c) >= 1,
                        index_sub(d_write_index, c) <= N - claim,
                        index_sub(d_write_index, c) <= nwritten
                 PROVE  rring'[c] = nwritten - index_sub(d_write_index, c)
      BY <1>4 DEF post_work, setup, CellsBehind
    <3>1. ~(index_sub(c, d_write_index) < claim)
      <4>1. /\ d_write_index \in Cells /\ claim \in Int
            /\ index_sub(c, d_write_index) \in Int /\ index_sub(d_write_index, c) \in Int
        BY SubRange DEF TypeOK, Cells
      <4>2. c # d_write_index
        BY <4>1, SubIsAntisymmetric
      <4> QED
        BY <4>1, <4>2, SubIsAntisymmetric
    <3> QED
      BY <2>4, <3>1 DEF CellsBehind
  <2>6. CellsAhead' /\ OneMemory'
    BY <1>4, <2>4 DEF post_work, setup, CellsAhead, OneMemory
  <2> QED
    BY <2>1, <2>2, <2>5, <2>6
<1>5. ASSUME update_write_pointer PROVE Inv'
  <2>1. claim \in 1..(N - 1) /\ d_write_index \in Cells /\ nwritten \in Nat
    BY <1>5 DEF update_write_pointer, setup, ClaimFits, TypeOK
  <2>2. TypeOK'
    BY <1>5, <2>1, AddRange, SubRange DEF update_write_pointer, setup, TypeOK
  <2>3. ClaimFits' /\ NothingReadAhead'
    BY <1>5, <2>1 DEF update_write_pointer, setup, ClaimFits, NothingReadAhead, TypeOK
  <2>4. CountsAgree'
    <3> SUFFICES ASSUME NEW r \in Readers
                 PROVE  items_available(r)' = nwritten' - nread'[r] + Hist[r]
      BY <1>5 DEF update_write_pointer, setup, CountsAgree
    <3>1. d_read_index[r] \in Cells /\ nread[r] \in Nat /\ Hist[r] \in Nat
      BY DEF TypeOK
    <3>2. claim + items_available(r) <= N - 1
      BY <1>5, <2>1 DEF update_write_pointer, setup, ClaimFits
    <3>3. items_available(r)' = items_available(r) + claim
      <4>1. items_available(r)' = index_sub(index_add(d_write_index, claim), d_read_index[r])
        BY <1>5 DEF update_write_pointer, setup, items_available
      <4>2. index_sub(d_write_index, d_read_index[r]) \in Int
        BY <2>1, <3>1, SubRange DEF Cells
      <4>3. index_sub(d_write_index, d_read_index[r]) + claim <= N - 1
        BY <2>1, <3>2, <4>2 DEF items_available
      <4> QED
        BY <2>1, <3>1, <4>1, <4>3, AddToWriter DEF items_available
    <3> QED
      BY <1>5, <2>1, <3>1, <3>3 DEF update_write_pointer, setup, CountsAgree
  <2>5. CellsBehind'
    <3> DEFINE wi == index_add(d_write_index, claim)
    <3>a. /\ d_write_index' = wi /\ nwritten' = nwritten + claim
          /\ rring' = rring /\ claim' = 0
      BY <1>5 DEF update_write_pointer, setup
    <3> SUFFICES ASSUME NEW c \in Cells,
                        index_sub(d_write_index', c) >= 1,
                        index_sub(d_write_index', c) <= nwritten'
                 PROVE  rring'[c] = nwritten' - index_sub(d_write_index', c)
      BY DEF CellsBehind
    <3>0. /\ index_sub(wi, c) >= 1 /\ index_sub(wi, c) <= nwritten + claim
          /\ rring'[c] = rring[c]
      BY <3>a
    <3>1. wi \in Cells /\ index_sub(wi, c) \in Cells
      BY <2>1, AddRange, SubRange
    <3>2. CASE index_sub(wi, c) <= claim
      <4>1. index_sub(c, d_write_index) = claim - index_sub(wi, c)
        BY <2>1, <3>0, <3>2, PassedCell
      <4> QED
        BY <1>5, <2>1, <3>a, <3>0, <3>1, <4>1 DEF update_write_pointer, setup, CellsAhead, Cells
    <3>3. CASE index_sub(wi, c) > claim
      <4>1. index_sub(d_write_index, c) = index_sub(wi, c) - claim
        BY <2>1, <3>3, PassedCell
      <4> QED
        BY <2>1, <3>a, <3>0, <3>1, <3>3, <4>1 DEF CellsBehind, Cells
    <3> QED
      BY <2>1, <3>1, <3>2, <3>3 DEF Cells
  <2>6. CellsAhead' /\ OneMemory'
    BY <1>5, <2>2, SubRange DEF update_write_pointer, setup, CellsAhead,
                                OneMemory, TypeOK, Cells
  <2> QED
    BY <2>2, <2>3, <2>4, <2>5, <2>6
<1>6. ASSUME NEW r \in Readers, NEW n \in 1..N, update_read_pointer(r, n) PROVE Inv'
  <2>1. /\ d_read_index[r] \in Cells /\ nread[r] \in Nat /\ Hist[r] \in Nat
        /\ d_write_index \in Cells /\ nwritten \in Nat /\ items_available(r) \in Cells
    BY AddRange, SubRange DEF TypeOK, items_available
  <2>2. TypeOK'
    <3>1. index_add(d_read_index[r], n) \in Cells
      BY <2>1, AddRange
    <3> QED
      BY <1>6, <2>1, <3>1 DEF update_read_pointer, setup, TypeOK
  <2>3. items_available(r)' = items_available(r) - n
    <3>1. items_available(r)' = index_sub(d_write_index, index_add(d_read_index[r], n))
      BY <1>6 DEF update_read_pointer, setup, items_available, TypeOK
    <3>2. n <= items_available(r)
      BY <1>6, <2>1 DEF update_read_pointer, setup, Cells
    <3> QED
      BY <2>1, <3>1, <3>2, AddToReader DEF items_available
  <2>4. \A q \in Readers : q # r =>
          items_available(q)' = items_available(q) /\ nread'[q] = nread[q]
    BY <1>6 DEF update_read_pointer, setup, items_available, TypeOK
  <2>5. nread'[r] = nread[r] + n
    BY <1>6 DEF update_read_pointer, setup, TypeOK
  <2>6. CountsAgree'
    BY <1>6, <2>1, <2>3, <2>4, <2>5 DEF update_read_pointer, setup, CountsAgree, Cells
  <2>7. NothingReadAhead'
    BY <1>6, <2>1, <2>4, <2>5 DEF update_read_pointer, setup, NothingReadAhead,
                                  CountsAgree, Cells
  <2>8. ClaimFits'
    <3> SUFFICES ASSUME pc # "idle", NEW q \in Readers
                 PROVE  claim + items_available(q)' <= N - 1
      BY <1>6 DEF update_read_pointer, setup, ClaimFits
    <3>1. claim \in Nat /\ claim + items_available(q) <= N - 1
      BY DEF ClaimFits, TypeOK
    <3> QED
      BY <2>1, <2>3, <2>4, <3>1 DEF Cells
  <2>9. CellsBehind' /\ CellsAhead' /\ OneMemory'
    BY <1>6 DEF update_read_pointer, setup, CellsBehind, CellsAhead, OneMemory
  <2> QED
    BY <2>2, <2>6, <2>7, <2>8, <2>9
<1>7. ASSUME UNCHANGED vars PROVE Inv'
  BY <1>7 DEF vars, setup, TypeOK, ClaimFits, NothingReadAhead, CountsAgree, CellsBehind,
              CellsAhead, OneMemory, items_available
<1> QED
  BY <1>1, <1>2, <1>3, <1>4, <1>5, <1>6, <1>7 DEF Next, Produce, Consume

-----------------------------------------------------------------------------
(* Theorems.                                                               *)

\* The invariant holds in every reachable state.
THEOREM Invariance == Spec => []Inv
  BY InitInv, NextInv, PTL DEF Spec

\* The state of the ring always has its types; the indices stay in 0..N-1.
THEOREM Typing == Spec => []TypeOK
  BY Invariance, PTL DEF Inv

\* For every ring size, readers and histories, index_sub never loses count of
\* the items that wait for a reader.
THEOREM CountsAlwaysAgree == Spec => []CountsAgree
  BY Invariance, PTL DEF Inv

\* For every ring size, readers and histories, with and without DMA: all that
\* waits for a reader is intact at the cell where it looks for it.
THEOREM ReadersAlwaysFindTheirItems == Spec => []ReadersFindTheirItems
<1>1. Inv => ReadersFindTheirItems
  <2> SUFFICES ASSUME Inv, NEW r \in Readers, NEW i \in 0..N-1,
                      i < items_available(r), nread[r] - Hist[r] + i >= 0
               PROVE  rring[index_add(d_read_index[r], i)] = nread[r] - Hist[r] + i
    BY DEF ReadersFindTheirItems
  <2> USE RingAssumption
  <2> DEFINE c == index_add(d_read_index[r], i)
  <2>1. /\ d_read_index[r] \in Cells /\ nread[r] \in Nat /\ Hist[r] \in Nat
        /\ d_write_index \in Cells /\ nwritten \in Nat /\ claim \in 0..N
    BY DEF Inv, TypeOK
  <2>2. c \in Cells /\ items_available(r) \in Cells
    BY <2>1, AddRange, SubRange DEF items_available, Cells
  <2>3. index_sub(d_write_index, c) = items_available(r) - i
    <3>1. i \in 0..N /\ i <= index_sub(d_write_index, d_read_index[r])
      BY <2>2 DEF items_available, Cells
    <3> QED
      BY <2>1, <3>1, AddToReader DEF items_available
  <2>4. claim + items_available(r) <= N - 1
    BY <2>1, <2>2 DEF Inv, ClaimFits, Cells
  <2>5. items_available(r) = nwritten - nread[r] + Hist[r]
    BY DEF Inv, CountsAgree
  <2> QED
    BY <2>1, <2>2, <2>3, <2>4, <2>5 DEF Inv, CellsBehind, Cells
<1> QED
  BY <1>1, Invariance, PTL

\* For every ring size: the copies of post_work never leave the pinned half of
\* the host mapping, and never overlap.
THEOREM CopiesAlwaysStayPinned == Spec => []CopiesStayPinned
<1>1. Inv => CopiesStayPinned
  <2> SUFFICES ASSUME Inv, pc = "post" PROVE CopiesStayPinned
    BY DEF CopiesStayPinned
  <2>1. claim \in 1..(N - 1) /\ d_write_index \in Cells /\ N \in Nat
    BY RingAssumption DEF Inv, TypeOK, ClaimFits
  <2>2. CASE claim <= N - d_write_index
    BY <2>1, <2>2 DEF CopiesStayPinned, Copied, post_segments, Cells
  <2>3. CASE ~(claim <= N - d_write_index)
    BY <2>1, <2>3 DEF CopiesStayPinned, Copied, post_segments, Cells
  <2> QED
    BY <2>2, <2>3
<1> QED
  BY <1>1, Invariance, PTL

-----------------------------------------------------------------------------
(* Tags.                                                                   *)

\* What the last pruning saw of the slowest reader is still behind all readers,
\* and no more than a ring behind the writer.
PruneIsBehind ==
  /\ \A r \in Readers : d_last_min_items_read <= nread[r]
  /\ Readers # {} => nwritten + claim <= d_last_min_items_read + (N - 1)

\* A work call has tagged its items when it ends.
ClaimIsTagged ==
  pc \in {"post", "publish"} => nwritten..(nwritten + claim - 1) \subseteq tags

\* The tags reach back to the pruning before the last one, not further.
TagsAreRecent ==
  Readers # {} => \A t \in tags : t + (N - 1) >= d_last_min_items_read

TagInv == NoTagLost /\ PruneIsBehind /\ ClaimIsTagged /\ TagsAreRecent

\* One pruning: it drops no tag a reader still needs.
LEMMA PruneKeeps ==
  ASSUME Inv, TagInv, PruneTags, nread' = nread, nwritten' = nwritten
  PROVE  /\ \A r \in Readers : d_last_min_items_read' <= nread[r]
         /\ d_last_min_items_read' >= d_last_min_items_read
         /\ \A t \in tags : (\E r \in Readers : t >= nread[r]) => t \in tags'
         /\ tags' \subseteq tags
         /\ Readers # {} => \A t \in tags' : t + (N - 1) >= d_last_min_items_read'
<1> USE RingAssumption
<1>0. /\ d_last_min_items_read \in Nat /\ tags \subseteq Nat /\ nwritten \in Nat
      /\ \A r \in Readers : nread[r] \in Nat /\ nread[r] <= nwritten
      /\ claim \in Nat
  BY DEF Inv, TypeOK, NothingReadAhead
<1>1. CASE UNCHANGED <<d_last_min_items_read, tags>>
  BY <1>0, <1>1 DEF TagInv, PruneIsBehind, TagsAreRecent
<1>2. ASSUME Readers # {}, NEW m \in 0..nwritten, MinItemsRead(m),
             tags' = {t \in tags : t >= d_last_min_items_read},
             d_last_min_items_read' = m
      PROVE  /\ \A r \in Readers : d_last_min_items_read' <= nread[r]
             /\ d_last_min_items_read' >= d_last_min_items_read
             /\ \A t \in tags : (\E r \in Readers : t >= nread[r]) => t \in tags'
             /\ tags' \subseteq tags
             /\ \A t \in tags' : t + (N - 1) >= d_last_min_items_read'
  <2>1. \A r \in Readers : d_last_min_items_read <= nread[r]
    BY DEF TagInv, PruneIsBehind
  <2>2. nwritten + claim <= d_last_min_items_read + (N - 1)
    BY <1>2 DEF TagInv, PruneIsBehind
  <2>3. /\ \A r \in Readers : m <= nread[r]
        /\ m >= d_last_min_items_read
    BY <1>2, <2>1 DEF MinItemsRead
  <2>4. \A t \in tags' : t + (N - 1) >= m
    BY <1>0, <1>2, <2>2
  <2> QED
    BY <1>0, <1>2, <2>1, <2>3, <2>4
<1> QED
  BY <1>1, <1>2 DEF PruneTags

LEMMA TagInit == Init => TagInv
<1> SUFFICES ASSUME Init PROVE TagInv
  OBVIOUS
<1>1. nwritten = 0 /\ claim = 0 /\ tags = {} /\ d_last_min_items_read = 0
  BY DEF Init
<1>2. NoTagLost
  BY <1>1 DEF NoTagLost
<1> QED
  BY <1>1, <1>2, RingAssumption DEF Init, TagInv, PruneIsBehind, ClaimIsTagged, TagsAreRecent

LEMMA TagNext == Inv /\ TagInv /\ [Next]_vars => TagInv'
<1> SUFFICES ASSUME Inv, TagInv, [Next]_vars PROVE TagInv'
  OBVIOUS
<1> USE RingAssumption
<1>0. /\ d_last_min_items_read \in Nat /\ tags \subseteq Nat /\ nwritten \in Nat
      /\ \A r \in Readers : nread[r] \in Nat /\ nread[r] <= nwritten
      /\ claim \in Nat
  BY DEF Inv, TypeOK, NothingReadAhead
<1>1. ASSUME NEW n \in 1..N, AskSpace(n) PROVE TagInv'
  <2>1. /\ nread' = nread /\ nwritten' = nwritten /\ PruneTags /\ claim' = n
        /\ pc = "idle" /\ pc' = "work" /\ space_available(n)
    BY <1>1 DEF AskSpace, setup
  <2>2. /\ \A r \in Readers : d_last_min_items_read' <= nread[r]
        /\ \A t \in tags : (\E r \in Readers : t >= nread[r]) => t \in tags'
        /\ Readers # {} => \A t \in tags' : t + (N - 1) >= d_last_min_items_read'
    BY <2>1, PruneKeeps
  <2>3. Readers # {} => nwritten + n <= d_last_min_items_read' + (N - 1)
    <3> SUFFICES ASSUME Readers # {}
                 PROVE  nwritten + n <= d_last_min_items_read' + (N - 1)
      OBVIOUS
    <3>1. PICK m \in 0..nwritten : MinItemsRead(m) /\ d_last_min_items_read' = m
      BY <2>1 DEF PruneTags
    <3>2. PICK r \in Readers : m = nread[r]
      BY <3>1 DEF MinItemsRead
    <3>3. /\ items_available(r) = nwritten - nread[r] + Hist[r]
          /\ Hist[r] \in Nat
      BY DEF Inv, CountsAgree, TypeOK
    <3>4. n <= N - items_available(r) - 1
      BY <2>1 DEF space_available
    <3> QED
      BY <1>0, <3>1, <3>2, <3>3, <3>4
  <2>4. NoTagLost'
    BY <1>0, <2>1, <2>2 DEF TagInv, NoTagLost
  <2> QED
    BY <2>1, <2>2, <2>3, <2>4 DEF TagInv, PruneIsBehind, ClaimIsTagged, TagsAreRecent
<1>2. ASSUME AskInVain PROVE TagInv'
  <2>1. /\ nread' = nread /\ nwritten' = nwritten /\ PruneTags /\ claim' = claim
        /\ pc = "idle" /\ pc' = pc
    BY <1>2 DEF AskInVain, setup
  <2>2. /\ \A r \in Readers : d_last_min_items_read' <= nread[r]
        /\ d_last_min_items_read' >= d_last_min_items_read
        /\ \A t \in tags : (\E r \in Readers : t >= nread[r]) => t \in tags'
        /\ Readers # {} => \A t \in tags' : t + (N - 1) >= d_last_min_items_read'
    BY <2>1, PruneKeeps
  <2>3. d_last_min_items_read' \in Nat
    BY <2>1, PruneTypes DEF Inv
  <2>4. NoTagLost'
    BY <1>0, <2>1, <2>2 DEF TagInv, NoTagLost
  <2>5. PruneIsBehind'
    <3>1. Readers # {} => nwritten + claim <= d_last_min_items_read + (N - 1)
      BY DEF TagInv, PruneIsBehind
    <3>2. ASSUME Readers # {}
          PROVE  nwritten + claim <= d_last_min_items_read' + (N - 1)
      <4> DEFINE d == d_last_min_items_read
                 e == d_last_min_items_read'
      <4>1. d \in Nat /\ e \in Nat /\ e >= d /\ nwritten + claim <= d + (N - 1)
        BY <2>2, <2>3, <3>1, <3>2 DEF Inv, TypeOK
      <4>2. nwritten \in Nat /\ claim \in Nat /\ N \in Nat
        BY <1>0, RingAssumption DEF Inv, TypeOK
      <4> HIDE DEF d, e
      <4>3. nwritten + claim <= e + (N - 1)
        BY <4>1, <4>2
      <4> QED
        BY <4>3 DEF e
    <3> QED
      BY <2>1, <2>2, <3>2 DEF PruneIsBehind
  <2> QED
    BY <2>1, <2>2, <2>4, <2>5 DEF TagInv, ClaimIsTagged, TagsAreRecent
<1>3. ASSUME Work PROVE TagInv'
  <2>1. /\ nread' = nread /\ nwritten' = nwritten /\ claim' = claim
        /\ d_last_min_items_read' = d_last_min_items_read
        /\ tags' = tags \cup nwritten..(nwritten + claim - 1)
    BY <1>3 DEF Work, setup
  <2>2. Readers # {} => d_last_min_items_read <= nwritten
    BY <1>0 DEF TagInv, PruneIsBehind
  <2>3. TagsAreRecent'
    BY <1>0, <2>1, <2>2 DEF TagInv, TagsAreRecent
  <2> QED
    BY <2>1, <2>3 DEF TagInv, NoTagLost, PruneIsBehind, ClaimIsTagged
<1>4. ASSUME post_work PROVE TagInv'
  BY <1>4 DEF post_work, setup, TagInv, NoTagLost, PruneIsBehind, ClaimIsTagged, TagsAreRecent
<1>5. ASSUME update_write_pointer PROVE TagInv'
  <2>1. /\ nread' = nread /\ nwritten' = nwritten + claim /\ claim' = 0
        /\ d_last_min_items_read' = d_last_min_items_read /\ tags' = tags
        /\ pc = "publish" /\ pc' = "idle"
    BY <1>5 DEF update_write_pointer, setup
  <2>2. NoTagLost'
    BY <1>0, <2>1 DEF TagInv, NoTagLost, ClaimIsTagged
  <2>3. PruneIsBehind'
    BY <1>0, <2>1 DEF TagInv, PruneIsBehind
  <2> QED
    BY <2>1, <2>2, <2>3 DEF TagInv, ClaimIsTagged, TagsAreRecent
<1>6. ASSUME NEW r \in Readers, NEW n \in 1..N, update_read_pointer(r, n) PROVE TagInv'
  <2>1. /\ nwritten' = nwritten /\ claim' = claim /\ tags' = tags /\ pc' = pc
        /\ d_last_min_items_read' = d_last_min_items_read
        /\ \A q \in Readers : nread'[q] \in Nat /\ nread'[q] >= nread[q]
    BY <1>0, <1>6 DEF update_read_pointer, setup, Inv, TypeOK
  <2>2. NoTagLost'
    BY <1>0, <2>1 DEF TagInv, NoTagLost
  <2>3. PruneIsBehind'
    BY <1>0, <2>1 DEF TagInv, PruneIsBehind
  <2> QED
    BY <2>1, <2>2, <2>3 DEF TagInv, ClaimIsTagged, TagsAreRecent
<1>7. ASSUME UNCHANGED vars PROVE TagInv'
  BY <1>7 DEF vars, setup, TagInv, NoTagLost, PruneIsBehind, ClaimIsTagged, TagsAreRecent
<1> QED
  BY <1>1, <1>2, <1>3, <1>4, <1>5, <1>6, <1>7 DEF Next, Produce, Consume

\* For every ring and any readers, space_available drops no tag of an item that
\* some reader has still to consume.
THEOREM NoTagIsLost == Spec => []NoTagLost
<1>1. Spec => [](Inv /\ TagInv)
  BY InitInv, NextInv, TagInit, TagNext, PTL DEF Spec
<1> QED
  BY <1>1, PTL DEF TagInv

\* For every ring and any readers, no more than 2(N-1) items have a tag stored.
THEOREM TagBacklogIsBounded == Spec => []TagBacklogBounded
<1>1. Spec => [](Inv /\ TagInv)
  BY InitInv, NextInv, TagInit, TagNext, PTL DEF Spec
<1>2. Inv /\ TagInv => TagBacklogBounded
  <2> SUFFICES ASSUME Inv, TagInv, Readers # {}, NEW t \in tags
               PROVE  t + 2 * (N - 1) >= nwritten + claim
    BY DEF TagBacklogBounded
  <2>1. /\ d_last_min_items_read \in Nat /\ nwritten \in Nat /\ claim \in Nat
        /\ t \in Nat /\ N \in Nat
    BY RingAssumption DEF Inv, TypeOK
  <2>2. /\ nwritten + claim <= d_last_min_items_read + (N - 1)
        /\ t + (N - 1) >= d_last_min_items_read
    BY DEF TagInv, PruneIsBehind, TagsAreRecent
  <2> QED
    BY <2>1, <2>2
<1> QED
  BY <1>1, <1>2, PTL

-----------------------------------------------------------------------------
(* The ring implements RingFifo.                                           *)

\* The queue of reader r, as the refinement mapping reads it out of the ring.
Queue(r) ==
  [i \in 1..(nwritten - nread[r]) |->
     rring[index_add(index_add(d_read_index[r], Hist[r]), i - 1)]]

\* The next n numbers from m on.
Numbered(m, n) == [i \in 1..n |-> m + i - 1]

\* Numbers go on where others end, and begin later when some are taken.
LEMMA NumbersJoin ==
  ASSUME NEW m \in Nat, NEW l \in Nat, NEW n \in Nat
  PROVE  Numbered(m, l) \o Numbered(m + l, n) = Numbered(m, l + n)
<1> DEFINE a == Numbered(m, l)
           b == Numbered(m + l, n)
<1>1. a \in Seq(Nat) /\ b \in Seq(Nat) /\ Len(a) = l /\ Len(b) = n
  BY DEF Numbered
<1>2. a \o b \in Seq(Nat) /\ Len(a \o b) = l + n
  BY <1>1
<1>3. ASSUME NEW i \in 1..(l + n) PROVE (a \o b)[i] = m + i - 1
  <2>1. (a \o b)[i] = IF i <= l THEN a[i] ELSE b[i - l]
    BY <1>1
  <2> QED
    BY <2>1 DEF Numbered
<1>4. Numbered(m, l + n) \in Seq(Nat) /\ Len(Numbered(m, l + n)) = l + n
  BY DEF Numbered
<1>5. \A i \in 1..(l + n) : (a \o b)[i] = Numbered(m, l + n)[i]
  BY <1>3 DEF Numbered
<1> HIDE DEF a, b
<1> QED
  BY <1>2, <1>4, <1>5, SeqEqual DEF a, b

LEMMA NumbersDrop ==
  ASSUME NEW m \in Nat, NEW l \in Nat, NEW n \in 1..l
  PROVE  SubSeq(Numbered(m, l), n + 1, l) = Numbered(m + n, l - n)
<1> DEFINE a == SubSeq(Numbered(m, l), n + 1, l)
           b == Numbered(m + n, l - n)
<1>1. Numbered(m, l) \in Seq(Nat) /\ Len(Numbered(m, l)) = l
  BY DEF Numbered
<1>2. a \in Seq(Nat) /\ Len(a) = l - n
  BY <1>1, SubSeqProperties
<1>3. b \in Seq(Nat) /\ Len(b) = l - n
  BY DEF Numbered
<1>4. ASSUME NEW i \in 1..(l - n) PROVE a[i] = b[i]
  <2>1. a[i] = Numbered(m, l)[n + 1 + i - 1]
    BY <1>1, <1>2, SubSeqProperties
  <2> QED
    BY <2>1 DEF Numbered
<1> HIDE DEF a, b
<1> QED
  BY <1>2, <1>3, <1>4, SeqEqual DEF a, b

LEMMA AddTwice ==
  ASSUME NEW a \in Cells, NEW m \in Nat, NEW n \in Nat, m + n <= N - 1
  PROVE  index_add(index_add(a, m), n) = index_add(a, m + n)
  BY RingAssumption DEF Cells, index_add

\* What is in the memory of a reader are the numbers of its items.
LEMMA QueueIsNumbered ==
  Inv => \A r \in Readers :
           /\ Queue(r) = Numbered(nread[r], nwritten - nread[r])
           /\ nwritten - nread[r] \in Nat /\ nwritten - nread[r] <= N - 1
<1> SUFFICES ASSUME Inv, NEW r \in Readers
             PROVE  /\ Queue(r) = Numbered(nread[r], nwritten - nread[r])
                    /\ nwritten - nread[r] \in Nat /\ nwritten - nread[r] <= N - 1
  OBVIOUS
<1> USE RingAssumption
<1>1. /\ d_read_index[r] \in Cells /\ nread[r] \in Nat /\ Hist[r] \in Nat
      /\ d_write_index \in Cells /\ nwritten \in Nat /\ claim \in 0..N
      /\ nread[r] <= nwritten
  BY DEF Inv, TypeOK, NothingReadAhead
<1>2. items_available(r) \in Cells /\ items_available(r) = nwritten - nread[r] + Hist[r]
  BY <1>1, SubRange DEF Inv, CountsAgree, items_available
<1>3. claim + items_available(r) <= N - 1
  BY <1>1, <1>2 DEF Inv, ClaimFits, Cells
<1>4. ASSUME NEW i \in 1..(nwritten - nread[r])
      PROVE  rring[index_add(index_add(d_read_index[r], Hist[r]), i - 1)] = nread[r] + i - 1
  <2>1. /\ i - 1 \in Nat /\ Hist[r] + (i - 1) < items_available(r)
        /\ Hist[r] + (i - 1) \in 0..N
    BY <1>1, <1>2 DEF Cells
  <2> DEFINE c == index_add(d_read_index[r], Hist[r] + (i - 1))
  <2>2. index_add(index_add(d_read_index[r], Hist[r]), i - 1) = c
    BY <1>1, <1>2, <2>1, AddTwice DEF Cells
  <2>3. c \in Cells
    BY <1>1, <2>1, AddRange
  <2>4. index_sub(d_write_index, c) = items_available(r) - (Hist[r] + (i - 1))
    BY <1>1, <1>2, <2>1, AddToReader DEF items_available, Cells
  <2>5. rring[c] = nwritten - index_sub(d_write_index, c)
    BY <1>1, <1>2, <1>3, <2>1, <2>3, <2>4 DEF Inv, CellsBehind, Cells
  <2> QED
    BY <1>1, <1>2, <2>1, <2>2, <2>4, <2>5
<1> QED
  BY <1>1, <1>2, <1>4 DEF Queue, Numbered, Cells

\* A step of the ring is a step of the FIFO or leaves it as it is.
LEMMA RingStep ==
  ASSUME Inv, Inv', [Next]_vars
  PROVE  [Fifo!Next]_<<nwritten, [r \in Readers |-> Queue(r)]>>
<1> USE RingAssumption
<1> DEFINE q == [r \in Readers |-> Queue(r)]
<1>1. /\ \A r \in Readers : q[r] = Numbered(nread[r], nwritten - nread[r])
      /\ \A r \in Readers : nread[r] \in Nat /\ nwritten - nread[r] \in Nat
      /\ \A r \in Readers : nwritten - nread[r] <= N - 1
      /\ nwritten \in Nat
  BY QueueIsNumbered DEF Inv, TypeOK
<1>2. /\ \A r \in Readers : q'[r] = Numbered(nread'[r], nwritten' - nread'[r])
      /\ \A r \in Readers : nread'[r] \in Nat /\ nwritten' - nread'[r] \in Nat
      /\ \A r \in Readers : nwritten' - nread'[r] <= N - 1
      /\ nwritten' \in Nat
  <2>1. (\A r \in Readers :
           /\ Queue(r) = Numbered(nread[r], nwritten - nread[r])
           /\ nwritten - nread[r] \in Nat /\ nwritten - nread[r] <= N - 1)'
    BY QueueIsNumbered, PTL
  <2> QED
    BY <2>1 DEF Inv, TypeOK, Numbered
<1>3. CASE nwritten' = nwritten /\ nread' = nread
  <2>1. q' = q
    BY <1>1, <1>2, <1>3
  <2> QED
    BY <1>3, <2>1
<1>4. CASE update_write_pointer
  <2>1. claim \in 1..(N - 1) /\ nwritten' = nwritten + claim /\ nread' = nread
    BY <1>4 DEF update_write_pointer, setup, Inv, ClaimFits, TypeOK
  <2>2. \A r \in Readers : Len(q[r]) + claim <= N - 1
    BY <1>1, <1>2, <2>1 DEF Numbered
  <2>3. \A r \in Readers : q'[r] = q[r] \o Fifo!Numbers(nwritten, claim)
    <3> TAKE r \in Readers
    <3> DEFINE l == nwritten - nread[r]
    <3>1. /\ nread[r] \in Nat /\ l \in Nat /\ claim \in Nat
          /\ nwritten = nread[r] + l /\ nwritten + claim - nread[r] = l + claim
      BY <1>1, <2>1
    <3>2. Fifo!Numbers(nwritten, claim) = Numbered(nwritten, claim)
      BY DEF Numbered, Fifo!Numbers
    <3> HIDE DEF l
    <3>3. Numbered(nread[r], l) \o Numbered(nread[r] + l, claim) = Numbered(nread[r], l + claim)
      BY <3>1, NumbersJoin
    <3>4. q[r] = Numbered(nread[r], l)
      BY <1>1 DEF l
    <3>5. q'[r] = Numbered(nread[r], l + claim)
      BY <1>2, <2>1, <3>1
    <3> QED
      BY <3>1, <3>2, <3>3, <3>4, <3>5
  <2>4. q' = [r \in Readers |-> q[r] \o Fifo!Numbers(nwritten, claim)]
    BY <2>3
  <2>5. PICK n \in 1..(N - 1) : n = claim
    BY <2>1
  <2>6. Fifo!Send(n)
    BY <2>1, <2>2, <2>4, <2>5 DEF Fifo!Send, Queue
  <2>7. Fifo!Next
    BY <2>6 DEF Fifo!Next
  <2> QED
    BY <2>7
<1>5. ASSUME NEW r \in Readers, NEW n \in 1..N, update_read_pointer(r, n)
      PROVE  Fifo!Next
  <2>1. /\ nwritten' = nwritten /\ nread'[r] = nread[r] + n
        /\ \A p \in Readers \ {r} : nread'[p] = nread[p]
    BY <1>5 DEF update_read_pointer, setup, Inv, TypeOK
  <2>2. n <= Len(q[r]) /\ n \in 1..(N - 1)
    BY <1>1, <1>2, <2>1 DEF Numbered
  <2>3. q'[r] = SubSeq(q[r], n + 1, Len(q[r]))
    <3> DEFINE l == nwritten - nread[r]
    <3>1. /\ nread[r] \in Nat /\ l \in Nat /\ Len(q[r]) = l /\ n \in 1..l
          /\ nwritten' - nread'[r] = l - n
      BY <1>1, <2>1, <2>2 DEF Numbered
    <3>2. q[r] = Numbered(nread[r], l) /\ q'[r] = Numbered(nread[r] + n, l - n)
      BY <1>1, <1>2, <2>1, <3>1
    <3> HIDE DEF l
    <3>3. SubSeq(Numbered(nread[r], l), n + 1, l) = Numbered(nread[r] + n, l - n)
      BY <3>1, NumbersDrop
    <3>4. SubSeq(q[r], n + 1, Len(q[r])) = SubSeq(Numbered(nread[r], l), n + 1, l)
      BY <3>1, <3>2
    <3> QED
      BY ONLY <3>2, <3>3, <3>4
  <2>4. \A p \in Readers \ {r} : q'[p] = q[p]
    BY <1>1, <1>2, <2>1
  <2>5. q' = [q EXCEPT ![r] = SubSeq(@, n + 1, Len(@))]
    BY <2>3, <2>4
  <2>6. Fifo!Take(r, n)
    BY <2>1, <2>2, <2>5 DEF Fifo!Take, Queue
  <2> QED
    BY <2>2, <2>6 DEF Fifo!Next
<1> QED
  BY <1>3, <1>4, <1>5 DEF Next, Produce, Consume, AskSpace, AskInVain, Work, post_work,
                          vars, setup

\* For every ring, any readers and histories, with and without DMA: the ring is
\* a FIFO in which every reader gets every item once, in order.
THEOREM RingIsFifo == Spec => FifoSpec
<1>1. Init => Fifo!Init
  <2> SUFFICES ASSUME Init PROVE Fifo!Init
    OBVIOUS
  <2>1. nwritten = 0 /\ \A r \in Readers : nread[r] = 0
    BY DEF Init
  <2>2. \A r \in Readers : Queue(r) = <<>>
    BY <2>1 DEF Queue
  <2> QED
    BY <2>1, <2>2 DEF Fifo!Init, Queue
<1>2. Inv /\ Inv' /\ [Next]_vars => [Fifo!Next]_<<nwritten, [r \in Readers |-> Queue(r)]>>
  BY RingStep
<1> QED
  BY <1>1, <1>2, Invariance, PTL DEF Spec, FifoSpec, Fifo!Spec, Queue
=============================================================================
