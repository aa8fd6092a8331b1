-------------------------- MODULE CudaGraphSafety --------------------------
(***************************************************************************)
(* Proofs of the safety properties of CudaGraph, for every flowgraph, ring *)
(* size and number of items.  Each event stands for a fact about every cut *)
(* that contains it: the device-ready and host-ready events that a batch   *)
(* is written, the read-done event that it is read.  A wait on an event    *)
(* hands the fact on to what is enqueued behind the wait.                  *)
(*                                                                         *)
(* Then what the waits of the CPU threads are worth: mark_device_ready     *)
(* protects the host items of an upload and bounds the backlog of a        *)
(* stream; the three waits of the destructor protect the memory of the     *)
(* rings.  At the end, all orderings together: each buffer is a            *)
(* BoundedStream.                                                          *)
(***************************************************************************)
EXTENDS CudaGraphProofs, MCFlowgraph, FiniteSetTheorems

-----------------------------------------------------------------------------
(* How the streams, the pending writes and the pending reads move.         *)

LEMMA StreamsMove ==
  ASSUME TypeOK, ControlOK, Places, [Next]_vars
  PROVE  StreamStep /\ \A s \in Streams : End(s) <= End(s)'
<1>1. StreamStep
  <2>1. /\ Quiet => StreamStep
        /\ \A k \in Blocks : Kernel(k) => StreamStep
        /\ \A k \in Blocks : CpuWork(k) => StreamStep
        /\ \A s \in Streams : Exec(s) => StreamStep
    BY KernelPending, CpuWorkHeld, ExecPending DEF Quiet
  <2>2. /\ \A k \in Blocks, b \in Buffers : post_work_h2d(k, b) => StreamStep
        /\ \A k \in Blocks, b \in Buffers : post_work_d2h(k, b) => StreamStep
    BY UploadPending, DownloadPending
  <2> QED
    BY <2>1, <2>2, QuietStep
<1>2. \A s \in Streams : End(s) \in Nat
  BY PositionType
<1>3. ASSUME queue' = queue, done' = done PROVE \A t \in Streams : End(t) <= End(t)'
  <2>1. \A t \in Streams : End(t)' = End(t)
    BY <1>3, StillEffect
  <2> QED
    BY <1>2, <2>1
<1>4. ASSUME NEW s \in Streams, NEW ops \in Seq(Op), done' = done, Enqueue(s, ops)
      PROVE  \A t \in Streams : End(t) <= End(t)'
  <2>1. Len(ops) \in Nat /\ End(s)' = End(s) + Len(ops) /\ \A t \in Streams \ {s} : End(t)' = End(t)
    BY <1>4, AddEffect
  <2> QED
    BY <1>2, <2>1
<1>5. ASSUME NEW s \in Streams, Exec(s) PROVE \A t \in Streams : End(t) <= End(t)'
  BY <1>2, <1>5, ExecEffect
<1> QED
  BY <1>1, <1>3, <1>4, <1>5 DEF StreamStep

\* A pending write stays pending until the ring holds it.
LEMMA WritesMove ==
  ASSUME Ordered, TypeOK', [Next]_vars, NEW m \in Mem, NEW b \in Buffers, Moved(m, b)
  PROVE  /\ held[m][b] <= held'[m][b]
         /\ \A p \in Nat, sp \in Span : PendingWrite(m, b, p, sp) =>
              PendingWrite(m, b, p, sp)' \/ held'[m][b] = sp.hi
<1> USE DEF Ordered, Base
<1>1. held[m][b] \in Nat
  BY WEndType
<1>2. CASE Quiet
  BY <1>1, <1>2 DEF Quiet, SamePending
<1>3. ASSUME NEW k \in Blocks, Kernel(k)
      PROVE  held' = held /\ \A p \in Nat, sp \in Span : PendingWrite(m, b, p, sp) => PendingWrite(m, b, p, sp)'
  BY <1>3, KernelPending
<1>4. ASSUME NEW k \in Blocks, NEW c \in Buffers, post_work_h2d(k, c)
      PROVE  held' = held /\ \A p \in Nat, sp \in Span : PendingWrite(m, b, p, sp) => PendingWrite(m, b, p, sp)'
  BY <1>4, UploadPending
<1>5. ASSUME NEW k \in Blocks, NEW c \in Buffers, post_work_d2h(k, c)
      PROVE  held' = held /\ \A p \in Nat, sp \in Span : PendingWrite(m, b, p, sp) => PendingWrite(m, b, p, sp)'
  BY <1>5, DownloadPending
<1>6. ASSUME NEW k \in Blocks, CpuWork(k)
      PROVE  /\ held'[m][b] = held[m][b]
             /\ \A p \in Nat, sp \in Span : PendingWrite(m, b, p, sp) => PendingWrite(m, b, p, sp)'
  BY <1>6, CpuWorkHeld DEF SamePending
<1>7. ASSUME NEW s \in Streams, Exec(s)
      PROVE  /\ held[m][b] <= held'[m][b]
             /\ \A p \in Nat, sp \in Span : PendingWrite(m, b, p, sp) =>
                  PendingWrite(m, b, p, sp)' \/ held'[m][b] = sp.hi
  <2>0. done[s] + 1 \in Nat /\ OrderedIn(m, b)
    BY PositionType DEF WritesInOrder
  <2>1. CASE /\ WriteStream(m, b) = s
             /\ \E sp \in Span : PendingWrite(m, b, done[s] + 1, sp) /\ held'[m][b] = sp.hi
    <3>1. PICK w \in Span : PendingWrite(m, b, done[s] + 1, w) /\ held'[m][b] = w.hi
      BY <2>1
    <3>2. PICK e \in Nat : e = done[s] + 1
      BY <2>0
    <3>3. \A p \in Nat, sp \in Span : PendingWrite(m, b, p, sp) /\ p # e => PendingWrite(m, b, p, sp)'
      BY <1>7, <3>2, ExecPending
    <3>4. \A sp \in Span : PendingWrite(m, b, e, sp) => sp = w
      BY <2>0, <3>1, <3>2 DEF OrderedIn, WritesSorted
    <3>5. held[m][b] < w.hi /\ w.hi \in Nat
      BY <2>0, <3>1 DEF OrderedIn, WriteInRange, Span
    <3> QED
      BY <1>1, <3>1, <3>3, <3>4, <3>5
  <2>2. CASE /\ held'[m][b] = held[m][b]
             /\ \A sp \in Span : ~(WriteStream(m, b) = s /\ PendingWrite(m, b, done[s] + 1, sp))
    <3>1. \A p \in Nat, sp \in Span : PendingWrite(m, b, p, sp) => PendingWrite(m, b, p, sp)'
      BY <1>7, <2>2, ExecPending
    <3> QED
      BY <1>1, <2>2, <3>1
  <2> QED
    BY <1>7, <2>1, <2>2, ExecPending
<1> QED
  BY <1>1, <1>2, <1>3, <1>4, <1>5, <1>6, <1>7, QuietStep

\* Only kernels and copies make a read pending.
LEMMA ReadsMove ==
  ASSUME Ordered, [Next]_vars, NEW s \in Streams, NEW p \in Nat, NEW sp \in Span,
         PendingRead(s, p, sp)', ~PendingRead(s, p, sp)
  PROVE  \/ /\ s \in Blocks /\ Kernel(s) /\ p = End(s) + 1
            /\ \E b \in Ins(s) : sp = InSpan(s, "device", b)
         \/ \E k \in Blocks, b \in Buffers :
              /\ s = b /\ p = End(b) + 2
              /\ \/ post_work_h2d(k, b) /\ sp = OutSpan(k, "host", b)
                 \/ post_work_d2h(k, b) /\ sp = OutSpan(k, "device", b)
<1> USE DEF Ordered, Base
<1>1. ~Quiet
  BY DEF Quiet, SamePending
<1>2. ASSUME NEW k \in Blocks, Kernel(k)
      PROVE  s = k /\ p = End(s) + 1 /\ \E b \in Ins(s) : sp = InSpan(s, "device", b)
  BY <1>2, KernelPending
<1>3. ASSUME NEW k \in Blocks, CpuWork(k) PROVE FALSE
  BY <1>3, CpuWorkHeld DEF SamePending
<1>4. ASSUME NEW k \in Blocks, NEW b \in Buffers, post_work_h2d(k, b)
      PROVE  s = b /\ p = End(b) + 2 /\ sp = OutSpan(k, "host", b)
  BY <1>4, UploadPending
<1>5. ASSUME NEW k \in Blocks, NEW b \in Buffers, post_work_d2h(k, b)
      PROVE  s = b /\ p = End(b) + 2 /\ sp = OutSpan(k, "device", b)
  BY <1>5, DownloadPending
<1>6. ASSUME NEW t \in Streams, Exec(t) PROVE FALSE
  BY <1>6, ExecPending
<1> QED
  BY <1>1, <1>2, <1>3, <1>4, <1>5, <1>6, QuietStep

LEMMA EndNext ==
  ASSUME TypeOK' PROVE \A s \in Streams : End(s)' \in Nat
<1>1. \A s \in Streams : done'[s] \in Nat /\ Len(queue'[s]) \in Nat
  BY DEF TypeOK
<1> QED
  BY <1>1 DEF End

\* A cut that is later than an enqueued wait contains its event.
LEMMA WaitInCut ==
  ASSUME TypeOK', NEW s \in Streams, NEW D \in Cuts, Cut(D)', NEW e \in Nat, NEW ev,
         e \in Waiting(s)', OpAt(s, e)' = WaitEvent(ev), D[s] >= e
  PROVE  Within(ev, D)
BY DEF Cut, Cuts, Within, WaitEvent

\* The new positions of a stream.
LEMMA GrowsEnd ==
  ASSUME TypeOK, NEW s \in Streams, NEW n \in Nat, Grows(s, n)
  PROVE  /\ End(s) \in Nat /\ End(s)' = End(s) + n
         /\ \A e \in Nat : End(s) < e /\ e <= End(s) + n => e \in Waiting(s)' /\ e \notin Waiting(s)
<1>1. done' = done /\ End(s)' = End(s) + n
  BY DEF Grows
<1>2. done[s] \in Nat /\ Len(queue[s]) \in Nat
  BY PositionType
<1>3. End(s) \in Nat /\ done[s] <= End(s)
  BY <1>2 DEF End
<1>4. Waiting(s)' = (done[s] + 1)..(End(s) + n) /\ Waiting(s) = (done[s] + 1)..End(s)
  BY <1>1 DEF Waiting
<1> QED
  BY <1>1, <1>2, <1>3, <1>4

\* The waits in front of the copies.
LEMMA DownloadWait ==
  ASSUME TypeOK, NEW k \in Blocks, NEW b \in Buffers, post_work_d2h(k, b),
         NEW e \in Nat, e = End(b) + 1
  PROVE  e \in Waiting(b)' /\ OpAt(b, e)' = WaitEvent(d_dev_ready_evt[b])
<1>1. Grows(b, 2) /\ b \in Streams /\ End(b) \in Nat
  BY DownloadGrows, PositionType DEF Streams
<1>2. e \in Waiting(b)' /\ e \notin Waiting(b) /\ e # End(b) + 2
  BY <1>1, GrowsEnd
<1> QED
  BY <1>2, DownloadGrows

LEMMA UploadWait ==
  ASSUME TypeOK, NEW k \in Blocks, NEW b \in Buffers, post_work_h2d(k, b),
         NEW e \in Nat, e = End(b) + 1
  PROVE  e \in Waiting(b)' /\ OpAt(b, e)' = WaitEvent(d_read_done_evt[b])
<1>1. Grows(b, 2) /\ b \in Streams /\ End(b) \in Nat
  BY UploadGrows, PositionType DEF Streams
<1>2. e \in Waiting(b)' /\ e \notin Waiting(b) /\ e # End(b) + 2
  BY <1>1, GrowsEnd
<1> QED
  BY <1>2, UploadGrows

-----------------------------------------------------------------------------
(* How the events and the waits of the threads move.                       *)

LEMMA ReadyMoves ==
  ASSUME Ordered, [Next]_vars, NEW b \in Buffers
  PROVE  \/ d_dev_ready_evt'[b] = d_dev_ready_evt[b] /\ ReadyEnd(b)' = ReadyEnd(b)
         \/ /\ d_dev_ready_evt'[b] = RecordOn(WriteStream("device", b), 0)
            /\ ReadyEnd(b)' = DevEnd(b) /\ Complete(d_dev_ready_evt[b])
            /\ queue' = queue /\ done' = done
            /\ \E k \in Blocks : mark_device_ready(k, b) \/ post_work_h2d_ready(k, b)
<1> USE DEF Ordered, Base
<1> DEFINE Same == d_dev_ready_evt'[b] = d_dev_ready_evt[b] /\ ReadyEnd(b)' = ReadyEnd(b)
           Recorded == /\ d_dev_ready_evt'[b] = RecordOn(WriteStream("device", b), 0)
                       /\ ReadyEnd(b)' = DevEnd(b) /\ Complete(d_dev_ready_evt[b])
                       /\ queue' = queue /\ done' = done
                       /\ \E k \in Blocks : mark_device_ready(k, b) \/ post_work_h2d_ready(k, b)
<1>1. ASSUME NEW k \in Blocks, NEW c \in Buffers, mark_device_ready(k, c) PROVE Same \/ Recorded
  <2>1. /\ Writer[c] = k /\ ~H2D(c) /\ ReadyEnd(b)' = IF b = c THEN DevEnd(b) ELSE ReadyEnd(b)
        /\ d_dev_ready_evt' = [d_dev_ready_evt EXCEPT ![c] = RecordOn(k, 0)]
        /\ Complete(d_dev_ready_evt[c]) /\ queue' = queue /\ done' = done
    BY <1>1, MarkReadyCounts DEF mark_device_ready, gpuVars
  <2>2. d_dev_ready_evt'[b] = IF b = c THEN RecordOn(k, 0) ELSE d_dev_ready_evt[b]
    BY <2>1 DEF TypeOK
  <2>3. CASE b = c
    <3>1. mark_device_ready(k, b)
      BY <1>1, <2>3
    <3>2. WriteStream("device", b) = k
      BY <2>1, <2>3 DEF WriteStream
    <3> QED
      BY <2>1, <2>2, <2>3, <3>1, <3>2
  <2> QED
    BY <2>1, <2>2, <2>3
<1>2. ASSUME NEW k \in Blocks, NEW c \in Buffers, post_work_h2d_ready(k, c) PROVE Same \/ Recorded
  <2>1. /\ H2D(c) /\ ReadyEnd(c)' = DevEnd(c) /\ (b # c => ReadyEnd(b)' = ReadyEnd(b))
        /\ d_dev_ready_evt' = [d_dev_ready_evt EXCEPT ![c] = RecordOn(c, 0)]
        /\ Complete(d_dev_ready_evt[c]) /\ queue' = queue /\ done' = done
    <3>1. H2D(c) /\ ReadyEnd(c)' = DevEnd(c) /\ PostStep(k, c, "publish")
      BY <1>2, UploadReadyCounts
    <3>2. \A d \in Buffers \ {c} : ReadyEnd(d)' = ReadyEnd(d)
      BY <3>1, PostCounts DEF SameWrites
    <3> QED
      BY <1>2, <3>1, <3>2 DEF post_work_h2d_ready, gpuVars
  <2>2. d_dev_ready_evt'[b] = IF b = c THEN RecordOn(c, 0) ELSE d_dev_ready_evt[b]
    BY <2>1 DEF TypeOK
  <2>3. CASE b = c
    <3>1. post_work_h2d_ready(k, b)
      BY <1>2, <2>3
    <3>2. WriteStream("device", b) = c
      BY <2>1, <2>3 DEF WriteStream
    <3> QED
      BY <2>1, <2>2, <2>3, <3>1, <3>2
  <2> QED
    BY <2>1, <2>2, <2>3
<1>3. ASSUME NEW k \in Blocks, NEW c \in Buffers, BufferCall(k, c),
             ~mark_device_ready(k, c), ~post_work_h2d_ready(k, c)
      PROVE  Same
  <2>1. d_dev_ready_evt' = d_dev_ready_evt
    BY <1>3 DEF BufferCall, post_work, wait_for_work, mark_read_done_wait, mark_read_done_record,
       wait_host_ready, wait_host_ready_return, Consume, post_work_h2d, post_work_d2h,
       post_work_d2d, Publish, events
  <2>2. CASE \/ wait_for_work(k, c) \/ mark_read_done_wait(k, c)
             \/ wait_host_ready(k, c) \/ wait_host_ready_return(k, c) \/ post_work_d2d(k, c)
    BY <2>1, <2>2, WaitCounts, NoCopyCounts DEF SameCounts, SameWrites
  <2>3. CASE mark_read_done_record(k, c) \/ Consume(k, c) \/ Publish(k, c)
    BY <2>1, <2>3, MarkReadCounts, ConsumeCounts, PublishCounts DEF SameWrites
  <2>4. CASE post_work_h2d(k, c)
    BY <2>1, <2>4, UploadCounts, PostCounts DEF SameWrites
  <2>5. CASE post_work_d2h(k, c)
    BY <2>1, <2>5, DownloadCounts, PostCounts DEF SameWrites
  <2> QED
    BY <1>3, <2>2, <2>3, <2>4, <2>5 DEF BufferCall, post_work
<1>4. ASSUME NEW k \in Blocks, \/ \E n \in 1..N : Poll(k, n)
                              \/ Kernel(k) \/ CpuWork(k) \/ EndLoop(k) \/ Halt(k)
      PROVE  Same
  <2>1. d_dev_ready_evt' = d_dev_ready_evt
    BY <1>4 DEF Poll, Kernel, CpuWork, EndLoop, Halt, events
  <2> QED
    BY <1>4, <2>1, PollCounts, KernelCounts, CpuWorkCounts, EndLoopCounts, HaltCounts
       DEF SameCounts, SameWrites
<1>5. /\ \A s \in Streams : Exec(s) => Same
      /\ \A c \in Buffers : Destroy(c) \/ Free(c) => Same
      /\ UNCHANGED vars => Same
  BY CountsRest DEF Exec, Destroy, Free, vars, counts, control, events, SameCounts, SameWrites
<1> HIDE DEF Same, Recorded
<1>6. ASSUME NEW k \in Blocks, Thread(k) PROVE Same \/ Recorded
  BY <1>1, <1>2, <1>3, <1>4, <1>6 DEF Thread
<1>7. Same \/ Recorded
  <2>1. CASE Teardown
    BY <1>4, <1>5, <2>1 DEF Teardown
  <2> QED
    BY <1>5, <1>6, <2>1 DEF Next
<1> QED
  BY <1>7 DEF Same, Recorded

LEMMA HostMoves ==
  ASSUME Ordered, [Next]_vars, NEW b \in Buffers, D2H(b)
  PROVE  \/ d_host_ready_evt'[b] = d_host_ready_evt[b] /\ HostEnd(b)' = HostEnd(b)
         \/ \E k \in Blocks : post_work_d2h(k, b)
<1> USE DEF Ordered, Base
<1> DEFINE Same == d_host_ready_evt'[b] = d_host_ready_evt[b] /\ HostEnd(b)' = HostEnd(b)
           Copied == \E k \in Blocks : post_work_d2h(k, b)
<1>1. ASSUME NEW k \in Blocks, NEW c \in Buffers, post_work_d2h(k, c) PROVE Same \/ Copied
  <2>1. CASE c = b
    <3>1. post_work_d2h(k, b)
      BY <1>1, <2>1
    <3> QED
      BY <3>1
  <2>2. CASE c # b
    <3>1. d_host_ready_evt'[b] = d_host_ready_evt[b]
      BY <1>1, <2>2 DEF post_work_d2h, TypeOK
    <3>2. PostStep(k, c, "publish")
      BY <1>1, DownloadCounts
    <3>3. HostEnd(b)' = HostEnd(b)
      BY <2>2, <3>2, PostCounts DEF SameWrites
    <3> QED
      BY <3>1, <3>3
  <2> QED
    BY <2>1, <2>2
<1>2. ASSUME NEW k \in Blocks, NEW c \in Buffers, BufferCall(k, c), ~post_work_d2h(k, c)
      PROVE  Same
  <2>1. d_host_ready_evt' = d_host_ready_evt
    BY <1>2 DEF BufferCall, post_work, wait_for_work, mark_device_ready, mark_read_done_wait,
       mark_read_done_record, wait_host_ready, wait_host_ready_return, Consume, post_work_h2d,
       post_work_h2d_ready, post_work_d2d, Publish, events
  <2>2. CASE \/ wait_for_work(k, c) \/ mark_read_done_wait(k, c)
             \/ wait_host_ready(k, c) \/ wait_host_ready_return(k, c) \/ post_work_d2d(k, c)
    BY <2>1, <2>2, WaitCounts, NoCopyCounts DEF SameCounts, SameWrites
  <2>3. CASE mark_read_done_record(k, c) \/ Consume(k, c) \/ Publish(k, c)
    BY <2>1, <2>3, MarkReadCounts, ConsumeCounts, PublishCounts DEF SameWrites
  <2>4. CASE mark_device_ready(k, c)
    BY <2>1, <2>4, MarkReadyCounts
  <2>5. CASE post_work_h2d(k, c)
    BY <2>1, <2>5, UploadCounts, PostCounts DEF SameWrites
  <2>6. CASE post_work_h2d_ready(k, c)
    <3>1. PostStep(k, c, "publish") /\ HostEnd(c)' = HostEnd(c)
      BY <2>6, UploadReadyCounts
    <3> QED
      BY <2>1, <3>1, PostCounts DEF SameWrites
  <2> QED
    BY <1>2, <2>2, <2>3, <2>4, <2>5, <2>6 DEF BufferCall, post_work
<1>3. ASSUME NEW k \in Blocks, \/ \E n \in 1..N : Poll(k, n)
                              \/ Kernel(k) \/ CpuWork(k) \/ EndLoop(k) \/ Halt(k)
      PROVE  Same
  <2>1. d_host_ready_evt' = d_host_ready_evt
    BY <1>3 DEF Poll, Kernel, CpuWork, EndLoop, Halt, events
  <2>2. ASSUME CpuWork(k) PROVE HostEnd(b)' = HostEnd(b)
    <3>1. b \notin Outs(k)
      BY <2>2, CpuWorkCounts, Graph
    <3> QED
      BY <2>2, <3>1, CpuWorkCounts
  <2> QED
    BY <1>3, <2>1, <2>2, PollCounts, KernelCounts, EndLoopCounts, HaltCounts
       DEF SameCounts, SameWrites
<1>4. /\ \A s \in Streams : Exec(s) => Same
      /\ \A c \in Buffers : Destroy(c) \/ Free(c) => Same
      /\ UNCHANGED vars => Same
  BY CountsRest DEF Exec, Destroy, Free, vars, counts, control, events, SameCounts, SameWrites
<1> HIDE DEF Same, Copied
<1>5. ASSUME NEW k \in Blocks, Thread(k) PROVE Same \/ Copied
  BY <1>1, <1>2, <1>3, <1>5 DEF Thread
<1>6. Same \/ Copied
  <2>1. CASE Teardown
    BY <1>3, <1>4, <2>1 DEF Teardown
  <2> QED
    BY <1>4, <1>5, <2>1 DEF Next
<1> QED
  BY <1>6 DEF Same, Copied

SameDone(b) ==
  /\ d_read_done_evt'[b] = d_read_done_evt[b]
  /\ \A r \in Readers[b] \cap Gpu : Marked(b, r)' = Marked(b, r)

LEMMA DoneMoves ==
  ASSUME Ordered, [Next]_vars, NEW b \in Buffers
  PROVE  \/ SameDone(b)
         \/ \E k \in Readers[b] \cap Gpu :
              /\ mark_read_done_record(k, b) /\ call[k] = <<"read_done", b>>
              /\ d_read_done_evt'[b] = RecordOn(k, 0)
              /\ queue' = queue /\ done' = done
              /\ \A r \in Readers[b] \cap Gpu :
                   Marked(b, r)' = IF r = k THEN ReadEnd(b, r) ELSE Marked(b, r)
         \/ \E k \in Blocks : post_work_d2h(k, b)
<1> USE DEF Ordered, Base
<1> DEFINE Recorded == \E k \in Readers[b] \cap Gpu :
              /\ mark_read_done_record(k, b) /\ call[k] = <<"read_done", b>>
              /\ d_read_done_evt'[b] = RecordOn(k, 0)
              /\ queue' = queue /\ done' = done
              /\ \A r \in Readers[b] \cap Gpu :
                   Marked(b, r)' = IF r = k THEN ReadEnd(b, r) ELSE Marked(b, r)
           Copied == \E k \in Blocks : post_work_d2h(k, b)
<1>1. ASSUME NEW k \in Blocks, NEW c \in Buffers, post_work_d2h(k, c) PROVE SameDone(b) \/ Copied
  <2>1. CASE c = b
    <3>1. post_work_d2h(k, b)
      BY <1>1, <2>1
    <3> QED
      BY <3>1
  <2>2. CASE c # b
    <3>1. d_read_done_evt'[b] = d_read_done_evt[b]
      BY <1>1, <2>2 DEF post_work_d2h, TypeOK
    <3>2. PostStep(k, c, "publish")
      BY <1>1, DownloadCounts
    <3> QED
      BY <3>1, <3>2, PostCounts DEF SameReads, SameDone
  <2> QED
    BY <2>1, <2>2
<1>2. ASSUME NEW k \in Blocks, NEW c \in Buffers, mark_read_done_record(k, c)
      PROVE  SameDone(b) \/ Recorded
  <2>1. /\ k \in Readers[c] /\ k \in Gpu /\ queue' = queue /\ done' = done
        /\ call[k] = <<"read_done", c>>
        /\ d_read_done_evt' = [d_read_done_evt EXCEPT ![c] = RecordOn(k, 0)]
    BY <1>2, MarkReadCounts DEF mark_read_done_record, gpuVars
  <2>2. \A r \in Readers[b] \cap Gpu :
          Marked(b, r)' = IF r = k /\ b = c THEN ReadEnd(b, r) ELSE Marked(b, r)
    BY <1>2, MarkReadCounts
  <2>3. d_read_done_evt'[b] = IF b = c THEN RecordOn(k, 0) ELSE d_read_done_evt[b]
    BY <2>1 DEF TypeOK
  <2>4. CASE b = c
    <3>1. mark_read_done_record(k, b)
      BY <1>2, <2>4
    <3> QED
      BY <2>1, <2>2, <2>3, <2>4, <3>1
  <2>5. CASE b # c
    BY <2>2, <2>3, <2>5 DEF SameDone
  <2> QED
    BY <2>4, <2>5
<1>3. ASSUME NEW k \in Blocks, NEW c \in Buffers, BufferCall(k, c),
             ~post_work_d2h(k, c), ~mark_read_done_record(k, c)
      PROVE  SameDone(b)
  <2>1. d_read_done_evt' = d_read_done_evt
    BY <1>3 DEF BufferCall, post_work, wait_for_work, mark_device_ready, mark_read_done_wait,
       wait_host_ready, wait_host_ready_return, Consume, post_work_h2d,
       post_work_h2d_ready, post_work_d2d, Publish, events
  <2>2. CASE \/ wait_for_work(k, c) \/ mark_read_done_wait(k, c)
             \/ wait_host_ready(k, c) \/ wait_host_ready_return(k, c) \/ post_work_d2d(k, c)
    BY <2>1, <2>2, WaitCounts, NoCopyCounts DEF SameCounts, SameReads, SameDone
  <2>3. CASE mark_device_ready(k, c) \/ Consume(k, c) \/ Publish(k, c)
    BY <2>1, <2>3, MarkReadyCounts, ConsumeCounts, PublishCounts DEF SameReads, SameDone
  <2>4. CASE post_work_h2d(k, c) \/ post_work_h2d_ready(k, c)
    <3>1. PostStep(k, c, "dev_ready") \/ PostStep(k, c, "publish")
      BY <2>4, UploadCounts, UploadReadyCounts
    <3> QED
      BY <2>1, <3>1, PostCounts DEF SameReads, SameDone
  <2> QED
    BY <1>3, <2>2, <2>3, <2>4 DEF BufferCall, post_work
<1>4. ASSUME NEW k \in Blocks, \/ \E n \in 1..N : Poll(k, n)
                              \/ Kernel(k) \/ CpuWork(k) \/ EndLoop(k) \/ Halt(k)
      PROVE  SameDone(b)
  <2>1. d_read_done_evt' = d_read_done_evt
    BY <1>4 DEF Poll, Kernel, CpuWork, EndLoop, Halt, events
  <2> QED
    BY <1>4, <2>1, PollCounts, KernelCounts, CpuWorkCounts, EndLoopCounts, HaltCounts
       DEF SameCounts, SameReads, SameDone
<1>5. /\ \A s \in Streams : Exec(s) => SameDone(b)
      /\ \A c \in Buffers : Destroy(c) \/ Free(c) => SameDone(b)
      /\ UNCHANGED vars => SameDone(b)
  BY CountsRest
     DEF Exec, Destroy, Free, vars, counts, control, events, SameCounts, SameReads, SameDone
<1> HIDE DEF Recorded, Copied
<1>6. ASSUME NEW k \in Blocks, Thread(k) PROVE SameDone(b) \/ Recorded \/ Copied
  BY <1>1, <1>2, <1>3, <1>4, <1>6 DEF Thread
<1>7. SameDone(b) \/ Recorded \/ Copied
  <2>1. CASE Teardown
    BY <1>4, <1>5, <2>1 DEF Teardown
  <2> QED
    BY <1>5, <1>6, <2>1 DEF Next
<1> QED
  BY <1>7 DEF Recorded, Copied

\* A block's control is moved by its own thread only.
LEMMA OthersStay ==
  ASSUME TypeOK, [Next]_vars, NEW k \in Blocks
  PROVE  \/ Thread(k) \/ Halt(k)
         \/ /\ pc'[k] = pc[k] /\ todo'[k] = todo[k] /\ call'[k] = call[k] /\ batch'[k] = batch[k]
            /\ k \in Cpu => await'[k] = await[k]
<1> DEFINE Same == /\ pc'[k] = pc[k] /\ todo'[k] = todo[k]
                   /\ call'[k] = call[k] /\ batch'[k] = batch[k]
                   /\ k \in Cpu => await'[k] = await[k]
<1>1. ASSUME NEW j \in Blocks, j # k, NEW b \in Buffers, BufferCall(j, b) PROVE Same
  <2>1. /\ pc' = pc /\ batch' = batch
        /\ todo' = todo \/ todo' = [todo EXCEPT ![j] = @ \ {b}]
        /\ await' = await \/ (j \in Cpu /\ await' = [await EXCEPT ![j] = d_host_ready_evt[b]])
    BY <1>1 DEF BufferCall, post_work, wait_for_work, mark_device_ready, mark_read_done_wait,
       mark_read_done_record, wait_host_ready, wait_host_ready_return, Consume, post_work_h2d,
       post_work_h2d_ready, post_work_d2h, post_work_d2d, Publish, Finish
  <2>2. call' = call \/ \E x : call' = [call EXCEPT ![j] = x]
    BY <1>1 DEF BufferCall, post_work, wait_for_work, mark_device_ready, mark_read_done_wait,
       mark_read_done_record, wait_host_ready, wait_host_ready_return, Consume, post_work_h2d,
       post_work_h2d_ready, post_work_d2h, post_work_d2d, Publish
  <2> QED
    BY <1>1, <2>1, <2>2 DEF TypeOK
<1>2. ASSUME NEW j \in Blocks, j # k, \/ \E n \in 1..N : Poll(j, n)
                                     \/ Kernel(j) \/ CpuWork(j) \/ EndLoop(j) \/ Halt(j)
      PROVE  Same
  BY <1>2 DEF Poll, Kernel, CpuWork, EndLoop, Halt, Enter, TypeOK
<1>3. /\ \A s \in Streams : Exec(s) => Same
      /\ \A c \in Buffers : Destroy(c) \/ Free(c) => Same
      /\ UNCHANGED vars => Same
  BY DEF Exec, Destroy, Free, vars, control
<1> HIDE DEF Same
<1>4. ASSUME NEW j \in Blocks, j # k, Thread(j) PROVE Same
  BY <1>1, <1>2, <1>4 DEF Thread
<1>5. Thread(k) \/ Halt(k) \/ Same
  <2>1. CASE Teardown
    BY <1>2, <1>3, <2>1 DEF Teardown
  <2> QED
    BY <1>3, <1>4, <2>1 DEF Next
<1> QED
  BY <1>5 DEF Same

\* Nothing but a poll claims more.
LEMMA ClaimsStay ==
  ASSUME Ordered, [Next]_vars, NEW k \in Blocks
  PROVE  \/ \E n \in 1..N : Poll(k, n)
         \/ /\ \A b \in Ins(k) : ReadTo(b, k)' = ReadTo(b, k)
            /\ \A b \in Outs(k) : WriteTo(b)' = WriteTo(b)
<1> USE DEF Ordered, Base
<1>1. ASSUME NEW j \in Blocks, NEW n \in 1..N, Poll(j, n), j # k
      PROVE  /\ \A b \in Ins(k) : ReadTo(b, k)' = ReadTo(b, k)
             /\ \A b \in Outs(k) : WriteTo(b)' = WriteTo(b)
  BY <1>1, PollCounts DEF Ins, Outs
<1>2. ASSUME ~ \E j \in Blocks : \E n \in 1..N : Poll(j, n)
      PROVE  /\ \A b \in Ins(k) : ReadTo(b, k)' = ReadTo(b, k)
             /\ \A b \in Outs(k) : WriteTo(b)' = WriteTo(b)
  BY <1>2, CountsGrow DEF Ins, Outs
<1> QED
  BY <1>1, <1>2

\* What a call does to the control of its thread.
LEMMA CallEffect ==
  ASSUME TypeOK, ControlOK, NEW k \in Blocks, NEW b \in Buffers, BufferCall(k, b)
  PROVE  /\ pc' = pc /\ pc[k] # "work" /\ pc[k] # "halted" /\ pc[k] # "idle"
         /\ todo' = todo \/ todo'[k] = todo[k] \ {b}
         /\ pc[k] = "wait" =>
              wait_for_work(k, b) \/ wait_host_ready(k, b) \/ wait_host_ready_return(k, b)
<1>1. /\ pc' = pc
      /\ todo' = todo \/ todo' = [todo EXCEPT ![k] = @ \ {b}]
  BY DEF BufferCall, post_work, wait_for_work, mark_device_ready, mark_read_done_wait,
     mark_read_done_record, wait_host_ready, wait_host_ready_return, Consume, post_work_h2d,
     post_work_h2d_ready, post_work_d2h, post_work_d2d, Publish, Finish
<1>2. call[k] = <<"read_done", b>> => pc[k] = "release"
  BY DEF ControlOK, ThreadOK
<1>3. call[k] = <<"host_ready", b>> => pc[k] = "wait"
  BY DEF ControlOK, ThreadOK
<1>4. call[k] = <<"dev_ready", b>> \/ call[k] = <<"publish", b>> => pc[k] = "post"
  BY DEF ControlOK, ThreadOK
<1>5. /\ pc[k] \in {"wait", "ready", "release", "consume", "post"}
      /\ pc[k] = "wait" =>
              wait_for_work(k, b) \/ wait_host_ready(k, b) \/ wait_host_ready_return(k, b)
  BY <1>2, <1>3, <1>4 DEF BufferCall, post_work, wait_for_work, mark_device_ready, mark_read_done_wait,
     mark_read_done_record, wait_host_ready, wait_host_ready_return, Consume, post_work_h2d,
     post_work_h2d_ready, post_work_d2h, post_work_d2d, Publish, At
<1> QED
  BY <1>1, <1>5 DEF TypeOK

LEMMA WaitedMoves ==
  ASSUME Ordered, [Next]_vars, NEW k \in Gpu, NEW b \in Ins(k) \cup Outs(k), Waited(k, b)'
  PROVE  /\ b \in Ins(k) => ReadTo(b, k)' = ReadTo(b, k)
         /\ b \in Outs(k) => WriteTo(b)' = WriteTo(b)
         /\ Waited(k, b) \/ wait_for_work(k, b)
<1> USE DEF Ordered, Base
<1>0. k \in Blocks /\ k \notin Cpu /\ b \in Buffers
  BY Graph DEF Blocks, Ins, Outs
<1>1. ~ \E n \in 1..N : Poll(k, n)
  BY <1>0 DEF Poll, Enter, Waited, Ports, TypeOK
<1>2. ~Halt(k) /\ ~Kernel(k) /\ ~CpuWork(k)
  <2>1. Halt(k) => pc'[k] = "halted"
    BY <1>0 DEF Halt, Enter, TypeOK
  <2>2. Kernel(k) => pc'[k] \in {"ready", "consume"}
    BY <1>0 DEF Kernel, Enter, After, TypeOK
  <2> QED
    BY <1>0, <2>1, <2>2 DEF Waited, CpuWork
<1>3. CASE EndLoop(k)
  <2>1. pc'[k] = After(k, pc[k]) /\ todo[k] = {} /\ pc[k] \in Phases
    BY <1>0, <1>3 DEF EndLoop, Enter, TypeOK
  <2> QED
    BY <1>0, <1>1, <1>3, <2>1, ClaimsStay DEF Waited, After, EndLoop
<1>4. ASSUME NEW c \in Buffers, BufferCall(k, c)
      PROVE  Waited(k, b) \/ wait_for_work(k, b)
  <2>1. /\ pc' = pc /\ pc[k] # "work"
        /\ todo' = todo \/ todo'[k] = todo[k] \ {c}
    BY <1>0, <1>4, CallEffect
  <2>2. pc[k] = "wait" /\ b \notin todo'[k]
    BY <2>1 DEF Waited
  <2>3. wait_for_work(k, c)
    <3>1. call[k] # <<"host_ready", c>>
      BY <1>0 DEF ControlOK, ThreadOK
    <3> QED
      BY <1>0, <1>4, <2>2, <3>1, CallEffect DEF wait_host_ready, wait_host_ready_return
  <2> QED
    BY <2>1, <2>2, <2>3 DEF Waited
<1>5. pc'[k] = pc[k] /\ todo'[k] = todo[k] => Waited(k, b)
  BY DEF Waited
<1>6. Waited(k, b) \/ wait_for_work(k, b)
  BY <1>0, <1>1, <1>2, <1>3, <1>4, <1>5, OthersStay DEF Thread
<1> QED
  BY <1>0, <1>1, <1>6, ClaimsStay

\* The items of input b have landed in host memory, and k uses them.
HostReading(k, b) == Reading(k, b) /\ (pc[k] = "wait" => b \notin todo[k])

LEMMA HostReadingMoves ==
  ASSUME Ordered, [Next]_vars, NEW k \in Cpu, NEW b \in Ins(k), HostReading(k, b)'
  PROVE  /\ ReadTo(b, k)' = ReadTo(b, k)
         /\ HostReading(k, b) \/ wait_host_ready_return(k, b)
<1> USE DEF Ordered, Base
<1>0. k \in Blocks /\ k \notin Gpu /\ b \in Buffers /\ k \notin ConsumeFirst
  BY Graph DEF Blocks, Ins
<1>1. ~ \E n \in 1..N : Poll(k, n)
  BY <1>0 DEF Poll, Enter, HostReading, Reading, Ports, TypeOK
<1>2. ~Halt(k) /\ ~Kernel(k)
  <2>1. Halt(k) => pc'[k] = "halted"
    BY <1>0 DEF Halt, Enter, TypeOK
  <2> QED
    BY <1>0, <2>1 DEF HostReading, Reading, Kernel
<1>3. CASE EndLoop(k)
  <2>1. /\ pc'[k] = After(k, pc[k]) /\ todo[k] = {}
        /\ pc[k] \in {"wait", "ready", "release", "consume", "post"}
    BY <1>0, <1>3 DEF EndLoop, Enter, TypeOK
  <2>2. pc[k] = "wait" \/ pc'[k] \in {"release", "consume", "post", "idle"}
    BY <1>0, <2>1 DEF After
  <2>3. pc[k] \notin {"ready", "release"}
    BY <1>0 DEF ControlOK, ThreadOK
  <2>4. pc[k] = "wait"
    BY <1>0, <2>1, <2>2, <2>3 DEF After, HostReading, Reading
  <2> QED
    BY <1>0, <1>1, <2>1, <2>4, ClaimsStay DEF HostReading, Reading
<1>4. CASE CpuWork(k)
  BY <1>0, <1>1, <1>4, ClaimsStay DEF CpuWork, HostReading, Reading
<1>5. ASSUME NEW c \in Buffers, BufferCall(k, c)
      PROVE  HostReading(k, b) \/ wait_host_ready_return(k, b)
  <2>1. /\ pc' = pc /\ pc[k] # "work"
        /\ todo' = todo \/ todo'[k] = todo[k] \ {c}
    BY <1>0, <1>5, CallEffect
  <2>2. CASE pc[k] = "wait"
    <3>1. wait_host_ready(k, c) \/ wait_host_ready_return(k, c)
      BY <1>0, <1>5, <2>2, CallEffect DEF wait_for_work
    <3>2. CASE wait_host_ready(k, c)
      <4>1. todo' = todo
        BY <3>2 DEF wait_host_ready
      <4> QED
        BY <2>1, <4>1 DEF HostReading, Reading
    <3>3. CASE wait_host_ready_return(k, c) /\ c # b
      BY <2>1, <2>2, <3>3 DEF HostReading, Reading
    <3> QED
      BY <3>1, <3>2, <3>3
  <2>3. CASE pc[k] # "wait"
    BY <2>1, <2>3 DEF HostReading, Reading
  <2> QED
    BY <2>2, <2>3
<1>6. pc'[k] = pc[k] /\ todo'[k] = todo[k] => HostReading(k, b)
  BY DEF HostReading, Reading
<1>7. HostReading(k, b) \/ wait_host_ready_return(k, b)
  BY <1>0, <1>1, <1>2, <1>3, <1>4, <1>5, <1>6, OthersStay DEF Thread
<1> QED
  BY <1>0, <1>1, <1>7, ClaimsStay

LEMMA AwaitMoves ==
  ASSUME Ordered, [Next]_vars, NEW k \in Cpu, NEW b \in Buffers,
         call'[k] = <<"host_ready", b>>
  PROVE  /\ \/ call[k] = <<"host_ready", b>> /\ await'[k] = await[k]
            \/ wait_host_ready(k, b) /\ await'[k] = d_host_ready_evt[b]
         /\ b \in Ins(k) /\ Reading(k, b) /\ ReadTo(b, k)' = ReadTo(b, k)
<1> USE DEF Ordered, Base
<1>0. k \in Blocks /\ k \notin Gpu
  BY Graph DEF Blocks
<1>1. \A fn, c : <<fn, c>> = <<"host_ready", b>> => fn = "host_ready" /\ c = b
  OBVIOUS
<1>2. ASSUME NEW c \in Buffers, BufferCall(k, c)
      PROVE  \/ call[k] = <<"host_ready", b>> /\ await'[k] = await[k]
             \/ wait_host_ready(k, b) /\ await'[k] = d_host_ready_evt[b]
  <2>1. CASE wait_host_ready(k, c)
    <3>1. call'[k] = <<"host_ready", c>> /\ await'[k] = d_host_ready_evt[c]
      BY <1>0, <2>1 DEF wait_host_ready, TypeOK
    <3>2. c = b
      BY <1>1, <3>1
    <3>3. wait_host_ready(k, b)
      BY <2>1, <3>2
    <3> QED
      BY <3>1, <3>2, <3>3
  <2>2. CASE mark_read_done_record(k, c) \/ wait_host_ready_return(k, c) \/ Publish(k, c)
    <3>1. call'[k] = <<>>
      BY <1>0, <2>2 DEF mark_read_done_record, wait_host_ready_return, Publish, TypeOK
    <3>2. <<>> # <<"host_ready", b>>
      OBVIOUS
    <3> QED
      BY <3>1, <3>2
  <2>3. CASE \/ mark_read_done_wait(k, c) \/ post_work_h2d(k, c) \/ post_work_h2d_ready(k, c)
             \/ post_work_d2h(k, c) \/ post_work_d2d(k, c)
    <3>1. PICK fn \in {"read_done", "dev_ready", "publish"} : call'[k] = <<fn, c>>
      BY <1>0, <2>3 DEF mark_read_done_wait, post_work_h2d, post_work_h2d_ready,
         post_work_d2h, post_work_d2d, TypeOK
    <3> QED
      BY <1>1, <3>1
  <2>4. CASE wait_for_work(k, c) \/ mark_device_ready(k, c) \/ Consume(k, c)
    BY <2>4 DEF wait_for_work, mark_device_ready, Consume
  <2> QED
    BY <1>2, <2>1, <2>2, <2>3, <2>4 DEF BufferCall, post_work
<1>3. ASSUME \/ \E n \in 1..N : Poll(k, n)
             \/ Kernel(k) \/ CpuWork(k) \/ EndLoop(k) \/ Halt(k)
      PROVE  call[k] = <<"host_ready", b>> /\ await'[k] = await[k]
  BY <1>3 DEF Poll, Kernel, CpuWork, EndLoop, Halt
<1>4. \/ call[k] = <<"host_ready", b>> /\ await'[k] = await[k]
      \/ wait_host_ready(k, b) /\ await'[k] = d_host_ready_evt[b]
  BY <1>0, <1>2, <1>3, OthersStay DEF Thread
<1>5. pc[k] = "wait" /\ b \in todo[k] /\ todo[k] \subseteq Ports(k, pc[k])
  BY <1>0, <1>4 DEF wait_host_ready, At, ControlOK, ThreadOK
<1>6. b \in Ins(k) /\ Reading(k, b)
  BY <1>0, <1>5 DEF Ports, Reading
<1>7. ~ \E n \in 1..N : Poll(k, n)
  BY <1>5 DEF Poll
<1> QED
  BY <1>0, <1>4, <1>6, <1>7, ClaimsStay

-----------------------------------------------------------------------------
(* What is written when a cut is executed.                                 *)

\* After cut D, the ring of b in memory m has held the items below h.
Wrote(D, m, b, h) ==
  \/ h <= held[m][b]
  \/ \E p \in Nat, sp \in Span :
       PendingWrite(m, b, p, sp) /\ p <= D[WriteStream(m, b)] /\ h <= sp.hi

LEMMA WroteKept ==
  ASSUME Ordered, TypeOK', [Next]_vars, NEW m \in Mem, NEW b \in Buffers, Moved(m, b),
         NEW D \in Cuts, NEW h \in Nat, Wrote(D, m, b, h)
  PROVE  Wrote(D, m, b, h)'
<1>0. /\ held[m][b] <= held'[m][b] /\ held[m][b] \in Nat /\ held'[m][b] \in Nat
      /\ WriteStream(m, b) \in Streams
  <2>1. TypeOK
    BY DEF Ordered, Base
  <2>2. held[m][b] \in Nat /\ held'[m][b] \in Nat
    BY <2>1 DEF TypeOK
  <2> QED
    BY <2>2, WritesMove, WriteStreamType
<1>1. CASE h <= held[m][b]
  BY <1>0, <1>1 DEF Wrote
<1>2. ASSUME NEW p \in Nat, NEW sp \in Span,
             PendingWrite(m, b, p, sp), p <= D[WriteStream(m, b)], h <= sp.hi
      PROVE  Wrote(D, m, b, h)'
  <2>1. PendingWrite(m, b, p, sp)' \/ held'[m][b] = sp.hi
    BY <1>2, WritesMove
  <2>2. WriteStream(m, b)' = WriteStream(m, b)
    BY DEF WriteStream, H2D
  <2> QED
    BY <1>2, <2>1, <2>2 DEF Wrote
<1> QED
  BY <1>1, <1>2 DEF Wrote

\* Everything enqueued is written when the writing stream is executed to its end.
LEMMA WroteAll ==
  ASSUME Ordered, NEW m \in Mem, NEW b \in Buffers, Moved(m, b), NEW D \in Cuts,
         D[WriteStream(m, b)] >= End(WriteStream(m, b)), NEW h \in Nat, h <= WEnd(m, b)
  PROVE  Wrote(D, m, b, h)
<1> USE DEF Ordered, Base
<1>1. /\ WritesReach(m, b) /\ held[m][b] \in Nat /\ WEnd(m, b) \in Nat
      /\ End(WriteStream(m, b)) \in Nat /\ D[WriteStream(m, b)] \in Nat
  BY WEndType, PositionType, WriteStreamType DEF WritesInOrder, OrderedIn, Cuts
<1>2. ASSUME NEW p \in Nat, NEW sp \in Span, PendingWrite(m, b, p, sp), sp.hi = WEnd(m, b)
      PROVE  Wrote(D, m, b, h)
  <2>1. p <= End(WriteStream(m, b))
    BY <1>2, PendingPositions
  <2>2. p <= D[WriteStream(m, b)]
    BY <1>1, <2>1
  <2> QED
    BY <1>2, <2>2 DEF Wrote
<1> QED
  BY <1>1, <1>2 DEF WritesReach, Wrote

\* What is executed already is written.
LEMMA WroteDone ==
  ASSUME TypeOK, NEW m \in Mem, NEW b \in Buffers, NEW D \in Cuts, D = done,
         NEW h \in Nat, Wrote(D, m, b, h)
  PROVE  h <= held[m][b]
<1>1. ASSUME NEW p \in Nat, NEW sp \in Span, PendingWrite(m, b, p, sp)
      PROVE  ~(p <= D[WriteStream(m, b)])
  <2>1. done[WriteStream(m, b)] < p /\ done[WriteStream(m, b)] \in Nat
    BY <1>1, PendingPositions, WriteStreamType DEF TypeOK
  <2> QED
    BY <2>1
<1> QED
  BY <1>1 DEF Wrote

LEMMA EndsBelow ==
  ASSUME Base
  PROVE  \A b \in Buffers :
           /\ nwritten[b] <= ReadyEnd(b) /\ ReadyEnd(b) <= DevEnd(b) /\ DevEnd(b) <= WriteTo(b)
           /\ nwritten[b] <= HostEnd(b) /\ HostEnd(b) <= WriteTo(b)
<1> TAKE b \in Buffers
<1> DEFINE k == Writer[b]
<1>1. k \in Blocks /\ nwritten[b] \in Nat /\ batch[k] \in Nat
  BY CountType, Graph DEF Base
<1>2. Made(k, b) \/ Hosted(k, b) => Writing(k, b)
  BY <1>1 DEF Base, ControlOK, ThreadOK, Made, Hosted, Worked, Writing
<1> QED
  BY <1>1, <1>2 DEF WriteTo, ReadyEnd, DevEnd, HostEnd, Plus

-----------------------------------------------------------------------------
(* The events and the waits that a batch is written.                       *)

\* A cut that contains the device-ready event of b contains what it stands for.
EvReady ==
  \A b \in Buffers, D \in Cuts, h \in Nat :
    Cut(D) /\ Within(d_dev_ready_evt[b], D) /\ h <= ReadyEnd(b) => Wrote(D, "device", b, h)

EvHost ==
  \A b \in Buffers, D \in Cuts, h \in Nat :
    D2H(b) /\ Cut(D) /\ Within(d_host_ready_evt[b], D) /\ h <= HostEnd(b) =>
      Wrote(D, "host", b, h)

\* A GPU block's stream has waited for the inputs of its work call.
WaitedIn ==
  \A k \in Gpu, b \in Buffers, D \in Cuts, h \in Nat :
    b \in Ins(k) /\ Waited(k, b) /\ Cut(D) /\ D[k] >= End(k) /\ h <= ReadTo(b, k) =>
      Wrote(D, "device", b, h)

\* The same for a CPU block's thread, while it waits and afterwards.
AwaitIn ==
  \A k \in Cpu, b \in Buffers, D \in Cuts, h \in Nat :
    call[k] = <<"host_ready", b>> /\ Cut(D) /\ Within(await[k], D) /\ h <= ReadTo(b, k) =>
      Wrote(D, "host", b, h)

HostIn ==
  \A k \in Cpu, b \in Buffers :
    b \in Ins(k) /\ HostReading(k, b) => ReadTo(b, k) <= held["host"][b]

\* What a pending operation is to read is written when its turn comes.
ReadsReady ==
  \A s \in Streams, p \in Nat, sp \in Span, D \in Cuts :
    PendingRead(s, p, sp) /\ sp.mem = "device" /\ Cut(D) /\ D[s] >= p - 1 =>
      Wrote(D, "device", sp.buf, sp.hi)

Ready == EvReady /\ EvHost /\ WaitedIn /\ AwaitIn /\ HostIn /\ ReadsReady

LEMMA EvReadyStep ==
  ASSUME Ordered, TypeOK', EvReady, [Next]_vars PROVE EvReady'
<1> SUFFICES ASSUME NEW b \in Buffers, NEW D \in Cuts, NEW h \in Nat,
                    Cut(D)', Within(d_dev_ready_evt'[b], D), h <= ReadyEnd(b)'
             PROVE  Wrote(D, "device", b, h)'
  BY DEF EvReady, Within
<1>0. Moved("device", b) /\ "device" \in Mem /\ TypeOK /\ ControlOK /\ Places
  BY DEF Moved, Mem, Ordered, Base
<1>1. Cut(D)
  BY <1>0, CutBack, StreamsMove
<1>2. CASE d_dev_ready_evt'[b] = d_dev_ready_evt[b] /\ ReadyEnd(b)' = ReadyEnd(b)
  <2>1. Wrote(D, "device", b, h)
    BY <1>1, <1>2 DEF EvReady, Within
  <2> QED
    BY <1>0, <2>1, WroteKept
<1>3. CASE /\ d_dev_ready_evt'[b] = RecordOn(WriteStream("device", b), 0)
           /\ ReadyEnd(b)' = DevEnd(b)
  <2>1. End(WriteStream("device", b)) \in Nat
    BY <1>0, PositionType, WriteStreamType
  <2>2. D[WriteStream("device", b)] >= End(WriteStream("device", b))
    BY <1>3, <2>1 DEF RecordOn, Within, End
  <2>3. h <= WEnd("device", b)
    BY <1>3 DEF WEnd
  <2>4. Wrote(D, "device", b, h)
    BY <1>0, <2>2, <2>3, WroteAll
  <2> QED
    BY <1>0, <2>4, WroteKept
<1> QED
  BY <1>2, <1>3, ReadyMoves

LEMMA EvHostStep ==
  ASSUME Ordered, TypeOK', EvHost, [Next]_vars PROVE EvHost'
<1> SUFFICES ASSUME NEW b \in Buffers, NEW D \in Cuts, NEW h \in Nat, D2H(b),
                    Cut(D)', Within(d_host_ready_evt'[b], D), h <= HostEnd(b)'
             PROVE  Wrote(D, "host", b, h)'
  BY DEF EvHost, Within, D2H
<1>0. Moved("host", b) /\ "host" \in Mem /\ TypeOK /\ ControlOK /\ Places
  BY DEF Moved, Mem, Ordered, Base
<1>1. Cut(D)
  BY <1>0, CutBack, StreamsMove
<1>2. CASE d_host_ready_evt'[b] = d_host_ready_evt[b] /\ HostEnd(b)' = HostEnd(b)
  <2>1. Wrote(D, "host", b, h)
    BY <1>1, <1>2 DEF EvHost, Within
  <2> QED
    BY <1>0, <2>1, WroteKept
<1>3. ASSUME NEW k \in Blocks, post_work_d2h(k, b) PROVE Wrote(D, "host", b, h)'
  <2>1. d_host_ready_evt'[b] = RecordOn(b, 2)
    BY <1>0, <1>3 DEF post_work_d2h, TypeOK
  <2>2. PICK e \in Nat : e = End(b) + 2
    BY <1>0, PositionType DEF Streams
  <2>3. e <= D[b]
    BY <2>1, <2>2 DEF RecordOn, Within, End
  <2>4. PICK sp \in Span : sp = OutSpan(k, "host", b)
    BY <1>0, SpanType
  <2>5. PendingWrite("host", b, e, sp)'
    BY <1>0, <1>3, <2>2, <2>4, DownloadPending
  <2>6. sp.hi = WriteTo(b) /\ HostEnd(b)' = WriteTo(b)
    <3>1. WriteTo(b) = nwritten[b] + batch[k] /\ HostEnd(b)' = WriteTo(b)
      BY <1>0, <1>3, DownloadCounts, PostCounts, Graph
         DEF WriteTo, Plus, Writing, PostStep, Outs
    <3> QED
      BY <2>4, <3>1 DEF OutSpan
  <2>7. WriteStream("host", b)' = b
    BY DEF WriteStream
  <2> QED
    BY <2>3, <2>5, <2>6, <2>7 DEF Wrote
<1> QED
  BY <1>2, <1>3, HostMoves

LEMMA WaitedInStep ==
  ASSUME Ordered, TypeOK', EvReady, WaitedIn, [Next]_vars PROVE WaitedIn'
<1> SUFFICES ASSUME NEW k \in Gpu, NEW b \in Buffers, NEW D \in Cuts, NEW h \in Nat,
                    b \in Ins(k), Waited(k, b)', Cut(D)', D[k] >= End(k)', h <= ReadTo(b, k)'
             PROVE  Wrote(D, "device", b, h)'
  BY DEF WaitedIn, Ins
<1>0. /\ Moved("device", b) /\ "device" \in Mem /\ TypeOK /\ ControlOK /\ Places /\ Base
      /\ k \in Streams /\ k \in Blocks
  BY DEF Moved, Mem, Ordered, Base, Streams, Blocks
<1>1. Cut(D)
  BY <1>0, CutBack, StreamsMove
<1>2. h <= ReadTo(b, k) /\ (Waited(k, b) \/ wait_for_work(k, b))
  BY WaitedMoves
<1>3. D[k] \in Nat /\ End(k) \in Nat
  BY <1>0, PositionType DEF Cuts
<1>4. CASE Waited(k, b)
  <2>1. D[k] >= End(k)
    <3>1. End(k) <= End(k)' /\ End(k)' \in Nat
      BY <1>0, StreamsMove, EndNext
    <3> QED
      BY <1>3, <3>1
  <2>2. Wrote(D, "device", b, h)
    BY <1>1, <1>2, <1>4, <2>1 DEF WaitedIn
  <2> QED
    BY <1>0, <2>2, WroteKept
<1>5. CASE wait_for_work(k, b)
  <2>1. PICK e \in Nat : e = End(k) + 1
    BY <1>3
  <2>2. End(k)' = e /\ e \in Waiting(k)'
    BY <1>0, <1>3, <1>5, <2>1, WaitGrows, GrowsEnd
  <2>3. OpAt(k, e)' = WaitEvent(d_dev_ready_evt[b])
    <3>1. e \notin Waiting(k)
      BY <1>0, <1>3, <2>1, PositionType
    <3> QED
      BY <1>0, <1>5, <2>2, <3>1, WaitGrows
  <2>4. Within(d_dev_ready_evt[b], D)
    <3>1. PICK ev : ev = d_dev_ready_evt[b]
      OBVIOUS
    <3>2. Within(ev, D)
      BY <1>0, <2>2, <2>3, <3>1, WaitInCut
    <3> QED
      BY <3>1, <3>2
  <2>5. h <= ReadyEnd(b)
    <3>1. ReadTo(b, k) <= nwritten[b] /\ nwritten[b] <= ReadyEnd(b)
      BY <1>0, EndsBelow DEF Base, CountsOK, Ins
    <3>2. ReadTo(b, k) \in Nat /\ nwritten[b] \in Nat /\ ReadyEnd(b) \in Nat
      BY <1>0, ReadEndType, WEndType, CountType DEF Mem
    <3> QED
      BY <1>2, <3>1, <3>2
  <2>6. Wrote(D, "device", b, h)
    BY <1>1, <2>4, <2>5 DEF EvReady
  <2> QED
    BY <1>0, <2>6, WroteKept
<1> QED
  BY <1>2, <1>4, <1>5

LEMMA AwaitInStep ==
  ASSUME Ordered, TypeOK', EvHost, AwaitIn, [Next]_vars PROVE AwaitIn'
<1> SUFFICES ASSUME NEW k \in Cpu, NEW b \in Buffers, NEW D \in Cuts, NEW h \in Nat,
                    call'[k] = <<"host_ready", b>>, Cut(D)', Within(await'[k], D),
                    h <= ReadTo(b, k)'
             PROVE  Wrote(D, "host", b, h)'
  BY DEF AwaitIn, Within
<1>0. "host" \in Mem /\ TypeOK /\ ControlOK /\ Places /\ Base /\ k \in Blocks
  BY DEF Mem, Ordered, Base, Blocks
<1>1. Cut(D)
  BY <1>0, CutBack, StreamsMove
<1>2. /\ \/ call[k] = <<"host_ready", b>> /\ await'[k] = await[k]
         \/ wait_host_ready(k, b) /\ await'[k] = d_host_ready_evt[b]
      /\ b \in Ins(k) /\ ReadTo(b, k)' = ReadTo(b, k)
  BY AwaitMoves
<1>3. D2H(b) /\ Moved("host", b)
  BY <1>2, Graph DEF Ins, Moved
<1>4. CASE call[k] = <<"host_ready", b>> /\ await'[k] = await[k]
  <2>1. Wrote(D, "host", b, h)
    BY <1>1, <1>2, <1>4 DEF AwaitIn, Within
  <2> QED
    BY <1>0, <1>3, <2>1, WroteKept
<1>5. CASE await'[k] = d_host_ready_evt[b]
  <2>1. h <= HostEnd(b)
    <3>1. ReadTo(b, k) <= nwritten[b] /\ nwritten[b] <= HostEnd(b)
      BY <1>0, <1>2, EndsBelow DEF Base, CountsOK, Ins
    <3>2. ReadTo(b, k) \in Nat /\ nwritten[b] \in Nat /\ HostEnd(b) \in Nat
      BY <1>0, ReadEndType, WEndType, CountType
    <3> QED
      BY <1>2, <3>1, <3>2
  <2>2. Within(d_host_ready_evt[b], D)
    BY <1>5 DEF Within
  <2>3. Wrote(D, "host", b, h)
    BY <1>1, <1>3, <2>1, <2>2 DEF EvHost
  <2> QED
    BY <1>0, <1>3, <2>3, WroteKept
<1> QED
  BY <1>2, <1>4, <1>5

LEMMA HostInStep ==
  ASSUME Ordered, TypeOK', AwaitIn, HostIn, [Next]_vars PROVE HostIn'
<1> SUFFICES ASSUME NEW k \in Cpu, NEW b \in Buffers, b \in Ins(k), HostReading(k, b)'
             PROVE  ReadTo(b, k)' <= held'["host"][b]
  BY DEF HostIn, Ins
<1>0. "host" \in Mem /\ TypeOK /\ k \in Blocks /\ D2H(b) /\ Moved("host", b)
  BY Graph DEF Mem, Ordered, Base, Blocks, Ins, Moved
<1>1. ReadTo(b, k)' = ReadTo(b, k) /\ (HostReading(k, b) \/ wait_host_ready_return(k, b))
  BY HostReadingMoves
<1>2. held["host"][b] \in Nat /\ held'["host"][b] \in Nat /\ ReadTo(b, k) \in Nat
  BY <1>0, ReadEndType DEF TypeOK
<1>3. held["host"][b] <= held'["host"][b]
  BY <1>0, WritesMove
<1>4. ReadTo(b, k) <= held["host"][b]
  <2>1. CASE HostReading(k, b)
    BY <2>1 DEF HostIn
  <2>2. CASE wait_host_ready_return(k, b)
    <3>1. PICK D \in Cuts : D = done /\ Cut(D)
      BY <1>0, DoneIsCut
    <3>2. PICK h \in Nat : h = ReadTo(b, k)
      BY <1>2
    <3>3. call[k] = <<"host_ready", b>> /\ Within(await[k], D)
      BY <2>2, <3>1 DEF wait_host_ready_return, Complete, Within
    <3>4. Wrote(D, "host", b, h)
      BY <1>2, <3>1, <3>2, <3>3 DEF AwaitIn
    <3> QED
      BY <1>0, <3>1, <3>2, <3>4, WroteDone
  <2> QED
    BY <1>1, <2>1, <2>2
<1> QED
  BY <1>1, <1>2, <1>3, <1>4

LEMMA ReadsReadyStep ==
  ASSUME Ordered, TypeOK', EvReady, WaitedIn, ReadsReady, [Next]_vars PROVE ReadsReady'
<1> SUFFICES ASSUME NEW s \in Streams, NEW p \in Nat, NEW sp \in Span, NEW D \in Cuts,
                    PendingRead(s, p, sp)', sp.mem = "device", Cut(D)', D[s] >= p - 1
             PROVE  Wrote(D, "device", sp.buf, sp.hi)'
  BY DEF ReadsReady
<1>0. /\ Moved("device", sp.buf) /\ "device" \in Mem /\ TypeOK /\ ControlOK /\ Places /\ Base
      /\ sp.buf \in Buffers /\ sp.hi \in Nat /\ sp.lo \in Nat
  BY DEF Moved, Mem, Ordered, Base, Span
<1>1. Cut(D)
  BY <1>0, CutBack, StreamsMove
<1>2. PICK h \in Nat, b \in Buffers : h = sp.hi /\ b = sp.buf
  BY <1>0
<1>3. SUFFICES Wrote(D, "device", b, h)
  BY <1>0, <1>2, WroteKept
<1>4. CASE PendingRead(s, p, sp)
  BY <1>1, <1>2, <1>4 DEF ReadsReady
<1>5. ASSUME s \in Blocks, Kernel(s), p = End(s) + 1,
             NEW c \in Ins(s), sp = InSpan(s, "device", c)
      PROVE  Wrote(D, "device", b, h)
  <2>1. s \in Gpu /\ pc[s] = "work" /\ End(s) \in Nat /\ D[s] \in Nat
    BY <1>0, <1>5, PositionType DEF Kernel, Cuts
  <2>2. c = b /\ h = nread[b][s] + batch[s]
    BY <1>2, <1>5 DEF InSpan
  <2>3. Waited(s, b) /\ h = ReadTo(b, s)
    BY <2>1, <2>2 DEF Waited, ReadTo, Plus, Reading
  <2>4. D[s] >= End(s) /\ b \in Ins(s)
    BY <1>5, <2>1, <2>2
  <2>5. h <= ReadTo(b, s)
    BY <2>3
  <2> QED
    BY <1>1, <2>1, <2>3, <2>4, <2>5 DEF WaitedIn
<1>6. ASSUME NEW k \in Blocks, NEW c \in Buffers, s = c, p = End(c) + 2,
             post_work_d2h(k, c), sp = OutSpan(k, "device", c)
      PROVE  Wrote(D, "device", b, h)
  <2>1. c = b /\ h = nwritten[b] + batch[k]
    BY <1>2, <1>6 DEF OutSpan
  <2>2. PostStep(k, b, "publish") /\ ReadyEnd(b) = WriteTo(b)
    BY <1>0, <1>6, <2>1, DownloadCounts
  <2>3. h = ReadyEnd(b)
    BY <1>0, <2>1, <2>2, PostCounts
  <2>4. h <= ReadyEnd(b) /\ End(b) \in Nat /\ D[b] \in Nat
    BY <1>0, <2>3, PositionType DEF Cuts, Streams
  <2>5. PICK e \in Nat : e = End(b) + 1
    BY <2>4
  <2>6. D[b] >= e
    BY <1>6, <2>1, <2>4, <2>5
  <2>7. post_work_d2h(k, b)
    BY <1>6, <2>1
  <2>8. e \in Waiting(b)' /\ OpAt(b, e)' = WaitEvent(d_dev_ready_evt[b])
    BY <1>0, <2>4, <2>5, <2>7, DownloadWait
  <2>9. PICK ev : ev = d_dev_ready_evt[b]
    OBVIOUS
  <2>10. Within(ev, D)
    BY <2>6, <2>8, <2>9, WaitInCut DEF Streams
  <2> QED
    BY <1>1, <2>4, <2>9, <2>10 DEF EvReady
<1>7. \A k \in Blocks, c \in Buffers : sp # OutSpan(k, "host", c)
  BY DEF OutSpan
<1> QED
  BY <1>4, <1>5, <1>6, <1>7, ReadsMove

LEMMA ReadyInit == Init => Ready
<1> SUFFICES ASSUME Init PROVE Ready
  OBVIOUS
<1>1. /\ \A s \in Streams : Waiting(s) = {}
      /\ \A k \in Blocks : pc[k] = "idle" /\ call[k] = <<>>
      /\ \A m \in Mem, b \in Buffers : held[m][b] = 0 /\ nwritten[b] = 0
      /\ \A b \in Buffers, k \in Blocks : nread[b][k] = 0
  <2>1. \A s \in Streams : End(s) = 0 /\ done[s] = 0
    BY DEF Init, End
  <2> QED
    BY <2>1 DEF Init, Waiting
<1>2. \A b \in Buffers : ReadyEnd(b) = 0 /\ HostEnd(b) = 0
  <2>1. \A b \in Buffers : ~Made(Writer[b], b) /\ ~Hosted(Writer[b], b)
    <3> SUFFICES ASSUME NEW b \in Buffers
                 PROVE ~Made(Writer[b], b) /\ ~Hosted(Writer[b], b)
      OBVIOUS
    <3>1. Writer[b] \in Blocks
      BY Graph
    <3>2. pc[Writer[b]] = "idle" /\ call[Writer[b]] = <<>>
      BY <1>1, <3>1
    <3>3. ~Worked(Writer[b], b)
      BY <3>2 DEF Worked, Writing
    <3> QED
      BY <3>2, <3>3 DEF Made, Hosted
  <2> QED
    BY <1>1, <2>1 DEF ReadyEnd, HostEnd, Plus, Mem
<1>3. \A k \in Blocks, b \in Buffers : ~Waited(k, b) /\ ~HostReading(k, b)
  BY <1>1 DEF Waited, HostReading, Reading
<1>4. EvReady /\ EvHost
  BY <1>1, <1>2 DEF EvReady, EvHost, Wrote, Mem
<1>5. WaitedIn /\ AwaitIn /\ HostIn
  <2>1. \A b \in Buffers : <<>> # <<"host_ready", b>>
    OBVIOUS
  <2> QED
    BY <1>1, <1>3, <2>1 DEF WaitedIn, AwaitIn, HostIn, Blocks
<1>6. ReadsReady
  BY <1>1 DEF ReadsReady, PendingRead
<1> QED
  BY <1>4, <1>5, <1>6 DEF Ready

LEMMA ReadyInvariant == Spec => []Ready
<1>1. Ordered /\ Ordered' /\ Ready /\ [Next]_vars => Ready'
  BY EvReadyStep, EvHostStep, WaitedInStep, AwaitInStep, HostInStep, ReadsReadyStep
     DEF Ready, Ordered, Base
<1> QED
  BY <1>1, ReadyInit, OrderedInvariant, PTL DEF Spec

\* A CPU block works on items that have landed in host memory and that no copy
\* overwrites, although its thread waited for one record of the event only.
THEOREM CpuReadsAreIntact == Spec => []CpuReadsIntact
<1>1. Ordered /\ Ready => CpuReadsIntact
  <2> SUFFICES ASSUME Ordered, Ready, NEW k \in Cpu, pc[k] = "work", NEW b \in Ins(k)
               PROVE  Intact(InSpan(k, "host", b))
    BY DEF CpuReadsIntact
  <2>0. /\ TypeOK /\ Base /\ k \in Blocks /\ b \in Buffers /\ D2H(b) /\ Moved("host", b)
        /\ "host" \in Mem
    BY Graph DEF Mem, Ordered, Base, Blocks, Ins, Moved
  <2>1. /\ nread[b][k] \in Nat /\ batch[k] \in Nat /\ held["host"][b] \in Nat /\ N \in Nat
        /\ HostEnd(b) \in Nat /\ WriteTo(b) \in Nat
    BY <2>0, CountType, WEndType, Graph
  <2>2. ReadTo(b, k) = nread[b][k] + batch[k] /\ HostReading(k, b)
    BY DEF ReadTo, Plus, Reading, HostReading
  <2>3. nread[b][k] + batch[k] <= held["host"][b]
    BY <2>0, <2>2 DEF Ready, HostIn
  <2>4. held["host"][b] <= HostEnd(b)
    BY <2>0 DEF Ordered, WritesInOrder, OrderedIn, WEnd
  <2>5. HostEnd(b) <= WriteTo(b) /\ WriteTo(b) <= nread[b][k] + N - 1
    BY <2>0, EndsBelow DEF Base, CountsOK, Ins
  <2>6. held["host"][b] - N <= nread[b][k]
    BY <2>1, <2>4, <2>5
  <2> QED
    BY <2>3, <2>6 DEF Intact, InSpan
<1> QED
  BY <1>1, OrderedInvariant, ReadyInvariant, PTL

-----------------------------------------------------------------------------
(* How the pending writes and the locks move.                              *)

LEMMA WritesAppear ==
  ASSUME Ordered, [Next]_vars, NEW m \in Mem, NEW b \in Buffers, NEW p \in Nat, NEW sp \in Span,
         PendingWrite(m, b, p, sp)', ~PendingWrite(m, b, p, sp)
  PROVE  \/ \E k \in Blocks : /\ Kernel(k) /\ p = End(k) + 1 /\ m = "device"
                              /\ b \in Outs(k) /\ sp = OutSpan(k, "device", b)
         \/ \E k \in Blocks : /\ post_work_h2d(k, b) /\ p = End(b) + 2 /\ m = "device"
                              /\ sp = OutSpan(k, "device", b)
         \/ \E k \in Blocks : /\ post_work_d2h(k, b) /\ p = End(b) + 2 /\ m = "host"
                              /\ sp = OutSpan(k, "host", b)
<1> USE DEF Ordered, Base
<1>1. ~Quiet
  BY DEF Quiet, SamePending
<1>2. ASSUME NEW k \in Blocks, Kernel(k)
      PROVE  /\ p = End(k) + 1 /\ m = "device"
             /\ b \in Outs(k) /\ sp = OutSpan(k, "device", b)
  BY <1>2, KernelPending
<1>3. ASSUME NEW k \in Blocks, CpuWork(k) PROVE FALSE
  BY <1>3, CpuWorkHeld DEF SamePending
<1>4. ASSUME NEW k \in Blocks, NEW c \in Buffers, post_work_h2d(k, c)
      PROVE  post_work_h2d(k, b) /\ p = End(b) + 2 /\ m = "device" /\ sp = OutSpan(k, "device", b)
  <2>1. p = End(c) + 2 /\ m = "device" /\ b = c /\ sp = OutSpan(k, "device", c)
    BY <1>4, UploadPending
  <2>2. post_work_h2d(k, b)
    BY <1>4, <2>1
  <2> QED
    BY <2>1, <2>2
<1>5. ASSUME NEW k \in Blocks, NEW c \in Buffers, post_work_d2h(k, c)
      PROVE  post_work_d2h(k, b) /\ p = End(b) + 2 /\ m = "host" /\ sp = OutSpan(k, "host", b)
  <2>1. p = End(c) + 2 /\ m = "host" /\ b = c /\ sp = OutSpan(k, "host", c)
    BY <1>5, DownloadPending
  <2>2. post_work_d2h(k, b)
    BY <1>5, <2>1
  <2> QED
    BY <2>1, <2>2
<1>6. ASSUME NEW t \in Streams, Exec(t) PROVE FALSE
  BY <1>6, ExecPending
<1> QED
  BY <1>1, <1>2, <1>3, <1>4, <1>5, <1>6, QuietStep

\* Only its owner moves the lock of a read-done event, and only its owner records.
LEMMA LockMoves ==
  ASSUME Ordered, [Next]_vars, NEW k \in Blocks, NEW b \in Buffers,
         call'[k] = <<"read_done", b>>
  PROVE  /\ \/ call[k] = <<"read_done", b>>
            \/ mark_read_done_wait(k, b)
         /\ k \in Gpu /\ b \in Ins(k)
<1> USE DEF Ordered, Base
<1>1. \A fn, c : <<fn, c>> = <<"read_done", b>> => fn = "read_done" /\ c = b
  OBVIOUS
<1>2. ASSUME NEW c \in Buffers, BufferCall(k, c)
      PROVE  call[k] = <<"read_done", b>> \/ mark_read_done_wait(k, b)
  <2>1. CASE mark_read_done_wait(k, c)
    <3>1. call'[k] = <<"read_done", c>>
      BY <2>1 DEF mark_read_done_wait, TypeOK
    <3>2. c = b
      BY <1>1, <3>1
    <3>3. mark_read_done_wait(k, b)
      BY <2>1, <3>2
    <3> QED
      BY <3>3
  <2>2. CASE mark_read_done_record(k, c) \/ wait_host_ready_return(k, c) \/ Publish(k, c)
    <3>1. call'[k] = <<>>
      BY <2>2 DEF mark_read_done_record, wait_host_ready_return, Publish, TypeOK
    <3>2. <<>> # <<"read_done", b>>
      OBVIOUS
    <3> QED
      BY <3>1, <3>2
  <2>3. CASE \/ wait_host_ready(k, c) \/ post_work_h2d(k, c) \/ post_work_h2d_ready(k, c)
             \/ post_work_d2h(k, c) \/ post_work_d2d(k, c)
    <3>1. PICK fn \in {"host_ready", "dev_ready", "publish"} : call'[k] = <<fn, c>>
      BY <2>3 DEF wait_host_ready, post_work_h2d, post_work_h2d_ready,
         post_work_d2h, post_work_d2d, TypeOK
    <3> QED
      BY <1>1, <3>1
  <2>4. CASE wait_for_work(k, c) \/ mark_device_ready(k, c) \/ Consume(k, c)
    BY <2>4 DEF wait_for_work, mark_device_ready, Consume
  <2> QED
    BY <1>2, <2>1, <2>2, <2>3, <2>4 DEF BufferCall, post_work
<1>3. ASSUME \/ \E n \in 1..N : Poll(k, n)
             \/ Kernel(k) \/ CpuWork(k) \/ EndLoop(k) \/ Halt(k)
      PROVE  call[k] = <<"read_done", b>>
  BY <1>3 DEF Poll, Kernel, CpuWork, EndLoop, Halt
<1>4. call[k] = <<"read_done", b>> \/ mark_read_done_wait(k, b)
  BY <1>2, <1>3, OthersStay DEF Thread
<1>5. pc[k] = "release" /\ b \in todo[k] /\ todo[k] \subseteq Ports(k, pc[k]) /\ k \in Gpu
  BY <1>4 DEF mark_read_done_wait, At, ControlOK, ThreadOK
<1> QED
  BY <1>4, <1>5 DEF Ports

-----------------------------------------------------------------------------
(* What is read when a cut is executed.                                    *)

\* After cut D, no pending operation reads items of b below h.
ReadIn(D, b, h) ==
  \A s \in Streams, p \in Nat, sp \in Span :
    PendingRead(s, p, sp) /\ sp.mem = "device" /\ sp.buf = b /\ sp.lo < h => p <= D[s]

\* No reader of b consumes before it calls mark_work_done.
Tame(b) == Readers[b] \cap ConsumeFirst = {}

\* Who is about to read from b has not consumed yet.
LEMMA ReadInKept ==
  ASSUME Ordered, [Next]_vars, NEW b \in Buffers, NEW D \in Cuts, NEW h \in Int,
         h <= WriteTo(b) - N, ReadIn(D, b, h)
  PROVE  ReadIn(D, b, h)'
<1> SUFFICES ASSUME NEW s \in Streams, NEW p \in Nat, NEW sp \in Span,
                    PendingRead(s, p, sp)', sp.mem = "device", sp.buf = b, sp.lo < h
             PROVE  p <= D[s]
  BY DEF ReadIn
<1>0. TypeOK /\ ControlOK /\ Base /\ CountsOK /\ WriteTo(b) \in Nat /\ N \in Nat /\ "device" \in Mem
  BY WEndType, Graph DEF Ordered, Base, Mem
<1>1. CASE PendingRead(s, p, sp)
  BY <1>1 DEF ReadIn
<1>2. ASSUME s \in Blocks, Kernel(s), NEW c \in Ins(s), sp = InSpan(s, "device", c)
      PROVE  FALSE
  <2>1. c = b /\ sp.lo = nread[b][s]
    BY <1>2 DEF InSpan
  <2>2. WriteTo(b) <= nread[b][s] + N - 1 /\ nread[b][s] \in Nat
    BY <1>0, <1>2, <2>1, CountType DEF CountsOK, Ins
  <2> QED
    BY <1>0, <2>1, <2>2
<1>3. ASSUME NEW k \in Blocks, NEW c \in Buffers, post_work_d2h(k, c), sp = OutSpan(k, "device", c)
      PROVE  FALSE
  <2>1. c = b /\ sp.lo = nwritten[b]
    BY <1>3 DEF OutSpan
  <2>2. post_work_d2h(k, b)
    BY <1>3, <2>1
  <2>3. WriteTo(b) = nwritten[b] + batch[k] /\ nwritten[b] \in Nat /\ batch[k] \in Nat /\ batch[k] <= N
    BY <1>0, <2>2, DownloadCounts, PostCounts, CountType
  <2> QED
    BY <1>0, <2>1, <2>3
<1>4. \A k \in Blocks, c \in Buffers : sp # OutSpan(k, "host", c)
  BY DEF OutSpan
<1> QED
  BY <1>1, <1>2, <1>3, <1>4, ReadsMove

\* The read-done event of a download stands for the last copy; that of the
\* other buffers for every reader's marked reads.
EvRead ==
  /\ \A b \in Buffers, p \in Nat, sp \in Span : D2H(b) =>
       /\ d_read_done_evt[b].stream = b
       /\ PendingRead(b, p, sp) => p <= d_read_done_evt[b].pos
  /\ \A b \in Buffers, D \in Cuts, p \in Nat, sp \in Span : \A k \in Readers[b] \cap Gpu :
       /\ Cut(D) /\ Within(d_read_done_evt[b], D)
       /\ KernelRead(b, k, p, sp) /\ sp.hi <= Marked(b, k)
       => p <= D[k]

\* Who is in mark_read_done has waited for the last record.
Locked ==
  \A k \in Blocks, b \in Buffers, D \in Cuts :
    call[k] = <<"read_done", b>> /\ Cut(D) /\ D[k] >= End(k) => Within(d_read_done_evt[b], D)

\* A GPU block's stream has waited for the readers of its outputs.
WaitedOut ==
  \A k \in Gpu, b \in Buffers, D \in Cuts, h \in Int :
    /\ b \in Outs(k) /\ Tame(b) /\ Waited(k, b) /\ Cut(D) /\ D[k] >= End(k)
    /\ h <= WriteTo(b) - N
    => ReadIn(D, b, h)

\* When the turn of a pending write comes, the items whose place it takes are read.
WritesSafe ==
  \A b \in Buffers, p \in Nat, sp \in Span, D \in Cuts, h \in Int :
    /\ Tame(b) /\ PendingWrite("device", b, p, sp) /\ Cut(D)
    /\ D[WriteStream("device", b)] >= p - 1 /\ h <= sp.hi - N
    => ReadIn(D, b, h)

\* No write has overwritten what is still to be read.
ReadsHeld ==
  \A s \in Streams, p \in Nat, sp \in Span :
    PendingRead(s, p, sp) /\ sp.mem = "device" /\ Tame(sp.buf) =>
      held["device"][sp.buf] - N <= sp.lo

Safe == EvRead /\ Locked /\ WaitedOut /\ WritesSafe /\ ReadsHeld

LEMMA MarkedType ==
  ASSUME TypeOK PROVE \A b \in Buffers, k \in Blocks : Marked(b, k) \in Int
<1>1. \A b \in Buffers, k \in Blocks : ReadEnd(b, k) \in Nat /\ batch[k] \in Nat
  BY ReadEndType, CountType
<1> QED
  BY <1>1 DEF Marked

LEMMA MarkedCovers ==
  ASSUME Base, NEW b \in Buffers, Tame(b), NEW k \in Readers[b] \cap Gpu
  PROVE  nread[b][k] <= Marked(b, k) /\ nread[b][k] \in Nat /\ Marked(b, k) \in Int
<1>1. k \in Blocks /\ k \notin ConsumeFirst /\ nread[b][k] \in Nat /\ batch[k] \in Nat
  BY CountType, Graph DEF Base, Tame
<1>2. Unmarked(k, b) => Launched(b, k)
  BY <1>1 DEF Unmarked, Launched
<1> QED
  BY <1>1, <1>2 DEF Marked, ReadEnd, Plus

\* What a complete read-done event means to the writer.
LEMMA ReadDoneCovers ==
  ASSUME Ordered, EvRead, NEW b \in Buffers, Tame(b), NEW D \in Cuts, Cut(D),
         Within(d_read_done_evt[b], D), NEW h \in Int, h <= WriteTo(b) - N
  PROVE  ReadIn(D, b, h)
<1> SUFFICES ASSUME NEW s \in Streams, NEW p \in Nat, NEW sp \in Span,
                    PendingRead(s, p, sp), sp.mem = "device", sp.buf = b, sp.lo < h
             PROVE  p <= D[s]
  BY DEF ReadIn
<1>0. TypeOK /\ Base /\ CountsOK /\ WriteTo(b) \in Nat /\ N \in Nat /\ D[s] \in Nat
  BY WEndType, Graph DEF Ordered, Base, Mem, Cuts
<1>1. (s \in Gpu /\ b \in Ins(s)) \/ (s = b /\ D2H(b))
  BY DEF Ordered, Places, Placed, PendingRead
<1>2. CASE s = b /\ D2H(b)
  <2>1. d_read_done_evt[b].stream = b /\ p <= d_read_done_evt[b].pos
    BY <1>2 DEF EvRead
  <2>2. d_read_done_evt[b].pos \in Nat
    BY <1>0 DEF TypeOK, Event
  <2> QED
    BY <1>0, <1>2, <2>1, <2>2 DEF Within
<1>3. CASE s \in Gpu /\ b \in Ins(s)
  <2>1. s \in Readers[b] \cap Gpu /\ s \in Blocks
    BY <1>3 DEF Ins, Blocks
  <2>2. KernelRead(b, s, p, sp) /\ sp.lo \in Nat /\ sp.hi \in Nat
    BY DEF KernelRead, Span
  <2>3. sp.hi <= nread[b][s] \/ nread[b][s] <= sp.lo
    BY <2>1, <2>2 DEF Ordered, ReadsInOrder, ReadBy, ReadsInRange
  <2>4. WriteTo(b) <= nread[b][s] + N - 1
    BY <1>0, <2>1 DEF CountsOK
  <2>5. nread[b][s] <= Marked(b, s) /\ nread[b][s] \in Nat /\ Marked(b, s) \in Int
    BY <1>0, <2>1, MarkedCovers
  <2>6. sp.hi <= nread[b][s]
    BY <1>0, <2>2, <2>3, <2>4, <2>5
  <2>7. sp.hi <= Marked(b, s)
    BY <2>2, <2>5, <2>6
  <2> QED
    BY <2>1, <2>2, <2>7 DEF EvRead
<1> QED
  BY <1>1, <1>2, <1>3

LEMMA EvReadStep ==
  ASSUME Ordered, TypeOK', EvRead, Locked, [Next]_vars PROVE EvRead'
<1>0. TypeOK /\ ControlOK /\ Places /\ Base
  BY DEF Ordered, Base
<1>1. ASSUME NEW b \in Buffers, NEW p \in Nat, NEW sp \in Span, D2H(b)
      PROVE  /\ d_read_done_evt'[b].stream = b
             /\ PendingRead(b, p, sp)' => p <= d_read_done_evt'[b].pos
  <2>0. b \notin Gpu /\ b \notin Blocks /\ End(b) \in Nat /\ b \in Streams /\ Readers[b] \cap Gpu = {}
    BY <1>0, <1>1, Graph, PositionType DEF Streams
  <2>1. ASSUME NEW k \in Blocks, post_work_d2h(k, b)
        PROVE  /\ d_read_done_evt'[b].stream = b
               /\ PendingRead(b, p, sp)' => p <= d_read_done_evt'[b].pos
    <3>1. d_read_done_evt'[b] = RecordOn(b, 2)
      BY <1>0, <2>1 DEF post_work_d2h, TypeOK
    <3>2. d_read_done_evt'[b].stream = b /\ d_read_done_evt'[b].pos = End(b) + 2
      BY <3>1 DEF RecordOn, End
    <3>3. PendingRead(b, p, sp)' => PendingRead(b, p, sp) \/ p = End(b) + 2
      BY <1>0, <2>0, <2>1, DownloadPending
    <3>4. PendingRead(b, p, sp) => p <= End(b)
      BY <1>0, <2>0, PendingPositions
    <3> QED
      BY <2>0, <3>2, <3>3, <3>4
  <2>2. CASE ~ \E k \in Blocks : post_work_d2h(k, b)
    <3>1. d_read_done_evt'[b] = d_read_done_evt[b]
      BY <2>0, <2>2, DoneMoves DEF SameDone
    <3>2. PendingRead(b, p, sp)' => PendingRead(b, p, sp)
      <4>1. ASSUME NEW k \in Blocks, NEW c \in Buffers, b = c, post_work_d2h(k, c) PROVE FALSE
        <5>1. post_work_d2h(k, b)
          BY <4>1
        <5> QED
          BY <2>2, <5>1
      <4>2. ASSUME NEW k \in Blocks, NEW c \in Buffers, b = c, post_work_h2d(k, c) PROVE FALSE
        <5>1. H2D(b)
          BY <4>2 DEF post_work_h2d
        <5> QED
          BY <1>1, <5>1, Graph
      <4> QED
        BY <2>0, <4>1, <4>2, ReadsMove
    <3> QED
      BY <1>1, <3>1, <3>2 DEF EvRead
  <2> QED
    BY <2>1, <2>2
<1>2. ASSUME NEW b \in Buffers, NEW D \in Cuts, NEW p \in Nat, NEW sp \in Span,
             NEW k \in Readers[b] \cap Gpu, Cut(D)', Within(d_read_done_evt'[b], D),
             KernelRead(b, k, p, sp)', sp.hi <= Marked(b, k)'
      PROVE  p <= D[k]
  <2>0. /\ k \in Blocks /\ k \in Streams /\ k \notin Buffers /\ ~D2H(b) /\ b \in Ins(k)
        /\ End(k) \in Nat /\ D[k] \in Nat
    BY <1>0, Graph, PositionType DEF Streams, Cuts, Ins
  <2>1. Cut(D)
    BY <1>0, <1>2, CutBack, StreamsMove
  <2>2. KernelRead(b, k, p, sp)
    <3>1. PendingRead(k, p, sp)' /\ sp.buf = b
      BY <1>2 DEF KernelRead
    <3>2. ASSUME Kernel(k), NEW c \in Ins(k), sp = InSpan(k, "device", c) PROVE FALSE
      <4>1. c = b /\ sp.hi = nread[b][k] + batch[k]
        BY <3>1, <3>2 DEF InSpan
      <4>2. Marked(b, k)' = Marked(b, k)
        BY <1>0, <2>0, <3>2, KernelCounts
      <4>3. Marked(b, k) <= nread[b][k] /\ batch[k] >= 1 /\ nread[b][k] \in Nat /\ batch[k] \in Nat
        <5>1. pc[k] = "work" /\ nread[b][k] \in Nat /\ batch[k] \in Nat
          BY <1>0, <2>0, <3>2, CountType DEF Kernel
        <5>2. Marked(b, k) = nread[b][k]
          BY <5>1 DEF Marked, ReadEnd, Plus, Launched, Unmarked
        <5>3. batch[k] >= 1
          BY <1>0, <2>0, <5>1 DEF ControlOK, ThreadOK, Active
        <5> QED
          BY <5>1, <5>2, <5>3
      <4>4. Marked(b, k)' <= nread[b][k] /\ Marked(b, k)' \in Int
        BY <4>2, <4>3, <2>0, <1>0, MarkedType
      <4> QED
        BY <1>2, <4>1, <4>3, <4>4
    <3> QED
      BY <2>0, <3>1, <3>2, ReadsMove DEF KernelRead
  <2>3. CASE SameDone(b)
    <3>1. Within(d_read_done_evt[b], D) /\ sp.hi <= Marked(b, k)
      BY <1>2, <2>3 DEF SameDone, Within
    <3> QED
      BY <2>1, <2>2, <3>1 DEF EvRead
  <2>4. ASSUME NEW j \in Readers[b] \cap Gpu, call[j] = <<"read_done", b>>,
               d_read_done_evt'[b] = RecordOn(j, 0),
               \A r \in Readers[b] \cap Gpu :
                   Marked(b, r)' = IF r = j THEN ReadEnd(b, r) ELSE Marked(b, r)
        PROVE  p <= D[k]
    <3>0. End(j) \in Nat /\ D[j] \in Nat /\ j \in Blocks
      BY <1>0, Graph, PositionType DEF Streams, Cuts
    <3>1. D[j] >= End(j)
      BY <1>2, <2>4, <3>0 DEF RecordOn, Within, End
    <3>2. CASE k = j
      <4>1. p <= End(k)
        BY <1>0, <2>0, <2>2, PendingPositions DEF KernelRead
      <4> QED
        BY <2>0, <3>1, <3>2, <4>1
    <3>3. CASE k # j
      <4>1. Within(d_read_done_evt[b], D)
        BY <2>1, <2>4, <3>0, <3>1 DEF Locked
      <4>2. sp.hi <= Marked(b, k)
        BY <1>2, <2>4, <3>3
      <4> QED
        BY <2>1, <2>2, <4>1, <4>2 DEF EvRead
    <3> QED
      BY <3>2, <3>3
  <2>5. ~ \E j \in Blocks : post_work_d2h(j, b)
    BY <2>0 DEF post_work_d2h
  <2> QED
    BY <2>3, <2>4, <2>5, DoneMoves
<1> QED
  BY <1>1, <1>2 DEF EvRead, Within, D2H

LEMMA LockedStep ==
  ASSUME Ordered, TypeOK', Locked, [Next]_vars PROVE Locked'
<1> SUFFICES ASSUME NEW k \in Blocks, NEW b \in Buffers, NEW D \in Cuts,
                    call'[k] = <<"read_done", b>>, Cut(D)', D[k] >= End(k)'
             PROVE  Within(d_read_done_evt'[b], D)
  BY DEF Locked, Within
<1>0. TypeOK /\ ControlOK /\ Places /\ Base
  BY DEF Ordered, Base
<1>1. Cut(D)
  BY <1>0, CutBack, StreamsMove
<1>2. (call[k] = <<"read_done", b>> \/ mark_read_done_wait(k, b)) /\ k \in Gpu /\ b \in Ins(k)
  BY LockMoves
<1>3. k \in Streams /\ D[k] \in Nat /\ End(k) \in Nat /\ End(k)' \in Nat /\ End(k) <= End(k)'
  <2>1. k \in Streams
    BY <1>2 DEF Streams
  <2> QED
    BY <1>0, <2>1, PositionType, EndNext, StreamsMove DEF Cuts
<1>4. CASE call[k] = <<"read_done", b>>
  <2>1. D[k] >= End(k)
    BY <1>3
  <2>2. Within(d_read_done_evt[b], D)
    BY <1>1, <1>4, <2>1 DEF Locked
  <2>3. ~ \E j \in Blocks : post_work_d2h(j, b)
    BY <1>2, Graph DEF post_work_d2h, Ins
  <2>4. ASSUME NEW j \in Blocks, mark_read_done_record(j, b), call[j] = <<"read_done", b>>
        PROVE  FALSE
    <3>1. j = k
      BY <1>0, <1>4, <2>4 DEF ControlOK, OneMarks
    <3>2. call'[k] = <<>>
      BY <1>0, <2>4, <3>1 DEF mark_read_done_record, TypeOK
    <3>3. <<>> # <<"read_done", b>>
      OBVIOUS
    <3> QED
      BY <3>2, <3>3
  <2>5. Readers[b] \cap Gpu \subseteq Blocks
    BY Graph
  <2>6. d_read_done_evt'[b] = d_read_done_evt[b]
    BY <2>3, <2>4, <2>5, DoneMoves DEF SameDone
  <2> QED
    BY <2>2, <2>6 DEF Within
<1>5. CASE mark_read_done_wait(k, b)
  <2>1. PICK e \in Nat : e = End(k) + 1
    BY <1>3
  <2>2. Grows(k, 1) /\ d_read_done_evt' = d_read_done_evt
    BY <1>0, <1>5, MarkReadGrows DEF mark_read_done_wait, events
  <2>3. End(k)' = e /\ e \in Waiting(k)' /\ e \notin Waiting(k)
    BY <1>0, <1>3, <2>1, <2>2, GrowsEnd
  <2>4. OpAt(k, e)' = WaitEvent(d_read_done_evt[b])
    BY <1>0, <1>5, <2>3, MarkReadGrows
  <2>5. PICK ev : ev = d_read_done_evt[b]
    OBVIOUS
  <2>6. Within(ev, D)
    BY <1>3, <2>3, <2>4, <2>5, WaitInCut
  <2> QED
    BY <2>2, <2>5, <2>6
<1> QED
  BY <1>2, <1>4, <1>5

\* A block never waits for its own output to become ready.
LEMMA NoLoop ==
  ASSUME Base, NEW k \in Blocks, NEW b \in Outs(k), pc[k] \notin {"idle", "halted"}
  PROVE  b \notin Ins(k)
  BY DEF Base, LoopsIdle, Ins, Outs

LEMMA WaitedOutStep ==
  ASSUME Ordered, TypeOK', EvRead, WaitedOut, [Next]_vars PROVE WaitedOut'
<1> SUFFICES ASSUME NEW k \in Gpu, NEW b \in Buffers, NEW D \in Cuts, NEW h \in Int,
                    b \in Outs(k), Tame(b), Waited(k, b)', Cut(D)', D[k] >= End(k)',
                    h <= WriteTo(b)' - N
             PROVE  ReadIn(D, b, h)'
  BY DEF WaitedOut, Outs, Tame
<1>0. TypeOK /\ ControlOK /\ Places /\ Base /\ k \in Streams /\ k \in Blocks
  BY DEF Ordered, Base, Streams, Blocks
<1>1. Cut(D)
  BY <1>0, CutBack, StreamsMove
<1>2. WriteTo(b)' = WriteTo(b) /\ (Waited(k, b) \/ wait_for_work(k, b))
  BY WaitedMoves
<1>3. h <= WriteTo(b) - N
  BY <1>2
<1>4. D[k] \in Nat /\ End(k) \in Nat /\ End(k)' \in Nat /\ End(k) <= End(k)'
  BY <1>0, PositionType, EndNext, StreamsMove DEF Cuts
<1>5. CASE Waited(k, b)
  <2>1. D[k] >= End(k)
    BY <1>4
  <2>2. ReadIn(D, b, h)
    BY <1>1, <1>3, <1>5, <2>1 DEF WaitedOut
  <2> QED
    BY <1>3, <2>2, ReadInKept
<1>6. CASE wait_for_work(k, b)
  <2>1. PICK e \in Nat : e = End(k) + 1
    BY <1>4
  <2>2. b \notin Ins(k)
    BY <1>0, <1>6, NoLoop DEF wait_for_work, At
  <2>3. End(k)' = e /\ e \in Waiting(k)' /\ e \notin Waiting(k)
    BY <1>0, <1>4, <1>6, <2>1, WaitGrows, GrowsEnd
  <2>4. OpAt(k, e)' = WaitEvent(d_read_done_evt[b])
    BY <1>0, <1>6, <2>2, <2>3, WaitGrows
  <2>5. PICK ev : ev = d_read_done_evt[b]
    OBVIOUS
  <2>6. Within(ev, D)
    BY <1>0, <2>3, <2>4, <2>5, WaitInCut
  <2>7. Within(d_read_done_evt[b], D)
    BY <2>5, <2>6
  <2>8. ReadIn(D, b, h)
    BY <1>1, <1>3, <2>7, ReadDoneCovers
  <2> QED
    BY <1>3, <2>8, ReadInKept
<1> QED
  BY <1>2, <1>5, <1>6

\* A pending write is within what its writer may write.
LEMMA PendingWithin ==
  ASSUME Ordered, NEW b \in Buffers, NEW p \in Nat, NEW sp \in Span,
         PendingWrite("device", b, p, sp)
  PROVE  sp.hi <= WriteTo(b) /\ sp.hi \in Nat /\ WriteTo(b) \in Nat
<1>1. sp.hi <= DevEnd(b) /\ sp.hi \in Nat
  BY DEF Ordered, WritesInOrder, OrderedIn, WriteInRange, WEnd, Moved, Mem, Span
<1>2. DevEnd(b) <= WriteTo(b) /\ DevEnd(b) \in Nat /\ WriteTo(b) \in Nat
  BY EndsBelow, WEndType DEF Ordered, Base, Mem
<1> QED
  BY <1>1, <1>2

LEMMA WritesSafeStep ==
  ASSUME Ordered, TypeOK', EvRead, WaitedOut, WritesSafe, [Next]_vars PROVE WritesSafe'
<1> SUFFICES ASSUME NEW b \in Buffers, NEW p \in Nat, NEW sp \in Span, NEW D \in Cuts,
                    NEW h \in Int, Tame(b), PendingWrite("device", b, p, sp)', Cut(D)',
                    D[WriteStream("device", b)] >= p - 1, h <= sp.hi - N
             PROVE  ReadIn(D, b, h)'
  BY DEF WritesSafe, Tame, WriteStream, H2D
<1>0. TypeOK /\ ControlOK /\ Places /\ Base /\ "device" \in Mem /\ N \in Nat
  BY Graph DEF Ordered, Base, Mem
<1>1. Cut(D)
  BY <1>0, CutBack, StreamsMove
<1>2. CASE PendingWrite("device", b, p, sp)
  <2>1. h <= WriteTo(b) - N
    BY <1>0, <1>2, PendingWithin
  <2>2. ReadIn(D, b, h)
    BY <1>1, <1>2 DEF WritesSafe
  <2> QED
    BY <2>1, <2>2, ReadInKept
<1>3. ASSUME NEW k \in Blocks, Kernel(k), p = End(k) + 1, b \in Outs(k),
             sp = OutSpan(k, "device", b)
      PROVE  ReadIn(D, b, h)'
  <2>1. /\ k \in Gpu /\ k \in Streams /\ Waited(k, b) /\ ~H2D(b)
        /\ sp.hi = WriteTo(b)
    BY <1>0, <1>3, KernelCounts DEF Kernel, Streams, Waited, OutSpan
  <2>2. WriteStream("device", b) = k
    BY <1>3, <2>1 DEF WriteStream, Outs
  <2>3. End(k) \in Nat /\ D[k] \in Nat
    BY <1>0, <2>1, PositionType DEF Cuts
  <2>4. D[k] >= End(k)
    BY <1>3, <2>2, <2>3
  <2>5. h <= WriteTo(b) - N
    BY <2>1
  <2>6. ReadIn(D, b, h)
    BY <1>1, <1>3, <2>1, <2>4, <2>5 DEF WaitedOut
  <2> QED
    BY <2>5, <2>6, ReadInKept
<1>4. ASSUME NEW k \in Blocks, post_work_h2d(k, b), p = End(b) + 2, sp = OutSpan(k, "device", b)
      PROVE  ReadIn(D, b, h)'
  <2>1. H2D(b) /\ b \in Streams /\ PostStep(k, b, "dev_ready")
    BY <1>0, <1>4, UploadCounts DEF post_work_h2d, Streams
  <2>2. sp.hi = WriteTo(b)
    BY <1>0, <1>4, <2>1, PostCounts DEF OutSpan
  <2>3. WriteStream("device", b) = b
    BY <2>1 DEF WriteStream
  <2>4. End(b) \in Nat /\ D[b] \in Nat
    BY <1>0, <2>1, PositionType DEF Cuts
  <2>5. PICK e \in Nat : e = End(b) + 1
    BY <2>4
  <2>6. D[b] >= e
    BY <1>4, <2>3, <2>4, <2>5
  <2>7. e \in Waiting(b)' /\ OpAt(b, e)' = WaitEvent(d_read_done_evt[b])
    BY <1>0, <1>4, <2>5, UploadWait
  <2>8. PICK ev : ev = d_read_done_evt[b]
    OBVIOUS
  <2>9. Within(ev, D)
    BY <2>1, <2>6, <2>7, <2>8, WaitInCut
  <2>10. h <= WriteTo(b) - N
    BY <2>2
  <2>11. Within(d_read_done_evt[b], D)
    BY <2>8, <2>9
  <2>12. ReadIn(D, b, h)
    BY <1>1, <2>10, <2>11, ReadDoneCovers
  <2> QED
    BY <2>10, <2>12, ReadInKept
<1> QED
  BY <1>0, <1>2, <1>3, <1>4, WritesAppear

LEMMA ReadsHeldStep ==
  ASSUME Ordered, TypeOK', WritesSafe, ReadsHeld, [Next]_vars PROVE ReadsHeld'
<1> SUFFICES ASSUME NEW s \in Streams, NEW p \in Nat, NEW sp \in Span, NEW b \in Buffers,
                    b = sp.buf, PendingRead(s, p, sp)', sp.mem = "device", Tame(b)
             PROVE  held'["device"][b] - N <= sp.lo
  BY DEF ReadsHeld, Tame, Span
<1>0. /\ TypeOK /\ ControlOK /\ Places /\ Base /\ CountsOK /\ "device" \in Mem /\ N \in Nat
      /\ sp.lo \in Nat
  BY Graph DEF Ordered, Base, Mem, Span
<1>1. /\ held["device"][b] \in Nat /\ held'["device"][b] \in Nat /\ WriteTo(b) \in Nat
      /\ held["device"][b] <= WriteTo(b)
  <2>1. held["device"][b] \in Nat /\ held'["device"][b] \in Nat
    BY <1>0 DEF TypeOK
  <2>2. held["device"][b] <= DevEnd(b)
    BY DEF Ordered, WritesInOrder, OrderedIn, WEnd, Moved, Mem
  <2>3. DevEnd(b) <= WriteTo(b) /\ DevEnd(b) \in Nat /\ WriteTo(b) \in Nat
    BY <1>0, EndsBelow, WEndType
  <2> QED
    BY <2>1, <2>2, <2>3
<1>2. CASE ~PendingRead(s, p, sp)
  <2>1. ASSUME s \in Blocks, Kernel(s), NEW c \in Ins(s), sp = InSpan(s, "device", c)
        PROVE  held'["device"][b] - N <= sp.lo
    <3>1. c = b /\ sp.lo = nread[b][s] /\ held' = held
      BY <2>1 DEF InSpan, Kernel
    <3>2. WriteTo(b) <= nread[b][s] + N - 1 /\ nread[b][s] \in Nat
      BY <1>0, <2>1, <3>1, CountType DEF CountsOK, Ins
    <3> QED
      BY <1>0, <1>1, <3>1, <3>2
  <2>2. ASSUME NEW k \in Blocks, NEW c \in Buffers, post_work_d2h(k, c), sp = OutSpan(k, "device", c)
        PROVE  held'["device"][b] - N <= sp.lo
    <3>1. c = b /\ sp.lo = nwritten[b] /\ held' = held
      BY <2>2 DEF OutSpan, post_work_d2h
    <3>2. post_work_d2h(k, b)
      BY <2>2, <3>1
    <3>3. WriteTo(b) = nwritten[b] + batch[k] /\ nwritten[b] \in Nat /\ batch[k] \in Nat /\ batch[k] <= N
      BY <1>0, <3>2, DownloadCounts, PostCounts, CountType
    <3> QED
      BY <1>0, <1>1, <3>1, <3>3
  <2>3. \A k \in Blocks, c \in Buffers : sp # OutSpan(k, "host", c)
    BY DEF OutSpan
  <2> QED
    BY <1>2, <2>1, <2>2, <2>3, ReadsMove
<1>3. CASE PendingRead(s, p, sp)
  <2>1. held["device"][b] - N <= sp.lo
    BY <1>3 DEF ReadsHeld
  <2>2. ASSUME NEW t \in Streams, Exec(t) PROVE held'["device"][b] - N <= sp.lo
    <3>1. CASE held'["device"][b] = held["device"][b]
      BY <2>1, <3>1
    <3>2. ASSUME WriteStream("device", b) = t,
                 NEW w \in Span, PendingWrite("device", b, done[t] + 1, w),
                 held'["device"][b] = w.hi
          PROVE  held'["device"][b] - N <= sp.lo
      <4>1. PICK D \in Cuts : D = done /\ Cut(D)
        BY <1>0, DoneIsCut
      <4>2. PICK e \in Nat : e = done[t] + 1
        BY <1>0 DEF TypeOK
      <4>3. PICK h \in Int : h = w.hi - N
        BY <1>0 DEF Span
      <4>4. D[t] >= e - 1 /\ done[t] \in Nat
        BY <1>0, <4>1, <4>2 DEF TypeOK
      <4>5. ReadIn(D, b, h)
        BY <3>2, <4>1, <4>2, <4>3, <4>4 DEF WritesSafe
      <4>6. ~(p <= D[s])
        <5>1. done[s] < p /\ done[s] \in Nat
          BY <1>0, <1>3, PendingPositions DEF TypeOK
        <5> QED
          BY <4>1, <5>1
      <4>7. ~(sp.lo < h)
        BY <1>3, <4>5, <4>6 DEF ReadIn
      <4> QED
        BY <1>0, <3>2, <4>3, <4>7
    <3> QED
      BY <1>0, <2>2, <3>1, <3>2, ExecPending
  <2>3. ASSUME NEW k \in Blocks, CpuWork(k) PROVE held'["device"][b] = held["device"][b]
    BY <1>0, <2>3, CpuWorkHeld
  <2>4. /\ Quiet => held' = held
        /\ \A k \in Blocks : Kernel(k) => held' = held
        /\ \A k \in Blocks, c \in Buffers : post_work_h2d(k, c) \/ post_work_d2h(k, c) => held' = held
    BY DEF Quiet, Kernel, post_work_h2d, post_work_d2h
  <2> QED
    BY <1>0, <2>1, <2>2, <2>3, <2>4, QuietStep
<1> QED
  BY <1>2, <1>3

LEMMA SafeInit == Init => Safe
<1> SUFFICES ASSUME Init PROVE Safe
  OBVIOUS
<1>1. /\ \A s \in Streams : Waiting(s) = {}
      /\ \A k \in Blocks : pc[k] = "idle" /\ call[k] = <<>>
  <2>1. \A s \in Streams : End(s) = 0 /\ done[s] = 0
    BY DEF Init, End
  <2> QED
    BY <2>1 DEF Init, Waiting
<1>2. /\ \A s \in Streams, p \in Nat, sp \in Span : ~PendingRead(s, p, sp)
      /\ \A m \in Mem, b \in Buffers, p \in Nat, sp \in Span : ~PendingWrite(m, b, p, sp)
  BY <1>1, WriteStreamType DEF PendingRead, PendingWrite
<1>3. EvRead
  BY <1>2, Graph DEF EvRead, KernelRead, Streams, Init, Never
<1>4. Locked
  <2>1. \A b \in Buffers : <<>> # <<"read_done", b>>
    OBVIOUS
  <2> QED
    BY <1>1, <2>1 DEF Locked
<1>5. WaitedOut
  BY <1>1 DEF WaitedOut, Waited, Blocks
<1>6. WritesSafe /\ ReadsHeld
  BY <1>2 DEF WritesSafe, ReadsHeld, Mem
<1> QED
  BY <1>3, <1>4, <1>5, <1>6 DEF Safe

LEMMA SafeInvariant == Spec => []Safe
<1>1. Ordered /\ Ordered' /\ Safe /\ [Next]_vars => Safe'
  BY EvReadStep, LockedStep, WaitedOutStep, WritesSafeStep, ReadsHeldStep
     DEF Safe, Ordered, Base
<1> QED
  BY <1>1, SafeInit, OrderedInvariant, PTL DEF Spec

\* The operations of a stream, by their place in the queue.
LEMMA AtPlace ==
  ASSUME TypeOK, NEW s \in Streams, NEW i \in 1..Len(queue[s])
  PROVE  /\ done[s] + i \in Waiting(s) /\ done[s] + i \in Nat
         /\ OpAt(s, done[s] + i) = queue[s][i] /\ queue[s][i] \in Op
<1>1. done[s] \in Nat /\ queue[s] \in Seq(Op) /\ Len(queue[s]) \in Nat /\ i \in Nat
  BY PositionType
<1>2. done[s] + i \in Waiting(s) /\ (done[s] + i) - done[s] = i
  BY <1>1 DEF Waiting, End
<1> QED
  BY <1>1, <1>2 DEF OpAt

\* What the GPU executes next reads device memory that was written and that
\* nobody has overwritten, whatever the flowgraph and however the streams and
\* the threads are interleaved; a ConsumeFirst block breaks it.
THEOREM DeviceReadsAreIntact == ConsumeFirst = {} => (Spec => []DeviceReadsIntact)
<1> SUFFICES ASSUME ConsumeFirst = {} PROVE Spec => []DeviceReadsIntact
  OBVIOUS
<1>1. Ordered /\ Ready /\ Safe => DeviceReadsIntact
  <2> SUFFICES ASSUME Ordered, Ready, Safe, NEW s \in Streams, Runnable(s),
                      NEW sp \in Head(queue[s]).reads, sp.mem = "device"
               PROVE  Intact(sp)
    BY DEF DeviceReadsIntact
  <2>0. TypeOK /\ "device" \in Mem
    BY DEF Ordered, Base, Mem
  <2>1. 1 \in 1..Len(queue[s]) /\ Head(queue[s]) = queue[s][1]
    <3>1. queue[s] \in Seq(Op) /\ queue[s] # <<>>
      BY <2>0 DEF TypeOK, Runnable
    <3> QED
      BY <3>1
  <2>2. PICK e \in Nat : e = done[s] + 1
    BY <2>0 DEF TypeOK
  <2>3. PendingRead(s, e, sp) /\ sp \in Span
    BY <2>0, <2>1, <2>2, AtPlace DEF PendingRead, Op
  <2>4. PICK D \in Cuts : D = done /\ Cut(D)
    BY <2>0, DoneIsCut
  <2>5. D[s] >= e - 1
    BY <2>0, <2>2, <2>4 DEF TypeOK
  <2>6. Wrote(D, "device", sp.buf, sp.hi)
    BY <2>3, <2>4, <2>5 DEF Ready, ReadsReady
  <2>7. sp.hi <= held["device"][sp.buf]
    BY <2>0, <2>3, <2>4, <2>6, WroteDone DEF Span
  <2>8. held["device"][sp.buf] - N <= sp.lo
    BY <2>3 DEF Safe, ReadsHeld, Tame
  <2> QED
    BY <2>7, <2>8 DEF Intact
<1> QED
  BY <1>1, OrderedInvariant, ReadyInvariant, SafeInvariant, PTL

\* When the last record of a read-done event is complete, so is every read of
\* the items that the readers of the buffer have consumed: the record of one
\* reader stands for those of the others.
THEOREM ReadDoneIsAllRead == ConsumeFirst = {} => (Spec => []ReadDoneMeansAllRead)
<1> SUFFICES ASSUME ConsumeFirst = {} PROVE Spec => []ReadDoneMeansAllRead
  OBVIOUS
<1>1. Ordered /\ Safe => ReadDoneMeansAllRead
  <2> SUFFICES ASSUME Ordered, Safe, NEW b \in Buffers, Complete(d_read_done_evt[b]),
                      NEW k \in Readers[b] \cap Gpu, NEW i \in 1..Len(queue[k]),
                      NEW sp \in queue[k][i].reads, sp.buf = b
               PROVE  sp.hi > nread[b][k]
    BY DEF ReadDoneMeansAllRead
  <2>0. TypeOK /\ Base /\ k \in Streams
    BY DEF Ordered, Base, Streams
  <2>1. PICK D \in Cuts : D = done /\ Cut(D)
    BY <2>0, DoneIsCut
  <2>2. PICK e \in Nat : e = done[k] + i
    BY <2>0, AtPlace
  <2>3. KernelRead(b, k, e, sp) /\ sp \in Span /\ sp.hi \in Nat
    BY <2>0, <2>2, AtPlace DEF PendingRead, KernelRead, Op, Span
  <2>4. ~(e <= D[k])
    BY <2>0, <2>1, <2>3, PendingPositions DEF KernelRead, TypeOK
  <2>5. Within(d_read_done_evt[b], D)
    BY <2>1 DEF Complete, Within
  <2>6. ~(sp.hi <= Marked(b, k))
    BY <2>1, <2>3, <2>4, <2>5 DEF Safe, EvRead
  <2>7. nread[b][k] <= Marked(b, k) /\ nread[b][k] \in Nat /\ Marked(b, k) \in Int
    BY <2>0, MarkedCovers DEF Tame
  <2> QED
    BY <2>3, <2>6, <2>7
<1> QED
  BY <1>1, OrderedInvariant, SafeInvariant, PTL

-----------------------------------------------------------------------------
(* Host-to-device copies.                                                  *)

LEMMA WrittenMoves ==
  ASSUME TypeOK, ControlOK, [Next]_vars, NEW b \in Buffers
  PROVE  nwritten'[b] = nwritten[b] \/ Publish(Writer[b], b)
<1>1. ASSUME NEW k \in Blocks, NEW c \in Buffers, Publish(k, c)
      PROVE  nwritten'[b] = nwritten[b] \/ Publish(Writer[b], b)
  <2>1. nwritten' = [nwritten EXCEPT ![c] = @ + batch[k]]
    BY <1>1 DEF Publish
  <2>2. CASE b = c
    <3>1. Writer[b] = k
      BY <1>1, <2>2, PublishCounts
    <3>2. Publish(Writer[b], b)
      BY <1>1, <2>2, <3>1
    <3> QED
      BY <3>2
  <2>3. CASE b # c
    BY <2>1, <2>3 DEF TypeOK
  <2> QED
    BY <2>2, <2>3
<1>2. ASSUME NEW k \in Blocks, NEW c \in Buffers, BufferCall(k, c), ~Publish(k, c)
      PROVE  nwritten' = nwritten
  BY <1>2 DEF BufferCall, post_work, wait_for_work, mark_device_ready, mark_read_done_wait,
     mark_read_done_record, wait_host_ready, wait_host_ready_return, Consume, post_work_h2d,
     post_work_h2d_ready, post_work_d2h, post_work_d2d, counts
<1>3. ASSUME NEW k \in Blocks, Thread(k)
      PROVE  nwritten'[b] = nwritten[b] \/ Publish(Writer[b], b)
  <2>1. ASSUME \/ \E n \in 1..N : Poll(k, n)
               \/ Kernel(k) \/ CpuWork(k) \/ EndLoop(k)
        PROVE  nwritten' = nwritten
    BY <2>1 DEF Poll, Kernel, CpuWork, EndLoop, counts
  <2> QED
    BY <1>1, <1>2, <1>3, <2>1 DEF Thread
<1>4. /\ \A k \in Blocks : Halt(k) => nwritten' = nwritten
      /\ \A s \in Streams : Exec(s) => nwritten' = nwritten
      /\ \A c \in Buffers : Destroy(c) \/ Free(c) => nwritten' = nwritten
      /\ UNCHANGED vars => nwritten' = nwritten
  BY DEF Halt, Exec, Destroy, Free, vars, counts
<1> QED
  BY <1>3, <1>4 DEF Next, Teardown

\* The calls of an upload are those of post_work of b.
Uploading(b) == call[Writer[b]] = <<"dev_ready", b>>
Publishing(b) == call[Writer[b]] = <<"publish", b>>

LEMMA UploadMoves ==
  ASSUME Ordered, [Next]_vars, NEW b \in Buffers, H2D(b)
  PROVE  \/ /\ d_dev_ready_evt'[b] = d_dev_ready_evt[b] /\ nwritten'[b] = nwritten[b]
            /\ (Uploading(b)' <=> Uploading(b)) /\ (Publishing(b)' <=> Publishing(b))
         \/ post_work_h2d(Writer[b], b)
         \/ post_work_h2d_ready(Writer[b], b)
         \/ Publish(Writer[b], b)
<1> USE DEF Ordered, Base
<1> DEFINE W == Writer[b]
           Done == \/ post_work_h2d(W, b) \/ post_work_h2d_ready(W, b) \/ Publish(W, b)
<1>0. W \in Blocks
  BY Graph
<1>1. nwritten'[b] = nwritten[b] \/ Done
  BY WrittenMoves
<1>2. d_dev_ready_evt'[b] = d_dev_ready_evt[b] \/ Done
  <2>1. ~ \E k \in Blocks : mark_device_ready(k, b)
    BY MarkReadyCounts
  <2>2. ASSUME NEW k \in Blocks, post_work_h2d_ready(k, b) PROVE Done
    <3>1. PostStep(k, b, "publish")
      BY <2>2, UploadReadyCounts
    <3>2. k = W
      BY <3>1, PostCounts
    <3>3. post_work_h2d_ready(W, b)
      BY <2>2, <3>2
    <3> QED
      BY <3>3
  <2> QED
    BY <2>1, <2>2, ReadyMoves
<1>3. \/ (Uploading(b)' <=> Uploading(b)) /\ (Publishing(b)' <=> Publishing(b))
      \/ Done
  <2> DEFINE Same == (Uploading(b)' <=> Uploading(b)) /\ (Publishing(b)' <=> Publishing(b))
             Own == {<<"dev_ready", b>>, <<"publish", b>>}
  <2>1. call'[W] = call[W] => Same
    BY DEF Uploading, Publishing
  <2>2. call[W] \notin Own /\ call'[W] \notin Own => Same
    BY DEF Uploading, Publishing
  <2>3. \A c : c # b => <<"dev_ready", c>> \notin Own /\ <<"publish", c>> \notin Own
    OBVIOUS
  <2>4. \A c : <<"read_done", c>> \notin Own /\ <<"host_ready", c>> \notin Own /\ <<>> \notin Own
    OBVIOUS
  <2>5. ASSUME NEW c \in Buffers, BufferCall(W, c) PROVE Same \/ Done
    <3>1. CASE post_work_h2d(W, c) \/ post_work_h2d_ready(W, c) \/ Publish(W, c)
      <4>1. CASE c = b
        BY <3>1, <4>1
      <4>2. CASE c # b
        <5>1. /\ call[W] \in {<<>>, <<"dev_ready", c>>, <<"publish", c>>}
              /\ call'[W] \in {<<>>, <<"dev_ready", c>>, <<"publish", c>>}
          BY <1>0, <3>1 DEF post_work_h2d, post_work_h2d_ready, Publish, At, TypeOK
        <5> QED
          BY <2>2, <2>3, <2>4, <4>2, <5>1
      <4> QED
        BY <4>1, <4>2
    <3>2. CASE post_work_d2h(W, c) \/ post_work_d2d(W, c)
      <4>1. call[W] = <<>> /\ call'[W] = <<"publish", c>> /\ c # b
        BY <1>0, <3>2, Graph DEF post_work_d2h, post_work_d2d, At, TypeOK
      <4> QED
        BY <2>2, <2>3, <2>4, <4>1
    <3>3. CASE \/ mark_read_done_wait(W, c) \/ mark_read_done_record(W, c)
               \/ wait_host_ready(W, c) \/ wait_host_ready_return(W, c)
      <4>1. /\ call[W] \in {<<>>, <<"read_done", c>>, <<"host_ready", c>>}
            /\ call'[W] \in {<<>>, <<"read_done", c>>, <<"host_ready", c>>}
        BY <1>0, <3>3 DEF mark_read_done_wait, mark_read_done_record, wait_host_ready,
           wait_host_ready_return, At, TypeOK
      <4> QED
        BY <2>2, <2>4, <4>1
    <3>4. CASE wait_for_work(W, c) \/ mark_device_ready(W, c) \/ Consume(W, c)
      BY <2>1, <3>4 DEF wait_for_work, mark_device_ready, Consume
    <3> HIDE DEF Same, Done, Own
    <3> QED
      BY <2>5, <3>1, <3>2, <3>3, <3>4 DEF BufferCall, post_work
  <2>6. ASSUME \/ \E n \in 1..N : Poll(W, n)
               \/ Kernel(W) \/ CpuWork(W) \/ EndLoop(W) \/ Halt(W)
        PROVE  call'[W] = call[W]
    BY <2>6 DEF Poll, Kernel, CpuWork, EndLoop, Halt
  <2> HIDE DEF Same, Done
  <2>7. Same \/ Done
    BY <1>0, <2>1, <2>5, <2>6, OthersStay DEF Thread
  <2> QED
    BY <2>7 DEF Same
<1> QED
  BY <1>1, <1>2, <1>3

\* The copies that are recorded are of the batch before, at most; the one that
\* is not is of the batch that its writer is posting.
HostCopies ==
  \A b \in Buffers : H2D(b) =>
    /\ d_dev_ready_evt[b].stream = b
    /\ \A p \in Nat, sp \in Span : PendingRead(b, p, sp) =>
         /\ sp.hi <= held["host"][b]
         /\ p <= d_dev_ready_evt[b].pos =>
              (IF Publishing(b) THEN nwritten[b] ELSE nwritten[b] - WorkLimit) <= sp.lo
         /\ p > d_dev_ready_evt[b].pos => Uploading(b) /\ sp.lo = nwritten[b]

\* The host ring of an upload is written by its CPU block only.
LEMMA HostHeldMoves ==
  ASSUME Ordered, [Next]_vars, NEW b \in Buffers, H2D(b)
  PROVE  held["host"][b] <= held'["host"][b] /\ held["host"][b] \in Nat
<1>0. /\ TypeOK /\ ControlOK /\ Places /\ Base /\ "host" \in Mem /\ held["host"][b] \in Nat
      /\ held["host"][b] <= WriteTo(b) /\ WriteTo(b) \in Nat
  <2>1. held["host"][b] = HostEnd(b) /\ TypeOK /\ Base
    BY DEF Ordered, WritesInOrder, Base
  <2>2. HostEnd(b) <= WriteTo(b)
    BY <2>1, EndsBelow
  <2>3. HostEnd(b) \in Nat /\ WriteTo(b) \in Nat
    BY <2>1, WEndType DEF Mem
  <2> QED
    BY <2>1, <2>2, <2>3 DEF Ordered, Base, Mem
<1>1. ASSUME NEW k \in Blocks, CpuWork(k) PROVE held["host"][b] <= held'["host"][b]
  BY <1>0, <1>1, CpuWorkHeld
<1>2. ASSUME NEW s \in Streams, Exec(s) PROVE held'["host"][b] = held["host"][b]
  <2>1. \A p \in Nat, sp \in Span : ~PendingWrite("host", b, p, sp)
    BY <1>0, Graph, WriteStreamType DEF Places, Placed, Moved, PendingWrite
  <2>2. done[s] + 1 \in Nat
    BY <1>0 DEF TypeOK
  <2> QED
    BY <1>0, <1>2, <2>1, <2>2, ExecPending
<1>3. /\ Quiet => held' = held
      /\ \A k \in Blocks : Kernel(k) => held' = held
      /\ \A k \in Blocks, c \in Buffers : post_work_h2d(k, c) \/ post_work_d2h(k, c) => held' = held
  BY DEF Quiet, Kernel, post_work_h2d, post_work_d2h
<1> QED
  BY <1>0, <1>1, <1>2, <1>3, QuietStep

LEMMA HostCopiesStep ==
  ASSUME Ordered, TypeOK', HostCopies, [Next]_vars PROVE HostCopies'
<1> SUFFICES ASSUME NEW b \in Buffers, H2D(b)
             PROVE  /\ d_dev_ready_evt'[b].stream = b
                    /\ \A p \in Nat, sp \in Span : PendingRead(b, p, sp)' =>
                         /\ sp.hi <= held'["host"][b]
                         /\ p <= d_dev_ready_evt'[b].pos =>
                              (IF Publishing(b)' THEN nwritten'[b] ELSE nwritten'[b] - WorkLimit)
                                 <= sp.lo
                         /\ p > d_dev_ready_evt'[b].pos => Uploading(b)' /\ sp.lo = nwritten'[b]
  BY DEF HostCopies, H2D
<1> DEFINE W == Writer[b]
           Low == IF Publishing(b) THEN nwritten[b] ELSE nwritten[b] - WorkLimit
           pos == d_dev_ready_evt[b].pos
<1>0. /\ TypeOK /\ ControlOK /\ Places /\ Base /\ W \in Blocks /\ b \in Streams /\ b \notin Blocks
      /\ ~D2H(b) /\ nwritten[b] \in Nat /\ WorkLimit \in Nat /\ pos \in Nat /\ End(b) \in Nat
      /\ done[b] \in Nat
  <2>1. TypeOK
    BY DEF Ordered, Base
  <2>2. pos \in Nat /\ nwritten[b] \in Nat
    BY <2>1 DEF TypeOK, Event
  <2> QED
    BY <2>1, <2>2, Graph, PositionType DEF Ordered, Base, Streams
<1>1. /\ d_dev_ready_evt[b].stream = b
      /\ \A p \in Nat, sp \in Span : PendingRead(b, p, sp) =>
           /\ sp.hi <= held["host"][b] /\ sp.hi \in Nat /\ sp.lo \in Nat
           /\ p <= pos => Low <= sp.lo
           /\ p > pos => Uploading(b) /\ sp.lo = nwritten[b]
  BY DEF HostCopies, Span
<1>2. held["host"][b] <= held'["host"][b] /\ held["host"][b] \in Nat /\ held'["host"][b] \in Nat
  BY HostHeldMoves DEF TypeOK, Mem
<1>3. ASSUME NEW p \in Nat, NEW sp \in Span, PendingRead(b, p, sp)', ~PendingRead(b, p, sp)
      PROVE  post_work_h2d(W, b) /\ p = End(b) + 2 /\ sp = OutSpan(W, "host", b)
  <2>1. ASSUME NEW k \in Blocks, NEW c \in Buffers, b = c, post_work_h2d(k, c), p = End(c) + 2,
               sp = OutSpan(k, "host", c)
        PROVE  post_work_h2d(W, b) /\ p = End(b) + 2 /\ sp = OutSpan(W, "host", b)
    <3>1. post_work_h2d(k, b)
      BY <2>1
    <3>2. PostStep(k, b, "dev_ready")
      BY <1>0, <3>1, UploadCounts
    <3>3. k = W
      BY <1>0, <3>2, PostCounts
    <3> QED
      BY <2>1, <3>1, <3>3
  <2>2. ASSUME NEW k \in Blocks, NEW c \in Buffers, b = c, post_work_d2h(k, c) PROVE FALSE
    BY <1>0, <2>2 DEF post_work_d2h
  <2> QED
    BY <1>0, <1>3, <2>1, <2>2, ReadsMove
<1>4. \A p \in Nat, sp \in Span : PendingRead(b, p, sp)' =>
         \/ PendingRead(b, p, sp) /\ sp.hi <= held'["host"][b]
         \/ post_work_h2d(W, b) /\ p = End(b) + 2 /\ sp = OutSpan(W, "host", b)
  BY <1>1, <1>2, <1>3
<1>5. CASE post_work_h2d(W, b)
  <2>1. /\ ~Publishing(b) /\ ~Uploading(b) /\ Uploading(b)' /\ ~Publishing(b)'
        /\ d_dev_ready_evt' = d_dev_ready_evt /\ nwritten' = nwritten /\ held' = held
    <3>1. call[W] = <<>> /\ call'[W] = <<"dev_ready", b>>
      BY <1>0, <1>5 DEF post_work_h2d, At, TypeOK
    <3> QED
      BY <1>5, <3>1 DEF post_work_h2d, Publishing, Uploading, events, counts
  <2>2. /\ OutSpan(W, "host", b).lo = nwritten[b] /\ OutSpan(W, "host", b).hi = held["host"][b]
    <3>1. PostStep(W, b, "dev_ready") /\ HostEnd(b) = WriteTo(b)
      BY <1>0, <1>5, UploadCounts
    <3>2. WriteTo(b) = nwritten[b] + batch[W]
      BY <1>0, <3>1, PostCounts
    <3> QED
      BY <3>1, <3>2 DEF OutSpan, Ordered, WritesInOrder
  <2>3. ASSUME NEW p \in Nat, NEW sp \in Span, PendingRead(b, p, sp)'
        PROVE  /\ sp.hi <= held'["host"][b]
               /\ nwritten[b] - WorkLimit <= sp.lo
               /\ p > pos => sp.lo = nwritten[b]
    <3>1. CASE sp = OutSpan(W, "host", b)
      BY <1>0, <1>2, <2>1, <2>2, <3>1
    <3>2. CASE PendingRead(b, p, sp)
      BY <1>0, <1>1, <1>2, <2>1, <3>2
    <3> QED
      BY <1>4, <2>3, <3>1, <3>2
  <2> QED
    BY <1>1, <2>1, <2>3
<1>6. CASE post_work_h2d_ready(W, b)
  <2>1. /\ Uploading(b) /\ Publishing(b)' /\ ~Uploading(b)' /\ Complete(d_dev_ready_evt[b])
        /\ nwritten' = nwritten /\ d_dev_ready_evt'[b] = RecordOn(b, 0)
    <3>1. call[W] = <<"dev_ready", b>> /\ call'[W] = <<"publish", b>>
      BY <1>0, <1>6 DEF post_work_h2d_ready, TypeOK
    <3> QED
      BY <1>0, <1>6, <3>1 DEF post_work_h2d_ready, Publishing, Uploading, events, counts, TypeOK
  <2>2. d_dev_ready_evt'[b].stream = b /\ d_dev_ready_evt'[b].pos = End(b)
    BY <1>0, <2>1 DEF RecordOn, End
  <2>3. ~post_work_h2d(W, b)
    BY <2>1 DEF post_work_h2d, At, Uploading
  <2>4. ASSUME NEW p \in Nat, NEW sp \in Span, PendingRead(b, p, sp)'
        PROVE  sp.hi <= held'["host"][b] /\ nwritten[b] <= sp.lo /\ p <= End(b)
    <3>1. PendingRead(b, p, sp) /\ sp.hi <= held'["host"][b]
      BY <1>4, <2>3, <2>4
    <3>2. done[b] < p /\ p <= End(b)
      BY <1>0, <3>1, PendingPositions
    <3>3. pos <= done[b]
      BY <1>1, <2>1 DEF Complete
    <3>4. p > pos
      BY <1>0, <3>2, <3>3
    <3> QED
      BY <1>0, <1>1, <3>1, <3>2, <3>4
  <2> QED
    BY <1>0, <2>1, <2>2, <2>4
<1>7. CASE Publish(W, b)
  <2>1. /\ Publishing(b) /\ ~Uploading(b) /\ ~Publishing(b)' /\ ~Uploading(b)'
        /\ d_dev_ready_evt' = d_dev_ready_evt
    <3>1. call[W] = <<"publish", b>> /\ call'[W] = <<>>
      BY <1>0, <1>7 DEF Publish, TypeOK
    <3> QED
      BY <1>7, <3>1 DEF Publish, Publishing, Uploading, events
  <2>2. nwritten'[b] = nwritten[b] + batch[W] /\ batch[W] \in Nat /\ batch[W] <= WorkLimit
    <3>1. nwritten'[b] = nwritten[b] + batch[W] /\ call[W] = <<"publish", b>> /\ batch[W] \in Nat
      BY <1>0, <1>7, CountType DEF Publish, TypeOK
    <3>2. pc[W] = "post" /\ b \in Outs(W)
      BY <1>0, <3>1 DEF ControlOK, ThreadOK, Outs
    <3> QED
      BY <1>0, <3>1, <3>2 DEF ControlOK, ThreadOK, Active
  <2>3. ~post_work_h2d(W, b)
    BY <2>1 DEF post_work_h2d, At, Publishing
  <2>4. ASSUME NEW p \in Nat, NEW sp \in Span, PendingRead(b, p, sp)'
        PROVE  sp.hi <= held'["host"][b] /\ nwritten[b] <= sp.lo /\ p <= pos
    <3>1. PendingRead(b, p, sp) /\ sp.hi <= held'["host"][b]
      BY <1>4, <2>3, <2>4
    <3> QED
      BY <1>0, <1>1, <2>1, <3>1
  <2>5. ASSUME NEW p \in Nat, NEW sp \in Span, PendingRead(b, p, sp)'
        PROVE  nwritten'[b] - WorkLimit <= sp.lo
    <3>1. sp.lo \in Nat /\ nwritten[b] <= sp.lo
      BY <2>4, <2>5 DEF Span
    <3> QED
      BY <1>0, <2>2, <3>1
  <2> QED
    BY <1>0, <1>1, <2>1, <2>4, <2>5
<1>8. CASE /\ ~post_work_h2d(W, b)
           /\ d_dev_ready_evt'[b] = d_dev_ready_evt[b] /\ nwritten'[b] = nwritten[b]
           /\ (Uploading(b)' <=> Uploading(b)) /\ (Publishing(b)' <=> Publishing(b))
  BY <1>1, <1>4, <1>8
<1> QED
  BY <1>5, <1>6, <1>7, <1>8, UploadMoves

LEMMA HostCopiesInvariant == Spec => []HostCopies
<1>1. Init => HostCopies
  <2> SUFFICES ASSUME Init PROVE HostCopies
    OBVIOUS
  <2>1. \A s \in Streams : Waiting(s) = {}
    <3>1. \A s \in Streams : End(s) = 0 /\ done[s] = 0
      BY DEF Init, End
    <3> QED
      BY <3>1 DEF Waiting
  <2> QED
    BY <2>1 DEF HostCopies, PendingRead, Init, Never, Streams
<1>2. Ordered /\ Ordered' /\ HostCopies /\ [Next]_vars => HostCopies'
  BY HostCopiesStep DEF Ordered, Base
<1> QED
  BY <1>1, <1>2, OrderedInvariant, PTL DEF Spec

\* No event protects the host items of a pending upload: the wait for the last
\* record but one and the limit of half a buffer do, for every ring of two
\* items or more.
THEOREM UploadsReadIntactHost == Spec => []CopiesReadIntactHost
<1>1. Ordered /\ HostCopies => CopiesReadIntactHost
  <2> SUFFICES ASSUME Ordered, HostCopies, NEW s \in Streams, Runnable(s),
                      NEW sp \in Head(queue[s]).reads, sp.mem = "host"
               PROVE  Intact(sp)
    BY DEF CopiesReadIntactHost
  <2>0. TypeOK /\ ControlOK /\ Base /\ "host" \in Mem
    BY DEF Ordered, Base, Mem
  <2>1. 1 \in 1..Len(queue[s]) /\ Head(queue[s]) = queue[s][1]
    <3>1. queue[s] \in Seq(Op) /\ queue[s] # <<>>
      BY <2>0 DEF TypeOK, Runnable
    <3> QED
      BY <3>1
  <2>2. PICK e \in Nat : e = done[s] + 1
    BY <2>0 DEF TypeOK
  <2>3. PendingRead(s, e, sp) /\ sp \in Span
    BY <2>0, <2>1, <2>2, AtPlace DEF PendingRead, Op
  <2>4. s = sp.buf /\ H2D(sp.buf)
    BY <2>3 DEF Ordered, Places, Placed, PendingRead
  <2>5. PICK b \in Buffers : b = sp.buf
    BY <2>3 DEF Span
  <2>6. /\ sp.hi <= held["host"][b] /\ sp.hi \in Nat /\ sp.lo \in Nat /\ nwritten[b] \in Nat
        /\ WorkLimit \in Nat /\ N \in Nat /\ 2 * WorkLimit <= N
    BY <2>0, <2>3, <2>4, <2>5, CountType, Graph DEF HostCopies, Span, TypeOK
  <2>7. nwritten[b] - WorkLimit <= sp.lo
    <3>1. d_dev_ready_evt[b].pos \in Nat
      BY <2>0 DEF TypeOK, Event
    <3> QED
      BY <2>3, <2>4, <2>5, <2>6, <3>1 DEF HostCopies
  <2>8. held["host"][b] <= nwritten[b] + WorkLimit /\ held["host"][b] \in Nat
    <3>1. held["host"][b] = HostEnd(b) /\ HostEnd(b) \in Nat
      BY <2>0, <2>4, <2>5, WEndType DEF Ordered, WritesInOrder
    <3>2. PICK k \in Blocks : k = Writer[b]
      BY Graph
    <3>3. batch[k] \in Nat /\ (Writing(k, b) => batch[k] <= WorkLimit)
      BY <2>0, <3>2, CountType DEF Writing, ControlOK, ThreadOK, Active, Outs
    <3>4. WriteTo(b) <= nwritten[b] + WorkLimit
      BY <2>6, <3>2, <3>3 DEF WriteTo, Plus
    <3>5. HostEnd(b) <= WriteTo(b) /\ WriteTo(b) \in Nat
      BY <2>0, EndsBelow, WEndType
    <3> QED
      BY <2>6, <3>1, <3>4, <3>5
  <2>9. held["host"][b] - N <= sp.lo
    BY <2>6, <2>7, <2>8
  <2> QED
    BY <2>5, <2>6, <2>9 DEF Intact
<1> QED
  BY <1>1, OrderedInvariant, HostCopiesInvariant, PTL

-----------------------------------------------------------------------------
(* The backlog of a GPU block.                                             *)

\* A kernel that writes waits at place p of stream s.
Busy(s, p) ==
  \E m \in Mem, b \in Buffers, sp \in Span : PendingWrite(m, b, p, sp) /\ WriteStream(m, b) = s

LEMMA BusyMoves ==
  ASSUME Ordered, [Next]_vars, NEW k \in Gpu, NEW p \in Nat, Busy(k, p)', ~Busy(k, p)
  PROVE  Kernel(k) /\ p = End(k) + 1
<1>1. PICK m \in Mem, b \in Buffers, sp \in Span : PendingWrite(m, b, p, sp)' /\ WriteStream(m, b)' = k
  BY DEF Busy
<1>2. WriteStream(m, b) = k /\ b \notin Gpu
  BY <1>1, Graph DEF WriteStream, H2D
<1>3. ~PendingWrite(m, b, p, sp)
  BY <1>2 DEF Busy
<1>4. ASSUME NEW j \in Blocks, Kernel(j), p = End(j) + 1, m = "device", b \in Outs(j)
      PROVE  Kernel(k) /\ p = End(k) + 1
  <2>1. j = k
    <3>1. j \in Gpu /\ Writer[b] = j
      BY <1>4 DEF Kernel, Outs
    <3>2. ~H2D(b)
      BY <3>1, Graph DEF H2D
    <3> QED
      BY <1>2, <1>4, <3>1, <3>2 DEF WriteStream
  <2> QED
    BY <1>4, <2>1
<1>5. ~ \E j \in Blocks : post_work_h2d(j, b) /\ m = "device"
  BY <1>2 DEF post_work_h2d, WriteStream
<1>6. m # "host"
  BY <1>2 DEF WriteStream
<1> QED
  BY <1>1, <1>3, <1>4, <1>5, <1>6, WritesAppear

\* A kernel is unrecorded until its output is marked.
LEMMA UnrecordedMoves ==
  ASSUME Ordered, [Next]_vars, NEW k \in Gpu, NEW b \in Outs(k), Unrecorded(k, b)
  PROVE  Unrecorded(k, b)' \/ mark_device_ready(k, b)
<1> USE DEF Ordered, Base
<1>0. k \in Blocks /\ b \in Buffers /\ ~H2D(b) /\ ~H2D(b)'
  BY Graph DEF Blocks, Outs, H2D
<1>1. (pc[k] = "consume" /\ k \in ConsumeFirst) \/ (pc[k] = "ready" /\ b \in todo[k])
  BY <1>0 DEF Unrecorded
<1>2. ASSUME NEW c \in Buffers, BufferCall(k, c) PROVE Unrecorded(k, b)' \/ mark_device_ready(k, b)
  <2>1. /\ pc' = pc
        /\ todo' = todo \/ todo'[k] = todo[k] \ {c}
    BY <1>0, <1>2, CallEffect
  <2>2. CASE pc[k] = "consume" \/ b # c
    BY <1>0, <1>1, <2>1, <2>2 DEF Unrecorded
  <2>3. CASE pc[k] = "ready" /\ b = c
    <3>1. /\ call[k] # <<"read_done", c>> /\ call[k] # <<"host_ready", c>>
          /\ call[k] # <<"dev_ready", c>> /\ call[k] # <<"publish", c>>
      BY <1>0, <2>3 DEF ControlOK, ThreadOK
    <3>2. mark_device_ready(k, c)
      BY <1>0, <1>2, <2>3, <3>1 DEF BufferCall, post_work, wait_for_work, mark_read_done_wait,
         mark_read_done_record, wait_host_ready, wait_host_ready_return, Consume,
         post_work_h2d, post_work_h2d_ready, post_work_d2h, post_work_d2d, Publish, At
    <3> QED
      BY <2>3, <3>2
  <2> QED
    BY <1>1, <2>2, <2>3
<1>3. EndLoop(k) => Unrecorded(k, b)'
  <2>1. ASSUME EndLoop(k) PROVE pc[k] = "consume" /\ k \in ConsumeFirst /\ pc'[k] = "ready" /\ todo'[k] = Outs(k)
    BY <1>0, <1>1, <2>1 DEF EndLoop, Enter, After, Ports, TypeOK
  <2> QED
    BY <1>0, <2>1 DEF Unrecorded
<1>4. /\ ~ \E n \in 1..N : Poll(k, n)
      /\ ~Kernel(k) /\ ~CpuWork(k) /\ ~Halt(k)
  BY <1>1 DEF Poll, Kernel, CpuWork, Halt
<1>5. pc'[k] = pc[k] /\ todo'[k] = todo[k] => Unrecorded(k, b)'
  BY <1>0, <1>1 DEF Unrecorded
<1> QED
  BY <1>0, <1>2, <1>3, <1>4, <1>5, OthersStay DEF Thread

\* One kernel at most is covered by the last record, and one is not.
KernelsOf(k, b) ==
  LET pos == d_dev_ready_evt[b].pos
  IN  /\ pos > 0 => d_dev_ready_evt[b].stream = k
      /\ pos <= End(k)
      /\ \A p, q \in Nat : Busy(k, p) /\ Busy(k, q) /\ (p <= pos <=> q <= pos) => p = q
      /\ \A p \in Nat : Busy(k, p) /\ p > pos => Unrecorded(k, b)

Kernels == \A k \in Gpu, b \in Buffers : b \in Outs(k) => KernelsOf(k, b)

LEMMA BusyPositions ==
  ASSUME TypeOK
  PROVE  \A s \in Streams, p \in Nat : Busy(s, p) => done[s] < p /\ p <= End(s)
  BY PendingPositions DEF Busy

LEMMA KernelsStep ==
  ASSUME Ordered, TypeOK', Kernels, [Next]_vars PROVE Kernels'
<1> SUFFICES ASSUME NEW k \in Gpu, NEW b \in Buffers, b \in Outs(k) PROVE KernelsOf(k, b)'
  BY DEF Kernels, Outs
<1> DEFINE pos == d_dev_ready_evt[b].pos
<1>0. /\ TypeOK /\ ControlOK /\ Places /\ Base /\ k \in Blocks /\ k \in Streams /\ ~H2D(b)
      /\ pos \in Nat /\ End(k) \in Nat /\ End(k)' \in Nat /\ done[k] \in Nat /\ End(k) <= End(k)'
      /\ Writer[b] = k
  <2>1. TypeOK /\ ControlOK /\ Places /\ Base /\ k \in Streams
    BY DEF Ordered, Base, Streams
  <2>2. pos \in Nat
    BY <2>1 DEF TypeOK, Event
  <2> QED
    BY <2>1, <2>2, Graph, PositionType, EndNext, StreamsMove DEF Blocks, Outs
<1>1. /\ pos > 0 => d_dev_ready_evt[b].stream = k
      /\ pos <= End(k)
      /\ \A p, q \in Nat : Busy(k, p) /\ Busy(k, q) /\ (p <= pos <=> q <= pos) => p = q
      /\ \A p \in Nat : Busy(k, p) /\ p > pos => Unrecorded(k, b)
  BY DEF Kernels, KernelsOf
<1>2. CASE Kernel(k)
  <2>1. ~Unrecorded(k, b) /\ Unrecorded(k, b)' /\ d_dev_ready_evt' = d_dev_ready_evt
    <3>1. pc[k] = "work"
      BY <1>2 DEF Kernel
    <3>2. (pc'[k] = "ready" /\ todo'[k] = Outs(k)) \/ (pc'[k] = "consume" /\ k \in ConsumeFirst)
      BY <1>0, <1>2 DEF Kernel, Enter, After, Ports, TypeOK
    <3> QED
      BY <1>0, <1>2, <3>1, <3>2 DEF Unrecorded, Kernel, events, H2D
  <2>2. \A p \in Nat : Busy(k, p) => p <= pos
    BY <1>0, <1>1, <2>1
  <2>3. \A p \in Nat : Busy(k, p)' => Busy(k, p) \/ p = End(k) + 1
    BY BusyMoves
  <2>4. \A p \in Nat : Busy(k, p)' => (p <= pos /\ Busy(k, p)) \/ (p > pos /\ p = End(k) + 1)
    BY <1>0, <1>1, <2>2, <2>3
  <2>5. \A p, q \in Nat : Busy(k, p)' /\ Busy(k, q)' /\ (p <= pos <=> q <= pos) => p = q
    BY <1>0, <1>1, <2>4
  <2>6. pos <= End(k)'
    BY <1>0, <1>1
  <2> QED
    BY <1>1, <2>1, <2>5, <2>6 DEF KernelsOf
<1>3. CASE mark_device_ready(k, b)
  <2>1. /\ d_dev_ready_evt'[b] = RecordOn(k, 0) /\ Complete(d_dev_ready_evt[b])
        /\ queue' = queue /\ done' = done /\ End(k)' = End(k)
    <3>1. queue' = queue /\ done' = done
      BY <1>3 DEF mark_device_ready, gpuVars
    <3>2. End(k)' = End(k)
      BY <1>0, <3>1, StillEffect
    <3> QED
      BY <1>0, <1>3, <3>1, <3>2 DEF mark_device_ready, TypeOK
  <2>2. d_dev_ready_evt'[b].stream = k /\ d_dev_ready_evt'[b].pos = End(k)
    <3>1. done[k] \in Nat /\ Len(queue[k]) \in Nat
      BY <1>0, PositionType
    <3> QED
      BY <2>1, <3>1 DEF RecordOn, End
  <2>3. ~Kernel(k)
    BY <1>3 DEF Kernel, mark_device_ready, At
  <2>4. \A p \in Nat : Busy(k, p)' => Busy(k, p)
    BY <2>3, BusyMoves
  <2>5. \A p \in Nat : Busy(k, p) => p > pos /\ p <= End(k)
    <3>1. \A p \in Nat : Busy(k, p) => done[k] < p /\ p <= End(k)
      BY <1>0, BusyPositions
    <3>2. pos > 0 => pos <= done[k]
      BY <1>1, <2>1 DEF Complete
    <3> QED
      BY <1>0, <3>1, <3>2
  <2>6. \A p, q \in Nat : Busy(k, p) /\ Busy(k, q) => p = q
    BY <1>0, <1>1, <2>5
  <2>7. \A p \in Nat : Busy(k, p)' => ~(p > End(k))
    BY <1>0, <2>4, <2>5
  <2> QED
    BY <1>0, <2>1, <2>2, <2>4, <2>6, <2>7 DEF KernelsOf
<1>4. CASE ~Kernel(k) /\ ~mark_device_ready(k, b)
  <2>1. d_dev_ready_evt'[b] = d_dev_ready_evt[b]
    <3>1. ~ \E j \in Blocks : post_work_h2d_ready(j, b)
      BY <1>0, UploadReadyCounts
    <3>2. \A j \in Blocks : mark_device_ready(j, b) => j = k
      BY <1>0, MarkReadyCounts
    <3>3. ~ \E j \in Blocks : mark_device_ready(j, b)
      <4>1. ASSUME NEW j \in Blocks, mark_device_ready(j, b) PROVE FALSE
        <5>1. j = k
          BY <3>2, <4>1
        <5>2. mark_device_ready(k, b)
          BY <4>1, <5>1
        <5> QED
          BY <1>4, <5>2
      <4> QED
        BY <4>1
    <3> QED
      BY <3>1, <3>3, ReadyMoves
  <2>2. \A p \in Nat : Busy(k, p)' => Busy(k, p)
    BY <1>4, BusyMoves
  <2>3. Unrecorded(k, b) => Unrecorded(k, b)'
    BY <1>4, UnrecordedMoves
  <2>4. pos <= End(k)'
    BY <1>0, <1>1
  <2> QED
    BY <1>1, <2>1, <2>2, <2>3, <2>4 DEF KernelsOf
<1> QED
  BY <1>2, <1>3, <1>4

LEMMA KernelsInvariant == Spec => []Kernels
<1>1. Init => Kernels
  <2> SUFFICES ASSUME Init PROVE Kernels
    OBVIOUS
  <2>1. \A s \in Streams : End(s) = 0 /\ done[s] = 0
    BY DEF Init, End
  <2>2. \A s \in Streams, p \in Nat : ~Busy(s, p)
    <3>1. \A s \in Streams : Waiting(s) = {}
      BY <2>1 DEF Waiting
    <3> QED
      BY <3>1, WriteStreamType DEF Busy, PendingWrite
  <2> QED
    BY <2>1, <2>2 DEF Kernels, KernelsOf, Init, Never, Streams
<1>2. Ordered /\ Ordered' /\ Kernels /\ [Next]_vars => Kernels'
  BY KernelsStep DEF Ordered, Base
<1> QED
  BY <1>1, <1>2, OrderedInvariant, PTL DEF Spec

\* A set in two parts of at most one element each.
LEMMA TwoAtMost ==
  ASSUME NEW S, NEW T \in SUBSET S,
         \A x, y \in T : x = y, \A x, y \in S \ T : x = y
  PROVE  IsFiniteSet(S) /\ Cardinality(S) <= 2
<1>1. \E x, y : S \subseteq {x, y}
  <2>1. \E x : T \subseteq {x}
    OBVIOUS
  <2>2. \E y : S \ T \subseteq {y}
    OBVIOUS
  <2> QED
    BY <2>1, <2>2
<1>2. PICK x, y : S \subseteq {x, y}
  BY <1>1
<1>3. {x, y} = {x} \cup {y}
  OBVIOUS
<1>4. IsFiniteSet({x}) /\ Cardinality({x}) = 1
  BY FS_Singleton
<1>5. IsFiniteSet({x, y}) /\ Cardinality({x, y}) <= 2
  BY <1>3, <1>4, FS_AddElement
<1>6. IsFiniteSet(S) /\ Cardinality(S) <= Cardinality({x, y})
  BY <1>2, <1>5, FS_Subset
<1>7. Cardinality(S) \in Nat /\ Cardinality({x, y}) \in Nat
  BY <1>5, <1>6, FS_CardinalityType
<1> QED
  BY <1>5, <1>6, <1>7

\* A GPU that falls behind holds its block's thread back: mark_device_ready
\* waits for the last record, so two batches at most are in the stream.
THEOREM BacklogIsBounded == Spec => []BacklogBounded
<1>1. Ordered /\ Kernels => BacklogBounded
  <2> SUFFICES ASSUME Ordered, Kernels, NEW k \in Gpu, NEW b \in Outs(k)
               PROVE  Cardinality({i \in 1..Len(queue[k]) : queue[k][i].writes # {}}) <= 2
    BY DEF BacklogBounded
  <2> DEFINE S == {i \in 1..Len(queue[k]) : queue[k][i].writes # {}}
             T == {i \in S : done[k] + i <= d_dev_ready_evt[b].pos}
  <2>0. TypeOK /\ Places /\ k \in Streams /\ b \in Buffers /\ done[k] \in Nat
    BY PositionType DEF Ordered, Base, Streams, Outs
  <2>1. ASSUME NEW i \in S PROVE done[k] + i \in Nat /\ Busy(k, done[k] + i) /\ i \in Nat
    <3>1. PICK e \in Nat : e = done[k] + i
      BY <2>0
    <3>2. e \in Waiting(k) /\ OpAt(k, e) = queue[k][i] /\ queue[k][i] \in Op
      BY <2>0, <3>1, AtPlace
    <3>3. PICK sp \in Span : sp \in OpAt(k, e).writes
      BY <3>2 DEF Op
    <3>4. WriteStream(sp.mem, sp.buf) = k
      BY <2>0, <3>2, <3>3 DEF Places, Placed
    <3>5. PICK m \in Mem, c \in Buffers : m = sp.mem /\ c = sp.buf
      BY DEF Span
    <3>6. PendingWrite(m, c, e, sp) /\ WriteStream(m, c) = k
      BY <3>2, <3>3, <3>4, <3>5 DEF PendingWrite
    <3> QED
      BY <3>1, <3>6 DEF Busy
  <2>2. \A p, q \in Nat : /\ Busy(k, p) /\ Busy(k, q)
                          /\ (p <= d_dev_ready_evt[b].pos <=> q <= d_dev_ready_evt[b].pos)
                          => p = q
    BY <2>0 DEF Kernels, KernelsOf
  <2>3. ASSUME NEW i \in S, NEW j \in S,
               done[k] + i <= d_dev_ready_evt[b].pos <=> done[k] + j <= d_dev_ready_evt[b].pos
        PROVE  i = j
    <3>1. PICK p \in Nat, q \in Nat : p = done[k] + i /\ q = done[k] + j
      BY <2>1
    <3>2. Busy(k, p) /\ Busy(k, q) /\ i \in Nat /\ j \in Nat
      BY <2>1, <3>1
    <3>3. p = q
      BY <2>2, <2>3, <3>1, <3>2
    <3> QED
      BY <2>0, <3>1, <3>2, <3>3
  <2>4. (\A i, j \in T : i = j) /\ (\A i, j \in S \ T : i = j)
    BY <2>3
  <2>5. T \in SUBSET S
    OBVIOUS
  <2> HIDE DEF S, T
  <2>6. Cardinality(S) <= 2
    BY <2>4, <2>5, TwoAtMost
  <2> QED
    BY <2>6 DEF S
<1> QED
  BY <1>1, OrderedInvariant, KernelsInvariant, PTL

-----------------------------------------------------------------------------
(* The destruction of the buffers.                                         *)

AllHalted == \A k \in Blocks : pc[k] = "halted"

\* After cut D, no pending operation uses the rings of b.
UsedIn(D, b) ==
  /\ \A s \in Streams, p \in Nat, sp \in Span :
       PendingRead(s, p, sp) /\ sp.buf = b => p <= D[s]
  /\ \A m \in Mem, p \in Nat, sp \in Span :
       PendingWrite(m, b, p, sp) => p <= D[WriteStream(m, b)]

Unused(b) ==
  /\ \A s \in Streams, p \in Nat, sp \in Span : PendingRead(s, p, sp) => sp.buf # b
  /\ \A m \in Mem, p \in Nat, sp \in Span : ~PendingWrite(m, b, p, sp)

\* A buffer is destroyed after the threads have ended; when the stream of the
\* buffer has passed the waits of the destructor, so have its users.
Closing ==
  \A b \in Buffers :
    /\ life[b] # "live" => AllHalted
    /\ life[b] = "closing" => \A D \in Cuts : Cut(D) /\ D[b] >= End(b) => UsedIn(D, b)
    /\ life[b] = "freed" => Unused(b)

\* When all threads have ended nothing is enqueued that uses a ring.
LEMMA HaltedStays ==
  ASSUME Ordered, [Next]_vars, AllHalted
  PROVE  /\ AllHalted'
         /\ \A s \in Streams, p \in Nat, sp \in Span :
              PendingRead(s, p, sp)' => PendingRead(s, p, sp)
         /\ \A m \in Mem, b \in Buffers, p \in Nat, sp \in Span :
              PendingWrite(m, b, p, sp)' => PendingWrite(m, b, p, sp)
<1>0. TypeOK /\ ControlOK
  BY DEF Ordered, Base
<1>1. ASSUME NEW k \in Blocks PROVE pc'[k] = "halted"
  <2>1. pc[k] = "halted"
    BY DEF AllHalted
  <2>2. \A b \in Buffers : ~BufferCall(k, b)
    BY <1>0, <2>1, CallEffect
  <2>3. ~Thread(k) /\ ~Halt(k)
    BY <2>1, <2>2 DEF Thread, Poll, Kernel, CpuWork, EndLoop, Halt
  <2> QED
    BY <1>0, <2>1, <2>3, OthersStay
<1>2. \A k \in Blocks :
        ~Kernel(k) /\ \A b \in Buffers : ~post_work_h2d(k, b) /\ ~post_work_d2h(k, b)
  BY DEF AllHalted, Kernel, post_work_h2d, post_work_d2h, At
<1> QED
  BY <1>1, <1>2, ReadsMove, WritesAppear DEF AllHalted

LEMMA UsedInKept ==
  ASSUME Ordered, [Next]_vars, AllHalted, NEW D \in Cuts, NEW b \in Buffers, UsedIn(D, b)
  PROVE  UsedIn(D, b)'
<1>1. \A m \in Mem : WriteStream(m, b)' = WriteStream(m, b)
  BY DEF WriteStream, H2D
<1> QED
  BY <1>1, HaltedStays DEF UsedIn

LEMMA UnusedKept ==
  ASSUME Ordered, [Next]_vars, AllHalted, NEW b \in Buffers, Unused(b)
  PROVE  Unused(b)'
  BY HaltedStays DEF Unused

\* The waits of the destructor cover every use of the rings.
LEMMA DestroyCovers ==
  ASSUME Ordered, EvReady, EvRead, AllHalted, NEW b \in Buffers, NEW D \in Cuts, Cut(D),
         Within(d_dev_ready_evt[b], D), Within(d_read_done_evt[b], D), D[b] >= End(b)
  PROVE  UsedIn(D, b)
<1>0. TypeOK /\ Base /\ "device" \in Mem /\ b \in Streams /\ Writer[b] \in Blocks
  BY Graph DEF Ordered, Base, Mem, Streams
<1>1. End(b) \in Nat /\ D[b] \in Nat
  BY <1>0, PositionType DEF Cuts
<1>2. ASSUME NEW s \in Streams, NEW p \in Nat, NEW sp \in Span, PendingRead(s, p, sp), sp.buf = b
      PROVE  p <= D[s]
  <2>1. (s \in Gpu /\ b \in Ins(s)) \/ s = b
    BY <1>2 DEF Ordered, Places, Placed, PendingRead
  <2>2. CASE s = b
    <3>1. p <= End(b)
      BY <1>0, <1>2, <2>2, PendingPositions
    <3> QED
      BY <1>1, <2>2, <3>1
  <2>3. CASE s \in Gpu /\ b \in Ins(s)
    <3>1. s \in Readers[b] \cap Gpu /\ s \in Blocks
      BY <2>3 DEF Ins, Blocks
    <3>2. KernelRead(b, s, p, sp)
      BY <1>2 DEF KernelRead
    <3>3. sp.hi <= ReadEnd(b, s)
      BY <3>1, <3>2 DEF Ordered, ReadsInOrder, ReadBy, ReadsInRange
    <3>4. Marked(b, s) = ReadEnd(b, s)
      <4>1. ~Unmarked(s, b)
        BY <3>1 DEF AllHalted, Unmarked
      <4>2. ReadEnd(b, s) \in Nat
        BY <1>0, <3>1, ReadEndType
      <4> QED
        BY <4>1, <4>2 DEF Marked
    <3> QED
      BY <3>1, <3>2, <3>3, <3>4 DEF EvRead
  <2> QED
    BY <2>1, <2>2, <2>3
<1>3. ASSUME NEW m \in Mem, NEW p \in Nat, NEW sp \in Span, PendingWrite(m, b, p, sp)
      PROVE  p <= D[WriteStream(m, b)]
  <2>1. CASE WriteStream(m, b) = b
    <3>1. p <= End(b)
      BY <1>0, <1>3, <2>1, PendingPositions
    <3> QED
      BY <1>1, <2>1, <3>1
  <2>2. CASE m = "device" /\ ~H2D(b)
    <3>1. ReadyEnd(b) = DevEnd(b)
      <4>1. ~Made(Writer[b], b)
        BY <1>0, <2>2 DEF AllHalted, Made, Worked, Writing
      <4> QED
        BY <4>1 DEF ReadyEnd, DevEnd, Plus
    <3>2. PICK h \in Nat : h = DevEnd(b)
      BY <1>0, WEndType
    <3>3. Wrote(D, "device", b, h)
      BY <3>1, <3>2 DEF EvReady
    <3>4. /\ OrderedIn("device", b) /\ WEnd("device", b) = h
          /\ held["device"][b] \in Nat /\ sp.hi \in Nat
      BY <1>0, <3>2 DEF Ordered, WritesInOrder, WEnd, Moved, TypeOK, Span
    <3>5. held["device"][b] < sp.hi /\ sp.hi <= h
      BY <1>3, <2>2, <3>4 DEF OrderedIn, WriteInRange
    <3>6. PICK q \in Nat, sq \in Span : PendingWrite("device", b, q, sq) /\
             q <= D[WriteStream("device", b)] /\ h <= sq.hi
      BY <3>3, <3>4, <3>5 DEF Wrote
    <3>7. q < p => sq.hi < sp.hi
      BY <1>3, <2>2, <3>4, <3>6 DEF OrderedIn, WritesSorted
    <3>8. p <= q
      BY <3>4, <3>5, <3>6, <3>7 DEF Span
    <3>9. D[WriteStream("device", b)] \in Nat
      BY <1>0, WriteStreamType DEF Cuts
    <3> QED
      BY <2>2, <3>6, <3>8, <3>9
  <2> QED
    BY <2>1, <2>2 DEF WriteStream
<1> QED
  BY <1>2, <1>3 DEF UsedIn

LEMMA LifeMoves ==
  ASSUME TypeOK, [Next]_vars, NEW b \in Buffers
  PROVE  life'[b] = life[b] \/ Destroy(b) \/ Free(b)
<1>1. ASSUME NEW c \in Buffers, Destroy(c) \/ Free(c)
      PROVE  life'[b] = life[b] \/ Destroy(b) \/ Free(b)
  <2>1. CASE c = b
    BY <1>1, <2>1
  <2>2. CASE c # b
    <3>1. \E x : life' = [life EXCEPT ![c] = x]
      BY <1>1 DEF Destroy, Free
    <3> QED
      BY <2>2, <3>1 DEF TypeOK
  <2> QED
    BY <2>1, <2>2
<1>2. \A k \in Blocks, c \in Buffers : BufferCall(k, c) => life' = life
  BY DEF BufferCall, post_work, wait_for_work, mark_device_ready, mark_read_done_wait,
     mark_read_done_record, wait_host_ready, wait_host_ready_return, Consume, post_work_h2d,
     post_work_h2d_ready, post_work_d2h, post_work_d2d, Publish
<1>3. \A k \in Blocks : Thread(k) \/ Halt(k) => life' = life
  BY <1>2 DEF Thread, Poll, Kernel, CpuWork, EndLoop, Halt
<1>4. /\ \A s \in Streams : Exec(s) => life' = life
      /\ UNCHANGED vars => life' = life
  BY DEF Exec, vars
<1> QED
  BY <1>1, <1>3, <1>4 DEF Next, Teardown

LEMMA ClosingStep ==
  ASSUME Ordered, TypeOK', EvReady, EvRead, Closing, [Next]_vars PROVE Closing'
<1> SUFFICES ASSUME NEW b \in Buffers, life'[b] # "live"
             PROVE  /\ AllHalted'
                    /\ life'[b] = "closing" =>
                         \A D \in Cuts : Cut(D)' /\ D[b] >= End(b)' => UsedIn(D, b)'
                    /\ life'[b] = "freed" => Unused(b)'
  BY DEF Closing
<1>0. TypeOK /\ ControlOK /\ Places /\ b \in Streams
  BY DEF Ordered, Base, Streams
<1>1. AllHalted
  <2>1. Destroy(b) => AllHalted
    BY DEF Destroy, AllHalted
  <2>2. Free(b) => life[b] # "live"
    BY DEF Free
  <2> QED
    BY <1>0, <2>1, <2>2, LifeMoves DEF Closing
<1>2. /\ End(b) \in Nat /\ End(b)' \in Nat /\ End(b) <= End(b)'
      /\ \A D \in Cuts : D[b] \in Nat /\ (Cut(D)' => Cut(D))
  BY <1>0, PositionType, EndNext, StreamsMove, CutBack DEF Cuts
<1>3. CASE life'[b] = life[b]
  <2>1. ASSUME life[b] = "closing", NEW D \in Cuts, Cut(D)', D[b] >= End(b)' PROVE UsedIn(D, b)'
    <3>1. Cut(D) /\ D[b] >= End(b)
      BY <1>2, <2>1
    <3>2. UsedIn(D, b)
      BY <2>1, <3>1 DEF Closing
    <3> QED
      BY <1>1, <3>2, UsedInKept
  <2>2. life[b] = "freed" => Unused(b)'
    BY <1>1, UnusedKept DEF Closing
  <2> QED
    BY <1>1, <1>3, <2>1, <2>2, HaltedStays
<1>4. CASE Destroy(b)
  <2>1. life'[b] = "closing"
    BY <1>0, <1>4 DEF Destroy, TypeOK
  <2>2. ASSUME NEW D \in Cuts, Cut(D)', D[b] >= End(b)' PROVE UsedIn(D, b)'
    <3>1. Grows(b, 3)
      BY <1>0, <1>4, DestroyGrows
    <3>2. PICK e1 \in Nat, e3 \in Nat : e1 = End(b) + 1 /\ e3 = End(b) + 3
      BY <1>2
    <3>3. /\ e1 \in Waiting(b)' /\ e1 \notin Waiting(b) /\ e3 \in Waiting(b)' /\ e3 \notin Waiting(b)
          /\ D[b] >= e1 /\ D[b] >= e3 /\ D[b] >= End(b)
      BY <1>0, <1>2, <2>2, <3>1, <3>2, GrowsEnd
    <3>4. e1 # End(b) + 2 /\ e1 # End(b) + 3 /\ e3 # End(b) + 1 /\ e3 # End(b) + 2
      BY <1>2, <3>2
    <3>5. /\ OpAt(b, e1)' = WaitEvent(d_dev_ready_evt[b])
          /\ OpAt(b, e3)' = WaitEvent(d_read_done_evt[b])
      BY <1>0, <1>4, <3>3, <3>4, DestroyGrows
    <3>6. PICK ev1, ev3 : ev1 = d_dev_ready_evt[b] /\ ev3 = d_read_done_evt[b]
      OBVIOUS
    <3>7. Within(ev1, D)
      BY <1>0, <2>2, <3>3, <3>5, <3>6, WaitInCut
    <3>8. Within(ev3, D)
      BY <1>0, <2>2, <3>3, <3>5, <3>6, WaitInCut
    <3>9. UsedIn(D, b)
      BY <1>1, <1>2, <2>2, <3>3, <3>6, <3>7, <3>8, DestroyCovers
    <3> QED
      BY <1>1, <3>9, UsedInKept
  <2> QED
    BY <1>1, <2>1, <2>2, HaltedStays
<1>5. CASE Free(b)
  <2>1. life[b] = "closing" /\ life'[b] = "freed" /\ queue[b] = <<>>
    BY <1>0, <1>5 DEF Free, TypeOK
  <2>2. PICK D \in Cuts : D = done /\ Cut(D)
    BY <1>0, DoneIsCut
  <2>3. D[b] >= End(b)
    <3>1. Len(queue[b]) = 0 /\ done[b] \in Nat
      BY <1>0, <2>1 DEF TypeOK
    <3> QED
      BY <2>2, <3>1 DEF End
  <2>4. UsedIn(D, b)
    BY <2>1, <2>2, <2>3 DEF Closing
  <2>5. Unused(b)
    <3>1. \A s \in Streams : done[s] \in Nat
      BY <1>0, PositionType
    <3>2. \A s \in Streams, p \in Nat, sp \in Span : PendingRead(s, p, sp) => ~(p <= done[s])
      BY <1>0, <3>1, PendingPositions
    <3>3. \A m \in Mem, p \in Nat, sp \in Span :
            PendingWrite(m, b, p, sp) => ~(p <= done[WriteStream(m, b)])
      BY <1>0, <3>1, PendingPositions, WriteStreamType
    <3> QED
      BY <2>2, <2>4, <3>2, <3>3 DEF UsedIn, Unused
  <2> QED
    BY <1>1, <2>1, <2>5, UnusedKept, HaltedStays
<1> QED
  BY <1>0, <1>3, <1>4, <1>5, LifeMoves

LEMMA ClosingInvariant == Spec => []Closing
<1>1. Init => Closing
  BY DEF Init, Closing
<1>2. Ordered /\ Ordered' /\ Ready /\ Safe /\ Closing /\ [Next]_vars => Closing'
  BY ClosingStep DEF Ordered, Base, Ready, Safe
<1> QED
  BY <1>1, <1>2, OrderedInvariant, ReadyInvariant, SafeInvariant, PTL DEF Spec

\* The waits of the destructor are enough: when the stream of a buffer is
\* synchronised no operation of any stream uses its memory any more.
THEOREM NothingIsUsedAfterFree == Spec => []NoUseAfterFree
<1>1. Ordered /\ Closing => NoUseAfterFree
  <2> SUFFICES ASSUME Ordered, Closing, NEW s \in Streams, NEW i \in 1..Len(queue[s]),
                      NEW sp \in queue[s][i].reads \cup queue[s][i].writes
               PROVE  life[sp.buf] # "freed"
    BY DEF NoUseAfterFree
  <2>0. TypeOK /\ Places
    BY DEF Ordered, Base
  <2>1. PICK e \in Nat : e = done[s] + i
    BY <2>0, AtPlace
  <2>2. e \in Waiting(s) /\ OpAt(s, e) = queue[s][i] /\ sp \in Span
    BY <2>0, <2>1, AtPlace DEF Op
  <2>3. PICK b \in Buffers, m \in Mem : b = sp.buf /\ m = sp.mem
    BY <2>2 DEF Span
  <2>4. CASE sp \in queue[s][i].reads
    <3>1. PendingRead(s, e, sp)
      BY <2>2, <2>4 DEF PendingRead
    <3> QED
      BY <2>2, <2>3, <3>1 DEF Closing, Unused
  <2>5. CASE sp \in queue[s][i].writes
    <3>1. s = WriteStream(m, b)
      BY <2>0, <2>2, <2>3, <2>5 DEF Places, Placed
    <3>2. PendingWrite(m, b, e, sp)
      BY <2>2, <2>3, <2>5, <3>1 DEF PendingWrite
    <3> QED
      BY <2>2, <2>3, <3>2 DEF Closing, Unused
  <2> QED
    BY <2>4, <2>5
<1> QED
  BY <1>1, OrderedInvariant, ClosingInvariant, PTL

-----------------------------------------------------------------------------
(* The refinement of BoundedStream.                                        *)

\* What a step of the flowgraph does to the items of b that are in the memory
\* of its readers: it stores some, a reader takes some, or neither.
StoresInto(b) ==
  \E n \in 1..N :
    /\ \A r \in Readers[b] : held[ReadMem(b)][b] + n - Taken(b, r) <= N
    /\ held'[ReadMem(b)][b] = held[ReadMem(b)][b] + n
    /\ \A r \in Readers[b] : Taken(b, r)' = Taken(b, r)

TakesFrom(b) ==
  \E n \in 1..N, k \in Readers[b] :
    /\ Taken(b, k) + n <= held[ReadMem(b)][b]
    /\ held'[ReadMem(b)][b] = held[ReadMem(b)][b]
    /\ Taken(b, k)' = Taken(b, k) + n
    /\ \A r \in Readers[b] \ {k} : Taken(b, r)' = Taken(b, r)

LeavesAlone(b) ==
  /\ held'[ReadMem(b)][b] = held[ReadMem(b)][b]
  /\ \A r \in Readers[b] : Taken(b, r)' = Taken(b, r)

Moves(b) == StoresInto(b) \/ TakesFrom(b) \/ LeavesAlone(b)

\* These are the steps of a BoundedStream.
LEMMA MovesAreSteps ==
  ASSUME NEW b \in Buffers, Moves(b)
  PROVE  [Stream(b)!Next]_(Stream(b)!vars)
<1>0. ReadMem(b)' = ReadMem(b)
  BY DEF ReadMem, D2H
<1>1. CASE StoresInto(b)
  <2>1. PICK n \in 1..N :
          /\ \A r \in Readers[b] : held[ReadMem(b)][b] + n - Taken(b, r) <= N
          /\ held'[ReadMem(b)][b] = held[ReadMem(b)][b] + n
          /\ \A r \in Readers[b] : Taken(b, r)' = Taken(b, r)
    BY <1>1 DEF StoresInto
  <2>2. Stream(b)!Store(n)
    BY <1>0, <2>1 DEF Stream!Store
  <2> QED
    BY <2>2 DEF Stream!Next
<1>2. CASE TakesFrom(b)
  <2>1. PICK n \in 1..N, k \in Readers[b] :
          /\ Taken(b, k) + n <= held[ReadMem(b)][b]
          /\ held'[ReadMem(b)][b] = held[ReadMem(b)][b]
          /\ Taken(b, k)' = Taken(b, k) + n
          /\ \A r \in Readers[b] \ {k} : Taken(b, r)' = Taken(b, r)
    BY <1>2 DEF TakesFrom
  <2>2. Stream(b)!Take(k, n)
    BY <1>0, <2>1 DEF Stream!Take
  <2> QED
    BY <2>2 DEF Stream!Next
<1>3. CASE LeavesAlone(b)
  BY <1>0, <1>3 DEF LeavesAlone, Stream!vars
<1> QED
  BY <1>1, <1>2, <1>3 DEF Moves

\* No reader is ahead of the items that are stored.
BehindIn(b) ==
  \A k \in Readers[b] : Taken(b, k) \in Nat /\ Taken(b, k) <= held[ReadMem(b)][b]

Behind == \A b \in Buffers : BehindIn(b)

LEMMA MovesStayBehind ==
  ASSUME TypeOK, NEW b \in Buffers, BehindIn(b), Moves(b)
  PROVE  BehindIn(b)'
<1>0. ReadMem(b)' = ReadMem(b) /\ held[ReadMem(b)][b] \in Nat
  BY DEF ReadMem, D2H, TypeOK, Mem
<1> SUFFICES ASSUME NEW k \in Readers[b]
             PROVE  Taken(b, k)' \in Nat /\ Taken(b, k)' <= held'[ReadMem(b)][b]
  BY <1>0 DEF BehindIn
<1>1. Taken(b, k) \in Nat /\ Taken(b, k) <= held[ReadMem(b)][b]
  BY DEF BehindIn
<1>2. CASE StoresInto(b)
  BY <1>0, <1>1, <1>2 DEF StoresInto
<1>3. CASE TakesFrom(b)
  <2>1. PICK n \in 1..N, j \in Readers[b] :
          /\ Taken(b, j) + n <= held[ReadMem(b)][b]
          /\ held'[ReadMem(b)][b] = held[ReadMem(b)][b]
          /\ Taken(b, j)' = Taken(b, j) + n
          /\ \A r \in Readers[b] \ {j} : Taken(b, r)' = Taken(b, r)
    BY <1>3 DEF TakesFrom
  <2>2. CASE j = k
    BY <1>0, <1>1, <2>1, <2>2
  <2>3. CASE j # k
    BY <1>0, <1>1, <2>1, <2>3
  <2> QED
    BY <2>2, <2>3
<1>4. CASE LeavesAlone(b)
  BY <1>0, <1>1, <1>4 DEF LeavesAlone
<1> QED
  BY <1>2, <1>3, <1>4 DEF Moves

-----------------------------------------------------------------------------
\* The item from which k still has to read b: the first of the reads that are
\* pending, or the end of all its reads.
ReadFrom(b, k, t) ==
  \/ t = ReadEnd(b, k) /\ \A p \in Nat, sp \in Span : ~KernelRead(b, k, p, sp)
  \/ /\ \E p \in Nat, sp \in Span : KernelRead(b, k, p, sp) /\ sp.lo = t
     /\ \A p \in Nat, sp \in Span : KernelRead(b, k, p, sp) => t <= sp.lo

TakenIs ==
  \A b \in Buffers : \A k \in Readers[b] \cap Gpu : \A t \in Nat :
    ReadFrom(b, k, t) => Taken(b, k) = t

\* The abstraction function of the refinement, without CHOOSE.
LEMMA TakenAlways == TypeOK => TakenIs
<1> SUFFICES ASSUME TypeOK, NEW b \in Buffers, NEW k \in Readers[b] \cap Gpu,
                    NEW t \in Nat, ReadFrom(b, k, t)
             PROVE  Taken(b, k) = t
  BY DEF TakenIs
<1>0. k \in Streams /\ k \notin Cpu
  BY Graph DEF Streams
<1>1. ASSUME NEW sp
      PROVE  sp \in PendingReads(b, k) <=> sp \in Span /\ \E p \in Nat : KernelRead(b, k, p, sp)
  <2>1. ASSUME sp \in PendingReads(b, k)
        PROVE  sp \in Span /\ \E p \in Nat : KernelRead(b, k, p, sp)
    <3>1. PICK i \in 1..Len(queue[k]) : sp \in queue[k][i].reads /\ sp.buf = b
      BY <2>1 DEF PendingReads
    <3>2. /\ done[k] + i \in Waiting(k) /\ done[k] + i \in Nat
          /\ OpAt(k, done[k] + i) = queue[k][i] /\ queue[k][i] \in Op
      BY <1>0, AtPlace
    <3>3. sp \in Span
      BY <3>1, <3>2 DEF Op
    <3> QED
      BY <3>1, <3>2, <3>3 DEF KernelRead, PendingRead
  <2>2. ASSUME NEW p \in Nat, KernelRead(b, k, p, sp)
        PROVE  sp \in PendingReads(b, k)
    <3>1. p \in Waiting(k) /\ sp \in queue[k][p - done[k]].reads /\ sp.buf = b
      BY <2>2 DEF KernelRead, PendingRead, OpAt
    <3>2. p - done[k] \in 1..Len(queue[k])
      <4>1. done[k] \in Nat /\ Len(queue[k]) \in Nat
        BY <1>0, PositionType
      <4> QED
        BY <3>1, <4>1 DEF Waiting, End
    <3> QED
      BY <3>1, <3>2 DEF PendingReads
  <2> QED
    BY <2>1, <2>2
<1>2. CASE t = ReadEnd(b, k) /\ \A p \in Nat, sp \in Span : ~KernelRead(b, k, p, sp)
  <2>1. PendingReads(b, k) = {}
    BY <1>1, <1>2
  <2>2. nread[b][k] \in Nat
    BY Graph DEF TypeOK
  <2> QED
    BY <1>0, <1>2, <2>1, <2>2 DEF Taken, ReadEnd, Plus
<1>3. CASE /\ \E p \in Nat, sp \in Span : KernelRead(b, k, p, sp) /\ sp.lo = t
           /\ \A p \in Nat, sp \in Span : KernelRead(b, k, p, sp) => t <= sp.lo
  <2>1. /\ PendingReads(b, k) # {} /\ t \in {sp.lo : sp \in PendingReads(b, k)}
        /\ \A sp \in PendingReads(b, k) : t <= sp.lo /\ sp.lo \in Nat
    BY <1>1, <1>3 DEF Span
  <2> DEFINE T == {sp.lo : sp \in PendingReads(b, k)}
  <2>2. \A lo \in T : (\A sp \in PendingReads(b, k) : lo <= sp.lo) <=> lo = t
    BY <2>1
  <2>3. (CHOOSE lo \in T : \A sp \in PendingReads(b, k) : lo <= sp.lo) = t
    BY <2>1, <2>2
  <2> QED
    BY <1>0, <2>1, <2>3 DEF Taken
<1> QED
  BY <1>2, <1>3 DEF ReadFrom

LEMMA TakenNext == TypeOK' => TakenIs'
  BY TakenAlways, PTL

Takes(b, k, t) ==
  /\ k \in Streams /\ Exec(k)
  /\ \E e \in Nat, sp \in Span :
       /\ e = done[k] + 1 /\ KernelRead(b, k, e, sp) /\ sp.lo = t
       /\ ReadFrom(b, k, sp.hi)'

LEMMA ReadFromKept ==
  ASSUME NEW b \in Buffers, NEW k \in Readers[b] \cap Gpu, NEW t \in Nat,
         ReadFrom(b, k, t), ReadEnd(b, k)' = ReadEnd(b, k),
         \A p \in Nat, sp \in Span : KernelRead(b, k, p, sp)' <=> KernelRead(b, k, p, sp)
  PROVE  ReadFrom(b, k, t)'
  BY DEF ReadFrom

\* A reader's position moves when one of its reads is executed, from the start
\* of that read to its end, and never otherwise.
LEMMA ReadFromMoves ==
  ASSUME Ordered, TypeOK', [Next]_vars, NEW b \in Buffers, NEW r \in Readers[b] \cap Gpu,
         NEW t \in Nat, ReadFrom(b, r, t)
  PROVE  ReadFrom(b, r, t)' \/ Takes(b, r, t)
<1>0. /\ ReadBy(b, r) /\ r \in Streams /\ r \notin Buffers /\ b \in Ins(r) /\ r \in Blocks
      /\ TypeOK /\ ControlOK /\ Places
  BY Graph DEF Ordered, Base, ReadsInOrder, Streams, Ins
<1>1. CASE Quiet
  BY <1>0, <1>1, ReadFromKept DEF Quiet, SamePending, SameEnds, KernelRead
<1>2. ASSUME NEW k \in Blocks, Kernel(k) PROVE ReadFrom(b, r, t)'
  <2>2. CASE r = k
    <3>1. PICK e \in Nat : e = End(k) + 1
      BY <1>0, <2>2, PositionType
    <3>2. PICK w : w = InSpan(k, "device", b)
      OBVIOUS
    <3>3. w \in Span /\ w.lo = nread[b][k] /\ w.buf = b /\ w.lo \in Nat
      BY <1>0, <3>2, SpanType DEF Mem, InSpan, Span
    <3>4. ASSUME NEW p \in Nat, NEW sp \in Span
          PROVE  KernelRead(b, k, p, sp)' <=> KernelRead(b, k, p, sp) \/ (p = e /\ sp = w)
      <4>1. \A c \in Ins(k) : InSpan(k, "device", c).buf = c
        BY DEF InSpan
      <4>2. PendingRead(k, p, sp)' <=>
              \/ PendingRead(k, p, sp)
              \/ p = e /\ \E c \in Ins(k) : sp = InSpan(k, "device", c)
        BY <1>0, <1>2, <2>2, <3>1, KernelPending
      <4> QED
        BY <1>0, <2>2, <3>2, <4>1, <4>2 DEF KernelRead
    <3>5. ReadEnd(b, k) = w.lo
      BY <1>0, <1>2, <2>2, <3>3, KernelCounts
    <3>6. CASE t = ReadEnd(b, k) /\ \A p \in Nat, sp \in Span : ~KernelRead(b, k, p, sp)
      <4>1. KernelRead(b, k, e, w)' /\ w.lo = t
        BY <3>3, <3>4, <3>5, <3>6
      <4>2. \A p \in Nat, sp \in Span : KernelRead(b, k, p, sp)' => t <= sp.lo
        BY <3>3, <3>4, <3>5, <3>6
      <4> QED
        BY <2>2, <3>3, <4>1, <4>2 DEF ReadFrom
    <3>7. CASE /\ \E p \in Nat, sp \in Span : KernelRead(b, k, p, sp) /\ sp.lo = t
               /\ \A p \in Nat, sp \in Span : KernelRead(b, k, p, sp) => t <= sp.lo
      <4>1. PICK p \in Nat, sp \in Span : KernelRead(b, k, p, sp) /\ sp.lo = t
        BY <3>7
      <4>2. sp.lo < sp.hi /\ sp.hi <= w.lo /\ sp.lo \in Nat /\ sp.hi \in Nat
        BY <1>0, <2>2, <3>5, <4>1 DEF ReadBy, ReadsInRange, Span
      <4>3. t <= w.lo
        BY <3>3, <4>1, <4>2
      <4>4. KernelRead(b, k, p, sp)'
        BY <3>4, <4>1
      <4>5. \A q \in Nat, sq \in Span : KernelRead(b, k, q, sq)' => t <= sq.lo
        BY <3>4, <3>7, <4>3
      <4> QED
        BY <2>2, <4>1, <4>4, <4>5 DEF ReadFrom
    <3> QED
      BY <2>2, <3>6, <3>7 DEF ReadFrom
  <2>3. CASE r # k
    <3>1. \A p \in Nat, sp \in Span : KernelRead(b, r, p, sp)' <=> KernelRead(b, r, p, sp)
      BY <1>0, <1>2, <2>3, KernelPending DEF KernelRead
    <3>2. ReadEnd(b, r)' = ReadEnd(b, r)
      BY <1>0, <1>2, <2>3, KernelCounts
    <3> QED
      BY <3>1, <3>2, ReadFromKept
  <2> QED
    BY <2>2, <2>3
<1>3. ASSUME NEW k \in Blocks, NEW c \in Buffers, post_work_h2d(k, c) \/ post_work_d2h(k, c)
      PROVE  ReadFrom(b, r, t)'
  <2>1. ReadEnd(b, r)' = ReadEnd(b, r)
    <3>1. PostStep(k, c, "dev_ready") \/ PostStep(k, c, "publish")
      BY <1>0, <1>3, UploadCounts, DownloadCounts
    <3> QED
      BY <1>0, <3>1, PostCounts DEF SameReads
  <2>2. r # c
    BY <1>0
  <2>3. \A p \in Nat, sp \in Span : PendingRead(r, p, sp)' <=> PendingRead(r, p, sp)
    <3>1. CASE post_work_h2d(k, c)
      BY <1>0, <2>2, <3>1, UploadPending
    <3>2. CASE post_work_d2h(k, c)
      BY <1>0, <2>2, <3>2, DownloadPending
    <3> QED
      BY <1>3, <3>1, <3>2
  <2>4. \A p \in Nat, sp \in Span : KernelRead(b, r, p, sp)' <=> KernelRead(b, r, p, sp)
    BY <2>3 DEF KernelRead
  <2> QED
    BY <2>1, <2>4, ReadFromKept
<1>4. ASSUME NEW k \in Blocks, CpuWork(k) PROVE ReadFrom(b, r, t)'
  <2>1. ReadEnd(b, r)' = ReadEnd(b, r)
    BY <1>0, <1>4, CpuWorkCounts DEF SameReads
  <2>2. \A p \in Nat, sp \in Span : KernelRead(b, r, p, sp)' <=> KernelRead(b, r, p, sp)
    BY <1>0, <1>4, CpuWorkHeld DEF KernelRead, SamePending
  <2> QED
    BY <2>1, <2>2, ReadFromKept
<1>5. ASSUME NEW s \in Streams, Exec(s) PROVE ReadFrom(b, r, t)' \/ Takes(b, r, t)
  <2>1. ReadEnd(b, r)' = ReadEnd(b, r)
    BY <1>0, <1>5, ExecCounts DEF SameEnds
  <2>2. PICK e \in Nat : e = done[r] + 1
    BY <1>0, PositionType
  <2>3. ASSUME s = r, NEW w \in Span, KernelRead(b, r, e, w) PROVE Takes(b, r, t)
    <3>1. \A p \in Nat, sp \in Span :
            KernelRead(b, r, p, sp)' <=> KernelRead(b, r, p, sp) /\ p # e
      BY <1>0, <1>5, <2>2, <2>3, ExecPending DEF KernelRead
    <3>2. \A p \in Nat, sp \in Span : KernelRead(b, r, p, sp) => p >= e
      <4>1. done[r] \in Nat
        BY <1>0, PositionType
      <4>2. \A p \in Nat, sp \in Span : PendingRead(r, p, sp) => done[r] < p
        BY <1>0, PendingPositions
      <4> QED
        BY <2>2, <4>1, <4>2 DEF KernelRead
    <3>3. \A p \in Nat, sp \in Span : KernelRead(b, r, p, sp) /\ p # e => w.hi <= sp.lo
      BY <1>0, <2>3, <3>2 DEF ReadBy, ReadsSorted
    <3>4. \A sp \in Span : KernelRead(b, r, e, sp) => sp = w
      BY <1>0, <2>3 DEF ReadBy, ReadsSorted
    <3>5. w.lo < w.hi /\ w.lo \in Nat /\ w.hi \in Nat /\ w.hi <= ReadEnd(b, r)
      BY <1>0, <2>3 DEF ReadBy, ReadsInRange, Span
    <3>6. w.lo = t
      <4>1. PICK p \in Nat, sp \in Span : KernelRead(b, r, p, sp) /\ sp.lo = t
        BY <2>3 DEF ReadFrom
      <4>2. t <= w.lo
        BY <2>3 DEF ReadFrom
      <4>3. CASE p = e
        BY <3>4, <4>1, <4>3
      <4>4. CASE p # e
        BY <3>3, <3>5, <4>1, <4>2, <4>4
      <4> QED
        BY <4>3, <4>4
    <3>7. ReadFrom(b, r, w.hi)'
      <4>1. CASE w.hi = ReadEnd(b, r)
        <5>1. \A p \in Nat, sp \in Span : ~KernelRead(b, r, p, sp)'
          <6> SUFFICES ASSUME NEW p \in Nat, NEW sp \in Span, KernelRead(b, r, p, sp), p # e
                       PROVE FALSE
            BY <3>1
          <6>1. w.hi <= sp.lo
            BY <3>3
          <6>2. sp.lo < sp.hi /\ sp.hi <= ReadEnd(b, r) /\ sp.lo \in Nat /\ sp.hi \in Nat
            BY <1>0 DEF ReadBy, ReadsInRange, Span
          <6> QED
            BY <3>5, <4>1, <6>1, <6>2
        <5> QED
          BY <2>1, <4>1, <5>1 DEF ReadFrom
      <4>2. CASE \E q \in Nat, sq \in Span : KernelRead(b, r, q, sq) /\ e < q /\ sq.lo = w.hi
        <5>1. PICK q \in Nat, sq \in Span : KernelRead(b, r, q, sq) /\ e < q /\ sq.lo = w.hi
          BY <4>2
        <5>2. KernelRead(b, r, q, sq)'
          BY <3>1, <5>1
        <5>3. \A p \in Nat, sp \in Span : KernelRead(b, r, p, sp)' => w.hi <= sp.lo
          BY <3>1, <3>3
        <5> QED
          BY <5>1, <5>2, <5>3 DEF ReadFrom
      <4> QED
        BY <1>0, <2>3, <4>1, <4>2 DEF ReadBy, ReadsReach
    <3> QED
      BY <1>0, <1>5, <2>2, <2>3, <3>6, <3>7 DEF Takes
  <2>4. ASSUME ~ \E w \in Span : s = r /\ KernelRead(b, r, e, w) PROVE ReadFrom(b, r, t)'
    <3>1. \A p \in Nat, sp \in Span : KernelRead(b, r, p, sp)' <=> KernelRead(b, r, p, sp)
      BY <1>0, <1>5, <2>2, <2>4, ExecPending DEF KernelRead
    <3> QED
      BY <2>1, <3>1, ReadFromKept
  <2> QED
    BY <2>3, <2>4
<1> QED
  BY <1>0, <1>1, <1>2, <1>3, <1>4, <1>5, QuietStep
Starts ==
  \A b \in Buffers : \A k \in Readers[b] \cap Gpu : \E t \in Nat : ReadFrom(b, k, t)

LEMMA StartsStep ==
  ASSUME Ordered, TypeOK', Starts, [Next]_vars
  PROVE  Starts'
<1> SUFFICES ASSUME NEW b \in Buffers, NEW k \in Readers[b] \cap Gpu
             PROVE  \E t \in Nat : ReadFrom(b, k, t)'
  BY DEF Starts
<1>1. PICK t \in Nat : ReadFrom(b, k, t)
  BY DEF Starts
<1>2. ReadFrom(b, k, t)' \/ Takes(b, k, t)
  BY <1>1, ReadFromMoves
<1> QED
  BY <1>2 DEF Takes, Span

-----------------------------------------------------------------------------
(* Buffers with CPU readers.                                               *)

LEMMA ConsumedMoves ==
  ASSUME TypeOK, ControlOK, [Next]_vars, NEW b \in Buffers
  PROVE  \/ \A k \in Blocks : nread'[b][k] = nread[b][k]
         \/ \E k \in Blocks : Consume(k, b)
<1>1. ASSUME NEW k \in Blocks, NEW c \in Buffers, Consume(k, c), c # b
      PROVE  nread'[b] = nread[b]
  BY <1>1, ConsumeCounts DEF TypeOK
<1>2. ASSUME NEW k \in Blocks, NEW c \in Buffers, BufferCall(k, c), ~Consume(k, c)
      PROVE  nread' = nread
  BY <1>2 DEF BufferCall, post_work, wait_for_work, mark_device_ready, mark_read_done_wait,
     mark_read_done_record, wait_host_ready, wait_host_ready_return, Publish, post_work_h2d,
     post_work_h2d_ready, post_work_d2h, post_work_d2d, counts
<1>3. ASSUME NEW k \in Blocks, Thread(k)
      PROVE  nread'[b] = nread[b] \/ Consume(k, b)
  <2>1. ASSUME \/ \E n \in 1..N : Poll(k, n)
               \/ Kernel(k) \/ CpuWork(k) \/ EndLoop(k)
        PROVE  nread' = nread
    BY <2>1 DEF Poll, Kernel, CpuWork, EndLoop, counts
  <2> QED
    BY <1>1, <1>2, <1>3, <2>1 DEF Thread
<1>4. /\ \A k \in Blocks : Halt(k) => nread' = nread
      /\ \A s \in Streams : Exec(s) => nread' = nread
      /\ \A c \in Buffers : Destroy(c) \/ Free(c) => nread' = nread
      /\ UNCHANGED vars => nread' = nread
  BY DEF Halt, Exec, Destroy, Free, vars, counts
<1> QED
  BY <1>3, <1>4 DEF Next, Teardown

LEMMA HostStream ==
  ASSUME Ordered, TypeOK', Ready, Behind, [Next]_vars, NEW b \in Buffers, D2H(b)
  PROVE  Moves(b)
<1>0. /\ TypeOK /\ ControlOK /\ Base /\ Places /\ "host" \in Mem /\ Moved("host", b) /\ ReadMem(b) = "host"
      /\ OrderedIn("host", b) /\ WriteStream("host", b) = b
  BY DEF Ordered, Base, Mem, Moved, ReadMem, WritesInOrder, WriteStream
<1>1. \A k \in Readers[b] : k \in Cpu /\ k \in Blocks /\ b \in Ins(k)
  BY DEF D2H, Blocks, Ins
<1>2. \A k \in Readers[b] : Taken(b, k) = nread[b][k] /\ Taken(b, k)' = nread'[b][k]
  BY <1>1 DEF Taken
<1>3. \A k \in Readers[b] : nread[b][k] \in Nat /\ nread[b][k] <= held["host"][b]
  BY <1>0, <1>2 DEF Behind, BehindIn
<1>4. held["host"][b] \in Nat /\ held'["host"][b] \in Nat /\ N \in Nat
  BY <1>0, Graph DEF TypeOK
<1>5. ASSUME NEW k \in Blocks, Consume(k, b) PROVE Moves(b)
  <2>1. /\ nread' = [nread EXCEPT ![b][k] = @ + batch[k]] /\ held' = held
        /\ pc[k] = "consume" /\ b \in todo[k] /\ b \in Ins(k)
    BY <1>0, <1>5 DEF Consume, At, gpuVars, ControlOK, ThreadOK, Ports
  <2>2. k \in Readers[b] /\ k \in Cpu
    BY <1>1, <2>1 DEF Ins
  <2>3. /\ nread'[b][k] = nread[b][k] + batch[k]
        /\ \A r \in Readers[b] \ {k} : nread'[b][r] = nread[b][r]
    BY <1>0, <1>1, <2>1 DEF TypeOK
  <2>4. batch[k] \in 1..N
    <3>1. batch[k] >= 1
      BY <1>0, <2>1 DEF ControlOK, ThreadOK, Active
    <3>2. batch[k] \in Nat /\ batch[k] <= N
      BY <1>0, CountType
    <3> QED
      BY <1>4, <3>1, <3>2
  <2>5. nread[b][k] + batch[k] <= held["host"][b]
    <3>1. ReadTo(b, k) = nread[b][k] + batch[k] /\ HostReading(k, b)
      BY <2>1 DEF ReadTo, Plus, Reading, HostReading
    <3> QED
      BY <2>1, <2>2, <3>1 DEF Ready, HostIn
  <2>6. TakesFrom(b)
    BY <1>0, <1>2, <2>1, <2>2, <2>3, <2>4, <2>5 DEF TakesFrom
  <2> QED
    BY <2>6 DEF Moves
<1>6. ASSUME \A k \in Blocks : nread'[b][k] = nread[b][k], held'["host"][b] = held["host"][b]
      PROVE  Moves(b)
  BY <1>0, <1>1, <1>2, <1>6 DEF Moves, LeavesAlone
<1>7. ASSUME NEW s \in Streams, Exec(s), held'["host"][b] # held["host"][b] PROVE Moves(b)
  <2>1. PICK sp \in Span : PendingWrite("host", b, done[s] + 1, sp) /\ held'["host"][b] = sp.hi
    BY <1>0, <1>7, ExecPending
  <2>2. PICK e \in Nat : e = done[s] + 1
    BY <1>0 DEF TypeOK
  <2>3. held["host"][b] < sp.hi /\ sp.hi <= HostEnd(b) /\ sp.hi \in Nat
    BY <1>0, <2>1, <2>2 DEF OrderedIn, WriteInRange, WEnd, Span
  <2>4. HostEnd(b) <= WriteTo(b) /\ HostEnd(b) \in Nat /\ WriteTo(b) \in Nat
    BY <1>0, EndsBelow, WEndType
  <2>5. \A k \in Readers[b] : WriteTo(b) <= nread[b][k] + N - 1
    BY <1>0 DEF Base, CountsOK
  <2>6. PICK n \in Int : n = sp.hi - held["host"][b]
    BY <1>4, <2>3
  <2>7. \A k \in Readers[b] : held["host"][b] + n - nread[b][k] <= N
    BY <1>3, <1>4, <2>3, <2>4, <2>5, <2>6
  <2>8. n \in 1..N
    <3>1. PICK k \in Readers[b] : TRUE
      BY Graph
    <3> QED
      BY <1>3, <1>4, <2>3, <2>6, <2>7, <3>1
  <2>9. held'["host"][b] = held["host"][b] + n
    BY <1>4, <2>1, <2>3, <2>6
  <2>10. nread' = nread
    BY <1>7 DEF Exec, counts
  <2>11. StoresInto(b)
    BY <1>0, <1>2, <2>7, <2>8, <2>9, <2>10 DEF StoresInto
  <2> QED
    BY <2>11 DEF Moves
<1>8. held'["host"][b] = held["host"][b] \/ \E s \in Streams : Exec(s)
  <2>1. ASSUME NEW k \in Blocks, NEW c \in Buffers, post_work_h2d(k, c) \/ post_work_d2h(k, c)
        PROVE  held' = held
    BY <1>0, <2>1, UploadPending, DownloadPending
  <2>2. ASSUME NEW k \in Blocks, CpuWork(k) PROVE held'["host"][b] = held["host"][b]
    BY <1>0, <2>2, CpuWorkHeld
  <2>3. ASSUME NEW k \in Blocks, Kernel(k) PROVE held' = held
    BY <1>0, <2>3, KernelPending
  <2> QED
    BY <1>0, <2>1, <2>2, <2>3, QuietStep DEF Quiet
<1>9. ASSUME NEW s \in Streams, Exec(s) PROVE \A k \in Blocks : nread'[b][k] = nread[b][k]
  BY <1>9 DEF Exec, counts
<1> QED
  BY <1>0, <1>5, <1>6, <1>7, <1>8, <1>9, ConsumedMoves

-----------------------------------------------------------------------------
(* Buffers with GPU readers.                                               *)

LEMMA DeviceStream ==
  ASSUME ConsumeFirst = {}, Ordered, TypeOK', Ready, Safe, Starts, Behind, [Next]_vars,
         NEW b \in Buffers, ~D2H(b)
  PROVE  Moves(b)
<1>0. /\ TypeOK /\ ControlOK /\ Base /\ Places /\ "device" \in Mem /\ Moved("device", b)
      /\ ReadMem(b) = "device" /\ OrderedIn("device", b) /\ Tame(b)
  BY DEF Ordered, Base, Mem, Moved, ReadMem, WritesInOrder, Tame
<1>1. \A k \in Readers[b] : k \in Gpu /\ k \in Blocks /\ k \in Streams /\ k \in Readers[b] \cap Gpu
  BY Graph DEF Streams
<1>2. TakenIs /\ TakenIs'
  BY <1>0, TakenAlways, TakenNext
<1>3. /\ held["device"][b] \in Nat /\ held'["device"][b] \in Nat /\ N \in Nat
      /\ \A k \in Readers[b] : Taken(b, k) \in Nat /\ Taken(b, k) <= held["device"][b]
  BY <1>0, Graph DEF TypeOK, Behind, BehindIn
<1>4. \A k \in Readers[b] : ReadFrom(b, k, Taken(b, k))
  <2> SUFFICES ASSUME NEW k \in Readers[b] PROVE ReadFrom(b, k, Taken(b, k))
    OBVIOUS
  <2>1. PICK t \in Nat : ReadFrom(b, k, t)
    BY <1>1 DEF Starts
  <2> QED
    BY <1>1, <1>2, <2>1 DEF TakenIs
<1>5. \A k \in Readers[b] : Taken(b, k)' = Taken(b, k) \/ Takes(b, k, Taken(b, k))
  <2> SUFFICES ASSUME NEW k \in Readers[b], ~Takes(b, k, Taken(b, k))
               PROVE  Taken(b, k)' = Taken(b, k)
    OBVIOUS
  <2>1. PICK t \in Nat : t = Taken(b, k)
    BY <1>3
  <2>2. ReadFrom(b, k, t)'
    BY <1>1, <1>4, <2>1, ReadFromMoves
  <2> QED
    BY <1>1, <1>2, <2>1, <2>2 DEF TakenIs
<1>6. ASSUME NEW k \in Readers[b], Takes(b, k, Taken(b, k)) PROVE Moves(b)
  <2>1. PICK e \in Nat, w \in Span :
          e = done[k] + 1 /\ KernelRead(b, k, e, w) /\ w.lo = Taken(b, k) /\ ReadFrom(b, k, w.hi)'
    BY <1>6 DEF Takes
  <2>2. Exec(k) /\ k \in Streams
    BY <1>6 DEF Takes
  <2>3. Taken(b, k)' = w.hi /\ w.lo \in Nat /\ w.hi \in Nat /\ w.lo < w.hi
    BY <1>0, <1>1, <1>2, <2>1
       DEF TakenIs, Span, Ordered, ReadsInOrder, ReadBy, ReadsInRange
  <2>4. \A r \in Readers[b] \ {k} : Taken(b, r)' = Taken(b, r)
    <3> SUFFICES ASSUME NEW r \in Readers[b] \ {k} PROVE ~Takes(b, r, Taken(b, r))
      BY <1>5
    <3> SUFFICES ASSUME Exec(r), r \in Streams PROVE FALSE
      BY DEF Takes
    <3>1. /\ done' = [done EXCEPT ![k] = @ + 1]
          /\ done' = [done EXCEPT ![r] = @ + 1]
      BY <2>2 DEF Exec
    <3>2. done[r] \in Nat /\ done'[r] = done[r] /\ done'[r] = done[r] + 1
      BY <1>0, <2>2, <3>1 DEF TypeOK
    <3> QED
      BY <3>2
  <2>5. w.mem = "device"
    <3>1. Placed(k, OpAt(k, e)) /\ w \in OpAt(k, e).reads
      BY <1>0, <1>1, <2>1 DEF Places, KernelRead, PendingRead
    <3> QED
      BY <1>1, <3>1, Graph DEF Placed, Span
  <2>6. w.hi <= held["device"][b] /\ held["device"][b] - N <= w.lo
    <3>1. PICK D \in Cuts : D = done /\ Cut(D)
      BY <1>0, DoneIsCut
    <3>2. D[k] >= e - 1
      BY <1>0, <1>1, <2>1, <3>1 DEF TypeOK
    <3>3. Wrote(D, "device", b, w.hi)
      BY <1>1, <2>1, <2>5, <3>1, <3>2 DEF Ready, ReadsReady, KernelRead
    <3>4. w.hi <= held["device"][b]
      BY <1>0, <2>3, <3>1, <3>3, WroteDone
    <3>5. held["device"][b] - N <= w.lo
      BY <1>0, <1>1, <2>1, <2>5 DEF Safe, ReadsHeld, KernelRead
    <3> QED
      BY <3>4, <3>5
  <2>7. held'["device"][b] = held["device"][b]
    <3>1. ASSUME NEW sp \in Span, WriteStream("device", b) = k, PendingWrite("device", b, e, sp)
          PROVE  FALSE
      <4>1. Writer[b] = k
        BY <1>1, <3>1, Graph DEF WriteStream
      <4>2. nwritten[b] = 0 /\ pc[k] \in {"idle", "halted"}
        BY <1>0, <4>1 DEF Base, LoopsIdle
      <4>3. DevEnd(b) = 0
        BY <1>1, <4>1, <4>2, Graph DEF DevEnd, Plus, Made, Worked, Writing, H2D
      <4>4. held["device"][b] < sp.hi /\ sp.hi <= DevEnd(b) /\ sp.hi \in Nat
        BY <1>0, <3>1 DEF OrderedIn, WriteInRange, WEnd, Span
      <4> QED
        BY <1>3, <4>3, <4>4
    <3> QED
      BY <1>0, <2>1, <2>2, <3>1, ExecPending
  <2>8. PICK n \in Int : n = w.hi - w.lo
    BY <2>3
  <2>9. /\ n \in 1..N /\ Taken(b, k) + n <= held["device"][b]
        /\ Taken(b, k)' = Taken(b, k) + n
    BY <1>3, <2>1, <2>3, <2>6, <2>8
  <2>10. TakesFrom(b)
    BY <1>0, <2>4, <2>7, <2>9 DEF TakesFrom
  <2> QED
    BY <2>10 DEF Moves
<1>7. ASSUME \A k \in Readers[b] : Taken(b, k)' = Taken(b, k),
             NEW s \in Streams, Exec(s), held'["device"][b] # held["device"][b]
      PROVE  Moves(b)
  <2>1. PICK sp \in Span : /\ PendingWrite("device", b, done[s] + 1, sp)
                           /\ held'["device"][b] = sp.hi /\ WriteStream("device", b) = s
    BY <1>0, <1>7, ExecPending
  <2>2. PICK e \in Nat : e = done[s] + 1
    BY <1>0 DEF TypeOK
  <2>3. held["device"][b] < sp.hi /\ sp.hi \in Nat /\ sp.hi <= WriteTo(b) /\ WriteTo(b) \in Nat
    BY <1>0, <2>1, <2>2, PendingWithin DEF OrderedIn, WriteInRange
  <2>4. PICK D \in Cuts : D = done /\ Cut(D)
    BY <1>0, DoneIsCut
  <2>5. PICK h \in Int : h = sp.hi - N
    BY <1>3, <2>3
  <2>6. ReadIn(D, b, h)
    <3>1. D[s] >= e - 1 /\ PendingWrite("device", b, e, sp) /\ h <= sp.hi - N
      BY <1>0, <1>3, <2>1, <2>2, <2>3, <2>4, <2>5 DEF TypeOK
    <3> QED
      BY <1>0, <2>1, <2>4, <3>1 DEF Safe, WritesSafe
  <2>7. \A k \in Readers[b] : h <= Taken(b, k)
    <3> SUFFICES ASSUME NEW k \in Readers[b] PROVE h <= Taken(b, k)
      OBVIOUS
    <3>1. CASE Taken(b, k) = ReadEnd(b, k)
      <4>1. nread[b][k] <= ReadEnd(b, k) /\ nread[b][k] \in Nat /\ ReadEnd(b, k) \in Nat
        BY <1>0, <1>1, ReadEndType
      <4>2. WriteTo(b) <= nread[b][k] + N - 1
        BY <1>0 DEF Base, CountsOK
      <4> QED
        BY <1>3, <2>3, <2>5, <3>1, <4>1, <4>2
    <3>2. CASE \E p \in Nat, sq \in Span : KernelRead(b, k, p, sq) /\ sq.lo = Taken(b, k)
      <4>1. PICK p \in Nat, sq \in Span : KernelRead(b, k, p, sq) /\ sq.lo = Taken(b, k)
        BY <3>2
      <4>2. done[k] < p /\ done[k] \in Nat
        BY <1>0, <1>1, <4>1, PendingPositions, PositionType DEF KernelRead
      <4>3. sq.mem = "device"
        <5>1. Placed(k, OpAt(k, p)) /\ sq \in OpAt(k, p).reads
          BY <1>0, <1>1, <4>1 DEF Places, KernelRead, PendingRead
        <5> QED
          BY <1>1, <5>1, Graph DEF Placed, Span
      <4>4. sq.lo < h => p <= D[k]
        BY <1>1, <2>6, <4>1, <4>3 DEF ReadIn, KernelRead
      <4>5. ~(sq.lo < h)
        BY <2>4, <4>2, <4>4
      <4> QED
        BY <4>1, <4>5 DEF Span
    <3> QED
      BY <1>4, <3>1, <3>2 DEF ReadFrom
  <2>8. PICK n \in Int : n = sp.hi - held["device"][b]
    BY <1>3, <2>3
  <2>9. \A k \in Readers[b] : held["device"][b] + n - Taken(b, k) <= N
    BY <1>3, <2>3, <2>5, <2>7, <2>8
  <2>10. n \in 1..N
    <3>1. PICK k \in Readers[b] : TRUE
      BY Graph
    <3> QED
      BY <1>3, <2>3, <2>8, <2>9, <3>1
  <2>11. held'["device"][b] = held["device"][b] + n
    BY <1>3, <2>1, <2>3, <2>8
  <2>12. StoresInto(b)
    BY <1>0, <1>7, <2>9, <2>10, <2>11 DEF StoresInto
  <2> QED
    BY <2>12 DEF Moves
<1>8. held'["device"][b] = held["device"][b] \/ \E s \in Streams : Exec(s)
  <2>1. ASSUME NEW k \in Blocks, NEW c \in Buffers, post_work_h2d(k, c) \/ post_work_d2h(k, c)
        PROVE  held' = held
    BY <1>0, <2>1, UploadPending, DownloadPending
  <2>2. ASSUME NEW k \in Blocks, CpuWork(k) PROVE held'["device"][b] = held["device"][b]
    BY <1>0, <2>2, CpuWorkHeld
  <2>3. ASSUME NEW k \in Blocks, Kernel(k) PROVE held' = held
    BY <1>0, <2>3, KernelPending
  <2> QED
    BY <1>0, <2>1, <2>2, <2>3, QuietStep DEF Quiet
<1>9. ASSUME \A k \in Readers[b] : Taken(b, k)' = Taken(b, k),
             held'["device"][b] = held["device"][b]
      PROVE  Moves(b)
  BY <1>0, <1>9 DEF Moves, LeavesAlone
<1> QED
  BY <1>5, <1>6, <1>7, <1>8, <1>9

-----------------------------------------------------------------------------
LEMMA StreamInit ==
  Init => Starts /\ Behind /\ \A b \in Buffers : Stream(b)!Init
<1> SUFFICES ASSUME Init PROVE Starts /\ Behind /\ \A b \in Buffers : Stream(b)!Init
  OBVIOUS
<1>1. \A s \in Streams, p \in Nat, sp \in Span : ~PendingRead(s, p, sp)
  <2>1. \A s \in Streams : Waiting(s) = {}
    BY DEF Init, Waiting, End
  <2> QED
    BY <2>1 DEF PendingRead
<1>2. \A b \in Buffers : \A k \in Readers[b] \cap Gpu : ReadFrom(b, k, 0)
  BY <1>1, Graph DEF ReadFrom, KernelRead, Streams, Init, ReadEnd, Plus, Launched
<1>3. TypeOK
  BY InitTypeOK
<1>4. \A b \in Buffers : \A k \in Readers[b] : Taken(b, k) = 0
  <2> SUFFICES ASSUME NEW b \in Buffers, NEW k \in Readers[b] PROVE Taken(b, k) = 0
    OBVIOUS
  <2>1. CASE k \in Gpu
    BY <1>2, <1>3, <2>1, TakenAlways DEF TakenIs
  <2>2. CASE k \in Cpu
    BY <2>2, Graph DEF Taken, Init
  <2> QED
    BY <2>1, <2>2, Graph DEF Blocks
<1>5. \A b \in Buffers : held[ReadMem(b)][b] = 0
  BY DEF ReadMem, Mem, Init
<1>6. Starts
  BY <1>2 DEF Starts
<1>7. Behind
  BY <1>4, <1>5 DEF Behind, BehindIn
<1>8. ASSUME NEW b \in Buffers PROVE Stream(b)!Init
  BY <1>4, <1>5 DEF Stream!Init
<1> QED
  BY <1>6, <1>7, <1>8

\* Where no block consumes before it marks its work, every buffer of every
\* flowgraph is a bounded stream of items, from the kernel or the copy that
\* stores them to the kernels or the CPU blocks that take them.
THEOREM EveryBufferIsAStream == ConsumeFirst = {} => (Spec => StreamSpec)
<1> SUFFICES ASSUME ConsumeFirst = {} PROVE Spec => StreamSpec
  OBVIOUS
<1>1. Init => Starts /\ Behind /\ \A b \in Buffers : Stream(b)!Init
  BY StreamInit
<1>2. Ordered /\ Ordered' /\ Ready /\ Safe /\ Starts /\ Behind /\ [Next]_vars
        => \A b \in Buffers : Moves(b)
  BY HostStream, DeviceStream DEF Ordered, Base
<1>3. Ordered /\ (\A b \in Buffers : Moves(b)) /\ Behind => Behind'
  BY MovesStayBehind DEF Behind, Ordered, Base
<1>4. (\A b \in Buffers : Moves(b)) => [\A b \in Buffers : [Stream(b)!Next]_(Stream(b)!vars)]_vars
  BY MovesAreSteps
<1>5. Ordered /\ Ordered' /\ Starts /\ [Next]_vars => Starts'
  BY StartsStep DEF Ordered, Base
<1> QED
  BY <1>1, <1>2, <1>3, <1>4, <1>5, OrderedInvariant, ReadyInvariant, SafeInvariant, PTL
     DEF Spec, StreamSpec

-----------------------------------------------------------------------------
(* A flowgraph whose buffers are built before it runs (MCFlowgraph): what  *)
(* is proved of BufferAlloc and of CudaGraph holds of the two together.    *)

Building == INSTANCE BufferAllocProofs WITH Buffers <- Built, held <- resources

\* The two instances of BufferAlloc, that of the model and that of its proofs,
\* go through the same construction and take the same steps.
LEMMA SameConstruction == Alloc!Construction = Building!Construction
  BY DEF Alloc!Construction, Building!Construction,
         Alloc!host_create, Building!host_create,
         Alloc!register_pinned, Building!register_pinned,
         Alloc!device_create, Building!device_create,
         Alloc!stream_and_events, Building!stream_and_events, Alloc!Step, Building!Step

LEMMA SameActions ==
  \A b \in Built :
    /\ Alloc!Begin(b) <=> Building!Begin(b)
    /\ Alloc!Succeed(b) <=> Building!Succeed(b)
    /\ Alloc!Fail(b) <=> Building!Fail(b)
    /\ Alloc!Close(b) <=> Building!Close(b)
    /\ Alloc!reset_host(b) <=> Building!reset_host(b)
    /\ Alloc!reset_device(b) <=> Building!reset_device(b)
    /\ Alloc!Gone(b) <=> Building!Gone(b)
<1>1. \A b \in Built : Alloc!Begin(b) <=> Building!Begin(b)
  BY DEF Alloc!Begin, Building!Begin
<1>2. \A b \in Built : Alloc!Succeed(b) <=> Building!Succeed(b)
  BY SameConstruction DEF Alloc!Succeed, Building!Succeed
<1>3. \A b \in Built : Alloc!Fail(b) <=> Building!Fail(b)
  BY SameConstruction DEF Alloc!Fail, Building!Fail
<1>4. \A b \in Built : Alloc!Close(b) <=> Building!Close(b)
  BY DEF Alloc!Close, Building!Close, Alloc!Handles, Building!Handles
<1>5. \A b \in Built : Alloc!reset_host(b) <=> Building!reset_host(b)
  BY DEF Alloc!reset_host, Building!reset_host, Alloc!Resetting, Building!Resetting
<1>6. \A b \in Built : Alloc!reset_device(b) <=> Building!reset_device(b)
  BY DEF Alloc!reset_device, Building!reset_device, Alloc!Resetting, Building!Resetting
<1>7. \A b \in Built : Alloc!Gone(b) <=> Building!Gone(b)
  BY DEF Alloc!Gone, Building!Gone
<1> QED
  BY <1>1, <1>2, <1>3, <1>4, <1>5, <1>6, <1>7

\* The thread that starts and ends a flowgraph does to the buffers what
\* BufferAlloc allows.
LEMMA FlowgraphBuilds == MCSpec => Building!Spec
<1>1. MCInit => Building!Init
  BY DEF MCInit, Alloc!Init, Building!Init
<1>2. [MCNext]_mcvars => [Building!Next]_(Building!vars)
  <2> SUFFICES ASSUME [MCNext]_mcvars PROVE [Building!Next]_(Building!vars)
    OBVIOUS
  <2>1. CASE Build
    BY <2>1, SameActions DEF Build, Alloc!Next, Building!Next
  <2>2. CASE Start \/ Operate \/ UNCHANGED mcvars
    BY <2>2 DEF Start, Operate, mcvars, alloc_vars, Building!vars
  <2>3. ASSUME NEW b \in Buffers, Release(b)
        PROVE  Building!Next \/ UNCHANGED Building!vars
    BY <2>3, BuiltAssumption, SameActions DEF Release, Building!Next
  <2> QED
    BY <2>1, <2>2, <2>3 DEF MCNext
<1> QED
  BY <1>1, <1>2, PTL DEF MCSpec, Building!Spec

\* Types: those of the construction, in a flowgraph that goes on to run.
THEOREM FlowgraphAllocTyping == MCSpec => []AllocTypeOK
<1>1. Building!TypeOK => AllocTypeOK
  BY SameConstruction DEF AllocTypeOK, Alloc!TypeOK, Building!TypeOK, Alloc!Rings, Building!Rings,
         Alloc!HostRing, Building!HostRing, Alloc!DeviceRing, Building!DeviceRing,
         Alloc!Handles, Building!Handles
<1> QED
  BY <1>1, FlowgraphBuilds, Building!AllocTyping, PTL

\* Wherever the construction of one of the buffers of a flowgraph fails, and
\* when the buffers go after it has run, their rings give back all they took.
THEOREM FlowgraphKeepsRings == MCSpec => []NoRingLeftBehind
<1>1. Building!NoRingLeftBehind => NoRingLeftBehind
  BY DEF NoRingLeftBehind, Alloc!NoRingLeftBehind, Building!NoRingLeftBehind,
         Alloc!Rings, Building!Rings, Alloc!HostRing, Building!HostRing,
         Alloc!DeviceRing, Building!DeviceRing
<1> QED
  BY <1>1, FlowgraphBuilds, Building!RingsAreGivenBack, PTL

\* From the first attempt to the end of the last buffer, what is pinned or
\* mapped on the device has what it is mapped with.
THEOREM FlowgraphMapsWhole == MCSpec => []NothingDangles
<1>1. Building!NothingDangles => NothingDangles
  BY DEF NothingDangles, Alloc!NothingDangles, Building!NothingDangles
<1> QED
  BY <1>1, FlowgraphBuilds, Building!NothingIsLeftDangling, PTL

\* Between start and end the blocks run as in CudaGraph: every property proved
\* of it, and its streams, hold of a flowgraph that builds its buffers first.
THEOREM FlowgraphRuns == MCSpec => Spec
<1>1. MCInit => Init
  BY DEF MCInit
<1>2. [MCNext]_mcvars => [Next]_vars
  BY DEF MCNext, mcvars, Build, Start, Operate, Release, Next, Teardown
<1> QED
  BY <1>1, <1>2, PTL DEF MCSpec, Spec
=============================================================================
