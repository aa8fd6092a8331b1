----------------------------- MODULE CudaGraph -----------------------------
(***************************************************************************)
(* The synchronisation of gr-cuda: a flowgraph of CPU and GPU blocks that  *)
(* are connected by cuda_buffers.  The threads of the blocks only enqueue  *)
(* work on CUDA streams; the GPU executes every stream in order, and the   *)
(* streams are ordered among themselves by nothing but the three events    *)
(* of every buffer.                                                        *)
(*                                                                         *)
(* A block's thread makes one work call after the other:                   *)
(*   GPU block   wait_for_work, kernel, mark_work_done, then the scheduler *)
(*               consumes the input and, for every output, calls post_work *)
(*               and update_write_pointer.                                 *)
(*   CPU block   input pointers (which wait for the host data), work, then *)
(*               the same consume and produce.                             *)
(*                                                                         *)
(* Items are numbered in the order of production.  The rings are those of  *)
(* CudaRing: n items written from item w on take the place of the items    *)
(* N before them.  A copy that post_work splits is one operation here.     *)
(***************************************************************************)
EXTENDS Integers, Sequences, FiniteSets

CONSTANTS
  Cpu, Gpu,      \* the blocks
  Buffers,       \* the cuda_buffers, one for every output port
  Writer,        \* Writer[b]: the block that produces into b
  Readers,       \* Readers[b]: the blocks that consume from b
  N,             \* d_bufsize, in items
  MaxItems,      \* bound: a source stops after this many items
  ConsumeFirst,  \* the GPU blocks written in Python as a general_work() that
                 \* calls consume_each() and then produce() or returns a count
  MayStop        \* whether the flowgraph may be stopped while it runs

Blocks == Cpu \cup Gpu
Streams == Gpu \cup Buffers    \* the streams of the GPU blocks, of the buffers

ASSUME GraphAssumption ==
  /\ Cpu \cap Gpu = {} /\ Blocks \cap Buffers = {} /\ Buffers # {}
  /\ Writer \in [Buffers -> Blocks]
  /\ Readers \in [Buffers -> SUBSET Blocks]
  /\ \A b \in Buffers :
       /\ Readers[b] # {}
       /\ Readers[b] \subseteq Gpu \/ (Readers[b] \subseteq Cpu /\ Writer[b] \in Gpu)
  /\ N \in Nat /\ N >= 2
  /\ MaxItems \in Nat
  /\ ConsumeFirst \subseteq Gpu
  /\ MayStop \in BOOLEAN

VARIABLES
  queue,             \* queue[s]: operations of stream s not executed yet
  done,              \* done[s]: how many operations of s are executed
  d_dev_ready_evt,   \* of every buffer
  d_host_ready_evt,
  d_read_done_evt,
  held,              \* held[m][b]: items ever written to b's ring in memory m
  nwritten,          \* nwritten[b]: items published to the readers
  nread,             \* nread[b][k]: items consumed by reader k
  pc,                \* pc[k]: the phase the thread of block k is in
  todo,              \* todo[k]: the ports the loop of that phase has left
  call,              \* call[k]: the call that k is in the middle of, or <<>>
  batch,             \* batch[k]: noutput_items of the current work call
  await,             \* await[k]: the event a CPU block's thread synchronises on
  life               \* life[b]: "live", then "closing", then "freed"

gpuVars == <<queue, done, held>>
events == <<d_dev_ready_evt, d_host_ready_evt, d_read_done_evt>>
counts == <<nwritten, nread>>
control == <<pc, todo, call, batch, await>>
vars == <<gpuVars, events, counts, control, life>>

-----------------------------------------------------------------------------
Ins(k) == {b \in Buffers : k \in Readers[b]}
Outs(k) == {b \in Buffers : Writer[b] = k}

\* transfer_type of a buffer.  Readers[b] \subseteq Cpu: device-to-host;
\* Writer[b] \in Cpu: host-to-device; otherwise device-to-device.
H2D(b) == Writer[b] \in Cpu
D2H(b) == Readers[b] \subseteq Cpu

-----------------------------------------------------------------------------
(* CUDA (external).  A record of an event is a position in a stream; it is *)
(* complete when everything enqueued before it is executed.  An event that *)
(* was never recorded is complete.                                         *)

Mem == {"device", "host"}
Event == [stream : Streams, pos : Nat]
Span == [mem : Mem, buf : Buffers, lo : Nat, hi : Nat]
Op == [after : Event, reads : SUBSET Span, writes : SUBSET Span]

Never(b) == [stream |-> b, pos |-> 0]
Complete(e) == e.pos <= done[e.stream]

\* A record made on stream s when n more operations have been enqueued.
RecordOn(s, n) == [stream |-> s, pos |-> done[s] + Len(queue[s]) + n]

\* cudaStreamWaitEvent, and a kernel or an asynchronous copy.
WaitEvent(e) == [after |-> e, reads |-> {}, writes |-> {}]
Run(s, r, w) == [after |-> [stream |-> s, pos |-> 0], reads |-> r, writes |-> w]

Enqueue(s, ops) == queue' = [queue EXCEPT ![s] = @ \o ops]

\* The first operation of stream s, when the GPU may execute it.
Runnable(s) == queue[s] # <<>> /\ Complete(Head(queue[s]).after)

\* After a write of the items up to hi, the ring holds hi-N..hi-1.
Exec(s) ==
  /\ Runnable(s)
  /\ queue' = [queue EXCEPT ![s] = Tail(@)]
  /\ done' = [done EXCEPT ![s] = @ + 1]
  /\ held' = [m \in Mem |-> [b \in Buffers |->
                IF \E sp \in Head(queue[s]).writes : sp.mem = m /\ sp.buf = b
                  THEN (CHOOSE sp \in Head(queue[s]).writes :
                          sp.mem = m /\ sp.buf = b).hi
                  ELSE held[m][b]]]
  /\ UNCHANGED <<events, counts, control, life>>

\* The items of a span are in the ring: written, and not overwritten.
Intact(sp) == sp.hi <= held[sp.mem][sp.buf] /\ held[sp.mem][sp.buf] - N <= sp.lo

-----------------------------------------------------------------------------
(* The items of the current work call of block k.                          *)

\* Fault: one item before the first.
InSpan_before(k, m, b) == [mem |-> m, buf |-> b, lo |-> nread[b][k] - 1,
                           hi |-> nread[b][k] + batch[k] - 1]

InSpan(k, m, b) == [mem |-> m, buf |-> b,
                    lo |-> nread[b][k], hi |-> nread[b][k] + batch[k]]

OutSpan(k, m, b) == [mem |-> m, buf |-> b,
                     lo |-> nwritten[b], hi |-> nwritten[b] + batch[k]]

-----------------------------------------------------------------------------
(* The phases of a work call.  Each is a loop over ports, in any order.    *)

Ports(k, phase) ==
  CASE phase = "wait"    -> IF k \in Gpu THEN Ins(k) \cup Outs(k) ELSE Ins(k)
    [] phase = "ready"   -> Outs(k)
    [] phase = "release" -> Ins(k)
    [] phase = "consume" -> Ins(k)
    [] phase = "post"    -> Outs(k)
    [] OTHER             -> {}

\* Fault: every block consumes its input before it calls mark_work_done.
After_consume(k, phase) ==
  CASE phase = "wait"    -> "work"
    [] phase = "work"    -> "consume"
    [] phase = "consume" -> IF k \in Gpu THEN "ready" ELSE "post"
    [] phase = "ready"   -> "release"
    [] phase = "release" -> "post"
    [] phase = "post"    -> "idle"

\* mark_work_done ("ready", "release") comes before consume_each, except in a
\* ConsumeFirst block: its wrapper intercepts produce() only.
After(k, phase) ==
  CASE phase = "wait"    -> "work"
    [] phase = "work"    -> IF k \in Gpu \ ConsumeFirst THEN "ready" ELSE "consume"
    [] phase = "ready"   -> "release"
    [] phase = "release" -> IF k \in ConsumeFirst THEN "post" ELSE "consume"
    [] phase = "consume" -> IF k \in ConsumeFirst THEN "ready" ELSE "post"
    [] phase = "post"    -> "idle"

Enter(k, phase) ==
  /\ pc' = [pc EXCEPT ![k] = phase]
  /\ todo' = [todo EXCEPT ![k] = Ports(k, phase)]

\* Thread k is between two ports of a loop, and b is a port still to do.
At(k, phase, b) == pc[k] = phase /\ call[k] = <<>> /\ b \in todo[k]

Finish(k, b) == todo' = [todo EXCEPT ![k] = @ \ {b}]

EndLoop(k) ==
  /\ pc[k] \in {"wait", "ready", "release", "consume", "post"}
  /\ call[k] = <<>> /\ todo[k] = {}
  /\ Enter(k, After(k, pc[k]))
  /\ UNCHANGED <<gpuVars, events, counts, call, batch, await, life>>

-----------------------------------------------------------------------------
(* The scheduler (external).                                               *)

\* The most the scheduler fills of an output buffer in one work call.
WorkLimit == N \div 2

\* Fault: what the readers have still to read is taken for room.
Poll_unread(k, n) ==
  /\ pc[k] = "idle"
  /\ \A b \in Ins(k) : n <= nwritten[b] - nread[b][k]
  /\ \A b \in Outs(k) : n <= WorkLimit /\ (Ins(k) = {} => nwritten[b] + n <= MaxItems)
  /\ batch' = [batch EXCEPT ![k] = n]
  /\ Enter(k, "wait")
  /\ UNCHANGED <<gpuVars, events, counts, call, await, life>>

\* The scheduler finds n items at every input and room for n at every output.
Poll(k, n) ==
  /\ pc[k] = "idle"
  /\ \A b \in Ins(k) : n <= nwritten[b] - nread[b][k]
  /\ \A b \in Outs(k) :
       /\ n <= WorkLimit
       /\ \A r \in Readers[b] : n <= N - (nwritten[b] - nread[b][r]) - 1
       /\ Ins(k) = {} => nwritten[b] + n <= MaxItems
  /\ batch' = [batch EXCEPT ![k] = n]
  /\ Enter(k, "wait")
  /\ UNCHANGED <<gpuVars, events, counts, call, await, life>>

\* consume_each: update_read_pointer of one input.
Consume(k, b) ==
  /\ At(k, "consume", b)
  /\ nread' = [nread EXCEPT ![b][k] = @ + batch[k]]
  /\ Finish(k, b)
  /\ UNCHANGED <<gpuVars, events, nwritten, pc, call, batch, await, life>>

\* update_write_pointer, when post_work of the same output has returned.
Publish(k, b) ==
  /\ call[k] = <<"publish", b>>
  /\ nwritten' = [nwritten EXCEPT ![b] = @ + batch[k]]
  /\ call' = [call EXCEPT ![k] = <<>>]
  /\ Finish(k, b)
  /\ UNCHANGED <<gpuVars, events, nread, pc, batch, await, life>>

\* A stop request ends a thread between two work calls.
Halt(k) ==
  /\ MayStop
  /\ pc[k] = "idle"
  /\ Enter(k, "halted")
  /\ UNCHANGED <<gpuVars, events, counts, call, batch, await, life>>

-----------------------------------------------------------------------------
(* The work call of a GPU block.                                           *)

\* Fault: a block waits for its inputs only.
wait_for_work_inputs(k, b) ==
  /\ k \in Gpu
  /\ At(k, "wait", b)
  /\ IF b \in Ins(k) THEN Enqueue(k, <<WaitEvent(d_dev_ready_evt[b])>>)
                     ELSE UNCHANGED queue
  /\ Finish(k, b)
  /\ UNCHANGED <<done, held, events, counts, pc, call, batch, await, life>>

\* wait_for_work: the device-ready events of the inputs and the read-done
\* events of the outputs, as they are recorded at this moment.
wait_for_work(k, b) ==
  /\ k \in Gpu
  /\ At(k, "wait", b)
  /\ Enqueue(k, <<WaitEvent(IF b \in Ins(k) THEN d_dev_ready_evt[b]
                                            ELSE d_read_done_evt[b])>>)
  /\ Finish(k, b)
  /\ UNCHANGED <<done, held, events, counts, pc, call, batch, await, life>>

Kernel(k) ==
  /\ k \in Gpu
  /\ pc[k] = "work"
  /\ Enqueue(k, <<Run(k, {InSpan(k, "device", b) : b \in Ins(k)},
                         {OutSpan(k, "device", b) : b \in Outs(k)})>>)
  /\ Enter(k, After(k, "work"))
  /\ UNCHANGED <<done, held, events, counts, call, batch, await, life>>

\* Fault: no CPU wait for the last record.
mark_device_ready_nowait(k, b) ==
  /\ At(k, "ready", b)
  /\ d_dev_ready_evt' = [d_dev_ready_evt EXCEPT ![b] = RecordOn(k, 0)]
  /\ Finish(k, b)
  /\ UNCHANGED <<gpuVars, d_host_ready_evt, d_read_done_evt, counts, pc, call,
                 batch, await, life>>

\* mark_device_ready blocks the thread until the last record is complete.
mark_device_ready(k, b) ==
  /\ At(k, "ready", b)
  /\ Complete(d_dev_ready_evt[b])
  /\ d_dev_ready_evt' = [d_dev_ready_evt EXCEPT ![b] = RecordOn(k, 0)]
  /\ Finish(k, b)
  /\ UNCHANGED <<gpuVars, d_host_ready_evt, d_read_done_evt, counts, pc, call,
                 batch, await, life>>

\* Fault: mark_read_done without its mutex.
mark_read_done_unlocked(k, b) ==
  /\ At(k, "release", b)
  /\ call' = [call EXCEPT ![k] = <<"read_done", b>>]
  /\ Enqueue(k, <<WaitEvent(d_read_done_evt[b])>>)
  /\ UNCHANGED <<done, held, events, counts, pc, todo, batch, await, life>>

\* mark_read_done, between its lock and its unlock: wait for the last record,
\* then record again, so that the record stands for every reader before k too.
mark_read_done_wait(k, b) ==
  /\ At(k, "release", b)
  /\ \A j \in Blocks : call[j] # <<"read_done", b>>
  /\ call' = [call EXCEPT ![k] = <<"read_done", b>>]
  /\ Enqueue(k, <<WaitEvent(d_read_done_evt[b])>>)
  /\ UNCHANGED <<done, held, events, counts, pc, todo, batch, await, life>>

\* Fault: it never unlocks its mutex.
mark_read_done_record_locked(k, b) ==
  /\ call[k] = <<"read_done", b>>
  /\ d_read_done_evt' = [d_read_done_evt EXCEPT ![b] = RecordOn(k, 0)]
  /\ UNCHANGED <<gpuVars, d_dev_ready_evt, d_host_ready_evt, counts, control,
                 life>>

mark_read_done_record(k, b) ==
  /\ call[k] = <<"read_done", b>>
  /\ call' = [call EXCEPT ![k] = <<>>]
  /\ d_read_done_evt' = [d_read_done_evt EXCEPT ![b] = RecordOn(k, 0)]
  /\ Finish(k, b)
  /\ UNCHANGED <<gpuVars, d_dev_ready_evt, d_host_ready_evt, counts, pc, batch,
                 await, life>>

-----------------------------------------------------------------------------
(* The work call of a CPU block.                                           *)

\* Fault: the thread goes on with the record of an earlier copy.
wait_host_ready_old(k, b) ==
  /\ k \in Cpu
  /\ At(k, "wait", b)
  /\ await' = [await EXCEPT ![k] = Never(b)]
  /\ call' = [call EXCEPT ![k] = <<"host_ready", b>>]
  /\ UNCHANGED <<gpuVars, events, counts, pc, todo, batch, life>>

\* _read_pointer of a device-to-host buffer synchronises on the record of the
\* host-ready event it finds, even if another is made while it blocks.
wait_host_ready(k, b) ==
  /\ k \in Cpu
  /\ At(k, "wait", b)
  /\ await' = [await EXCEPT ![k] = d_host_ready_evt[b]]
  /\ call' = [call EXCEPT ![k] = <<"host_ready", b>>]
  /\ UNCHANGED <<gpuVars, events, counts, pc, todo, batch, life>>

wait_host_ready_return(k, b) ==
  /\ call[k] = <<"host_ready", b>>
  /\ Complete(await[k])
  /\ call' = [call EXCEPT ![k] = <<>>]
  /\ Finish(k, b)
  /\ UNCHANGED <<gpuVars, events, counts, pc, batch, await, life>>

\* The work call writes the host rings of its outputs.
CpuWork(k) ==
  /\ k \in Cpu
  /\ pc[k] = "work"
  /\ held' = [held EXCEPT !["host"] = [b \in Buffers |->
                IF b \in Outs(k) THEN nwritten[b] + batch[k] ELSE @[b]]]
  /\ Enter(k, After(k, "work"))
  /\ UNCHANGED <<queue, done, events, counts, call, batch, await, life>>

-----------------------------------------------------------------------------
(* post_work, in the thread of the producing block.                        *)

post_work_h2d(k, b) ==
  /\ H2D(b)
  /\ At(k, "post", b)
  /\ Enqueue(b, <<WaitEvent(d_read_done_evt[b]),
                  Run(b, {OutSpan(k, "host", b)}, {OutSpan(k, "device", b)})>>)
  /\ call' = [call EXCEPT ![k] = <<"dev_ready", b>>]
  /\ UNCHANGED <<done, held, events, counts, pc, todo, batch, await, life>>

\* Fault: no CPU wait for the copy of the batch before.
post_work_h2d_ready_nowait(k, b) ==
  /\ call[k] = <<"dev_ready", b>>
  /\ d_dev_ready_evt' = [d_dev_ready_evt EXCEPT ![b] = RecordOn(b, 0)]
  /\ call' = [call EXCEPT ![k] = <<"publish", b>>]
  /\ UNCHANGED <<gpuVars, d_host_ready_evt, d_read_done_evt, counts, pc, todo,
                 batch, await, life>>

\* Its mark_device_ready(d_stream).
post_work_h2d_ready(k, b) ==
  /\ call[k] = <<"dev_ready", b>>
  /\ Complete(d_dev_ready_evt[b])
  /\ d_dev_ready_evt' = [d_dev_ready_evt EXCEPT ![b] = RecordOn(b, 0)]
  /\ call' = [call EXCEPT ![k] = <<"publish", b>>]
  /\ UNCHANGED <<gpuVars, d_host_ready_evt, d_read_done_evt, counts, pc, todo,
                 batch, await, life>>

\* Fault: the device is copied before the kernel is waited for.
post_work_d2h_early(k, b) ==
  /\ D2H(b)
  /\ At(k, "post", b)
  /\ Enqueue(b, <<Run(b, {OutSpan(k, "device", b)}, {OutSpan(k, "host", b)}),
                  WaitEvent(d_dev_ready_evt[b])>>)
  /\ d_host_ready_evt' = [d_host_ready_evt EXCEPT ![b] = RecordOn(b, 2)]
  /\ d_read_done_evt' = [d_read_done_evt EXCEPT ![b] = RecordOn(b, 2)]
  /\ call' = [call EXCEPT ![k] = <<"publish", b>>]
  /\ UNCHANGED <<done, held, d_dev_ready_evt, counts, pc, todo, batch, await,
                 life>>

\* Nothing in here blocks, and the two records follow the same copy.
post_work_d2h(k, b) ==
  /\ D2H(b)
  /\ At(k, "post", b)
  /\ Enqueue(b, <<WaitEvent(d_dev_ready_evt[b]),
                  Run(b, {OutSpan(k, "device", b)}, {OutSpan(k, "host", b)})>>)
  /\ d_host_ready_evt' = [d_host_ready_evt EXCEPT ![b] = RecordOn(b, 2)]
  /\ d_read_done_evt' = [d_read_done_evt EXCEPT ![b] = RecordOn(b, 2)]
  /\ call' = [call EXCEPT ![k] = <<"publish", b>>]
  /\ UNCHANGED <<done, held, d_dev_ready_evt, counts, pc, todo, batch, await,
                 life>>

post_work_d2d(k, b) ==
  /\ ~H2D(b) /\ ~D2H(b)
  /\ At(k, "post", b)
  /\ call' = [call EXCEPT ![k] = <<"publish", b>>]
  /\ UNCHANGED <<gpuVars, events, counts, pc, todo, batch, await, life>>

-----------------------------------------------------------------------------
(* ~cuda_buffer, when the threads of the flowgraph have ended.             *)

\* Fault: the destructor waits for the producer only.
Destroy_ready(b) ==
  /\ \A k \in Blocks : pc[k] = "halted"
  /\ life[b] = "live"
  /\ life' = [life EXCEPT ![b] = "closing"]
  /\ Enqueue(b, <<WaitEvent(d_dev_ready_evt[b])>>)
  /\ UNCHANGED <<done, held, events, counts, control>>

Destroy(b) ==
  /\ \A k \in Blocks : pc[k] = "halted"
  /\ life[b] = "live"
  /\ life' = [life EXCEPT ![b] = "closing"]
  /\ Enqueue(b, <<WaitEvent(d_dev_ready_evt[b]), WaitEvent(d_host_ready_evt[b]),
                  WaitEvent(d_read_done_evt[b])>>)
  /\ UNCHANGED <<done, held, events, counts, control>>

\* cudaStreamSynchronize has returned; the rings are unmapped.
Free(b) ==
  /\ life[b] = "closing"
  /\ queue[b] = <<>>
  /\ life' = [life EXCEPT ![b] = "freed"]
  /\ UNCHANGED <<gpuVars, events, counts, control>>

-----------------------------------------------------------------------------
Init ==
  /\ queue = [s \in Streams |-> <<>>]
  /\ done = [s \in Streams |-> 0]
  /\ d_dev_ready_evt = [b \in Buffers |-> Never(b)]
  /\ d_host_ready_evt = [b \in Buffers |-> Never(b)]
  /\ d_read_done_evt = [b \in Buffers |-> Never(b)]
  /\ held = [m \in Mem |-> [b \in Buffers |-> 0]]
  /\ nwritten = [b \in Buffers |-> 0]
  /\ nread = [b \in Buffers |-> [k \in Blocks |-> 0]]
  /\ pc = [k \in Blocks |-> "idle"]
  /\ todo = [k \in Blocks |-> {}]
  /\ call = [k \in Blocks |-> <<>>]
  /\ batch = [k \in Blocks |-> 0]
  /\ await = [k \in Cpu |-> Never(CHOOSE b \in Buffers : TRUE)]
  /\ life = [b \in Buffers |-> "live"]

\* post_work goes by the direction of the transfer.
post_work(k, b) ==
  /\ pc[k] = "post"
  /\ post_work_h2d(k, b) \/ post_work_d2h(k, b) \/ post_work_d2d(k, b)

\* A step of thread k inside a call on buffer b.
BufferCall(k, b) ==
  \/ wait_for_work(k, b)
  \/ mark_device_ready(k, b)
  \/ mark_read_done_wait(k, b)
  \/ mark_read_done_record(k, b)
  \/ wait_host_ready(k, b)
  \/ wait_host_ready_return(k, b)
  \/ Consume(k, b)
  \/ post_work(k, b)
  \/ post_work_h2d_ready(k, b)
  \/ Publish(k, b)

Thread(k) ==
  \/ \E n \in 1..N : Poll(k, n)
  \/ Kernel(k)
  \/ CpuWork(k)
  \/ EndLoop(k)
  \/ \E b \in Buffers : BufferCall(k, b)

Teardown ==
  \/ \E k \in Blocks : Halt(k)
  \/ \E b \in Buffers : Destroy(b) \/ Free(b)

Next ==
  \/ \E k \in Blocks : Thread(k)
  \/ \E s \in Streams : Exec(s)
  \/ Teardown

Spec == Init /\ [][Next]_vars

\* Every block has a thread of its own, and the streams are created with
\* cudaStreamNonBlocking: none of them can hold up another.
FairSpec ==
  /\ Spec
  /\ \A k \in Blocks : WF_vars(Thread(k))
  /\ \A s \in Streams : WF_vars(Exec(s))

-----------------------------------------------------------------------------
(* Properties.                                                             *)

Phases == {"idle", "wait", "work", "ready", "release", "consume", "post",
           "halted"}

Calls == {"read_done", "host_ready", "dev_ready", "publish"}

TypeOK ==
  /\ queue \in [Streams -> Seq(Op)]
  /\ done \in [Streams -> Nat]
  /\ d_dev_ready_evt \in [Buffers -> Event]
  /\ d_host_ready_evt \in [Buffers -> Event]
  /\ d_read_done_evt \in [Buffers -> Event]
  /\ held \in [Mem -> [Buffers -> Nat]]
  /\ nwritten \in [Buffers -> Nat]
  /\ nread \in [Buffers -> [Blocks -> Nat]]
  /\ pc \in [Blocks -> Phases]
  /\ todo \in [Blocks -> SUBSET Buffers]
  /\ call \in [Blocks -> {<<>>} \cup (Calls \X Buffers)]
  /\ batch \in [Blocks -> 0..N]
  /\ await \in [Cpu -> Event]
  /\ life \in [Buffers -> {"live", "closing", "freed"}]

\* What the GPU may execute next on any stream reads from device memory items
\* that were written there and that no later write has overwritten: a kernel
\* waits for its producer, and a producer for all of its consumers.
DeviceReadsIntact ==
  \A s \in Streams : Runnable(s) =>
    \A sp \in Head(queue[s]).reads : sp.mem = "device" => Intact(sp)

\* A host-to-device copy reads the items its batch was made of.  No event keeps
\* the CPU producer from overwriting host items whose copy is still pending:
\* it is the CPU wait in mark_device_ready, together with the limit of half a
\* buffer per work call, that does.
CopiesReadIntactHost ==
  \A s \in Streams : Runnable(s) =>
    \A sp \in Head(queue[s]).reads : sp.mem = "host" => Intact(sp)

\* While a CPU block works, the items it was called with have landed in host
\* memory and no copy overwrites them.
CpuReadsIntact ==
  \A k \in Cpu : pc[k] = "work" => \A b \in Ins(k) : Intact(InSpan(k, "host", b))

\* cuda_buffer.h: the read-done event tracks when all consumers have finished
\* reading.  When the last record is complete, nothing that is still to be
\* executed reads an item from device memory that its reader has consumed.
ReadDoneMeansAllRead ==
  \A b \in Buffers : Complete(d_read_done_evt[b]) =>
    \A k \in Readers[b] \cap Gpu : \A i \in 1..Len(queue[k]) :
      \A sp \in queue[k][i].reads : sp.buf = b => sp.hi > nread[b][k]

\* mark_device_ready holds a thread back when its GPU falls behind: a block
\* with outputs never has more than two kernels waiting in its stream.
BacklogBounded ==
  \A k \in Gpu : Outs(k) # {} =>
    Cardinality({i \in 1..Len(queue[k]) : queue[k][i].writes # {}}) <= 2

\* ~cuda_buffer unmaps nothing that a kernel or a copy still uses.
NoUseAfterFree ==
  \A s \in Streams : \A i \in 1..Len(queue[s]) :
    \A sp \in queue[s][i].reads \cup queue[s][i].writes : life[sp.buf] # "freed"

\* The events never wait for each other in a circle, and the CPU waits never
\* for something no thread is left to enqueue: every item arrives, and the
\* streams run dry.
Delivered ==
  <>(/\ \A b \in Buffers, k \in Blocks : k \in Readers[b] => nread[b][k] = MaxItems
     /\ \A s \in Streams : queue[s] = <<>>)

-----------------------------------------------------------------------------
(* The flowgraph implements one BoundedStream for every buffer.            *)

\* The memory the readers of b read.
ReadMem(b) == IF D2H(b) THEN "host" ELSE "device"

\* Kernels of k that still have to read from b.
PendingReads(b, k) ==
  {sp \in UNION {queue[k][i].reads : i \in 1..Len(queue[k])} : sp.buf = b}

\* k's kernel is launched and b is not consumed yet.
Launched(b, k) ==
  \/ pc[k] = "consume" /\ b \in todo[k]
  \/ pc[k] \in {"ready", "release"} /\ k \notin ConsumeFirst

\* The items of b that reader k is done with: a CPU block when it consumes
\* them, a GPU block when its kernel is executed.
Taken(b, k) ==
  IF k \in Cpu THEN nread[b][k]
  ELSE IF PendingReads(b, k) # {}
    THEN CHOOSE lo \in {sp.lo : sp \in PendingReads(b, k)} :
           \A sp \in PendingReads(b, k) : lo <= sp.lo
    ELSE nread[b][k] + (IF Launched(b, k) THEN batch[k] ELSE 0)

Stream(b) == INSTANCE BoundedStream WITH
  Takers <- Readers[b],
  Capacity <- N,
  stored <- held[ReadMem(b)][b],
  taken <- [k \in Readers[b] |-> Taken(b, k)]

\* No GPU or CPU reader is ever ahead of the data or behind the ring.
StreamSpec ==
  /\ \A b \in Buffers : Stream(b)!Init
  /\ [][\A b \in Buffers : [Stream(b)!Next]_(Stream(b)!vars)]_vars
=============================================================================
