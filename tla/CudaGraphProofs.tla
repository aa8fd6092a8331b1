-------------------------- MODULE CudaGraphProofs --------------------------
(***************************************************************************)
(* Proofs about CudaGraph, for every flowgraph, ring size and number of    *)
(* items, with and without ConsumeFirst blocks and stops: first types and  *)
(* counts, then what the events order.                                     *)
(*                                                                         *)
(* Every operation that is still to be executed has a position in its      *)
(* stream; a cut is a choice of a prefix of every stream that the waits    *)
(* for events allow the GPU to have executed.  What an event guarantees is *)
(* stated of every cut that contains it, now and in any later state: a     *)
(* later cut is also a cut now, because the streams only grow and because  *)
(* what is executed is a cut.                                              *)
(***************************************************************************)
EXTENDS CudaGraph, TLAPS

-----------------------------------------------------------------------------
(* The types of what is enqueued and recorded.                             *)

\* Work on a stream keeps the queues typed.
LEMMA EnqueueType ==
  ASSUME queue \in [Streams -> Seq(Op)], NEW s \in Streams, NEW ops \in Seq(Op),
         Enqueue(s, ops)
  PROVE  queue' \in [Streams -> Seq(Op)]
<1>1. queue[s] \o ops \in Seq(Op)
  OBVIOUS
<1> QED
  BY <1>1 DEF Enqueue

LEMMA RecordType ==
  ASSUME TypeOK, NEW s \in Streams, NEW n \in Nat
  PROVE  RecordOn(s, n) \in Event
<1>1. done[s] \in Nat /\ Len(queue[s]) \in Nat
  BY DEF TypeOK
<1> QED
  BY <1>1 DEF RecordOn, Event

LEMMA WaitType == ASSUME NEW e \in Event PROVE WaitEvent(e) \in Op
  BY DEF WaitEvent, Op

LEMMA RunType ==
  ASSUME NEW s \in Streams, NEW r \in SUBSET Span, NEW w \in SUBSET Span
  PROVE  Run(s, r, w) \in Op
  BY DEF Run, Op, Event

LEMMA SpanType ==
  ASSUME TypeOK, NEW k \in Blocks, NEW m \in Mem, NEW b \in Buffers
  PROVE  InSpan(k, m, b) \in Span /\ OutSpan(k, m, b) \in Span
<1>1. nread[b][k] \in Nat /\ nwritten[b] \in Nat /\ batch[k] \in Nat
  BY GraphAssumption DEF TypeOK
<1> QED
  BY <1>1 DEF InSpan, OutSpan, Span

\* The control state stays typed when a thread enters a phase or ends a port.
LEMMA ControlType ==
  ASSUME TypeOK, NEW k \in Blocks
  PROVE  /\ \A phase \in Phases : Enter(k, phase) =>
              pc' \in [Blocks -> Phases] /\ todo' \in [Blocks -> SUBSET Buffers]
         /\ \A b \in Buffers : Finish(k, b) => todo' \in [Blocks -> SUBSET Buffers]
<1>1. \A phase \in Phases : Ports(k, phase) \in SUBSET Buffers
  BY DEF Ports, Ins, Outs, Phases
<1>2. ASSUME NEW phase \in Phases, Enter(k, phase)
      PROVE  pc' \in [Blocks -> Phases] /\ todo' \in [Blocks -> SUBSET Buffers]
  BY <1>1, <1>2 DEF TypeOK, Enter
<1>3. ASSUME NEW b \in Buffers, Finish(k, b) PROVE todo' \in [Blocks -> SUBSET Buffers]
  <2>1. todo[k] \ {b} \in SUBSET Buffers
    BY DEF TypeOK
  <2> QED
    BY <1>3, <2>1 DEF TypeOK, Finish
<1> QED
  BY <1>2, <1>3

LEMMA AfterType ==
  ASSUME NEW k \in Blocks,
         NEW phase \in {"wait", "work", "ready", "release", "consume", "post"}
  PROVE  After(k, phase) \in Phases
  BY DEF After, Phases

-----------------------------------------------------------------------------
LEMMA InitTypeOK == Init => TypeOK
<1> SUFFICES ASSUME Init PROVE TypeOK
  OBVIOUS
<1>1. \A b \in Buffers : Never(b) \in Event
  BY DEF Never, Event, Streams
<1>2. (CHOOSE b \in Buffers : TRUE) \in Buffers
  BY GraphAssumption
<1>3. queue \in [Streams -> Seq(Op)]
  BY DEF Init
<1>4. call \in [Blocks -> {<<>>} \cup (Calls \X Buffers)]
  BY DEF Init
<1>5. batch \in [Blocks -> 0..N]
  BY GraphAssumption DEF Init
<1> QED
  BY <1>1, <1>2, <1>3, <1>4, <1>5 DEF Init, TypeOK, Mem, Phases

\* Each step of the GPU.
LEMMA ExecType ==
  ASSUME TypeOK, NEW s \in Streams, Exec(s) PROVE TypeOK'
<1>1. queue[s] \in Seq(Op) /\ queue[s] # <<>>
  BY DEF TypeOK, Exec, Runnable
<1>2. Tail(queue[s]) \in Seq(Op) /\ Head(queue[s]) \in Op
  BY <1>1
<1>3. Head(queue[s]).writes \subseteq Span
  BY <1>2 DEF Op
<1>4. queue' \in [Streams -> Seq(Op)] /\ done' \in [Streams -> Nat]
  BY <1>2 DEF Exec, TypeOK
<1>5. held' \in [Mem -> [Buffers -> Nat]]
  <2>1. \A m \in Mem, b \in Buffers :
          (\E sp \in Head(queue[s]).writes : sp.mem = m /\ sp.buf = b)
            => (CHOOSE sp \in Head(queue[s]).writes : sp.mem = m /\ sp.buf = b).hi \in Nat
    <3> TAKE m \in Mem, b \in Buffers
    <3> HAVE \E sp \in Head(queue[s]).writes : sp.mem = m /\ sp.buf = b
    <3> DEFINE x == CHOOSE sp \in Head(queue[s]).writes : sp.mem = m /\ sp.buf = b
    <3>1. x \in Head(queue[s]).writes
      OBVIOUS
    <3> QED
      BY <1>3, <3>1 DEF Span
  <2> QED
    BY <2>1 DEF Exec, TypeOK
<1> QED
  BY <1>4, <1>5 DEF Exec, TypeOK, events, counts, control

\* Each step of the scheduler.
LEMMA SchedulerType ==
  ASSUME TypeOK, NEW k \in Blocks,
         \/ \E n \in 1..N : Poll(k, n)
         \/ EndLoop(k)
         \/ Halt(k)
         \/ \E b \in Buffers : Consume(k, b) \/ Publish(k, b)
  PROVE  TypeOK'
<1> N \in Nat
  BY GraphAssumption
<1>1. CASE \E n \in 1..N : Poll(k, n)
  <2>1. pc' \in [Blocks -> Phases] /\ todo' \in [Blocks -> SUBSET Buffers]
    BY <1>1, ControlType DEF Poll, Phases
  <2>2. batch' \in [Blocks -> 0..N]
    BY <1>1 DEF Poll, TypeOK
  <2> QED
    BY <1>1, <2>1, <2>2 DEF Poll, TypeOK, gpuVars, events, counts
<1>2. CASE EndLoop(k)
  <2>1. After(k, pc[k]) \in Phases
    BY <1>2, AfterType DEF EndLoop
  <2> QED
    BY <1>2, <2>1, ControlType DEF EndLoop, TypeOK, gpuVars, events, counts
<1>3. CASE Halt(k)
  BY <1>3, ControlType DEF Halt, TypeOK, gpuVars, events, counts, Phases
<1>4. ASSUME NEW b \in Buffers, Consume(k, b) PROVE TypeOK'
  <2>1. nread[b][k] \in Nat /\ batch[k] \in 0..N
    BY DEF TypeOK
  <2>2. nread' \in [Buffers -> [Blocks -> Nat]]
    BY <1>4, <2>1 DEF Consume, TypeOK
  <2> QED
    BY <1>4, <2>2, ControlType DEF Consume, TypeOK, gpuVars, events
<1>5. ASSUME NEW b \in Buffers, Publish(k, b) PROVE TypeOK'
  <2>1. nwritten[b] \in Nat /\ batch[k] \in 0..N
    BY DEF TypeOK
  <2>2. nwritten' \in [Buffers -> Nat]
    BY <1>5, <2>1 DEF Publish, TypeOK
  <2> QED
    BY <1>5, <2>2, ControlType DEF Publish, TypeOK, gpuVars, events
<1> QED
  BY <1>1, <1>2, <1>3, <1>4, <1>5

\* Each step of a work call that enqueues nothing and records nothing.
LEMMA HostStepType ==
  ASSUME TypeOK, NEW k \in Blocks,
         \/ CpuWork(k)
         \/ \E b \in Buffers :
              wait_host_ready(k, b) \/ wait_host_ready_return(k, b) \/ post_work_d2d(k, b)
  PROVE  TypeOK'
<1>1. CASE CpuWork(k)
  <2>1. \A b \in Buffers : nwritten[b] + batch[k] \in Nat
    <3>1. batch[k] \in 0..N /\ \A b \in Buffers : nwritten[b] \in Nat
      BY DEF TypeOK
    <3> QED
      BY <3>1
  <2>2. held' \in [Mem -> [Buffers -> Nat]]
    BY <1>1, <2>1 DEF CpuWork, TypeOK
  <2>3. After(k, "work") \in Phases
    BY AfterType
  <2> QED
    BY <1>1, <2>2, <2>3, ControlType DEF CpuWork, TypeOK, events, counts
<1>2. ASSUME NEW b \in Buffers, wait_host_ready(k, b) PROVE TypeOK'
  <2>1. call' \in [Blocks -> {<<>>} \cup (Calls \X Buffers)]
    BY <1>2 DEF wait_host_ready, TypeOK, Calls
  <2> QED
    BY <1>2, <2>1 DEF wait_host_ready, TypeOK, gpuVars, events, counts
<1>3. ASSUME NEW b \in Buffers, wait_host_ready_return(k, b) PROVE TypeOK'
  BY <1>3, ControlType DEF wait_host_ready_return, TypeOK, gpuVars, events, counts
<1>4. ASSUME NEW b \in Buffers, post_work_d2d(k, b) PROVE TypeOK'
  <2>1. call' \in [Blocks -> {<<>>} \cup (Calls \X Buffers)]
    BY <1>4 DEF post_work_d2d, TypeOK, Calls
  <2> QED
    BY <1>4, <2>1 DEF post_work_d2d, TypeOK, gpuVars, events, counts
<1> QED
  BY <1>1, <1>2, <1>3, <1>4

\* Each step of wait_for_work, the kernel and mark_work_done.
LEMMA GpuBlockType ==
  ASSUME TypeOK, NEW k \in Blocks,
         \/ Kernel(k)
         \/ \E b \in Buffers : \/ wait_for_work(k, b)
                               \/ k \in Gpu /\ mark_device_ready(k, b)
                               \/ k \in Gpu /\ mark_read_done_wait(k, b)
                               \/ k \in Gpu /\ mark_read_done_record(k, b)
  PROVE  TypeOK'
<1> USE DEF Streams
<1>1. CASE Kernel(k)
  <2> DEFINE r == {InSpan(k, "device", b) : b \in Ins(k)}
             w == {OutSpan(k, "device", b) : b \in Outs(k)}
  <2>1. r \in SUBSET Span /\ w \in SUBSET Span
    BY SpanType DEF Ins, Outs, Mem
  <2>2. k \in Gpu /\ Run(k, r, w) \in Op
    BY <1>1, <2>1, RunType DEF Kernel
  <2>3. queue' \in [Streams -> Seq(Op)]
    <3>1. Enqueue(k, <<Run(k, r, w)>>)
      BY <1>1 DEF Kernel
    <3>2. <<Run(k, r, w)>> \in Seq(Op)
      BY <2>2
    <3> QED
      BY <2>2, <3>1, <3>2, EnqueueType DEF TypeOK
  <2>4. After(k, "work") \in Phases
    BY AfterType
  <2> QED
    BY <1>1, <2>3, <2>4, ControlType DEF Kernel, TypeOK, events, counts
<1>2. ASSUME NEW b \in Buffers, wait_for_work(k, b) PROVE TypeOK'
  <2> DEFINE e == IF b \in Ins(k) THEN d_dev_ready_evt[b] ELSE d_read_done_evt[b]
  <2>1. k \in Gpu /\ WaitEvent(e) \in Op
    BY <1>2, WaitType DEF wait_for_work, TypeOK
  <2>2. queue' \in [Streams -> Seq(Op)]
    <3>1. Enqueue(k, <<WaitEvent(e)>>)
      BY <1>2 DEF wait_for_work
    <3>2. <<WaitEvent(e)>> \in Seq(Op)
      BY <2>1
    <3> QED
      BY <2>1, <3>1, <3>2, EnqueueType DEF TypeOK
  <2> QED
    BY <1>2, <2>2, ControlType DEF wait_for_work, TypeOK, events, counts
<1>3. ASSUME NEW b \in Buffers, k \in Gpu, mark_device_ready(k, b) PROVE TypeOK'
  <2>1. d_dev_ready_evt' \in [Buffers -> Event]
    BY <1>3, RecordType DEF mark_device_ready, TypeOK
  <2> QED
    BY <1>3, <2>1, ControlType DEF mark_device_ready, TypeOK, gpuVars, counts
<1>4. ASSUME NEW b \in Buffers, k \in Gpu, mark_read_done_wait(k, b) PROVE TypeOK'
  <2>1. WaitEvent(d_read_done_evt[b]) \in Op
    BY WaitType DEF TypeOK
  <2>2. queue' \in [Streams -> Seq(Op)]
    <3> DEFINE ops == <<WaitEvent(d_read_done_evt[b])>>
    <3>1. Enqueue(k, ops)
      BY <1>4 DEF mark_read_done_wait
    <3>2. ops \in Seq(Op)
      BY <2>1
    <3> QED
      BY <1>4, <3>1, <3>2, EnqueueType DEF TypeOK
  <2>3. call' \in [Blocks -> {<<>>} \cup (Calls \X Buffers)]
    BY <1>4 DEF mark_read_done_wait, TypeOK, Calls
  <2> QED
    BY <1>4, <2>2, <2>3 DEF mark_read_done_wait, TypeOK, events, counts
<1>5. ASSUME NEW b \in Buffers, k \in Gpu, mark_read_done_record(k, b) PROVE TypeOK'
  <2>1. d_read_done_evt' \in [Buffers -> Event]
    BY <1>5, RecordType DEF mark_read_done_record, TypeOK
  <2> QED
    BY <1>5, <2>1, ControlType DEF mark_read_done_record, TypeOK, gpuVars, counts
<1> QED
  BY <1>1, <1>2, <1>3, <1>4, <1>5

\* Each step of post_work with DMA, and the destructor.
LEMMA BufferType ==
  ASSUME TypeOK, NEW b \in Buffers,
         \/ \E k \in Blocks : \/ post_work_h2d(k, b)
                              \/ post_work_h2d_ready(k, b)
                              \/ post_work_d2h(k, b)
         \/ Destroy(b)
         \/ Free(b)
  PROVE  TypeOK'
<1> USE DEF Streams
<1>1. ASSUME NEW k \in Blocks, post_work_h2d(k, b) PROVE TypeOK'
  <2>1. Run(b, {OutSpan(k, "host", b)}, {OutSpan(k, "device", b)}) \in Op
    BY SpanType, RunType DEF Mem
  <2>2. WaitEvent(d_read_done_evt[b]) \in Op
    BY WaitType DEF TypeOK
  <2>3. queue' \in [Streams -> Seq(Op)]
    <3> DEFINE ops == <<WaitEvent(d_read_done_evt[b]),
                        Run(b, {OutSpan(k, "host", b)}, {OutSpan(k, "device", b)})>>
    <3>1. Enqueue(b, ops)
      BY <1>1 DEF post_work_h2d
    <3>2. ops \in Seq(Op)
      BY <2>1, <2>2
    <3> QED
      BY <3>1, <3>2, EnqueueType DEF TypeOK
  <2>4. call' \in [Blocks -> {<<>>} \cup (Calls \X Buffers)]
    BY <1>1 DEF post_work_h2d, TypeOK, Calls
  <2> QED
    BY <1>1, <2>3, <2>4 DEF post_work_h2d, TypeOK, events, counts
<1>2. ASSUME NEW k \in Blocks, post_work_h2d_ready(k, b) PROVE TypeOK'
  <2>1. d_dev_ready_evt' \in [Buffers -> Event]
    BY <1>2, RecordType DEF post_work_h2d_ready, TypeOK
  <2>2. call' \in [Blocks -> {<<>>} \cup (Calls \X Buffers)]
    BY <1>2 DEF post_work_h2d_ready, TypeOK, Calls
  <2> QED
    BY <1>2, <2>1, <2>2 DEF post_work_h2d_ready, TypeOK, gpuVars, counts
<1>3. ASSUME NEW k \in Blocks, post_work_d2h(k, b) PROVE TypeOK'
  <2>1. Run(b, {OutSpan(k, "device", b)}, {OutSpan(k, "host", b)}) \in Op
    BY SpanType, RunType DEF Mem
  <2>2. WaitEvent(d_dev_ready_evt[b]) \in Op
    BY WaitType DEF TypeOK
  <2>3. queue' \in [Streams -> Seq(Op)]
    <3> DEFINE ops == <<WaitEvent(d_dev_ready_evt[b]),
                        Run(b, {OutSpan(k, "device", b)}, {OutSpan(k, "host", b)})>>
    <3>1. Enqueue(b, ops)
      BY <1>3 DEF post_work_d2h
    <3>2. ops \in Seq(Op)
      BY <2>1, <2>2
    <3> QED
      BY <3>1, <3>2, EnqueueType DEF TypeOK
  <2>4. call' \in [Blocks -> {<<>>} \cup (Calls \X Buffers)]
    BY <1>3 DEF post_work_d2h, TypeOK, Calls
  <2>5. RecordOn(b, 2) \in Event
    BY RecordType
  <2>6. d_host_ready_evt' \in [Buffers -> Event] /\ d_read_done_evt' \in [Buffers -> Event]
    BY <1>3, <2>5 DEF post_work_d2h, TypeOK
  <2> QED
    BY <1>3, <2>3, <2>4, <2>6 DEF post_work_d2h, TypeOK, counts
<1>4. CASE Destroy(b)
  <2>1. /\ WaitEvent(d_dev_ready_evt[b]) \in Op
        /\ WaitEvent(d_host_ready_evt[b]) \in Op
        /\ WaitEvent(d_read_done_evt[b]) \in Op
    BY WaitType DEF TypeOK
  <2>2. queue' \in [Streams -> Seq(Op)]
    <3> DEFINE ops == <<WaitEvent(d_dev_ready_evt[b]), WaitEvent(d_host_ready_evt[b]),
                        WaitEvent(d_read_done_evt[b])>>
    <3>1. Enqueue(b, ops)
      BY <1>4 DEF Destroy
    <3>2. ops \in Seq(Op)
      BY <2>1
    <3> QED
      BY <3>1, <3>2, EnqueueType DEF TypeOK
  <2> QED
    BY <1>4, <2>2 DEF Destroy, TypeOK, events, counts, control
<1>5. CASE Free(b)
  BY <1>5 DEF Free, TypeOK, gpuVars, events, counts, control
<1> QED
  BY <1>1, <1>2, <1>3, <1>4, <1>5

\* Only a GPU block is ever in mark_work_done.
MarksOnGpu ==
  \A k \in Blocks :
    /\ pc[k] \in {"ready", "release"} => k \in Gpu
    /\ ConsumeFirst \subseteq Gpu
    /\ \A b \in Buffers : call[k] = <<"read_done", b>> => k \in Gpu

\* Each step of a thread: it goes on to mark_work_done from a kernel only.
LEMMA ThreadMarks ==
  ASSUME TypeOK, MarksOnGpu, NEW k \in Blocks, Thread(k) PROVE MarksOnGpu'
<1>1. CASE \E n \in 1..N : Poll(k, n)
  BY <1>1 DEF MarksOnGpu, Poll, Enter, TypeOK
<1>2. CASE Kernel(k)
  BY <1>2 DEF MarksOnGpu, Kernel, Enter, TypeOK
<1>3. CASE CpuWork(k)
  BY <1>3, GraphAssumption DEF MarksOnGpu, CpuWork, Enter, After, TypeOK
<1>4. CASE EndLoop(k)
  <2>1. After(k, pc[k]) \in {"ready", "release"} => k \in Gpu
    BY <1>4 DEF EndLoop, After, MarksOnGpu
  <2> QED
    BY <1>4, <2>1 DEF MarksOnGpu, EndLoop, Enter, TypeOK
<1>5. ASSUME NEW b \in Buffers, mark_read_done_wait(k, b) PROVE MarksOnGpu'
  BY <1>5 DEF MarksOnGpu, mark_read_done_wait, At, TypeOK
<1>6. ASSUME NEW b \in Buffers, BufferCall(k, b), ~mark_read_done_wait(k, b)
      PROVE  MarksOnGpu'
  <2>1. pc' = pc
    BY <1>6 DEF BufferCall, post_work, wait_for_work, mark_device_ready, mark_read_done_record,
       wait_host_ready, wait_host_ready_return, Consume, post_work_h2d,
       post_work_h2d_ready, post_work_d2h, post_work_d2d, Publish
  <2>2. \A j \in Blocks, c \in Buffers :
          call'[j] = <<"read_done", c>> => call[j] = <<"read_done", c>>
    <3>1. CASE wait_for_work(k, b) \/ mark_device_ready(k, b) \/ Consume(k, b)
      BY <3>1 DEF wait_for_work, mark_device_ready, Consume
    <3>2. CASE mark_read_done_record(k, b) \/ wait_host_ready_return(k, b) \/ Publish(k, b)
      <4>1. call' = [call EXCEPT ![k] = <<>>]
        BY <3>2 DEF mark_read_done_record, wait_host_ready_return, Publish
      <4> QED
        BY <4>1 DEF TypeOK
    <3>3. CASE \/ wait_host_ready(k, b) \/ post_work_h2d(k, b) \/ post_work_h2d_ready(k, b)
               \/ post_work_d2h(k, b) \/ post_work_d2d(k, b)
      <4>1. PICK fn \in {"host_ready", "dev_ready", "publish"} :
              call' = [call EXCEPT ![k] = <<fn, b>>]
        BY <3>3 DEF wait_host_ready, post_work_h2d, post_work_h2d_ready, post_work_d2h,
           post_work_d2d
      <4> QED
        BY <4>1 DEF TypeOK
    <3> QED
      BY <1>6, <3>1, <3>2, <3>3 DEF BufferCall, post_work
  <2> QED
    BY <2>1, <2>2 DEF MarksOnGpu
<1> QED
  BY <1>1, <1>2, <1>3, <1>4, <1>5, <1>6 DEF Thread

\* Each step of a thread keeps the types.
LEMMA ThreadType ==
  ASSUME TypeOK, MarksOnGpu, NEW k \in Blocks, Thread(k) PROVE TypeOK'
<1>1. CASE \/ \E n \in 1..N : Poll(k, n)
           \/ EndLoop(k)
           \/ \E b \in Buffers : Consume(k, b) \/ Publish(k, b)
  BY <1>1, SchedulerType
<1>2. CASE \/ CpuWork(k)
           \/ \E b \in Buffers : \/ wait_host_ready(k, b)
                                 \/ wait_host_ready_return(k, b)
                                 \/ post_work_d2d(k, b)
  BY <1>2, HostStepType
<1>3. CASE \/ Kernel(k)
           \/ \E b \in Buffers : \/ wait_for_work(k, b)
                                 \/ mark_device_ready(k, b)
                                 \/ mark_read_done_wait(k, b)
                                 \/ mark_read_done_record(k, b)
  <2>1. \A b \in Buffers : mark_device_ready(k, b) \/ mark_read_done_wait(k, b)
                             \/ mark_read_done_record(k, b) => k \in Gpu
    BY DEF MarksOnGpu, mark_device_ready, mark_read_done_wait, mark_read_done_record, At
  <2> QED
    BY <1>3, <2>1, GpuBlockType
<1>4. CASE \E b \in Buffers : \/ post_work_h2d(k, b)
                              \/ post_work_h2d_ready(k, b)
                              \/ post_work_d2h(k, b)
  BY <1>4, BufferType
<1> QED
  BY <1>1, <1>2, <1>3, <1>4 DEF Thread, BufferCall, post_work

-----------------------------------------------------------------------------
(* Theorems.                                                               *)

\* For every flowgraph the queues hold typed operations, every event names a
\* position of an existing stream, and every thread is in a phase it has.
THEOREM Typing == Spec => []TypeOK
<1>1. Init => TypeOK /\ MarksOnGpu
  <2>1. Init => MarksOnGpu
    BY GraphAssumption DEF Init, MarksOnGpu
  <2> QED
    BY <2>1, InitTypeOK
<1>2. TypeOK /\ MarksOnGpu /\ [Next]_vars => TypeOK' /\ MarksOnGpu'
  <2> SUFFICES ASSUME TypeOK, MarksOnGpu, [Next]_vars PROVE TypeOK' /\ MarksOnGpu'
    OBVIOUS
  <2>1. CASE \E k \in Blocks : Thread(k)
    BY <2>1, ThreadType, ThreadMarks
  <2>2. CASE \E s \in Streams : Exec(s)
    BY <2>2, ExecType DEF Exec, MarksOnGpu, control
  <2>3. CASE Teardown
    <3>1. TypeOK'
      BY <2>3, SchedulerType, BufferType DEF Teardown
    <3>2. CASE \E k \in Blocks : Halt(k)
      BY <3>1, <3>2 DEF Halt, Enter, MarksOnGpu, TypeOK
    <3>3. CASE \E b \in Buffers : Destroy(b) \/ Free(b)
      BY <3>1, <3>3 DEF Destroy, Free, MarksOnGpu, control
    <3> QED
      BY <2>3, <3>2, <3>3 DEF Teardown
  <2>4. CASE UNCHANGED vars
    BY <2>4 DEF TypeOK, MarksOnGpu, vars, gpuVars, events, counts, control
  <2> QED
    BY <2>1, <2>2, <2>3, <2>4 DEF Next
<1> QED
  BY <1>1, <1>2, PTL DEF Spec

-----------------------------------------------------------------------------
(* How far reading and writing have got.  The phase of a thread tells what *)
(* of its current work call is done; the numbers below hide the phases.    *)

Active == {"wait", "work", "ready", "release", "consume", "post"}

Plus(n, flag, k) == IF flag THEN n + batch[k] ELSE n

\* k is in a work call and has not consumed from its input b yet.
Reading(k, b) ==
  \/ pc[k] \in {"wait", "work"}
  \/ pc[k] \in {"ready", "release"} /\ k \notin ConsumeFirst
  \/ pc[k] = "consume" /\ b \in todo[k]

\* k is in a work call and has not published to its output b yet.
Writing(k, b) ==
  \/ pc[k] \in {"wait", "work", "ready", "release", "consume"}
  \/ pc[k] = "post" /\ b \in todo[k]

\* k has passed the wait for b and has not worked yet.
Waited(k, b) ==
  \/ pc[k] = "wait" /\ b \notin todo[k]
  \/ pc[k] = "work"

\* k has launched its kernel and not called mark_read_done for b.
Unmarked(k, b) ==
  \/ pc[k] = "consume" /\ k \in ConsumeFirst
  \/ pc[k] = "ready"
  \/ pc[k] = "release" /\ b \in todo[k]

\* k has worked and not published to b.
Worked(k, b) == Writing(k, b) /\ pc[k] \notin {"wait", "work"}

\* The write of the batch to device memory is enqueued, and not published.
Made(k, b) ==
  IF H2D(b) THEN call[k] \in {<<"dev_ready", b>>, <<"publish", b>>}
            ELSE Worked(k, b)

\* Such a write is not recorded yet.
Unrecorded(k, b) ==
  IF H2D(b) THEN call[k] = <<"dev_ready", b>>
            ELSE \/ pc[k] = "consume" /\ k \in ConsumeFirst
                 \/ pc[k] = "ready" /\ b \in todo[k]

\* The batch is written to host memory, or its copy to there is enqueued.
Hosted(k, b) ==
  IF H2D(b) THEN Worked(k, b) ELSE call[k] = <<"publish", b>>

\* What k may read of b now, what its kernels read, and up to where they are
\* covered by the read-done event.
ReadTo(b, k) == Plus(nread[b][k], Reading(k, b), k)
ReadEnd(b, k) == Plus(nread[b][k], Launched(b, k), k)
Marked(b, k) == ReadEnd(b, k) - (IF Unmarked(k, b) THEN batch[k] ELSE 0)

\* What the writer of b may write, what is enqueued for the device, what the
\* device-ready event covers, and what is enqueued for the host.
WriteTo(b) == Plus(nwritten[b], Writing(Writer[b], b), Writer[b])
DevEnd(b) == Plus(nwritten[b], Made(Writer[b], b), Writer[b])
ReadyEnd(b) ==
  Plus(nwritten[b], Made(Writer[b], b) /\ ~Unrecorded(Writer[b], b), Writer[b])
HostEnd(b) == Plus(nwritten[b], Hosted(Writer[b], b), Writer[b])

\* A step leaves these numbers as they are.
SameReads(b, k) ==
  /\ ReadTo(b, k)' = ReadTo(b, k)
  /\ k \in Gpu => ReadEnd(b, k)' = ReadEnd(b, k) /\ Marked(b, k)' = Marked(b, k)

SameWrites(b) ==
  /\ WriteTo(b)' = WriteTo(b)
  /\ DevEnd(b)' = DevEnd(b)
  /\ ReadyEnd(b)' = ReadyEnd(b)
  /\ H2D(b) \/ D2H(b) => HostEnd(b)' = HostEnd(b)

SameCounts ==
  /\ nwritten' = nwritten
  /\ nread' = nread
  /\ \A b \in Buffers : SameWrites(b) /\ \A k \in Readers[b] : SameReads(b, k)

-----------------------------------------------------------------------------
(* The control of the threads.                                             *)

\* Every thread is in a call that belongs to its phase and to a port it still
\* has to do, and at most one thread holds the mutex of mark_read_done.
ThreadOK(k) ==
  /\ todo[k] \subseteq Ports(k, pc[k])
  /\ pc[k] \in {"ready", "release"} => k \in Gpu
  /\ pc[k] \in {"idle", "work", "halted"} => call[k] = <<>>
  /\ \A b \in Buffers :
       /\ call[k] = <<"read_done", b>> => pc[k] = "release" /\ b \in todo[k]
       /\ call[k] = <<"host_ready", b>> => pc[k] = "wait" /\ b \in todo[k] /\ k \in Cpu
       /\ call[k] = <<"dev_ready", b>> => pc[k] = "post" /\ b \in todo[k] /\ H2D(b)
       /\ call[k] = <<"publish", b>> => pc[k] = "post" /\ b \in todo[k]
  /\ pc[k] \in Active => batch[k] >= 1 /\ (Outs(k) # {} => batch[k] <= WorkLimit)

OneMarks ==
  \A b \in Buffers, j, k \in Blocks :
    call[j] = <<"read_done", b>> /\ call[k] = <<"read_done", b>> => j = k

ControlOK == (\A k \in Blocks : ThreadOK(k)) /\ OneMarks

\* The scheduler's promise, kept during the work call.
CountsOK ==
  \A b \in Buffers : \A k \in Readers[b] :
    /\ ReadTo(b, k) <= nwritten[b]
    /\ WriteTo(b) <= nread[b][k] + N - 1

\* A block that reads what it writes never gets its first item.
LoopsIdle ==
  \A b \in Buffers : Writer[b] \in Readers[b] =>
    nwritten[b] = 0 /\ pc[Writer[b]] \in {"idle", "halted"}

LEMMA Graph ==
  /\ N \in Nat /\ N >= 2 /\ WorkLimit \in Nat /\ 2 * WorkLimit <= N
  /\ ConsumeFirst \subseteq Gpu /\ Cpu \cap Gpu = {} /\ Blocks \cap Buffers = {}
  /\ Gpu \cap Buffers = {}
  /\ \A b \in Buffers :
       /\ Writer[b] \in Blocks /\ Readers[b] \subseteq Blocks /\ Readers[b] # {}
       /\ H2D(b) => ~D2H(b) /\ Writer[b] \notin Gpu
       /\ ~H2D(b) => Writer[b] \in Gpu
       /\ D2H(b) => Readers[b] \cap Gpu = {}
       /\ ~D2H(b) => Readers[b] \subseteq Gpu
  BY GraphAssumption DEF WorkLimit, H2D, D2H, Blocks

-----------------------------------------------------------------------------
(* What the steps do to the numbers.                                       *)

LEMMA CountType ==
  ASSUME TypeOK
  PROVE  \A b \in Buffers, k \in Blocks :
           nwritten[b] \in Nat /\ nread[b][k] \in Nat /\ batch[k] \in Nat /\ batch[k] <= N
  BY Graph DEF TypeOK

\* Steps that leave the counts, the phases, the batches and the calls alone.
LEMMA CountsRest ==
  ASSUME UNCHANGED <<counts, pc, todo, call, batch>>
  PROVE  SameCounts
  BY DEF counts, SameCounts, SameReads, SameWrites, ReadTo, ReadEnd, Marked, WriteTo,
         DevEnd, ReadyEnd, HostEnd, Plus, Reading, Writing, Launched, Unmarked, Made,
         Unrecorded, Hosted, Worked

\* What a thread does is about its own ports.
LEMMA OthersRest ==
  ASSUME NEW k \in Blocks,
         \A j \in Blocks \ {k} : /\ pc'[j] = pc[j] /\ todo'[j] = todo[j]
                                 /\ call'[j] = call[j] /\ batch'[j] = batch[j]
  PROVE  /\ \A b \in Buffers : Writer[b] # k /\ nwritten'[b] = nwritten[b] => SameWrites(b)
         /\ \A b \in Buffers : \A r \in Readers[b] \ {k} :
              nread'[b][r] = nread[b][r] => SameReads(b, r)
  BY Graph DEF SameWrites, WriteTo, DevEnd, ReadyEnd, HostEnd, Plus, Writing, Worked, Made,
     Unrecorded, Hosted, SameReads, ReadTo, ReadEnd, Marked, Reading, Launched, Unmarked

\* Between two ports of a loop the numbers depend on nothing but the phase.
LEMMA EndLoopCounts ==
  ASSUME TypeOK, ControlOK, NEW k \in Blocks, EndLoop(k)
  PROVE  SameCounts
<1>1. /\ pc' = [pc EXCEPT ![k] = After(k, pc[k])]
      /\ todo' = [todo EXCEPT ![k] = Ports(k, After(k, pc[k]))]
      /\ call' = call /\ batch' = batch /\ nwritten' = nwritten /\ nread' = nread
      /\ pc[k] \in {"wait", "ready", "release", "consume", "post"}
      /\ call[k] = <<>> /\ todo[k] = {}
  BY DEF EndLoop, Enter, counts
<1>2. /\ \A j \in Blocks \ {k} : pc'[j] = pc[j] /\ todo'[j] = todo[j]
      /\ pc'[k] = After(k, pc[k]) /\ todo'[k] = Ports(k, After(k, pc[k]))
      /\ pc[k] \in {"ready", "release"} => k \in Gpu
  BY <1>1 DEF TypeOK, ControlOK, ThreadOK
<1>3. ASSUME NEW b \in Buffers PROVE SameWrites(b)
  <2>1. CASE Writer[b] # k
    BY <1>1, <1>2, <2>1, Graph DEF SameWrites, WriteTo, DevEnd, ReadyEnd, HostEnd, Plus,
       Writing, Worked, Made, Unrecorded, Hosted
  <2>2. CASE Writer[b] = k
    <3>1. b \in Outs(k) /\ call[k] # <<"dev_ready", b>> /\ call[k] # <<"publish", b>>
      BY <1>1, <2>2 DEF Outs
    <3>2. Writing(k, b)' = Writing(k, b) /\ Worked(k, b)' = Worked(k, b)
      BY <1>1, <1>2, <3>1 DEF Writing, Worked, After, Ports
    <3>3. Unrecorded(k, b)' = Unrecorded(k, b) \/ H2D(b)
      BY <1>1, <1>2, <3>1 DEF Unrecorded, After, Ports
    <3>4. Made(k, b)' = Made(k, b) /\ Hosted(k, b)' = Hosted(k, b)
      BY <1>1, <3>2 DEF Made, Hosted
    <3>5. H2D(b) => Unrecorded(k, b)' = Unrecorded(k, b)
      BY <1>1 DEF Unrecorded
    <3> QED
      BY <1>1, <2>2, <3>2, <3>3, <3>4, <3>5 DEF SameWrites, WriteTo, DevEnd, ReadyEnd, HostEnd, Plus
  <2> QED
    BY <2>1, <2>2
<1>4. ASSUME NEW b \in Buffers, NEW r \in Readers[b] PROVE SameReads(b, r)
  <2>1. CASE r # k
    BY <1>1, <1>2, <2>1, Graph DEF SameReads, ReadTo, ReadEnd, Marked, Plus, Reading,
       Launched, Unmarked
  <2>2. CASE r = k
    <3>1. b \in Ins(k)
      BY <2>2 DEF Ins
    <3>2. Reading(k, b)' = Reading(k, b)
      BY <1>1, <1>2, <3>1 DEF Reading, After, Ports
    <3>3. k \in Gpu => Launched(b, k)' = Launched(b, k) /\ Unmarked(k, b)' = Unmarked(k, b)
      BY <1>1, <1>2, <3>1 DEF Launched, Unmarked, After, Ports
    <3> QED
      BY <1>1, <2>2, <3>2, <3>3 DEF SameReads, ReadTo, ReadEnd, Marked, Plus
  <2> QED
    BY <2>1, <2>2
<1> QED
  BY <1>1, <1>3, <1>4 DEF SameCounts

LEMMA HaltCounts ==
  ASSUME TypeOK, NEW k \in Blocks, Halt(k)
  PROVE  SameCounts
  BY DEF Halt, Enter, TypeOK, counts, SameCounts, SameReads, SameWrites, ReadTo, ReadEnd,
         Marked, WriteTo, DevEnd, ReadyEnd, HostEnd, Plus, Reading, Writing, Launched,
         Unmarked, Made, Unrecorded, Hosted, Worked

\* A new work call may read and write n more items.
LEMMA PollCounts ==
  ASSUME TypeOK, ControlOK, NEW k \in Blocks, NEW n \in 1..N, Poll(k, n)
  PROVE  /\ nwritten' = nwritten /\ nread' = nread
         /\ \A b \in Buffers :
              /\ DevEnd(b)' = DevEnd(b) /\ ReadyEnd(b)' = ReadyEnd(b)
              /\ H2D(b) \/ D2H(b) => HostEnd(b)' = HostEnd(b)
              /\ WriteTo(b)' = IF Writer[b] = k THEN nwritten[b] + n ELSE WriteTo(b)
              /\ \A r \in Readers[b] :
                   /\ r \in Gpu => ReadEnd(b, r)' = ReadEnd(b, r) /\ Marked(b, r)' = Marked(b, r)
                   /\ ReadTo(b, r)' = IF r = k THEN nread[b][r] + n ELSE ReadTo(b, r)
<1>1. /\ nwritten' = nwritten /\ nread' = nread /\ call' = call
      /\ \A j \in Blocks \ {k} : /\ pc'[j] = pc[j] /\ todo'[j] = todo[j]
                                 /\ call'[j] = call[j] /\ batch'[j] = batch[j]
      /\ pc[k] = "idle" /\ pc'[k] = "wait" /\ batch'[k] = n /\ call[k] = <<>>
  BY DEF Poll, Enter, counts, TypeOK, ControlOK, ThreadOK
<1>2. ASSUME NEW b \in Buffers
      PROVE  /\ DevEnd(b)' = DevEnd(b) /\ ReadyEnd(b)' = ReadyEnd(b)
             /\ H2D(b) \/ D2H(b) => HostEnd(b)' = HostEnd(b)
             /\ WriteTo(b)' = IF Writer[b] = k THEN nwritten[b] + n ELSE WriteTo(b)
  <2>1. CASE Writer[b] # k
    BY <1>1, <2>1, OthersRest DEF SameWrites
  <2>2. CASE Writer[b] = k
    BY <1>1, <2>2 DEF WriteTo, DevEnd, ReadyEnd, HostEnd, Plus, Writing, Worked, Made, Hosted
  <2> QED
    BY <2>1, <2>2
<1>3. ASSUME NEW b \in Buffers, NEW r \in Readers[b]
      PROVE  /\ r \in Gpu => ReadEnd(b, r)' = ReadEnd(b, r) /\ Marked(b, r)' = Marked(b, r)
             /\ ReadTo(b, r)' = IF r = k THEN nread[b][r] + n ELSE ReadTo(b, r)
  <2>1. CASE r # k
    BY <1>1, <2>1, OthersRest DEF SameReads
  <2>2. CASE r = k
    BY <1>1, <2>2 DEF ReadTo, ReadEnd, Marked, Plus, Reading, Launched, Unmarked
  <2> QED
    BY <2>1, <2>2
<1> QED
  BY <1>1, <1>2, <1>3

LEMMA ConsumeCounts ==
  ASSUME TypeOK, ControlOK, NEW k \in Blocks, NEW b \in Buffers, Consume(k, b)
  PROVE  /\ nwritten' = nwritten
         /\ nread' = [nread EXCEPT ![b] = [@ EXCEPT ![k] = ReadTo(b, k)]]
         /\ ReadEnd(b, k) = ReadTo(b, k)
         /\ \A c \in Buffers : SameWrites(c) /\ \A r \in Readers[c] : SameReads(c, r)
<1>1. /\ nwritten' = nwritten /\ call' = call /\ batch' = batch /\ pc' = pc
      /\ todo' = [todo EXCEPT ![k] = @ \ {b}]
      /\ nread' = [nread EXCEPT ![b] = [@ EXCEPT ![k] = nread[b][k] + batch[k]]]
      /\ pc[k] = "consume" /\ b \in todo[k] /\ b \in Ins(k)
  BY DEF Consume, At, Finish, TypeOK, ControlOK, ThreadOK, Ports
<1>2. /\ \A j \in Blocks \ {k} : todo'[j] = todo[j]
      /\ todo'[k] = todo[k] \ {b} /\ nread'[b][k] = nread[b][k] + batch[k]
      /\ \A c \in Buffers, r \in Blocks : c # b \/ r # k => nread'[c][r] = nread[c][r]
  BY <1>1 DEF TypeOK
<1>3. ASSUME NEW c \in Buffers PROVE SameWrites(c)
  BY <1>1, <1>2, Graph DEF SameWrites, WriteTo, DevEnd, ReadyEnd, HostEnd, Plus, Writing, Worked, Made, Unrecorded, Hosted
<1>4. ASSUME NEW c \in Buffers, NEW r \in Readers[c] PROVE SameReads(c, r)
  <2>1. CASE r # k
    BY <1>1, <1>2, <2>1, OthersRest, Graph
  <2>2. CASE r = k /\ c # b
    BY <1>1, <1>2, <2>2 DEF SameReads, ReadTo, ReadEnd, Marked, Plus, Reading, Launched, Unmarked
  <2>3. CASE r = k /\ c = b
    BY <1>1, <1>2, <2>3 DEF SameReads, ReadTo, ReadEnd, Marked, Plus, Reading, Launched, Unmarked
  <2> QED
    BY <2>1, <2>2, <2>3
<1>5. ReadEnd(b, k) = nread[b][k] + batch[k] /\ ReadTo(b, k) = nread[b][k] + batch[k]
  BY <1>1 DEF ReadEnd, ReadTo, Plus, Launched, Reading
<1> QED
  BY <1>1, <1>3, <1>4, <1>5

LEMMA PublishCounts ==
  ASSUME TypeOK, ControlOK, NEW k \in Blocks, NEW b \in Buffers, Publish(k, b)
  PROVE  /\ nread' = nread /\ Writer[b] = k
         /\ nwritten' = [nwritten EXCEPT ![b] = WriteTo(b)]
         /\ ReadyEnd(b) = WriteTo(b) /\ DevEnd(b) = WriteTo(b)
         /\ H2D(b) \/ D2H(b) => HostEnd(b) = WriteTo(b)
         /\ \A c \in Buffers : SameWrites(c) /\ \A r \in Readers[c] : SameReads(c, r)
<1>1. /\ nread' = nread /\ batch' = batch /\ pc' = pc
      /\ todo' = [todo EXCEPT ![k] = @ \ {b}] /\ call' = [call EXCEPT ![k] = <<>>]
      /\ nwritten' = [nwritten EXCEPT ![b] = @ + batch[k]]
      /\ pc[k] = "post" /\ b \in todo[k] /\ b \in Outs(k) /\ call[k] = <<"publish", b>>
  BY DEF Publish, Finish, TypeOK, ControlOK, ThreadOK, Ports
<1>2. /\ \A j \in Blocks \ {k} : todo'[j] = todo[j] /\ call'[j] = call[j]
      /\ todo'[k] = todo[k] \ {b} /\ nwritten'[b] = nwritten[b] + batch[k] /\ call'[k] = <<>>
      /\ \A c \in Buffers : c # b => nwritten'[c] = nwritten[c]
  BY <1>1 DEF TypeOK
<1>3. Writer[b] = k
  BY <1>1 DEF Outs
<1>8. /\ WriteTo(b) = nwritten[b] + batch[k] /\ ReadyEnd(b) = WriteTo(b) /\ DevEnd(b) = WriteTo(b)
      /\ H2D(b) \/ D2H(b) => HostEnd(b) = WriteTo(b)
  <2>1. call[k] # <<"dev_ready", b>> /\ call[k] = <<"publish", b>>
    BY <1>1
  <2>2. Writing(k, b) /\ Worked(k, b) /\ Made(k, b) /\ Hosted(k, b) /\ ~Unrecorded(k, b)
    BY <1>1, <2>1 DEF Writing, Worked, Made, Unrecorded, Hosted
  <2> QED
    BY <1>3, <2>2 DEF WriteTo, DevEnd, ReadyEnd, HostEnd, Plus
<1>4. ASSUME NEW c \in Buffers PROVE SameWrites(c)
  <2>1. CASE Writer[c] # k
    BY <1>1, <1>2, <1>3, <2>1, OthersRest
  <2>2. CASE c = b
    <3>1. call'[k] \notin {<<"dev_ready", b>>, <<"publish", b>>}
      BY <1>2
    <3>2. /\ ~Writing(k, b)' /\ ~Worked(k, b)' /\ ~Made(k, b)'
          /\ H2D(b) \/ D2H(b) => ~Hosted(k, b)'
      BY <1>1, <1>2, <3>1 DEF Writing, Worked, Made, Hosted
    <3>3. /\ WriteTo(b)' = nwritten'[b] /\ DevEnd(b)' = nwritten'[b] /\ ReadyEnd(b)' = nwritten'[b]
          /\ H2D(b) \/ D2H(b) => HostEnd(b)' = nwritten'[b]
      BY <1>3, <3>2 DEF WriteTo, DevEnd, ReadyEnd, HostEnd, Plus
    <3> QED
      BY <1>2, <1>8, <2>2, <3>3 DEF SameWrites
  <2>3. CASE Writer[c] = k /\ c # b
    <3>1. /\ call[k] \notin {<<"dev_ready", c>>, <<"publish", c>>}
          /\ call'[k] \notin {<<"dev_ready", c>>, <<"publish", c>>}
      BY <1>1, <1>2, <2>3
    <3> QED
      BY <1>1, <1>2, <1>3, <2>3, <3>1 DEF SameWrites, WriteTo, DevEnd, ReadyEnd, HostEnd, Plus, Writing, Worked, Made, Unrecorded, Hosted
  <2> QED
    BY <2>1, <2>2, <2>3
<1>5. ASSUME NEW c \in Buffers, NEW r \in Readers[c] PROVE SameReads(c, r)
  BY <1>1, <1>2, Graph DEF SameReads, ReadTo, ReadEnd, Marked, Plus, Reading, Launched, Unmarked
<1>7. nwritten' = [nwritten EXCEPT ![b] = WriteTo(b)]
  BY <1>1, <1>8
<1> QED
  BY <1>1, <1>3, <1>4, <1>5, <1>7, <1>8

\* Waiting changes no number.
LEMMA WaitCounts ==
  ASSUME TypeOK, ControlOK, NEW k \in Blocks, NEW b \in Buffers,
         \/ wait_for_work(k, b) \/ mark_read_done_wait(k, b)
         \/ wait_host_ready(k, b) \/ wait_host_ready_return(k, b)
  PROVE  SameCounts
<1>1. /\ nread' = nread /\ nwritten' = nwritten /\ batch' = batch /\ pc' = pc
      /\ pc[k] \in {"wait", "release"}
      /\ pc[k] = "release" => todo' = todo
      /\ \A j \in Blocks \ {k} : todo'[j] = todo[j] /\ call'[j] = call[j]
      /\ call[k] \in {<<>>, <<"host_ready", b>>}
      /\ call'[k] \in {<<>>, <<"host_ready", b>>, <<"read_done", b>>}
  BY DEF wait_for_work, mark_read_done_wait, wait_host_ready, wait_host_ready_return, counts,
     At, Finish, TypeOK, ControlOK, ThreadOK
<1>2. \A c \in Buffers :
        /\ call[k] \notin {<<"dev_ready", c>>, <<"publish", c>>}
        /\ call'[k] \notin {<<"dev_ready", c>>, <<"publish", c>>}
  BY <1>1
<1>3. ASSUME NEW c \in Buffers PROVE SameWrites(c)
  <2>1. CASE Writer[c] # k
    BY <1>1, <2>1, OthersRest
  <2>2. CASE Writer[c] = k
    BY <1>1, <1>2, <2>2 DEF SameWrites, WriteTo, DevEnd, ReadyEnd, HostEnd, Plus, Writing, Worked, Made, Unrecorded, Hosted
  <2> QED
    BY <2>1, <2>2
<1>4. ASSUME NEW c \in Buffers, NEW r \in Readers[c] PROVE SameReads(c, r)
  <2>1. CASE r # k
    BY <1>1, <2>1, OthersRest
  <2>2. CASE r = k
    BY <1>1, <2>2 DEF SameReads, ReadTo, ReadEnd, Marked, Plus, Reading, Launched, Unmarked
  <2> QED
    BY <2>1, <2>2
<1> QED
  BY <1>1, <1>3, <1>4 DEF SameCounts

\* A kernel is enqueued: all of its batch is read and written.
LEMMA KernelCounts ==
  ASSUME TypeOK, ControlOK, NEW k \in Blocks, Kernel(k)
  PROVE  /\ nread' = nread /\ nwritten' = nwritten
         /\ \A b \in Buffers :
              /\ WriteTo(b)' = WriteTo(b) /\ ReadyEnd(b)' = ReadyEnd(b)
              /\ H2D(b) \/ D2H(b) => HostEnd(b)' = HostEnd(b)
              /\ DevEnd(b)' = IF Writer[b] = k THEN WriteTo(b) ELSE DevEnd(b)
              /\ \A r \in Readers[b] :
                   /\ ReadTo(b, r)' = ReadTo(b, r)
                   /\ r \in Gpu => /\ Marked(b, r)' = Marked(b, r)
                                   /\ ReadEnd(b, r)' = IF r = k THEN ReadTo(b, r) ELSE ReadEnd(b, r)
         /\ \A b \in Outs(k) : /\ WriteTo(b) = nwritten[b] + batch[k] /\ DevEnd(b) = nwritten[b]
                               /\ ~H2D(b)
         /\ \A b \in Ins(k) : /\ ReadTo(b, k) = nread[b][k] + batch[k]
                              /\ ReadEnd(b, k) = nread[b][k]
<1>1. /\ nread' = nread /\ nwritten' = nwritten /\ batch' = batch /\ call' = call
      /\ pc[k] = "work" /\ k \in Gpu /\ call[k] = <<>>
      /\ pc'[k] = After(k, "work") /\ todo'[k] = Ports(k, After(k, "work"))
      /\ \A j \in Blocks \ {k} : todo'[j] = todo[j] /\ pc'[j] = pc[j]
  BY DEF Kernel, Enter, counts, TypeOK, ControlOK, ThreadOK
<1>2. \A b \in Buffers, j \in Blocks : nread[b][j] \in Nat /\ batch[j] \in Nat
  BY CountType
<1>3. ASSUME NEW b \in Buffers
      PROVE  /\ WriteTo(b)' = WriteTo(b) /\ ReadyEnd(b)' = ReadyEnd(b)
             /\ H2D(b) \/ D2H(b) => HostEnd(b)' = HostEnd(b)
             /\ DevEnd(b)' = IF Writer[b] = k THEN WriteTo(b) ELSE DevEnd(b)
             /\ Writer[b] = k => /\ WriteTo(b) = nwritten[b] + batch[k] /\ DevEnd(b) = nwritten[b]
                                 /\ ~H2D(b)
  <2>1. CASE Writer[b] # k
    BY <1>1, <2>1, OthersRest DEF SameWrites
  <2>2. CASE Writer[b] = k
    <3>1. ~H2D(b) /\ b \in Outs(k)
      BY <1>1, <2>2, Graph DEF Outs
    <3>2. /\ Writing(k, b) /\ Writing(k, b)' /\ ~Made(k, b) /\ Made(k, b)' /\ Unrecorded(k, b)'
          /\ Hosted(k, b)' = Hosted(k, b)
      BY <1>1, <3>1 DEF Writing, Worked, Made, Unrecorded, Hosted, After, Ports
    <3> QED
      BY <1>1, <2>2, <3>1, <3>2 DEF WriteTo, DevEnd, ReadyEnd, HostEnd, Plus
  <2> QED
    BY <2>1, <2>2
<1>4. ASSUME NEW b \in Buffers, NEW r \in Readers[b]
      PROVE  /\ ReadTo(b, r)' = ReadTo(b, r)
             /\ r \in Gpu => /\ Marked(b, r)' = Marked(b, r)
                             /\ ReadEnd(b, r)' = IF r = k THEN ReadTo(b, r) ELSE ReadEnd(b, r)
             /\ r = k => ReadTo(b, k) = nread[b][k] + batch[k] /\ ReadEnd(b, k) = nread[b][k]
  <2>1. CASE r # k
    BY <1>1, <2>1, OthersRest DEF SameReads
  <2>2. CASE r = k
    <3>1. b \in Ins(k)
      BY <2>2 DEF Ins
    <3>2. /\ Reading(k, b) /\ Reading(k, b)' /\ ~Launched(b, k) /\ Launched(b, k)'
          /\ ~Unmarked(k, b) /\ Unmarked(k, b)'
      BY <1>1, <3>1 DEF Reading, Launched, Unmarked, After, Ports
    <3> QED
      BY <1>1, <1>2, <2>2, <3>2, Graph DEF ReadTo, ReadEnd, Marked, Plus
  <2> QED
    BY <2>1, <2>2
<1> QED
  BY <1>1, <1>3, <1>4 DEF Ins, Outs

\* mark_device_ready: the event covers all that is enqueued.
LEMMA MarkReadyCounts ==
  ASSUME TypeOK, ControlOK, NEW k \in Blocks, NEW b \in Buffers, mark_device_ready(k, b)
  PROVE  /\ nread' = nread /\ nwritten' = nwritten /\ Writer[b] = k /\ ~H2D(b)
         /\ \A c \in Buffers :
              /\ WriteTo(c)' = WriteTo(c) /\ DevEnd(c)' = DevEnd(c)
              /\ H2D(c) \/ D2H(c) => HostEnd(c)' = HostEnd(c)
              /\ ReadyEnd(c)' = IF c = b THEN DevEnd(c) ELSE ReadyEnd(c)
              /\ \A r \in Readers[c] : SameReads(c, r)
<1>1. /\ nread' = nread /\ nwritten' = nwritten /\ batch' = batch /\ call' = call /\ pc' = pc
      /\ pc[k] = "ready" /\ k \in Gpu /\ call[k] = <<>> /\ b \in todo[k] /\ b \in Outs(k)
      /\ \A j \in Blocks \ {k} : todo'[j] = todo[j]
      /\ todo'[k] = todo[k] \ {b}
  BY DEF mark_device_ready, At, Finish, counts, TypeOK, ControlOK, ThreadOK, Ports
<1>2. Writer[b] = k /\ ~H2D(b)
  BY <1>1, Graph DEF Outs
<1>3. ASSUME NEW c \in Buffers
      PROVE  /\ WriteTo(c)' = WriteTo(c) /\ DevEnd(c)' = DevEnd(c)
             /\ H2D(c) \/ D2H(c) => HostEnd(c)' = HostEnd(c)
             /\ ReadyEnd(c)' = IF c = b THEN DevEnd(c) ELSE ReadyEnd(c)
  <2>1. CASE Writer[c] # k
    BY <1>1, <1>2, <2>1, OthersRest DEF SameWrites
  <2>2. CASE Writer[c] = k
    BY <1>1, <1>2, <2>2 DEF WriteTo, DevEnd, ReadyEnd, HostEnd, Plus, Writing, Worked, Made, Unrecorded, Hosted
  <2> QED
    BY <2>1, <2>2
<1>4. ASSUME NEW c \in Buffers, NEW r \in Readers[c] PROVE SameReads(c, r)
  BY <1>1, Graph DEF SameReads, ReadTo, ReadEnd, Marked, Plus, Reading, Launched, Unmarked
<1> QED
  BY <1>1, <1>2, <1>3, <1>4

\* mark_read_done: the event covers all that k reads of b.
LEMMA MarkReadCounts ==
  ASSUME TypeOK, ControlOK, NEW k \in Blocks, NEW b \in Buffers, mark_read_done_record(k, b)
  PROVE  /\ nread' = nread /\ nwritten' = nwritten /\ k \in Readers[b] /\ k \in Gpu
         /\ \A c \in Buffers :
              /\ SameWrites(c)
              /\ \A r \in Readers[c] :
                   /\ ReadTo(c, r)' = ReadTo(c, r)
                   /\ r \in Gpu => /\ ReadEnd(c, r)' = ReadEnd(c, r)
                                   /\ Marked(c, r)' = IF r = k /\ c = b THEN ReadEnd(c, r) ELSE Marked(c, r)
<1>1. /\ nread' = nread /\ nwritten' = nwritten /\ batch' = batch /\ pc' = pc
      /\ pc[k] = "release" /\ k \in Gpu /\ b \in todo[k] /\ b \in Ins(k)
      /\ call[k] = <<"read_done", b>> /\ call'[k] = <<>>
      /\ \A j \in Blocks \ {k} : todo'[j] = todo[j] /\ call'[j] = call[j]
      /\ todo'[k] = todo[k] \ {b}
  BY DEF mark_read_done_record, Finish, counts, TypeOK, ControlOK, ThreadOK, Ports
<1>2. \A c \in Buffers :
        /\ call[k] \notin {<<"dev_ready", c>>, <<"publish", c>>}
        /\ call'[k] \notin {<<"dev_ready", c>>, <<"publish", c>>}
  BY <1>1
<1>3. ASSUME NEW c \in Buffers PROVE SameWrites(c)
  <2>1. CASE Writer[c] # k
    BY <1>1, <2>1, OthersRest
  <2>2. CASE Writer[c] = k
    BY <1>1, <1>2, <2>2 DEF SameWrites, WriteTo, DevEnd, ReadyEnd, HostEnd, Plus, Writing, Worked, Made, Unrecorded, Hosted
  <2> QED
    BY <2>1, <2>2
<1>4. ASSUME NEW c \in Buffers, NEW r \in Readers[c]
      PROVE  /\ ReadTo(c, r)' = ReadTo(c, r)
             /\ r \in Gpu => /\ ReadEnd(c, r)' = ReadEnd(c, r)
                             /\ Marked(c, r)' = IF r = k /\ c = b THEN ReadEnd(c, r) ELSE Marked(c, r)
  <2>1. CASE r # k
    BY <1>1, <2>1, OthersRest DEF SameReads
  <2>2. CASE r = k
    <3>1. ReadEnd(c, k) \in Nat
      BY CountType, Graph DEF ReadEnd, Plus
    <3> QED
      BY <1>1, <2>2, <3>1 DEF ReadTo, ReadEnd, Marked, Plus, Reading, Launched, Unmarked
  <2> QED
    BY <2>1, <2>2
<1> QED
  BY <1>1, <1>3, <1>4 DEF Ins

\* A CPU block writes its batch to the host rings of its outputs.
LEMMA CpuWorkCounts ==
  ASSUME TypeOK, ControlOK, NEW k \in Blocks, CpuWork(k)
  PROVE  /\ nread' = nread /\ nwritten' = nwritten
         /\ \A b \in Buffers :
              /\ WriteTo(b)' = WriteTo(b) /\ DevEnd(b)' = DevEnd(b) /\ ReadyEnd(b)' = ReadyEnd(b)
              /\ H2D(b) \/ D2H(b) =>
                   HostEnd(b)' = IF b \in Outs(k) THEN nwritten[b] + batch[k] ELSE HostEnd(b)
              /\ \A r \in Readers[b] : SameReads(b, r)
         /\ \A b \in Outs(k) : H2D(b) /\ WriteTo(b) = nwritten[b] + batch[k] /\ HostEnd(b) = nwritten[b]
<1>1. /\ nread' = nread /\ nwritten' = nwritten /\ batch' = batch /\ call' = call
      /\ pc[k] = "work" /\ k \in Cpu /\ k \notin Gpu /\ call[k] = <<>>
      /\ pc'[k] = "consume" /\ todo'[k] = Ports(k, "consume")
      /\ \A j \in Blocks \ {k} : todo'[j] = todo[j] /\ pc'[j] = pc[j]
  BY Graph DEF CpuWork, Enter, counts, TypeOK, ControlOK, ThreadOK, After
<1>2. ASSUME NEW b \in Buffers
      PROVE  /\ WriteTo(b)' = WriteTo(b) /\ DevEnd(b)' = DevEnd(b) /\ ReadyEnd(b)' = ReadyEnd(b)
             /\ H2D(b) \/ D2H(b) =>
                  HostEnd(b)' = IF b \in Outs(k) THEN nwritten[b] + batch[k] ELSE HostEnd(b)
             /\ b \in Outs(k) =>
                  H2D(b) /\ WriteTo(b) = nwritten[b] + batch[k] /\ HostEnd(b) = nwritten[b]
  <2>1. CASE Writer[b] # k
    BY <1>1, <2>1, OthersRest DEF SameWrites, Outs
  <2>2. CASE Writer[b] = k
    <3>1. H2D(b) /\ b \in Outs(k)
      BY <1>1, <2>2, Graph DEF Outs, H2D
    <3>2. /\ Writing(k, b) /\ Writing(k, b)' /\ ~Made(k, b) /\ ~Made(k, b)'
          /\ ~Hosted(k, b) /\ Hosted(k, b)'
      BY <1>1, <3>1 DEF Writing, Worked, Made, Hosted
    <3> QED
      BY <1>1, <2>2, <3>1, <3>2 DEF WriteTo, DevEnd, ReadyEnd, HostEnd, Plus
  <2> QED
    BY <2>1, <2>2
<1>3. ASSUME NEW b \in Buffers, NEW r \in Readers[b] PROVE SameReads(b, r)
  <2>1. CASE r # k
    BY <1>1, <2>1, OthersRest
  <2>2. CASE r = k
    <3>1. b \in Ins(k)
      BY <2>2 DEF Ins
    <3>2. Reading(k, b) /\ Reading(k, b)'
      BY <1>1, <3>1 DEF Reading, Ports
    <3> QED
      BY <1>1, <2>2, <3>2 DEF SameReads, ReadTo, Plus
  <2> QED
    BY <2>1, <2>2
<1> QED
  BY <1>1, <1>2, <1>3 DEF Outs

\* What a step of post_work other than the last has in common.
PostStep(k, b, fn) ==
  /\ UNCHANGED <<counts, pc, todo, batch>>
  /\ call' = [call EXCEPT ![k] = <<fn, b>>]
  /\ pc[k] = "post" /\ b \in todo[k] /\ b \in Outs(k)
  /\ call[k] \in {<<>>, <<"dev_ready", b>>}

\* The calls of post_work change what is made, recorded and hosted only.
LEMMA PostCounts ==
  ASSUME TypeOK, ControlOK, NEW k \in Blocks, NEW b \in Buffers,
         NEW fn \in {"dev_ready", "publish"}, PostStep(k, b, fn)
  PROVE  /\ nread' = nread /\ nwritten' = nwritten /\ Writer[b] = k
         /\ \A c \in Buffers : WriteTo(c)' = WriteTo(c) /\ \A r \in Readers[c] : SameReads(c, r)
         /\ \A c \in Buffers \ {b} : SameWrites(c)
         /\ WriteTo(b) = nwritten[b] + batch[k]
<1>1. /\ nread' = nread /\ nwritten' = nwritten /\ batch' = batch /\ pc' = pc /\ todo' = todo
      /\ \A j \in Blocks \ {k} : call'[j] = call[j]
      /\ Writer[b] = k /\ Writing(k, b)
  BY DEF PostStep, counts, TypeOK, Outs, Writing
<1>2. call'[k] = <<fn, b>>
  BY DEF PostStep, TypeOK
<1>3. \A c \in Buffers \ {b} : /\ call[k] \notin {<<"dev_ready", c>>, <<"publish", c>>}
                               /\ call'[k] \notin {<<"dev_ready", c>>, <<"publish", c>>}
  BY <1>2 DEF PostStep
<1>4. ASSUME NEW c \in Buffers \ {b} PROVE SameWrites(c)
  <2>1. CASE Writer[c] # k
    BY <1>1, <2>1, OthersRest
  <2>2. CASE Writer[c] = k
    BY <1>1, <1>3, <2>2 DEF SameWrites, WriteTo, DevEnd, ReadyEnd, HostEnd, Plus, Writing, Worked, Made, Unrecorded, Hosted
  <2> QED
    BY <2>1, <2>2
<1>5. ASSUME NEW c \in Buffers
      PROVE  WriteTo(c)' = WriteTo(c) /\ \A r \in Readers[c] : SameReads(c, r)
  BY <1>1 DEF WriteTo, Writing, SameReads, ReadTo, ReadEnd, Marked, Plus, Reading, Launched, Unmarked
<1>6. WriteTo(b) = nwritten[b] + batch[k]
  BY <1>1 DEF WriteTo, Plus
<1> QED
  BY <1>1, <1>4, <1>5, <1>6

\* The copy to the device is enqueued.
LEMMA UploadCounts ==
  ASSUME TypeOK, ControlOK, NEW k \in Blocks, NEW b \in Buffers, post_work_h2d(k, b)
  PROVE  /\ PostStep(k, b, "dev_ready")
         /\ DevEnd(b) = nwritten[b] /\ DevEnd(b)' = WriteTo(b) /\ ReadyEnd(b)' = ReadyEnd(b)
         /\ HostEnd(b)' = HostEnd(b) /\ HostEnd(b) = WriteTo(b)
<1>1. PostStep(k, b, "dev_ready") /\ call[k] = <<>> /\ H2D(b)
  BY DEF post_work_h2d, At, PostStep, ControlOK, ThreadOK, Ports
<1>2. /\ nread' = nread /\ nwritten' = nwritten /\ Writer[b] = k /\ batch' = batch
      /\ pc' = pc /\ todo' = todo /\ call'[k] = <<"dev_ready", b>> /\ pc[k] = "post" /\ b \in todo[k]
  BY <1>1 DEF PostStep, counts, Outs, TypeOK
<1>3. /\ ~Made(k, b) /\ Made(k, b)' /\ Unrecorded(k, b)' /\ Hosted(k, b) /\ Hosted(k, b)'
      /\ Writing(k, b)
  BY <1>1, <1>2 DEF Made, Unrecorded, Hosted, Worked, Writing
<1> QED
  BY <1>1, <1>2, <1>3 DEF WriteTo, DevEnd, ReadyEnd, HostEnd, Plus

\* The copy to the device is recorded.
LEMMA UploadReadyCounts ==
  ASSUME TypeOK, ControlOK, NEW k \in Blocks, NEW b \in Buffers, post_work_h2d_ready(k, b)
  PROVE  /\ PostStep(k, b, "publish") /\ H2D(b)
         /\ DevEnd(b) = WriteTo(b) /\ DevEnd(b)' = DevEnd(b) /\ ReadyEnd(b)' = DevEnd(b)
         /\ HostEnd(b)' = HostEnd(b) /\ ReadyEnd(b) = nwritten[b]
<1>1. PostStep(k, b, "publish") /\ call[k] = <<"dev_ready", b>> /\ H2D(b)
  BY DEF post_work_h2d_ready, PostStep, ControlOK, ThreadOK, Ports
<1>2. /\ nread' = nread /\ nwritten' = nwritten /\ Writer[b] = k /\ batch' = batch
      /\ pc' = pc /\ todo' = todo /\ call'[k] = <<"publish", b>> /\ pc[k] = "post" /\ b \in todo[k]
      /\ <<"publish", b>> # <<"dev_ready", b>>
  BY <1>1 DEF PostStep, counts, Outs, TypeOK
<1>3. /\ Made(k, b) /\ Made(k, b)' /\ Unrecorded(k, b) /\ ~Unrecorded(k, b)'
      /\ Hosted(k, b) /\ Hosted(k, b)' /\ Writing(k, b)
  BY <1>1, <1>2 DEF Made, Unrecorded, Hosted, Worked, Writing
<1> QED
  BY <1>1, <1>2, <1>3 DEF WriteTo, DevEnd, ReadyEnd, HostEnd, Plus

\* The copy to the host is enqueued and recorded.
LEMMA DownloadCounts ==
  ASSUME TypeOK, ControlOK, NEW k \in Blocks, NEW b \in Buffers, post_work_d2h(k, b)
  PROVE  /\ PostStep(k, b, "publish") /\ D2H(b)
         /\ HostEnd(b) = nwritten[b] /\ HostEnd(b)' = WriteTo(b)
         /\ DevEnd(b) = WriteTo(b) /\ DevEnd(b)' = DevEnd(b)
         /\ ReadyEnd(b) = WriteTo(b) /\ ReadyEnd(b)' = ReadyEnd(b)
<1>1. PostStep(k, b, "publish") /\ call[k] = <<>> /\ D2H(b) /\ ~H2D(b)
  BY Graph DEF post_work_d2h, At, PostStep, ControlOK, ThreadOK, Ports
<1>2. /\ nread' = nread /\ nwritten' = nwritten /\ Writer[b] = k /\ batch' = batch
      /\ pc' = pc /\ todo' = todo /\ call'[k] = <<"publish", b>> /\ pc[k] = "post" /\ b \in todo[k]
  BY <1>1 DEF PostStep, counts, Outs, TypeOK
<1>3. /\ Made(k, b) /\ Made(k, b)' /\ ~Unrecorded(k, b) /\ ~Unrecorded(k, b)'
      /\ ~Hosted(k, b) /\ Hosted(k, b)' /\ Writing(k, b)
  BY <1>1, <1>2 DEF Made, Unrecorded, Hosted, Worked, Writing
<1> QED
  BY <1>1, <1>2, <1>3 DEF WriteTo, DevEnd, ReadyEnd, HostEnd, Plus

\* Nothing is copied.
LEMMA NoCopyCounts ==
  ASSUME TypeOK, ControlOK, NEW k \in Blocks, NEW b \in Buffers, post_work_d2d(k, b)
  PROVE  PostStep(k, b, "publish") /\ SameCounts
<1>1. PostStep(k, b, "publish") /\ call[k] = <<>> /\ ~D2H(b) /\ ~H2D(b)
  BY DEF post_work_d2d, At, PostStep, ControlOK, ThreadOK, Ports
<1>2. /\ nread' = nread /\ nwritten' = nwritten /\ Writer[b] = k /\ batch' = batch
      /\ pc' = pc /\ todo' = todo
  BY <1>1 DEF PostStep, counts, Outs, TypeOK
<1>3. SameWrites(b)
  BY <1>1, <1>2 DEF SameWrites, WriteTo, DevEnd, ReadyEnd, HostEnd, Plus, Writing, Worked, Made, Unrecorded, Hosted
<1> QED
  BY <1>1, <1>2, <1>3, PostCounts DEF SameCounts

-----------------------------------------------------------------------------
(* The control of the threads is an invariant.                             *)

\* A step of k that leaves its phase and its batch, and moves its call.
LEMMA OwnCall ==
  ASSUME TypeOK, ControlOK, NEW k \in Blocks, NEW b \in Buffers, BufferCall(k, b)
  PROVE  ControlOK'
<1>1. /\ pc' = pc /\ batch' = batch
      /\ \A j \in Blocks \ {k} : call'[j] = call[j] /\ todo'[j] = todo[j]
      /\ todo'[k] \in {todo[k], todo[k] \ {b}}
  BY DEF BufferCall, post_work, wait_for_work, mark_device_ready, mark_read_done_wait,
     mark_read_done_record, wait_host_ready, wait_host_ready_return, Consume, Publish,
     post_work_h2d, post_work_h2d_ready, post_work_d2h, post_work_d2d, Finish, TypeOK
<1>2. \/ call'[k] = <<>>
      \/ /\ call'[k] = <<"read_done", b>> /\ pc[k] = "release" /\ b \in todo[k]
         /\ \A j \in Blocks : call[j] # <<"read_done", b>>
         /\ todo'[k] = todo[k]
      \/ /\ call'[k] = <<"host_ready", b>> /\ pc[k] = "wait" /\ b \in todo[k] /\ k \in Cpu
         /\ todo'[k] = todo[k]
      \/ /\ call'[k] = <<"dev_ready", b>> /\ pc[k] = "post" /\ b \in todo[k] /\ H2D(b)
         /\ todo'[k] = todo[k]
      \/ call'[k] = <<"publish", b>> /\ pc[k] = "post" /\ b \in todo[k] /\ todo'[k] = todo[k]
  <2>1. CASE wait_for_work(k, b) \/ mark_device_ready(k, b) \/ Consume(k, b)
    BY <2>1 DEF wait_for_work, mark_device_ready, Consume, At
  <2>2. CASE \/ mark_read_done_record(k, b) \/ wait_host_ready_return(k, b) \/ Publish(k, b)
    BY <2>2 DEF mark_read_done_record, wait_host_ready_return, Publish, TypeOK
  <2>3. CASE mark_read_done_wait(k, b)
    BY <2>3 DEF mark_read_done_wait, At, TypeOK
  <2>4. CASE wait_host_ready(k, b)
    BY <2>4 DEF wait_host_ready, At, TypeOK
  <2>5. CASE post_work_h2d(k, b)
    BY <2>5 DEF post_work_h2d, At, TypeOK
  <2>6. CASE post_work_h2d_ready(k, b)
    BY <2>6 DEF post_work_h2d_ready, TypeOK, ControlOK, ThreadOK
  <2>7. CASE post_work_d2h(k, b)
    BY <2>7 DEF post_work_d2h, At, TypeOK
  <2>8. CASE post_work_d2d(k, b)
    BY <2>8 DEF post_work_d2d, At, TypeOK
  <2> QED
    BY <2>1, <2>2, <2>3, <2>4, <2>5, <2>6, <2>7, <2>8 DEF BufferCall, post_work
<1>3. \A fn \in Calls, c \in Buffers : call'[k] = <<fn, c>> => c = b
  BY <1>2
<1>4. ThreadOK(k)'
  <2>1. todo'[k] \subseteq Ports(k, pc'[k])
    BY <1>1 DEF ControlOK, ThreadOK
  <2>2. pc[k] \in {"idle", "work", "halted"} => call'[k] = <<>>
    BY <1>2
  <2>3. ASSUME NEW c \in Buffers
        PROVE  /\ call'[k] = <<"read_done", c>> => pc[k] = "release" /\ c \in todo'[k]
               /\ call'[k] = <<"host_ready", c>> => pc[k] = "wait" /\ c \in todo'[k] /\ k \in Cpu
               /\ call'[k] = <<"dev_ready", c>> => pc[k] = "post" /\ c \in todo'[k] /\ H2D(c)
               /\ call'[k] = <<"publish", c>> => pc[k] = "post" /\ c \in todo'[k]
    <3>1. call'[k] \in {<<"read_done", c>>, <<"host_ready", c>>, <<"dev_ready", c>>, <<"publish", c>>} => c = b
      BY <1>3 DEF Calls
    <3> QED
      BY <1>2, <3>1
  <2> QED
    BY <1>1, <2>1, <2>2, <2>3 DEF ControlOK, ThreadOK, Ports
<1>5. \A j \in Blocks \ {k} : ThreadOK(j)'
  BY <1>1 DEF ControlOK, ThreadOK, Ports
<1>6. OneMarks'
  <2> SUFFICES ASSUME NEW c \in Buffers, NEW i \in Blocks, NEW j \in Blocks,
                      call'[i] = <<"read_done", c>>, call'[j] = <<"read_done", c>>
               PROVE  i = j
    BY DEF OneMarks
  <2>1. CASE i # k /\ j # k
    BY <1>1, <2>1 DEF ControlOK, OneMarks
  <2>2. ASSUME call'[k] = <<"read_done", c>> PROVE c = b /\ \A l \in Blocks : call[l] # <<"read_done", b>>
    BY <1>2, <2>2
  <2> QED
    BY <1>1, <2>1, <2>2
<1> QED
  BY <1>4, <1>5, <1>6 DEF ControlOK

\* A step of k that moves its phase between two calls.
LEMMA OwnPhase ==
  ASSUME TypeOK, ControlOK, NEW k \in Blocks,
         \/ \E n \in 1..N : Poll(k, n)
         \/ EndLoop(k) \/ Kernel(k) \/ CpuWork(k) \/ Halt(k)
  PROVE  ControlOK'
<1>1. /\ \A j \in Blocks \ {k} : pc'[j] = pc[j] /\ todo'[j] = todo[j] /\ batch'[j] = batch[j]
      /\ call' = call /\ call[k] = <<>>
      /\ todo'[k] = Ports(k, pc'[k])
      /\ pc'[k] \in {"ready", "release"} => k \in Gpu
  <2>1. CASE \E n \in 1..N : Poll(k, n)
    BY <2>1 DEF Poll, Enter, TypeOK, ControlOK, ThreadOK
  <2>2. CASE EndLoop(k)
    BY <2>2, Graph DEF EndLoop, Enter, After, TypeOK, ControlOK, ThreadOK
  <2>3. CASE Kernel(k) \/ CpuWork(k)
    BY <2>3, Graph DEF Kernel, CpuWork, Enter, After, TypeOK, ControlOK, ThreadOK
  <2>4. CASE Halt(k)
    BY <2>4 DEF Halt, Enter, TypeOK, ControlOK, ThreadOK
  <2> QED
    BY <2>1, <2>2, <2>3, <2>4
<1>2. pc'[k] \in Active => batch'[k] >= 1 /\ (Outs(k) # {} => batch'[k] <= WorkLimit)
  <2>1. CASE \E n \in 1..N : Poll(k, n)
    <3>1. PICK n \in 1..N : Poll(k, n)
      BY <2>1
    <3>2. batch'[k] = n /\ (Outs(k) # {} => n <= WorkLimit)
      BY <3>1 DEF Poll, TypeOK
    <3> QED
      BY <3>2
  <2>2. CASE EndLoop(k) \/ Kernel(k) \/ CpuWork(k)
    BY <2>2 DEF EndLoop, Kernel, CpuWork, ControlOK, ThreadOK, Active
  <2>3. CASE Halt(k)
    BY <2>3 DEF Halt, Enter, TypeOK, Active
  <2> QED
    BY <2>1, <2>2, <2>3
<1>3. ThreadOK(k)'
  BY <1>1, <1>2 DEF ThreadOK, Ports
<1>4. \A j \in Blocks \ {k} : ThreadOK(j)'
  BY <1>1 DEF ControlOK, ThreadOK, Ports
<1>5. OneMarks'
  BY <1>1 DEF ControlOK, OneMarks
<1> QED
  BY <1>3, <1>4, <1>5 DEF ControlOK

LEMMA ControlRest ==
  ASSUME ControlOK, UNCHANGED control
  PROVE  ControlOK'
  BY DEF control, ControlOK, ThreadOK, OneMarks, Ports

LEMMA ControlStep ==
  ASSUME TypeOK, ControlOK, [Next]_vars
  PROVE  ControlOK'
<1>1. ASSUME NEW k \in Blocks, Thread(k) PROVE ControlOK'
  BY <1>1, OwnCall, OwnPhase DEF Thread
<1>2. ASSUME NEW s \in Streams, Exec(s) PROVE ControlOK'
  BY <1>2, ControlRest DEF Exec
<1>3. ASSUME NEW b \in Buffers, Destroy(b) \/ Free(b) PROVE ControlOK'
  BY <1>3, ControlRest DEF Destroy, Free
<1>4. CASE UNCHANGED vars
  BY <1>4, ControlRest DEF vars
<1> QED
  BY <1>1, <1>2, <1>3, <1>4, OwnPhase DEF Next, Teardown

-----------------------------------------------------------------------------
(* Every reader stays behind the writer, and every writer within the ring. *)

\* Between two polls nothing more is claimed, and the indices only grow.
LEMMA CountsGrow ==
  ASSUME TypeOK, ControlOK, [Next]_vars, ~ \E k \in Blocks : \E n \in 1..N : Poll(k, n)
  PROVE  \A b \in Buffers :
           /\ nwritten'[b] >= nwritten[b] /\ WriteTo(b)' = WriteTo(b)
           /\ \A r \in Readers[b] : nread'[b][r] >= nread[b][r] /\ ReadTo(b, r)' = ReadTo(b, r)
<1> DEFINE Goal == \A b \in Buffers :
           /\ nwritten'[b] >= nwritten[b] /\ WriteTo(b)' = WriteTo(b)
           /\ \A r \in Readers[b] : nread'[b][r] >= nread[b][r] /\ ReadTo(b, r)' = ReadTo(b, r)
<1>0. \A b \in Buffers : /\ nwritten[b] \in Nat /\ WriteTo(b) \in Nat /\ WriteTo(b) >= nwritten[b]
                         /\ \A r \in Readers[b] : /\ nread[b][r] \in Nat /\ ReadTo(b, r) \in Nat
                                                  /\ ReadTo(b, r) >= nread[b][r]
  BY CountType, Graph DEF WriteTo, ReadTo, Plus
<1>1. ASSUME SameCounts PROVE Goal
  BY <1>0, <1>1 DEF SameCounts, SameWrites, SameReads
<1>2. ASSUME NEW k \in Blocks, Thread(k) PROVE Goal
  <2>1. CASE EndLoop(k)
    BY <1>1, <2>1, EndLoopCounts
  <2>2. CASE Kernel(k)
    BY <1>0, <2>2, KernelCounts
  <2>3. CASE CpuWork(k)
    BY <1>0, <2>3, CpuWorkCounts DEF SameReads
  <2>4. ASSUME NEW b \in Buffers, BufferCall(k, b) PROVE Goal
    <3>1. CASE \/ wait_for_work(k, b) \/ mark_read_done_wait(k, b)
               \/ wait_host_ready(k, b) \/ wait_host_ready_return(k, b)
      BY <1>1, <3>1, WaitCounts
    <3>2. CASE mark_device_ready(k, b)
      BY <1>0, <3>2, MarkReadyCounts DEF SameReads
    <3>3. CASE mark_read_done_record(k, b)
      BY <1>0, <3>3, MarkReadCounts DEF SameWrites
    <3>4. CASE Consume(k, b)
      <4>1. /\ nwritten' = nwritten
            /\ nread' = [nread EXCEPT ![b] = [@ EXCEPT ![k] = ReadTo(b, k)]]
            /\ \A c \in Buffers : SameWrites(c) /\ \A r \in Readers[c] : SameReads(c, r)
        BY <3>4, ConsumeCounts
      <4>2. b \in Buffers /\ k \in Readers[b]
        BY <3>4 DEF Consume, At, ControlOK, ThreadOK, Ports, Ins
      <4>3. \A c \in Buffers : \A r \in Readers[c] :
              nread'[c][r] = IF c = b /\ r = k THEN ReadTo(b, k) ELSE nread[c][r]
        BY <4>1, <4>2, Graph DEF TypeOK
      <4> QED
        BY <1>0, <4>1, <4>2, <4>3 DEF SameWrites, SameReads
    <3>5. CASE Publish(k, b)
      <4>1. /\ nread' = nread /\ nwritten' = [nwritten EXCEPT ![b] = WriteTo(b)]
            /\ \A c \in Buffers : SameWrites(c) /\ \A r \in Readers[c] : SameReads(c, r)
        BY <3>5, PublishCounts
      <4>2. \A c \in Buffers : nwritten'[c] = IF c = b THEN WriteTo(b) ELSE nwritten[c]
        BY <4>1 DEF TypeOK
      <4> QED
        BY <1>0, <4>1, <4>2 DEF SameWrites, SameReads
    <3>6. CASE \/ post_work_h2d(k, b) \/ post_work_h2d_ready(k, b)
               \/ post_work_d2h(k, b) \/ post_work_d2d(k, b)
      <4>1. PICK fn \in {"dev_ready", "publish"} : PostStep(k, b, fn)
        BY <3>6, UploadCounts, UploadReadyCounts, DownloadCounts, NoCopyCounts
      <4> QED
        BY <1>0, <4>1, PostCounts DEF SameReads
    <3> QED
      BY <2>4, <3>1, <3>2, <3>3, <3>4, <3>5, <3>6 DEF BufferCall, post_work
  <2> QED
    BY <1>2, <2>1, <2>2, <2>3, <2>4 DEF Thread
<1>3. CASE UNCHANGED <<counts, pc, todo, call, batch>>
  BY <1>1, <1>3, CountsRest
<1>4. ASSUME NEW k \in Blocks, Halt(k) PROVE Goal
  BY <1>1, <1>4, HaltCounts
<1> QED
  BY <1>2, <1>3, <1>4 DEF Next, Teardown, Exec, Destroy, Free, control, vars

LEMMA CountsStep ==
  ASSUME TypeOK, TypeOK', ControlOK, CountsOK, [Next]_vars
  PROVE  CountsOK'
<1>0. \A b \in Buffers : /\ nwritten[b] \in Nat /\ WriteTo(b) \in Nat /\ nwritten[b] <= WriteTo(b)
                         /\ \A r \in Readers[b] : nread[b][r] \in Nat /\ ReadTo(b, r) \in Nat
  BY CountType, Graph DEF WriteTo, ReadTo, Plus
<1>1. ASSUME NEW k \in Blocks, NEW n \in 1..N, Poll(k, n) PROVE CountsOK'
  <2>1. ASSUME NEW b \in Buffers, NEW r \in Readers[b] PROVE ReadTo(b, r)' <= nwritten'[b]
    <3>1. CASE r # k
      BY <1>1, <2>1, <3>1, PollCounts DEF CountsOK
    <3>2. CASE r = k
      <4>1. n <= nwritten[b] - nread[b][k]
        BY <1>1, <3>2 DEF Poll, Ins
      <4>2. ReadTo(b, r)' = nread[b][k] + n /\ nwritten' = nwritten
        BY <1>1, <3>2, PollCounts
      <4> QED
        BY <1>0, <3>2, <4>1, <4>2
    <3> QED
      BY <3>1, <3>2
  <2>2. ASSUME NEW b \in Buffers, NEW r \in Readers[b] PROVE WriteTo(b)' <= nread'[b][r] + N - 1
    <3>1. CASE Writer[b] # k
      BY <1>1, <3>1, PollCounts DEF CountsOK
    <3>2. CASE Writer[b] = k
      <4>1. n <= N - (nwritten[b] - nread[b][r]) - 1
        BY <1>1, <3>2 DEF Poll, Outs
      <4>2. WriteTo(b)' = nwritten[b] + n /\ nread' = nread
        BY <1>1, <3>2, PollCounts
      <4> QED
        BY <1>0, <4>1, <4>2, Graph
    <3> QED
      BY <3>1, <3>2
  <2> QED
    BY <2>1, <2>2 DEF CountsOK
<1>2. CASE ~ \E k \in Blocks : \E n \in 1..N : Poll(k, n)
  <2>1. ASSUME NEW b \in Buffers, NEW r \in Readers[b]
        PROVE  ReadTo(b, r)' <= nwritten'[b] /\ WriteTo(b)' <= nread'[b][r] + N - 1
    <3>1. /\ nwritten'[b] >= nwritten[b] /\ nread'[b][r] >= nread[b][r]
          /\ ReadTo(b, r)' = ReadTo(b, r) /\ WriteTo(b)' = WriteTo(b)
      BY <1>2, CountsGrow
    <3>2. ReadTo(b, r) <= nwritten[b] /\ WriteTo(b) <= nread[b][r] + N - 1
      BY DEF CountsOK
    <3>3. nwritten'[b] \in Nat /\ nread'[b][r] \in Nat
      BY Graph DEF TypeOK
    <3> QED
      BY <1>0, <3>1, <3>2, <3>3, Graph
  <2> QED
    BY <2>1 DEF CountsOK
<1> QED
  BY <1>1, <1>2

\* A block that reads its own output never starts.
LEMMA LoopsStep ==
  ASSUME TypeOK, ControlOK, CountsOK, LoopsIdle, [Next]_vars
  PROVE  LoopsIdle'
<1> SUFFICES ASSUME NEW b \in Buffers, Writer[b] \in Readers[b]
             PROVE  nwritten'[b] = 0 /\ pc'[Writer[b]] \in {"idle", "halted"}
  BY DEF LoopsIdle
<1> DEFINE w == Writer[b]
<1>1. nwritten[b] = 0 /\ pc[w] \in {"idle", "halted"} /\ call[w] = <<>> /\ todo[w] = {} /\ w \in Blocks
      /\ b \in Ins(w)
  BY Graph DEF LoopsIdle, ControlOK, ThreadOK, Ports, Ins
<1>2. ASSUME NEW k \in Blocks, Thread(k)
      PROVE  nwritten'[b] = nwritten[b] /\ pc'[w] = pc[w]
  <2>1. CASE \E n \in 1..N : Poll(k, n)
    <3>1. PICK n \in 1..N : Poll(k, n)
      BY <2>1
    <3>2. k # w
      BY <1>1, <3>1, CountType DEF Poll
    <3> QED
      BY <1>1, <3>1, <3>2 DEF Poll, Enter, counts
  <2>2. CASE EndLoop(k) \/ Kernel(k) \/ CpuWork(k)
    <3>1. k # w
      BY <1>1, <2>2 DEF EndLoop, Kernel, CpuWork
    <3> QED
      BY <1>1, <2>2, <3>1 DEF EndLoop, Kernel, CpuWork, Enter, counts, TypeOK
  <2>3. ASSUME NEW c \in Buffers, BufferCall(k, c)
        PROVE  nwritten'[b] = nwritten[b] /\ pc'[w] = pc[w]
    <3>1. CASE Publish(k, c)
      <4>1. c # b
        BY <1>1, <3>1 DEF Publish, ControlOK, ThreadOK, Ports, Outs
      <4> QED
        BY <3>1, <4>1 DEF Publish, TypeOK
    <3>2. CASE ~Publish(k, c)
      BY <2>3, <3>2 DEF BufferCall, post_work, wait_for_work, mark_device_ready, mark_read_done_wait,
         mark_read_done_record, wait_host_ready, wait_host_ready_return, Consume,
         post_work_h2d, post_work_h2d_ready, post_work_d2h, post_work_d2d, counts
    <3> QED
      BY <3>1, <3>2
  <2> QED
    BY <1>2, <2>1, <2>2, <2>3 DEF Thread
<1>3. ASSUME NEW k \in Blocks, Halt(k)
      PROVE  nwritten'[b] = nwritten[b] /\ pc'[w] \in {"idle", "halted"}
  BY <1>1, <1>3 DEF Halt, Enter, counts, TypeOK
<1>4. CASE \/ \E s \in Streams : Exec(s)
           \/ \E c \in Buffers : Destroy(c) \/ Free(c)
           \/ UNCHANGED vars
  BY <1>1, <1>4 DEF Exec, Destroy, Free, vars, control, counts
<1> QED
  BY <1>1, <1>2, <1>3, <1>4 DEF Next, Teardown

Base == TypeOK /\ ControlOK /\ CountsOK /\ LoopsIdle

LEMMA BaseInvariant == Spec => []Base
<1>1. Init => ControlOK /\ CountsOK /\ LoopsIdle
  <2> SUFFICES ASSUME Init PROVE ControlOK /\ CountsOK /\ LoopsIdle
    OBVIOUS
  <2>1. ControlOK
    BY DEF Init, ControlOK, ThreadOK, OneMarks, Ports, Active
  <2>2. CountsOK
    BY Graph DEF Init, CountsOK, ReadTo, WriteTo, Plus, Reading, Writing
  <2>3. LoopsIdle
    BY Graph DEF Init, LoopsIdle
  <2> QED
    BY <2>1, <2>2, <2>3
<1>2. TypeOK /\ TypeOK' /\ ControlOK /\ CountsOK /\ LoopsIdle /\ [Next]_vars
        => ControlOK' /\ CountsOK' /\ LoopsIdle'
  BY ControlStep, CountsStep, LoopsStep
<1> QED
  BY <1>1, <1>2, Typing, PTL DEF Spec, Base

-----------------------------------------------------------------------------
(* Positions and cuts.                                                     *)

\* The position of the last operation enqueued on stream s.
End(s) == done[s] + Len(queue[s])

\* The positions of the operations of s that are not executed.
Waiting(s) == (done[s] + 1)..End(s)

OpAt(s, p) == queue[s][p - done[s]]

Within(e, D) == e.pos <= D[e.stream]

\* D[s] operations of every stream s, in an order the events allow.
Cut(D) ==
  /\ D \in [Streams -> Nat]
  /\ \A s \in Streams : done[s] <= D[s]
  /\ \A s \in Streams : \A p \in Waiting(s) :
       p <= D[s] => Within(OpAt(s, p).after, D)

Cuts == [Streams -> Nat]

-----------------------------------------------------------------------------
(* The streams.                                                            *)

LEMMA PositionType ==
  ASSUME TypeOK
  PROVE  \A s \in Streams :
           /\ done[s] \in Nat /\ End(s) \in Nat /\ Len(queue[s]) \in Nat
           /\ queue[s] \in Seq(Op)
           /\ \A p \in Waiting(s) : p \in Nat /\ p > 0 /\ OpAt(s, p) \in Op
           /\ \A p \in Nat : p \in Waiting(s) <=> done[s] < p /\ p <= End(s)
  BY DEF TypeOK, End, Waiting, OpAt

\* What enqueuing does.
LEMMA AddEffect ==
  ASSUME TypeOK, NEW s \in Streams, NEW ops \in Seq(Op), Enqueue(s, ops), done' = done
  PROVE  /\ End(s)' = End(s) + Len(ops)
         /\ \A t \in Streams \ {s} : End(t)' = End(t)
         /\ \A t \in Streams : \A p \in Waiting(t) :
              p \in Waiting(t)' /\ OpAt(t, p)' = OpAt(t, p)
         /\ \A t \in Streams : \A p \in Waiting(t)' :
              \/ p \in Waiting(t)
              \/ t = s /\ p > End(s) /\ p <= End(s) + Len(ops) /\ OpAt(s, p)' = ops[p - End(s)]
<1>1. /\ queue \in [Streams -> Seq(Op)] /\ done \in [Streams -> Nat]
      /\ queue'[s] = queue[s] \o ops
      /\ \A t \in Streams \ {s} : queue'[t] = queue[t]
  BY DEF TypeOK, Enqueue
<1>2. /\ queue[s] \in Seq(Op) /\ Len(queue[s]) \in Nat /\ Len(ops) \in Nat
      /\ Len(queue'[s]) = Len(queue[s]) + Len(ops)
      /\ \A i \in 1..Len(queue[s]) : queue'[s][i] = queue[s][i]
      /\ \A i \in (Len(queue[s]) + 1)..(Len(queue[s]) + Len(ops)) :
           queue'[s][i] = ops[i - Len(queue[s])]
  BY <1>1
<1>3. \A t \in Streams : done[t] \in Nat /\ Len(queue[t]) \in Nat
  BY <1>1
<1>4. End(s)' = End(s) + Len(ops) /\ \A t \in Streams \ {s} : End(t)' = End(t)
  BY <1>1, <1>2, <1>3 DEF End
<1>5. ASSUME NEW t \in Streams, NEW p \in Waiting(t)
      PROVE  p \in Waiting(t)' /\ OpAt(t, p)' = OpAt(t, p)
  <2>1. CASE t # s
    BY <1>1, <2>1 DEF Waiting, End, OpAt
  <2>2. CASE t = s
    <3>1. p \in (done[s] + 1)..(done[s] + Len(queue[s]))
      BY <2>2 DEF Waiting, End
    <3>2. p - done[s] \in 1..Len(queue[s])
      BY <1>2, <1>3, <3>1
    <3>3. p \in (done[s] + 1)..(done[s] + (Len(queue[s]) + Len(ops)))
      BY <1>2, <1>3, <3>1
    <3> QED
      BY <1>1, <1>2, <2>2, <3>2, <3>3 DEF Waiting, End, OpAt
  <2> QED
    BY <2>1, <2>2
<1>6. ASSUME NEW t \in Streams, NEW p \in Waiting(t)', p \notin Waiting(t)
      PROVE  t = s /\ p > End(s) /\ p <= End(s) + Len(ops) /\ OpAt(s, p)' = ops[p - End(s)]
  <2>1. t = s
    BY <1>1, <1>6 DEF Waiting, End
  <2>2. p \in Nat /\ p > done[s] + Len(queue[s]) /\ p <= done[s] + Len(queue[s]) + Len(ops)
    BY <1>1, <1>2, <1>3, <1>6, <2>1 DEF Waiting, End
  <2> QED
    BY <1>1, <1>2, <1>3, <2>1, <2>2 DEF End, OpAt
<1> QED
  BY <1>4, <1>5, <1>6

\* What executing does.
LEMMA ExecEffect ==
  ASSUME TypeOK, NEW s \in Streams, Exec(s)
  PROVE  /\ \A t \in Streams : End(t)' = End(t)
         /\ \A t \in Streams : \A p \in Waiting(t)' :
              p \in Waiting(t) /\ OpAt(t, p)' = OpAt(t, p)
         /\ \A t \in Streams : \A p \in Waiting(t) :
              p \in Waiting(t)' \/ (t = s /\ p = done[s] + 1)
         /\ done[s] + 1 \in Waiting(s) /\ Head(queue[s]) = OpAt(s, done[s] + 1)
         /\ \A p \in Waiting(s)' : p > done[s] + 1
         /\ done' = [done EXCEPT ![s] = @ + 1]
         /\ Within(OpAt(s, done[s] + 1).after, done)
<1>1. /\ queue \in [Streams -> Seq(Op)] /\ done \in [Streams -> Nat]
      /\ queue[s] # <<>> /\ queue'[s] = Tail(queue[s])
      /\ \A t \in Streams \ {s} : queue'[t] = queue[t] /\ done'[t] = done[t]
      /\ done' = [done EXCEPT ![s] = @ + 1] /\ done'[s] = done[s] + 1
      /\ Complete(Head(queue[s]).after)
  BY DEF TypeOK, Exec, Runnable
<1>2. /\ queue[s] \in Seq(Op) /\ Len(queue[s]) \in Nat /\ Len(queue[s]) >= 1
      /\ Len(queue'[s]) = Len(queue[s]) - 1
      /\ \A i \in 1..(Len(queue[s]) - 1) : queue'[s][i] = queue[s][i + 1]
      /\ Head(queue[s]) = queue[s][1]
  BY <1>1
<1>3. \A t \in Streams : done[t] \in Nat /\ Len(queue[t]) \in Nat
  BY <1>1
<1>4. ASSUME NEW t \in Streams PROVE End(t)' = End(t)
  <2>1. CASE t # s
    BY <1>1, <2>1 DEF End
  <2>2. CASE t = s
    <3>1. \A d, l \in Nat : d + 1 + (l - 1) = d + l
      OBVIOUS
    <3>3. done[s] + 1 + (Len(queue[s]) - 1) = done[s] + Len(queue[s])
      BY <1>2, <1>3, <3>1
    <3>2. done'[t] + Len(queue'[t]) = done[s] + 1 + (Len(queue[s]) - 1)
      BY <1>1, <1>2, <2>2
    <3> QED
      BY <2>2, <3>2, <3>3 DEF End
  <2> QED
    BY <2>1, <2>2
<1>5. ASSUME NEW t \in Streams, NEW p \in Waiting(t)'
      PROVE  p \in Waiting(t) /\ OpAt(t, p)' = OpAt(t, p)
  <2>1. CASE t = s
    <3>1. p \in (done[s] + 2)..(done[s] + Len(queue[s]))
      BY <1>1, <1>2, <1>3, <2>1 DEF Waiting, End
    <3>2. /\ p \in (done[s] + 1)..(done[s] + Len(queue[s]))
          /\ p - (done[s] + 1) \in 1..(Len(queue[s]) - 1)
          /\ p - (done[s] + 1) + 1 = p - done[s]
      BY <1>2, <1>3, <3>1
    <3> QED
      BY <1>1, <1>2, <2>1, <3>2 DEF Waiting, End, OpAt
  <2>2. CASE t # s
    BY <1>1, <1>2, <1>3, <2>2 DEF Waiting, End, OpAt
  <2> QED
    BY <2>1, <2>2
<1>6. ASSUME NEW t \in Streams, NEW p \in Waiting(t)
      PROVE  p \in Waiting(t)' \/ (t = s /\ p = done[s] + 1)
  BY <1>1, <1>2, <1>3 DEF Waiting, End
<1>7. done[s] + 1 \in Waiting(s) /\ Head(queue[s]) = OpAt(s, done[s] + 1)
  BY <1>1, <1>2, <1>3 DEF Waiting, End, OpAt
<1>8. \A p \in Waiting(s)' : p > done[s] + 1
  BY <1>1, <1>2, <1>3 DEF Waiting, End
<1>9. Within(OpAt(s, done[s] + 1).after, done)
  BY <1>1, <1>7 DEF Complete, Within
<1> QED
  BY <1>1, <1>4, <1>5, <1>6, <1>7, <1>8, <1>9

\* What is neither does nothing to the streams.
LEMMA StillEffect ==
  ASSUME queue' = queue, done' = done
  PROVE  \A t \in Streams :
           /\ End(t)' = End(t) /\ Waiting(t)' = Waiting(t)
           /\ \A p \in Waiting(t) : OpAt(t, p)' = OpAt(t, p)
  BY DEF End, Waiting, OpAt

\* Every step enqueues on one stream, executes one operation or does neither.
StreamStep ==
  \/ queue' = queue /\ done' = done
  \/ \E s \in Streams : done' = done /\ \E ops \in Seq(Op) : Enqueue(s, ops)
  \/ \E s \in Streams : Exec(s)

\* A cut after a step is a cut before it.
LEMMA CutBack ==
  ASSUME TypeOK, StreamStep, NEW D \in Cuts, Cut(D)'
  PROVE  Cut(D)
<1>1. /\ \A s \in Streams : D[s] \in Nat /\ done'[s] <= D[s]
      /\ \A s \in Streams : \A p \in Waiting(s)' :
           p <= D[s] => Within(OpAt(s, p).after, D)'
  BY DEF Cut, Cuts
<1>2. \A s \in Streams : \A p \in Waiting(s)' :
           p <= D[s] => Within(OpAt(s, p)'.after, D)
  BY <1>1 DEF Within
<1>3. CASE queue' = queue /\ done' = done
  BY <1>1, <1>2, <1>3, StillEffect DEF Cut, Cuts
<1>4. ASSUME NEW s \in Streams, NEW ops \in Seq(Op), done' = done, Enqueue(s, ops)
      PROVE  Cut(D)
  BY <1>1, <1>2, <1>4, AddEffect DEF Cut, Cuts
<1>5. ASSUME NEW s \in Streams, Exec(s) PROVE Cut(D)
  <2>1. /\ \A t \in Streams : \A p \in Waiting(t) :
              p \in Waiting(t)' \/ (t = s /\ p = done[s] + 1)
        /\ \A t \in Streams : \A p \in Waiting(t)' : OpAt(t, p)' = OpAt(t, p)
        /\ done' = [done EXCEPT ![s] = @ + 1]
        /\ Within(OpAt(s, done[s] + 1).after, done)
        /\ done[s] + 1 \in Waiting(s)
    BY <1>5, ExecEffect
  <2>2. \A t \in Streams : done[t] \in Nat /\ done'[t] \in Nat /\ done[t] <= done'[t]
    BY <2>1 DEF TypeOK
  <2>3. ASSUME NEW t \in Streams PROVE done[t] <= D[t]
    <3>1. done[t] \in Nat /\ done'[t] \in Nat /\ D[t] \in Nat
      BY <1>1, <2>2
    <3> QED
      BY <1>1, <2>2, <3>1
  <2>4. OpAt(s, done[s] + 1).after \in Event
    BY <2>1, PositionType DEF Op
  <2>5. Within(OpAt(s, done[s] + 1).after, D)
    BY <1>1, <2>1, <2>3, <2>4, <2>2 DEF Within, Event
  <2>6. \A t \in Streams : \A p \in Waiting(t) : p <= D[t] => Within(OpAt(t, p).after, D)
    BY <1>2, <2>1, <2>5
  <2> QED
    BY <2>3, <2>6 DEF Cut, Cuts
<1> QED
  BY <1>3, <1>4, <1>5 DEF StreamStep

\* What is executed is a cut.
LEMMA DoneIsCut ==
  ASSUME TypeOK
  PROVE  \E D \in Cuts : D = done /\ Cut(D)
<1>1. done \in Cuts /\ \A s \in Streams : done[s] \in Nat
  BY DEF TypeOK, Cuts
<1>2. PICK D \in Cuts : D = done
  BY <1>1
<1>3. Cut(D)
  BY <1>1, <1>2, PositionType DEF Cut, Cuts
<1> QED
  BY <1>2, <1>3

-----------------------------------------------------------------------------
(* What the steps do to the streams.                                       *)

\* n operations are added to stream s.
Grows(s, n) ==
  /\ done' = done
  /\ End(s)' = End(s) + n
  /\ \A t \in Streams \ {s} : End(t)' = End(t)
  /\ \A t \in Streams : \A p \in Waiting(t) :
       p \in Waiting(t)' /\ OpAt(t, p)' = OpAt(t, p)
  /\ \A t \in Streams : \A p \in Waiting(t)' :
       p \in Waiting(t) \/ (t = s /\ p > End(s) /\ p <= End(s) + n)

\* Nothing happens to the streams.
Rests ==
  /\ done' = done /\ queue' = queue
  /\ \A t \in Streams :
       /\ End(t)' = End(t) /\ Waiting(t)' = Waiting(t)
       /\ \A p \in Waiting(t) : OpAt(t, p)' = OpAt(t, p)

\* The first operation of stream s is executed.
Executes(s) ==
  /\ \A t \in Streams : End(t)' = End(t)
  /\ \A t \in Streams : \A p \in Waiting(t)' :
       p \in Waiting(t) /\ OpAt(t, p)' = OpAt(t, p)
  /\ \A t \in Streams : \A p \in Waiting(t) :
       p \in Waiting(t)' \/ (t = s /\ p = done[s] + 1)
  /\ done[s] + 1 \in Waiting(s) /\ Head(queue[s]) = OpAt(s, done[s] + 1)
  /\ \A p \in Waiting(s)' : p > done[s] + 1
  /\ done' = [done EXCEPT ![s] = @ + 1]
  /\ Within(OpAt(s, done[s] + 1).after, done)

LEMMA ExecExecutes ==
  ASSUME TypeOK, NEW s \in Streams, Exec(s) PROVE Executes(s)
  BY ExecEffect DEF Executes

LEMMA AddGrows ==
  ASSUME TypeOK, NEW s \in Streams, NEW ops \in Seq(Op), Enqueue(s, ops), done' = done
  PROVE  /\ Grows(s, Len(ops)) /\ StreamStep
         /\ \A p \in Waiting(s)' : p \notin Waiting(s) => OpAt(s, p)' = ops[p - End(s)]
  BY AddEffect DEF Grows, StreamStep

LEMMA OthersRestStreams ==
  ASSUME queue' = queue, done' = done PROVE Rests /\ StreamStep
  BY StillEffect DEF Rests, StreamStep

LEMMA AddOne ==
  ASSUME TypeOK, NEW s \in Streams, NEW op \in Op, Enqueue(s, <<op>>), done' = done
  PROVE  /\ Grows(s, 1) /\ StreamStep
         /\ \A p \in Waiting(s)' : p \notin Waiting(s) => p = End(s) + 1 /\ OpAt(s, p)' = op
<1>1. <<op>> \in Seq(Op) /\ Len(<<op>>) = 1 /\ <<op>>[1] = op
  OBVIOUS
<1>2. /\ Grows(s, 1) /\ StreamStep
      /\ \A p \in Waiting(s)' : p \notin Waiting(s) => OpAt(s, p)' = <<op>>[p - End(s)]
  BY <1>1, AddGrows
<1>3. End(s) \in Nat
  BY PositionType
<1>4. ASSUME NEW p \in Waiting(s)', p \notin Waiting(s) PROVE p = End(s) + 1 /\ p - End(s) = 1
  <2>1. p > End(s) /\ p <= End(s) + 1 /\ p \in Int
    BY <1>2, <1>4 DEF Grows, Waiting
  <2> QED
    BY <1>3, <2>1
<1> QED
  BY <1>1, <1>2, <1>4

LEMMA AddTwo ==
  ASSUME TypeOK, NEW s \in Streams, NEW op1 \in Op, NEW op2 \in Op,
         Enqueue(s, <<op1, op2>>), done' = done
  PROVE  /\ Grows(s, 2) /\ StreamStep
         /\ \A p \in Waiting(s)' : p \notin Waiting(s) =>
              \/ p = End(s) + 1 /\ OpAt(s, p)' = op1
              \/ p = End(s) + 2 /\ OpAt(s, p)' = op2
<1> DEFINE ops == <<op1, op2>>
<1>1. ops \in Seq(Op) /\ Len(ops) = 2 /\ ops[1] = op1 /\ ops[2] = op2
  OBVIOUS
<1>2. /\ Grows(s, 2) /\ StreamStep
      /\ \A p \in Waiting(s)' : p \notin Waiting(s) => OpAt(s, p)' = ops[p - End(s)]
  BY <1>1, AddGrows
<1>3. End(s) \in Nat
  BY PositionType
<1>4. ASSUME NEW p \in Waiting(s)', p \notin Waiting(s)
      PROVE  (p = End(s) + 1 /\ p - End(s) = 1) \/ (p = End(s) + 2 /\ p - End(s) = 2)
  <2>1. p > End(s) /\ p <= End(s) + 2 /\ p \in Int
    BY <1>2, <1>4 DEF Grows, Waiting
  <2>2. \A e \in Nat, i \in Int :
          (i > e /\ i <= e + 2) => (i = e + 1 /\ i - e = 1) \/ (i = e + 2 /\ i - e = 2)
    OBVIOUS
  <2> QED
    BY <1>3, <2>1, <2>2
<1> QED
  BY <1>1, <1>2, <1>4

LEMMA WaitGrows ==
  ASSUME TypeOK, NEW k \in Blocks, NEW b \in Buffers, wait_for_work(k, b)
  PROVE  /\ k \in Gpu /\ Grows(k, 1) /\ StreamStep
         /\ \A p \in Waiting(k)' : p \notin Waiting(k) =>
              /\ p = End(k) + 1
              /\ OpAt(k, p)' = WaitEvent(IF b \in Ins(k) THEN d_dev_ready_evt[b]
                                                         ELSE d_read_done_evt[b])
<1> DEFINE op == WaitEvent(IF b \in Ins(k) THEN d_dev_ready_evt[b] ELSE d_read_done_evt[b])
<1>1. k \in Gpu /\ k \in Streams /\ Enqueue(k, <<op>>) /\ done' = done
  BY DEF wait_for_work, Streams
<1>2. op \in Op
  BY WaitType DEF TypeOK
<1> HIDE DEF op
<1>3. /\ Grows(k, 1) /\ StreamStep
      /\ \A p \in Waiting(k)' : p \notin Waiting(k) => p = End(k) + 1 /\ OpAt(k, p)' = op
  BY <1>1, <1>2, AddOne
<1> QED
  BY <1>1, <1>3 DEF op

LEMMA KernelGrows ==
  ASSUME TypeOK, NEW k \in Blocks, Kernel(k)
  PROVE  /\ k \in Gpu /\ Grows(k, 1) /\ StreamStep
         /\ \A p \in Waiting(k)' : p \notin Waiting(k) =>
              /\ p = End(k) + 1
              /\ OpAt(k, p)' = Run(k, {InSpan(k, "device", b) : b \in Ins(k)},
                                      {OutSpan(k, "device", b) : b \in Outs(k)})
<1> DEFINE op == Run(k, {InSpan(k, "device", b) : b \in Ins(k)},
                        {OutSpan(k, "device", b) : b \in Outs(k)})
<1>1. k \in Gpu /\ k \in Streams /\ Enqueue(k, <<op>>) /\ done' = done
  BY DEF Kernel, Streams
<1>2. op \in Op
  <2>1. /\ {InSpan(k, "device", b) : b \in Ins(k)} \in SUBSET Span
        /\ {OutSpan(k, "device", b) : b \in Outs(k)} \in SUBSET Span
    BY SpanType DEF Ins, Outs, Mem
  <2> QED
    BY <1>1, <2>1, RunType
<1> HIDE DEF op
<1>3. /\ Grows(k, 1) /\ StreamStep
      /\ \A p \in Waiting(k)' : p \notin Waiting(k) => p = End(k) + 1 /\ OpAt(k, p)' = op
  BY <1>1, <1>2, AddOne
<1> QED
  BY <1>1, <1>3 DEF op

LEMMA MarkReadGrows ==
  ASSUME TypeOK, ControlOK, NEW k \in Blocks, NEW b \in Buffers, mark_read_done_wait(k, b)
  PROVE  /\ k \in Gpu /\ Grows(k, 1) /\ StreamStep
         /\ \A p \in Waiting(k)' : p \notin Waiting(k) =>
              p = End(k) + 1 /\ OpAt(k, p)' = WaitEvent(d_read_done_evt[b])
<1>1. k \in Gpu
  BY DEF mark_read_done_wait, At, ControlOK, ThreadOK
<1>2. k \in Streams /\ Enqueue(k, <<WaitEvent(d_read_done_evt[b])>>) /\ done' = done
  BY <1>1 DEF mark_read_done_wait, Streams
<1>3. WaitEvent(d_read_done_evt[b]) \in Op
  BY WaitType DEF TypeOK
<1> QED
  BY <1>1, <1>2, <1>3, AddOne

LEMMA UploadGrows ==
  ASSUME TypeOK, NEW k \in Blocks, NEW b \in Buffers, post_work_h2d(k, b)
  PROVE  /\ Grows(b, 2) /\ StreamStep
         /\ \A p \in Waiting(b)' : p \notin Waiting(b) =>
              \/ p = End(b) + 1 /\ OpAt(b, p)' = WaitEvent(d_read_done_evt[b])
              \/ /\ p = End(b) + 2
                 /\ OpAt(b, p)' = Run(b, {OutSpan(k, "host", b)}, {OutSpan(k, "device", b)})
<1> DEFINE op == Run(b, {OutSpan(k, "host", b)}, {OutSpan(k, "device", b)})
<1>1. b \in Streams /\ Enqueue(b, <<WaitEvent(d_read_done_evt[b]), op>>) /\ done' = done
  BY DEF post_work_h2d, Streams
<1>2. op \in Op /\ WaitEvent(d_read_done_evt[b]) \in Op
  <2>1. /\ OutSpan(k, "host", b) \in Span /\ OutSpan(k, "device", b) \in Span
    BY SpanType DEF Mem
  <2>2. op \in Op
    BY <1>1, <2>1, RunType
  <2>3. WaitEvent(d_read_done_evt[b]) \in Op
    BY WaitType DEF TypeOK
  <2> QED
    BY <2>2, <2>3
<1> HIDE DEF op
<1>3. /\ Grows(b, 2) /\ StreamStep
      /\ \A p \in Waiting(b)' : p \notin Waiting(b) =>
           \/ p = End(b) + 1 /\ OpAt(b, p)' = WaitEvent(d_read_done_evt[b])
           \/ p = End(b) + 2 /\ OpAt(b, p)' = op
  BY <1>1, <1>2, AddTwo
<1> QED
  BY <1>3 DEF op

LEMMA DownloadGrows ==
  ASSUME TypeOK, NEW k \in Blocks, NEW b \in Buffers, post_work_d2h(k, b)
  PROVE  /\ Grows(b, 2) /\ StreamStep
         /\ \A p \in Waiting(b)' : p \notin Waiting(b) =>
              \/ p = End(b) + 1 /\ OpAt(b, p)' = WaitEvent(d_dev_ready_evt[b])
              \/ /\ p = End(b) + 2
                 /\ OpAt(b, p)' = Run(b, {OutSpan(k, "device", b)}, {OutSpan(k, "host", b)})
<1> DEFINE op == Run(b, {OutSpan(k, "device", b)}, {OutSpan(k, "host", b)})
<1>1. b \in Streams /\ Enqueue(b, <<WaitEvent(d_dev_ready_evt[b]), op>>) /\ done' = done
  BY DEF post_work_d2h, Streams
<1>2. op \in Op /\ WaitEvent(d_dev_ready_evt[b]) \in Op
  <2>1. /\ OutSpan(k, "host", b) \in Span /\ OutSpan(k, "device", b) \in Span
    BY SpanType DEF Mem
  <2>2. op \in Op
    BY <1>1, <2>1, RunType
  <2>3. WaitEvent(d_dev_ready_evt[b]) \in Op
    BY WaitType DEF TypeOK
  <2> QED
    BY <2>2, <2>3
<1> HIDE DEF op
<1>3. /\ Grows(b, 2) /\ StreamStep
      /\ \A p \in Waiting(b)' : p \notin Waiting(b) =>
           \/ p = End(b) + 1 /\ OpAt(b, p)' = WaitEvent(d_dev_ready_evt[b])
           \/ p = End(b) + 2 /\ OpAt(b, p)' = op
  BY <1>1, <1>2, AddTwo
<1> QED
  BY <1>3 DEF op

LEMMA DestroyGrows ==
  ASSUME TypeOK, NEW b \in Buffers, Destroy(b)
  PROVE  /\ Grows(b, 3) /\ StreamStep
         /\ \A p \in Waiting(b)' : p \notin Waiting(b) =>
              \/ p = End(b) + 1 /\ OpAt(b, p)' = WaitEvent(d_dev_ready_evt[b])
              \/ p = End(b) + 2 /\ OpAt(b, p)' = WaitEvent(d_host_ready_evt[b])
              \/ p = End(b) + 3 /\ OpAt(b, p)' = WaitEvent(d_read_done_evt[b])
<1> DEFINE ops == <<WaitEvent(d_dev_ready_evt[b]), WaitEvent(d_host_ready_evt[b]),
                    WaitEvent(d_read_done_evt[b])>>
<1>1. b \in Streams /\ Enqueue(b, ops) /\ done' = done
  BY DEF Destroy, Streams
<1>2. /\ WaitEvent(d_dev_ready_evt[b]) \in Op /\ WaitEvent(d_host_ready_evt[b]) \in Op
      /\ WaitEvent(d_read_done_evt[b]) \in Op
  BY WaitType DEF TypeOK
<1>3. /\ ops \in Seq(Op) /\ Len(ops) = 3 /\ ops[1] = WaitEvent(d_dev_ready_evt[b])
      /\ ops[2] = WaitEvent(d_host_ready_evt[b]) /\ ops[3] = WaitEvent(d_read_done_evt[b])
  BY <1>2
<1> HIDE DEF ops
<1>4. /\ Grows(b, 3) /\ StreamStep
      /\ \A p \in Waiting(b)' : p \notin Waiting(b) => OpAt(b, p)' = ops[p - End(b)]
  BY <1>1, <1>3, AddGrows
<1>5. End(b) \in Nat
  BY <1>1, PositionType
<1>6. ASSUME NEW p \in Waiting(b)', p \notin Waiting(b)
      PROVE  \/ p = End(b) + 1 /\ p - End(b) = 1
             \/ p = End(b) + 2 /\ p - End(b) = 2
             \/ p = End(b) + 3 /\ p - End(b) = 3
  <2>1. p > End(b) /\ p <= End(b) + 3 /\ p \in Int
    BY <1>1, <1>4, <1>6 DEF Grows, Waiting
  <2>2. \A e \in Nat, i \in Int :
          (i > e /\ i <= e + 3) => i - e \in {1, 2, 3} /\ i = e + (i - e)
    OBVIOUS
  <2> QED
    BY <1>5, <2>1, <2>2
<1> QED
  BY <1>3, <1>4, <1>6

-----------------------------------------------------------------------------
(* Reads and writes that are enqueued and not executed.                    *)

\* The stream that writes b in memory m, and whether a stream does.
WriteStream(m, b) == IF m = "device" /\ ~H2D(b) THEN Writer[b] ELSE b
Moved(m, b) == m = "device" \/ D2H(b)

PendingWrite(m, b, p, sp) ==
  /\ p \in Waiting(WriteStream(m, b))
  /\ sp \in OpAt(WriteStream(m, b), p).writes
  /\ sp.mem = m /\ sp.buf = b

PendingRead(s, p, sp) == p \in Waiting(s) /\ sp \in OpAt(s, p).reads

\* A step leaves them as they are.
SamePending ==
  /\ \A m \in Mem, b \in Buffers, p \in Nat, sp \in Span :
       PendingWrite(m, b, p, sp)' <=> PendingWrite(m, b, p, sp)
  /\ \A s \in Streams, p \in Nat, sp \in Span :
       PendingRead(s, p, sp)' <=> PendingRead(s, p, sp)

\* Kernels read and write device memory, the copies of a buffer are on its own
\* stream, and each ring is written on one stream.
Placed(s, op) ==
  /\ \A sp \in op.reads :
       \/ s \in Gpu /\ sp.mem = "device" /\ sp.buf \in Ins(s)
       \/ s = sp.buf /\ sp.mem = "device" /\ D2H(sp.buf)
       \/ s = sp.buf /\ sp.mem = "host" /\ H2D(sp.buf)
  /\ \A sp \in op.writes :
       s = WriteStream(sp.mem, sp.buf) /\ Moved(sp.mem, sp.buf)

Places == \A s \in Streams : \A p \in Waiting(s) : Placed(s, OpAt(s, p))

LEMMA WriteStreamType ==
  \A m \in Mem, b \in Buffers : WriteStream(m, b) \in Streams
  BY Graph DEF WriteStream, Streams

LEMMA RestsPending == ASSUME Rests PROVE SamePending
  BY WriteStreamType DEF Rests, SamePending, PendingWrite, PendingRead

LEMMA WaitsPending ==
  ASSUME NEW s \in Streams, NEW n, Grows(s, n),
         \A p \in Waiting(s)' : p \notin Waiting(s) =>
           OpAt(s, p)'.reads = {} /\ OpAt(s, p)'.writes = {}
  PROVE  SamePending
<1>1. ASSUME NEW t \in Streams, NEW p \in Nat
      PROVE  /\ p \in Waiting(t) => p \in Waiting(t)' /\ OpAt(t, p)' = OpAt(t, p)
             /\ p \in Waiting(t)' /\ p \notin Waiting(t) =>
                  OpAt(t, p)'.reads = {} /\ OpAt(t, p)'.writes = {}
  BY DEF Grows
<1>2. ASSUME NEW t \in Streams, NEW p \in Nat, NEW sp \in Span
      PROVE  PendingRead(t, p, sp)' <=> PendingRead(t, p, sp)
  BY <1>1 DEF PendingRead
<1>3. ASSUME NEW m \in Mem, NEW b \in Buffers, NEW p \in Nat, NEW sp \in Span
      PROVE  PendingWrite(m, b, p, sp)' <=> PendingWrite(m, b, p, sp)
  BY <1>1, WriteStreamType DEF PendingWrite
<1> QED
  BY <1>2, <1>3 DEF SamePending

LEMMA WaitHasNoSpans == ASSUME NEW e PROVE WaitEvent(e).reads = {} /\ WaitEvent(e).writes = {}
  BY DEF WaitEvent

\* Steps that enqueue no kernel and no copy, and execute nothing.
LEMMA QuietPending ==
  ASSUME TypeOK, ControlOK,
         \/ queue' = queue /\ done' = done
         \/ \E k \in Blocks, b \in Buffers : wait_for_work(k, b) \/ mark_read_done_wait(k, b)
         \/ \E b \in Buffers : Destroy(b)
  PROVE  SamePending /\ StreamStep
<1>1. CASE queue' = queue /\ done' = done
  BY <1>1, OthersRestStreams, RestsPending
<1>2. ASSUME NEW k \in Blocks, NEW b \in Buffers, wait_for_work(k, b)
      PROVE  SamePending /\ StreamStep
  <2>1. k \in Streams
    BY <1>2, WaitGrows DEF Streams
  <2> QED
    BY <1>2, <2>1, WaitGrows, WaitsPending, WaitHasNoSpans
<1>3. ASSUME NEW k \in Blocks, NEW b \in Buffers, mark_read_done_wait(k, b)
      PROVE  SamePending /\ StreamStep
  <2>1. k \in Streams
    BY <1>3, MarkReadGrows DEF Streams
  <2> QED
    BY <1>3, <2>1, MarkReadGrows, WaitsPending, WaitHasNoSpans
<1>4. ASSUME NEW b \in Buffers, Destroy(b) PROVE SamePending /\ StreamStep
  <2>1. b \in Streams
    BY DEF Streams
  <2> QED
    BY <1>4, <2>1, DestroyGrows, WaitsPending, WaitHasNoSpans
<1> QED
  BY <1>1, <1>2, <1>3, <1>4

\* One operation with the spans r and w is added to stream s, at position e, and
\* perhaps a wait before it.
RunAdded(s, e, r, w) ==
  /\ \E n \in {1, 2} : e = End(s) + n /\ Grows(s, n)
  /\ \A sp \in w : WriteStream(sp.mem, sp.buf) = s
  /\ \A p \in Waiting(s)' : p \notin Waiting(s) =>
       \/ p = e /\ OpAt(s, p)' = Run(s, r, w)
       \/ p # e /\ OpAt(s, p)'.reads = {} /\ OpAt(s, p)'.writes = {}

LEMMA RunPending ==
  ASSUME TypeOK, NEW s \in Streams, NEW e, NEW r, NEW w, RunAdded(s, e, r, w)
  PROVE  /\ \A m \in Mem, b \in Buffers, p \in Nat, sp \in Span :
              PendingWrite(m, b, p, sp)' <=>
                \/ PendingWrite(m, b, p, sp)
                \/ p = e /\ sp \in w /\ sp.mem = m /\ sp.buf = b
         /\ \A t \in Streams, p \in Nat, sp \in Span :
              PendingRead(t, p, sp)' <=>
                \/ PendingRead(t, p, sp)
                \/ t = s /\ p = e /\ sp \in r
<1> PICK n \in {1, 2} : e = End(s) + n /\ Grows(s, n)
  BY DEF RunAdded
<1>0. /\ \A sp \in w : WriteStream(sp.mem, sp.buf) = s
      /\ \A p \in Waiting(s)' : p \notin Waiting(s) =>
           \/ p = e /\ OpAt(s, p)' = Run(s, r, w)
           \/ p # e /\ OpAt(s, p)'.reads = {} /\ OpAt(s, p)'.writes = {}
  BY DEF RunAdded
<1>1. Run(s, r, w).reads = r /\ Run(s, r, w).writes = w
  BY DEF Run
<1>2. \A t \in Streams, p \in Nat : p \in Waiting(t) => p \in Waiting(t)' /\ OpAt(t, p)' = OpAt(t, p)
  BY DEF Grows
<1>3. e \in Waiting(s)'
  <2>1. /\ End(s) \in Nat /\ End(s)' = End(s) + n /\ done'[s] = done[s] /\ done[s] \in Nat
        /\ done[s] <= End(s)
    BY PositionType DEF Grows, TypeOK, End
  <2> QED
    BY <2>1 DEF Waiting
<1>4. e \notin Waiting(s)
  BY PositionType DEF Waiting
<1>5. \A t \in Streams, p \in Nat : p \in Waiting(t)' /\ p \notin Waiting(t) =>
        /\ t = s
        /\ \/ p = e /\ OpAt(s, p)'.reads = r /\ OpAt(s, p)'.writes = w
           \/ p # e /\ OpAt(s, p)'.reads = {} /\ OpAt(s, p)'.writes = {}
  BY <1>0, <1>1 DEF Grows
<1>6. ASSUME NEW t \in Streams, NEW p \in Nat, NEW sp \in Span
      PROVE  PendingRead(t, p, sp)' <=>
               \/ PendingRead(t, p, sp)
               \/ t = s /\ p = e /\ sp \in r
  BY <1>2, <1>3, <1>4, <1>5 DEF PendingRead
<1>7. ASSUME NEW m \in Mem, NEW b \in Buffers, NEW p \in Nat, NEW sp \in Span
      PROVE  PendingWrite(m, b, p, sp)' <=>
               \/ PendingWrite(m, b, p, sp)
               \/ p = e /\ sp \in w /\ sp.mem = m /\ sp.buf = b
  <2> DEFINE t == WriteStream(m, b)
  <2>1. t \in Streams
    BY WriteStreamType
  <2>2. sp \in w /\ sp.mem = m /\ sp.buf = b => t = s
    BY <1>0
  <2> QED
    BY <1>2, <1>3, <1>4, <1>5, <2>1, <2>2 DEF PendingWrite
<1> QED
  BY <1>6, <1>7

\* A kernel reads and writes the batch.
LEMMA KernelPending ==
  ASSUME TypeOK, ControlOK, NEW k \in Blocks, Kernel(k)
  PROVE  /\ k \in Gpu /\ held' = held /\ StreamStep /\ Grows(k, 1)
         /\ \A m \in Mem, b \in Buffers, p \in Nat, sp \in Span :
              PendingWrite(m, b, p, sp)' <=>
                \/ PendingWrite(m, b, p, sp)
                \/ p = End(k) + 1 /\ m = "device" /\ b \in Outs(k) /\ sp = OutSpan(k, "device", b)
         /\ \A t \in Streams, p \in Nat, sp \in Span :
              PendingRead(t, p, sp)' <=>
                \/ PendingRead(t, p, sp)
                \/ t = k /\ p = End(k) + 1 /\ \E b \in Ins(k) : sp = InSpan(k, "device", b)
<1> DEFINE r == {InSpan(k, "device", b) : b \in Ins(k)}
           w == {OutSpan(k, "device", b) : b \in Outs(k)}
<1>1. PICK rr : rr = r
  OBVIOUS
<1>2. PICK ww : ww = w
  OBVIOUS
<1>3. rr \in SUBSET Span /\ ww \in SUBSET Span
  BY <1>1, <1>2, SpanType DEF Ins, Outs, Mem
<1>4. /\ k \in Gpu /\ k \in Streams /\ Grows(k, 1) /\ StreamStep
      /\ \A p \in Waiting(k)' : p \notin Waiting(k) =>
           \/ p = End(k) + 1 /\ OpAt(k, p)' = Run(k, rr, ww)
           \/ p # End(k) + 1 /\ OpAt(k, p)'.reads = {} /\ OpAt(k, p)'.writes = {}
  <2>1. /\ k \in Gpu /\ Grows(k, 1) /\ StreamStep
        /\ \A p \in Waiting(k)' : p \notin Waiting(k) => p = End(k) + 1 /\ OpAt(k, p)' = Run(k, rr, ww)
    BY <1>1, <1>2, KernelGrows
  <2> HIDE DEF r, w
  <2> QED
    BY <2>1 DEF Streams
<1>5. \A sp \in ww : WriteStream(sp.mem, sp.buf) = k
  <2>1. \A b \in Outs(k) : ~H2D(b) /\ Writer[b] = k
    BY KernelCounts DEF Outs
  <2> QED
    BY <1>2, <2>1 DEF WriteStream, OutSpan
<1>6. /\ \A m \in Mem, b \in Buffers, p \in Nat, sp \in Span :
           PendingWrite(m, b, p, sp)' <=>
             \/ PendingWrite(m, b, p, sp)
             \/ p = End(k) + 1 /\ sp \in ww /\ sp.mem = m /\ sp.buf = b
      /\ \A t \in Streams, p \in Nat, sp \in Span :
           PendingRead(t, p, sp)' <=>
             \/ PendingRead(t, p, sp)
             \/ t = k /\ p = End(k) + 1 /\ sp \in rr
  <2> HIDE DEF r, w
  <2>1. PICK e : e = End(k) + 1
    OBVIOUS
  <2>2. RunAdded(k, e, rr, ww)
    BY <1>4, <1>5, <2>1 DEF RunAdded
  <2> QED
    BY <1>4, <2>1, <2>2, RunPending
<1>7. ASSUME NEW m \in Mem, NEW b \in Buffers, NEW sp \in Span
      PROVE  sp \in ww /\ sp.mem = m /\ sp.buf = b <=>
               m = "device" /\ b \in Outs(k) /\ sp = OutSpan(k, "device", b)
  BY <1>2 DEF OutSpan
<1>8. \A sp \in Span : sp \in rr <=> \E b \in Ins(k) : sp = InSpan(k, "device", b)
  BY <1>1
<1>9. held' = held
  BY DEF Kernel
<1>10. \A m \in Mem, b \in Buffers, p \in Nat, sp \in Span :
        PendingWrite(m, b, p, sp)' <=>
          \/ PendingWrite(m, b, p, sp)
          \/ p = End(k) + 1 /\ m = "device" /\ b \in Outs(k) /\ sp = OutSpan(k, "device", b)
  BY <1>6, <1>7
<1>11. \A t \in Streams, p \in Nat, sp \in Span :
        PendingRead(t, p, sp)' <=>
          \/ PendingRead(t, p, sp)
          \/ t = k /\ p = End(k) + 1 /\ \E b \in Ins(k) : sp = InSpan(k, "device", b)
  BY <1>6, <1>8
<1> QED
  <2> HIDE DEF r, w
  <2> QED
    BY <1>4, <1>9, <1>10, <1>11

\* A copy reads the batch on one side and writes it on the other.
LEMMA UploadPending ==
  ASSUME TypeOK, ControlOK, NEW k \in Blocks, NEW b \in Buffers, post_work_h2d(k, b)
  PROVE  /\ held' = held /\ StreamStep /\ Grows(b, 2) /\ H2D(b)
         /\ \A m \in Mem, c \in Buffers, p \in Nat, sp \in Span :
              PendingWrite(m, c, p, sp)' <=>
                \/ PendingWrite(m, c, p, sp)
                \/ p = End(b) + 2 /\ m = "device" /\ c = b /\ sp = OutSpan(k, "device", b)
         /\ \A t \in Streams, p \in Nat, sp \in Span :
              PendingRead(t, p, sp)' <=>
                \/ PendingRead(t, p, sp)
                \/ t = b /\ p = End(b) + 2 /\ sp = OutSpan(k, "host", b)
<1>1. PICK r : r = {OutSpan(k, "host", b)}
  OBVIOUS
<1>2. PICK w : w = {OutSpan(k, "device", b)}
  OBVIOUS
<1>3. r \in SUBSET Span /\ w \in SUBSET Span
  BY <1>1, <1>2, SpanType DEF Mem
<1>4. /\ b \in Streams /\ Grows(b, 2) /\ StreamStep /\ H2D(b)
      /\ \A p \in Waiting(b)' : p \notin Waiting(b) =>
           \/ p = End(b) + 2 /\ OpAt(b, p)' = Run(b, r, w)
           \/ p = End(b) + 1 /\ OpAt(b, p)'.reads = {} /\ OpAt(b, p)'.writes = {}
  BY <1>1, <1>2, UploadGrows, WaitHasNoSpans DEF Streams, post_work_h2d
<1>5. \A sp \in w : WriteStream(sp.mem, sp.buf) = b
  BY <1>2, <1>4 DEF WriteStream, OutSpan
<1>6. End(b) + 1 # End(b) + 2
  BY <1>4, PositionType
<1>7. /\ \A m \in Mem, c \in Buffers, p \in Nat, sp \in Span :
           PendingWrite(m, c, p, sp)' <=>
             \/ PendingWrite(m, c, p, sp)
             \/ p = End(b) + 2 /\ sp \in w /\ sp.mem = m /\ sp.buf = c
      /\ \A t \in Streams, p \in Nat, sp \in Span :
           PendingRead(t, p, sp)' <=>
             \/ PendingRead(t, p, sp)
             \/ t = b /\ p = End(b) + 2 /\ sp \in r
  <2>1. PICK e : e = End(b) + 2
    OBVIOUS
  <2>2. RunAdded(b, e, r, w)
    BY <1>4, <1>5, <1>6, <2>1 DEF RunAdded
  <2> QED
    BY <1>4, <2>1, <2>2, RunPending
<1>8. \A m \in Mem, c \in Buffers, sp \in Span :
        sp \in w /\ sp.mem = m /\ sp.buf = c <=>
          m = "device" /\ c = b /\ sp = OutSpan(k, "device", b)
  BY <1>2 DEF OutSpan
<1>9. held' = held
  BY DEF post_work_h2d
<1>10. \A m \in Mem, c \in Buffers, p \in Nat, sp \in Span :
        PendingWrite(m, c, p, sp)' <=>
          \/ PendingWrite(m, c, p, sp)
          \/ p = End(b) + 2 /\ m = "device" /\ c = b /\ sp = OutSpan(k, "device", b)
  BY <1>7, <1>8
<1>11. \A t \in Streams, p \in Nat, sp \in Span :
        PendingRead(t, p, sp)' <=>
          \/ PendingRead(t, p, sp)
          \/ t = b /\ p = End(b) + 2 /\ sp = OutSpan(k, "host", b)
  BY <1>1, <1>7
<1> QED
  BY <1>4, <1>9, <1>10, <1>11

LEMMA DownloadPending ==
  ASSUME TypeOK, ControlOK, NEW k \in Blocks, NEW b \in Buffers, post_work_d2h(k, b)
  PROVE  /\ held' = held /\ StreamStep /\ Grows(b, 2) /\ D2H(b)
         /\ \A m \in Mem, c \in Buffers, p \in Nat, sp \in Span :
              PendingWrite(m, c, p, sp)' <=>
                \/ PendingWrite(m, c, p, sp)
                \/ p = End(b) + 2 /\ m = "host" /\ c = b /\ sp = OutSpan(k, "host", b)
         /\ \A t \in Streams, p \in Nat, sp \in Span :
              PendingRead(t, p, sp)' <=>
                \/ PendingRead(t, p, sp)
                \/ t = b /\ p = End(b) + 2 /\ sp = OutSpan(k, "device", b)
<1>1. PICK r : r = {OutSpan(k, "device", b)}
  OBVIOUS
<1>2. PICK w : w = {OutSpan(k, "host", b)}
  OBVIOUS
<1>3. r \in SUBSET Span /\ w \in SUBSET Span
  BY <1>1, <1>2, SpanType DEF Mem
<1>4. /\ b \in Streams /\ Grows(b, 2) /\ StreamStep /\ D2H(b)
      /\ \A p \in Waiting(b)' : p \notin Waiting(b) =>
           \/ p = End(b) + 2 /\ OpAt(b, p)' = Run(b, r, w)
           \/ p = End(b) + 1 /\ OpAt(b, p)'.reads = {} /\ OpAt(b, p)'.writes = {}
  BY <1>1, <1>2, DownloadGrows, WaitHasNoSpans DEF Streams, post_work_d2h
<1>5. \A sp \in w : WriteStream(sp.mem, sp.buf) = b
  BY <1>2 DEF WriteStream, OutSpan
<1>6. End(b) + 1 # End(b) + 2
  BY <1>4, PositionType
<1>7. /\ \A m \in Mem, c \in Buffers, p \in Nat, sp \in Span :
           PendingWrite(m, c, p, sp)' <=>
             \/ PendingWrite(m, c, p, sp)
             \/ p = End(b) + 2 /\ sp \in w /\ sp.mem = m /\ sp.buf = c
      /\ \A t \in Streams, p \in Nat, sp \in Span :
           PendingRead(t, p, sp)' <=>
             \/ PendingRead(t, p, sp)
             \/ t = b /\ p = End(b) + 2 /\ sp \in r
  <2>1. PICK e : e = End(b) + 2
    OBVIOUS
  <2>2. RunAdded(b, e, r, w)
    BY <1>4, <1>5, <1>6, <2>1 DEF RunAdded
  <2> QED
    BY <1>4, <2>1, <2>2, RunPending
<1>8. \A m \in Mem, c \in Buffers, sp \in Span :
        sp \in w /\ sp.mem = m /\ sp.buf = c <=>
          m = "host" /\ c = b /\ sp = OutSpan(k, "host", b)
  BY <1>2 DEF OutSpan
<1>9. held' = held
  BY DEF post_work_d2h
<1>10. \A m \in Mem, c \in Buffers, p \in Nat, sp \in Span :
        PendingWrite(m, c, p, sp)' <=>
          \/ PendingWrite(m, c, p, sp)
          \/ p = End(b) + 2 /\ m = "host" /\ c = b /\ sp = OutSpan(k, "host", b)
  BY <1>7, <1>8
<1>11. \A t \in Streams, p \in Nat, sp \in Span :
        PendingRead(t, p, sp)' <=>
          \/ PendingRead(t, p, sp)
          \/ t = b /\ p = End(b) + 2 /\ sp = OutSpan(k, "device", b)
  BY <1>1, <1>7
<1> QED
  BY <1>4, <1>9, <1>10, <1>11

\* The GPU executes the first operation of s: its reads and writes are no longer
\* pending, and its writes have landed.
LEMMA ExecPending ==
  ASSUME TypeOK, Places, NEW s \in Streams, Exec(s)
  PROVE  /\ Executes(s) /\ StreamStep
         /\ \A t \in Streams, p \in Nat, sp \in Span :
              PendingRead(t, p, sp)' <=> PendingRead(t, p, sp) /\ ~(t = s /\ p = done[s] + 1)
         /\ \A m \in Mem, b \in Buffers, p \in Nat, sp \in Span :
              PendingWrite(m, b, p, sp)' <=>
                PendingWrite(m, b, p, sp) /\ ~(WriteStream(m, b) = s /\ p = done[s] + 1)
         /\ \A m \in Mem, b \in Buffers :
              \/ /\ WriteStream(m, b) = s
                 /\ \E sp \in Span : PendingWrite(m, b, done[s] + 1, sp) /\ held'[m][b] = sp.hi
              \/ /\ held'[m][b] = held[m][b]
                 /\ \A sp \in Span : ~(WriteStream(m, b) = s /\ PendingWrite(m, b, done[s] + 1, sp))
<1>1. Executes(s) /\ StreamStep
  BY ExecExecutes DEF StreamStep
<1>2. /\ \A t \in Streams, p \in Nat : p \in Waiting(t)' <=> p \in Waiting(t) /\ ~(t = s /\ p = done[s] + 1)
      /\ \A t \in Streams, p \in Nat : p \in Waiting(t)' => OpAt(t, p)' = OpAt(t, p)
  <2>1. \A p \in Waiting(s)' : p # done[s] + 1
    BY <1>1, PositionType DEF Executes, Waiting
  <2> QED
    BY <1>1, <2>1 DEF Executes
<1>3. ASSUME NEW t \in Streams, NEW p \in Nat, NEW sp \in Span
      PROVE  PendingRead(t, p, sp)' <=> PendingRead(t, p, sp) /\ ~(t = s /\ p = done[s] + 1)
  BY <1>2 DEF PendingRead
<1>4. ASSUME NEW m \in Mem, NEW b \in Buffers, NEW p \in Nat, NEW sp \in Span
      PROVE  PendingWrite(m, b, p, sp)' <=>
                PendingWrite(m, b, p, sp) /\ ~(WriteStream(m, b) = s /\ p = done[s] + 1)
  BY <1>2, WriteStreamType DEF PendingWrite
<1>5. ASSUME NEW m \in Mem, NEW b \in Buffers
      PROVE  \/ /\ WriteStream(m, b) = s
                /\ \E sp \in Span : PendingWrite(m, b, done[s] + 1, sp) /\ held'[m][b] = sp.hi
             \/ /\ held'[m][b] = held[m][b]
                /\ \A sp \in Span : ~(WriteStream(m, b) = s /\ PendingWrite(m, b, done[s] + 1, sp))
  <2> DEFINE op == Head(queue[s])
             has == \E sp \in op.writes : sp.mem = m /\ sp.buf = b
             x == CHOOSE sp \in op.writes : sp.mem = m /\ sp.buf = b
  <2>1. held'[m][b] = IF has THEN x.hi ELSE held[m][b]
    BY DEF Exec
  <2>2. done[s] + 1 \in Waiting(s) /\ op = OpAt(s, done[s] + 1) /\ op \in Op
    BY <1>1, PositionType DEF Executes
  <2>3. CASE has
    <3>1. x \in op.writes /\ x.mem = m /\ x.buf = b
      BY <2>3
    <3>2. x \in Span
      BY <2>2, <3>1 DEF Op
    <3>3. s = WriteStream(m, b)
      BY <2>2, <3>1 DEF Places, Placed
    <3> HIDE DEF x, op
    <3> QED
      BY <2>1, <2>2, <2>3, <3>1, <3>2, <3>3 DEF PendingWrite
  <2>4. CASE ~has
    <3> HIDE DEF x
    <3> QED
      BY <2>1, <2>2, <2>4 DEF PendingWrite
  <2> QED
    BY <2>3, <2>4
<1> QED
  BY <1>1, <1>3, <1>4, <1>5

\* Steps that leave the pending reads and writes, what the rings hold and how
\* far enqueuing has got.
SameEnds ==
  \A b \in Buffers :
    /\ DevEnd(b)' = DevEnd(b)
    /\ H2D(b) \/ D2H(b) => HostEnd(b)' = HostEnd(b)
    /\ \A r \in Readers[b] : r \in Gpu => ReadEnd(b, r)' = ReadEnd(b, r)

Quiet == SamePending /\ StreamStep /\ held' = held /\ SameEnds

LEMMA QuietCall ==
  ASSUME TypeOK, ControlOK, NEW k \in Blocks, NEW b \in Buffers, BufferCall(k, b)
  PROVE  Quiet \/ post_work_h2d(k, b) \/ post_work_d2h(k, b)
<1>1. CASE wait_for_work(k, b) \/ mark_read_done_wait(k, b)
  <2>1. SameCounts /\ held' = held
    BY <1>1, WaitCounts DEF wait_for_work, mark_read_done_wait
  <2> QED
    BY <1>1, <2>1, QuietPending DEF Quiet, SameEnds, SameCounts, SameReads, SameWrites
<1>2. CASE wait_host_ready(k, b) \/ wait_host_ready_return(k, b)
  <2>1. SameCounts /\ held' = held /\ queue' = queue /\ done' = done
    BY <1>2, WaitCounts DEF wait_host_ready, wait_host_ready_return, gpuVars
  <2> QED
    BY <2>1, QuietPending DEF Quiet, SameEnds, SameCounts, SameReads, SameWrites
<1>3. CASE mark_device_ready(k, b)
  <2>1. held' = held /\ queue' = queue /\ done' = done
    BY <1>3 DEF mark_device_ready, gpuVars
  <2>2. SameEnds
    BY <1>3, MarkReadyCounts DEF SameEnds, SameReads
  <2> QED
    BY <2>1, <2>2, QuietPending DEF Quiet
<1>4. CASE mark_read_done_record(k, b)
  <2>1. held' = held /\ queue' = queue /\ done' = done
    BY <1>4 DEF mark_read_done_record, gpuVars
  <2>2. SameEnds
    BY <1>4, MarkReadCounts DEF SameEnds, SameWrites
  <2> QED
    BY <2>1, <2>2, QuietPending DEF Quiet
<1>5. CASE Consume(k, b) \/ Publish(k, b)
  <2>1. held' = held /\ queue' = queue /\ done' = done
    BY <1>5 DEF Consume, Publish, gpuVars
  <2>2. SameEnds
    BY <1>5, ConsumeCounts, PublishCounts DEF SameEnds, SameWrites, SameReads
  <2> QED
    BY <2>1, <2>2, QuietPending DEF Quiet
<1>6. CASE post_work_h2d_ready(k, b)
  <2>1. held' = held /\ queue' = queue /\ done' = done
    BY <1>6 DEF post_work_h2d_ready, gpuVars
  <2>2. PostStep(k, b, "publish") /\ DevEnd(b)' = DevEnd(b) /\ HostEnd(b)' = HostEnd(b)
    BY <1>6, UploadReadyCounts
  <2>3. SameEnds
    BY <2>2, PostCounts DEF SameEnds, SameReads, SameWrites
  <2> QED
    BY <2>1, <2>3, QuietPending DEF Quiet
<1>7. CASE post_work_d2d(k, b)
  <2>1. SameCounts /\ held' = held /\ queue' = queue /\ done' = done
    BY <1>7, NoCopyCounts DEF post_work_d2d, gpuVars
  <2> QED
    BY <2>1, QuietPending DEF Quiet, SameEnds, SameCounts, SameReads, SameWrites
<1> QED
  BY <1>1, <1>2, <1>3, <1>4, <1>5, <1>6, <1>7 DEF BufferCall, post_work

LEMMA QuietStep ==
  ASSUME TypeOK, ControlOK, [Next]_vars
  PROVE  \/ Quiet
         \/ \E k \in Blocks : \/ Kernel(k) \/ CpuWork(k)
                              \/ \E b \in Buffers : post_work_h2d(k, b) \/ post_work_d2h(k, b)
         \/ \E s \in Streams : Exec(s)
<1>1. ASSUME NEW k \in Blocks, \/ \E n \in 1..N : Poll(k, n)
                              \/ EndLoop(k) \/ Halt(k)
      PROVE  Quiet
  <2>1. held' = held /\ queue' = queue /\ done' = done
    BY <1>1 DEF Poll, EndLoop, Halt, gpuVars
  <2>2. SameEnds
    BY <1>1, PollCounts, EndLoopCounts, HaltCounts
       DEF SameEnds, SameCounts, SameWrites, SameReads
  <2> QED
    BY <2>1, <2>2, QuietPending DEF Quiet
<1>2. ASSUME NEW b \in Buffers, Destroy(b) \/ Free(b) PROVE Quiet
  <2>1. SameCounts /\ held' = held
    BY <1>2, CountsRest DEF Destroy, Free, control, gpuVars
  <2>2. SamePending /\ StreamStep
    BY <1>2, QuietPending DEF Free, gpuVars
  <2> QED
    BY <2>1, <2>2 DEF Quiet, SameEnds, SameCounts, SameReads, SameWrites
<1>3. CASE UNCHANGED vars
  <2>1. SameCounts /\ held' = held /\ queue' = queue /\ done' = done
    BY <1>3, CountsRest DEF vars, control, gpuVars
  <2> QED
    BY <2>1, QuietPending DEF Quiet, SameEnds, SameCounts, SameReads, SameWrites
<1> QED
  BY <1>1, <1>2, <1>3, QuietCall DEF Next, Thread, Teardown

LEMMA PlacesGrows ==
  ASSUME Places, NEW s \in Streams, NEW n, Grows(s, n),
         \A p \in Waiting(s)' : p \notin Waiting(s) => Placed(s, OpAt(s, p)')
  PROVE  Places'
<1> SUFFICES ASSUME NEW t \in Streams, NEW p \in Waiting(t)' PROVE Placed(t, OpAt(t, p)')
  BY DEF Places, Placed
<1>1. CASE p \in Waiting(t)
  BY <1>1 DEF Places, Grows
<1>2. CASE p \notin Waiting(t)
  BY <1>2 DEF Grows
<1> QED
  BY <1>1, <1>2

LEMMA PlacesStep ==
  ASSUME TypeOK, ControlOK, Places, [Next]_vars PROVE Places'
<1>0. \A s, e : Placed(s, WaitEvent(e))
  BY WaitHasNoSpans DEF Placed
<1>1. CASE queue' = queue /\ done' = done
  <2>1. Rests
    BY <1>1, OthersRestStreams
  <2> SUFFICES ASSUME NEW t \in Streams, NEW p \in Waiting(t)' PROVE Placed(t, OpAt(t, p)')
    BY DEF Places, Placed
  <2> QED
    BY <2>1 DEF Places, Rests
<1>2. ASSUME NEW s \in Streams, Exec(s) PROVE Places'
  <2>1. Executes(s)
    BY <1>2, ExecExecutes
  <2> SUFFICES ASSUME NEW t \in Streams, NEW p \in Waiting(t)' PROVE Placed(t, OpAt(t, p)')
    BY DEF Places, Placed
  <2> QED
    BY <2>1 DEF Places, Executes
<1>3. ASSUME NEW k \in Blocks, NEW b \in Buffers,
             wait_for_work(k, b) \/ mark_read_done_wait(k, b)
      PROVE  Places'
  <2>1. /\ k \in Streams /\ Grows(k, 1)
        /\ \A p \in Waiting(k)' : p \notin Waiting(k) => Placed(k, OpAt(k, p)')
    BY <1>0, <1>3, WaitGrows, MarkReadGrows DEF Streams
  <2> QED
    BY <2>1, PlacesGrows
<1>4. ASSUME NEW b \in Buffers, Destroy(b) PROVE Places'
  <2>1. /\ b \in Streams /\ Grows(b, 3)
        /\ \A p \in Waiting(b)' : p \notin Waiting(b) => Placed(b, OpAt(b, p)')
    BY <1>0, <1>4, DestroyGrows DEF Streams
  <2> QED
    BY <2>1, PlacesGrows
<1>5. ASSUME NEW k \in Blocks, Kernel(k) PROVE Places'
  <2> DEFINE op == Run(k, {InSpan(k, "device", b) : b \in Ins(k)},
                          {OutSpan(k, "device", b) : b \in Outs(k)})
  <2>1. /\ k \in Streams /\ k \in Gpu /\ Grows(k, 1)
        /\ \A p \in Waiting(k)' : p \notin Waiting(k) => OpAt(k, p)' = op
    BY <1>5, KernelGrows DEF Streams
  <2>2. \A b \in Outs(k) : WriteStream("device", b) = k /\ Moved("device", b)
    BY <1>5, KernelCounts DEF WriteStream, Moved, Outs
  <2>3. Placed(k, op)
    BY <2>1, <2>2 DEF Placed, Run, InSpan, OutSpan
  <2> HIDE DEF op
  <2> QED
    BY <2>1, <2>3, PlacesGrows
<1>6. ASSUME NEW k \in Blocks, NEW b \in Buffers, post_work_h2d(k, b) PROVE Places'
  <2> DEFINE op == Run(b, {OutSpan(k, "host", b)}, {OutSpan(k, "device", b)})
  <2>1. /\ b \in Streams /\ Grows(b, 2)
        /\ \A p \in Waiting(b)' : p \notin Waiting(b) =>
             OpAt(b, p)' = op \/ OpAt(b, p)' = WaitEvent(d_read_done_evt[b])
    BY <1>6, UploadGrows DEF Streams
  <2>2. H2D(b)
    BY <1>6 DEF post_work_h2d
  <2>3. Placed(b, op)
    BY <2>2 DEF Placed, Run, OutSpan, WriteStream, Moved
  <2> HIDE DEF op
  <2>4. \A p \in Waiting(b)' : p \notin Waiting(b) => Placed(b, OpAt(b, p)')
    BY <1>0, <2>1, <2>3
  <2> QED
    BY <2>1, <2>4, PlacesGrows
<1>7. ASSUME NEW k \in Blocks, NEW b \in Buffers, post_work_d2h(k, b) PROVE Places'
  <2> DEFINE op == Run(b, {OutSpan(k, "device", b)}, {OutSpan(k, "host", b)})
  <2>1. /\ b \in Streams /\ Grows(b, 2)
        /\ \A p \in Waiting(b)' : p \notin Waiting(b) =>
             OpAt(b, p)' = op \/ OpAt(b, p)' = WaitEvent(d_dev_ready_evt[b])
    BY <1>7, DownloadGrows DEF Streams
  <2>2. D2H(b)
    BY <1>7 DEF post_work_d2h
  <2>3. Placed(b, op)
    BY <2>2 DEF Placed, Run, OutSpan, WriteStream, Moved
  <2> HIDE DEF op
  <2>4. \A p \in Waiting(b)' : p \notin Waiting(b) => Placed(b, OpAt(b, p)')
    BY <1>0, <2>1, <2>3
  <2> QED
    BY <2>1, <2>4, PlacesGrows
<1> QED
  BY <1>1, <1>2, <1>3, <1>4, <1>5, <1>6, <1>7
     DEF Next, Thread, BufferCall, post_work, Teardown, Poll, EndLoop, Halt, CpuWork, Consume, Publish,
         mark_device_ready, mark_read_done_record, wait_host_ready, wait_host_ready_return,
         post_work_h2d_ready, post_work_d2d, Free, vars, gpuVars

-----------------------------------------------------------------------------
(* Every ring is written in order: what it holds, then the pending writes, *)
(* up to the end of what is enqueued.                                      *)

WEnd(m, b) == IF m = "device" THEN DevEnd(b) ELSE HostEnd(b)

WriteInRange(m, b) ==
  \A p \in Nat, sp \in Span : PendingWrite(m, b, p, sp) =>
    held[m][b] < sp.hi /\ sp.hi <= WEnd(m, b)

WritesSorted(m, b) ==
  \A p, q \in Nat : \A sp, sq \in Span :
    PendingWrite(m, b, p, sp) /\ PendingWrite(m, b, q, sq) =>
      (p < q => sp.hi < sq.hi) /\ (p = q => sp = sq)

\* The last pending write reaches the end.
WritesReach(m, b) ==
  \/ held[m][b] = WEnd(m, b)
  \/ \E p \in Nat, sp \in Span : PendingWrite(m, b, p, sp) /\ sp.hi = WEnd(m, b)

OrderedIn(m, b) ==
  /\ held[m][b] <= WEnd(m, b)
  /\ WriteInRange(m, b)
  /\ WritesSorted(m, b)
  /\ WritesReach(m, b)

WritesInOrder ==
  /\ \A m \in Mem, b \in Buffers : Moved(m, b) => OrderedIn(m, b)
  /\ \A b \in Buffers : H2D(b) => held["host"][b] = HostEnd(b)

LEMMA WEndType ==
  ASSUME TypeOK
  PROVE  \A m \in Mem, b \in Buffers :
           /\ WEnd(m, b) \in Nat /\ DevEnd(b) \in Nat /\ HostEnd(b) \in Nat
           /\ WriteTo(b) \in Nat /\ ReadyEnd(b) \in Nat /\ held[m][b] \in Nat
<1> TAKE m \in Mem, b \in Buffers
<1>1. nwritten[b] \in Nat /\ batch[Writer[b]] \in Nat /\ held[m][b] \in Nat
  BY CountType, Graph DEF TypeOK
<1> QED
  BY <1>1 DEF WEnd, DevEnd, HostEnd, WriteTo, ReadyEnd, Plus

LEMMA PendingPositions ==
  ASSUME TypeOK
  PROVE  /\ \A m \in Mem, b \in Buffers, p \in Nat, sp \in Span : PendingWrite(m, b, p, sp) =>
              done[WriteStream(m, b)] < p /\ p <= End(WriteStream(m, b))
         /\ \A s \in Streams, p \in Nat, sp \in Span : PendingRead(s, p, sp) =>
              done[s] < p /\ p <= End(s)
  BY PositionType, WriteStreamType DEF PendingWrite, PendingRead

LEMMA OrderKept ==
  ASSUME NEW m \in Mem, NEW b \in Buffers, OrderedIn(m, b),
         \A p \in Nat, sp \in Span : PendingWrite(m, b, p, sp)' <=> PendingWrite(m, b, p, sp),
         held'[m][b] = held[m][b], WEnd(m, b)' = WEnd(m, b)
  PROVE  OrderedIn(m, b)'
  BY DEF OrderedIn, WriteInRange, WritesSorted, WritesReach

\* A write is enqueued behind the others.
LEMMA OrderAdds ==
  ASSUME TypeOK, TypeOK', NEW m \in Mem, NEW b \in Buffers, OrderedIn(m, b),
         NEW e \in Nat, NEW w \in Span, e > End(WriteStream(m, b)),
         \A p \in Nat, sp \in Span :
           PendingWrite(m, b, p, sp)' <=> PendingWrite(m, b, p, sp) \/ (p = e /\ sp = w),
         held'[m][b] = held[m][b], WEnd(m, b)' = w.hi, WEnd(m, b) < w.hi
  PROVE  OrderedIn(m, b)'
<1>1. \A sp \in Span : sp.hi \in Nat
  BY DEF Span
<1>2. WEnd(m, b) \in Nat /\ held[m][b] \in Nat /\ w.hi \in Nat
  BY <1>1, WEndType
<1>3. \A p \in Nat, sp \in Span : PendingWrite(m, b, p, sp) => p < e
  <2>1. End(WriteStream(m, b)) \in Nat
    BY PositionType, WriteStreamType
  <2> QED
    BY <2>1, PendingPositions
<1>4. (held[m][b] <= WEnd(m, b))'
  BY <1>2 DEF OrderedIn
<1>5. WriteInRange(m, b)'
  BY <1>1, <1>2 DEF OrderedIn, WriteInRange
<1>6. WritesSorted(m, b)'
  <2> SUFFICES ASSUME NEW p \in Nat, NEW q \in Nat, NEW sp \in Span, NEW sq \in Span,
                      PendingWrite(m, b, p, sp)', PendingWrite(m, b, q, sq)'
               PROVE  (p < q => sp.hi < sq.hi) /\ (p = q => sp = sq)
    BY DEF WritesSorted
  <2>1. CASE PendingWrite(m, b, p, sp) /\ PendingWrite(m, b, q, sq)
    BY <2>1 DEF OrderedIn, WritesSorted
  <2>2. CASE PendingWrite(m, b, p, sp) /\ ~PendingWrite(m, b, q, sq)
    <3>1. q = e /\ sq = w /\ p < e /\ sp.hi <= WEnd(m, b)
      BY <1>3, <2>2 DEF OrderedIn, WriteInRange
    <3> QED
      BY <1>1, <1>2, <3>1
  <2>3. CASE ~PendingWrite(m, b, p, sp) /\ PendingWrite(m, b, q, sq)
    <3>1. p = e /\ q < e
      BY <1>3, <2>3
    <3> QED
      BY <3>1
  <2>4. CASE ~PendingWrite(m, b, p, sp) /\ ~PendingWrite(m, b, q, sq)
    BY <2>4
  <2> QED
    BY <2>1, <2>2, <2>3, <2>4
<1>7. WritesReach(m, b)'
  BY DEF WritesReach
<1> QED
  BY <1>4, <1>5, <1>6, <1>7 DEF OrderedIn

\* The first pending write lands.
LEMMA OrderLands ==
  ASSUME TypeOK, NEW m \in Mem, NEW b \in Buffers, OrderedIn(m, b),
         NEW e \in Nat, NEW w \in Span, PendingWrite(m, b, e, w),
         e = done[WriteStream(m, b)] + 1,
         \A p \in Nat, sp \in Span :
           PendingWrite(m, b, p, sp)' <=> PendingWrite(m, b, p, sp) /\ p # e,
         held'[m][b] = w.hi, WEnd(m, b)' = WEnd(m, b)
  PROVE  OrderedIn(m, b)'
<1>1. \A sp \in Span : sp.hi \in Nat
  BY DEF Span
<1>2. w.hi <= WEnd(m, b) /\ WEnd(m, b) \in Nat
  BY WEndType DEF OrderedIn, WriteInRange
<1>3. \A p \in Nat, sp \in Span : PendingWrite(m, b, p, sp) /\ p # e => e < p /\ w.hi < sp.hi
  <2>1. done[WriteStream(m, b)] \in Nat
    BY PositionType, WriteStreamType
  <2> QED
    BY <2>1, PendingPositions DEF OrderedIn, WritesSorted
<1>4. WriteInRange(m, b)'
  BY <1>3 DEF OrderedIn, WriteInRange
<1>5. WritesSorted(m, b)'
  BY DEF OrderedIn, WritesSorted
<1>6. WritesReach(m, b)'
  <2>1. PICK p \in Nat, sp \in Span : PendingWrite(m, b, p, sp) /\ sp.hi = WEnd(m, b)
    <3>1. held[m][b] # WEnd(m, b)
      <4>1. held[m][b] < w.hi /\ held[m][b] \in Nat
        BY WEndType DEF OrderedIn, WriteInRange
      <4> QED
        BY <1>1, <1>2, <4>1
    <3> QED
      BY <3>1 DEF OrderedIn, WritesReach
  <2>2. CASE p # e
    BY <2>1, <2>2 DEF WritesReach
  <2>3. CASE p = e
    <3>1. sp = w
      BY <2>1, <2>3 DEF OrderedIn, WritesSorted
    <3> QED
      BY <2>1, <3>1 DEF WritesReach
  <2> QED
    BY <2>2, <2>3
<1> QED
  BY <1>2, <1>4, <1>5, <1>6 DEF OrderedIn

\* The CPU writes the host rings of a block's outputs, which no copy writes.
LEMMA CpuWorkHeld ==
  ASSUME TypeOK, ControlOK, NEW k \in Blocks, CpuWork(k)
  PROVE  /\ SamePending /\ StreamStep
         /\ \A m \in Mem, b \in Buffers : Moved(m, b) =>
              held'[m][b] = held[m][b] /\ WEnd(m, b)' = WEnd(m, b)
         /\ \A b \in Buffers : held'["device"][b] = held["device"][b] /\ DevEnd(b)' = DevEnd(b)
         /\ \A b \in Buffers : H2D(b) =>
              /\ b \in Outs(k) => held'["host"][b] = WriteTo(b) /\ HostEnd(b)' = WriteTo(b)
              /\ b \notin Outs(k) =>
                   held'["host"][b] = held["host"][b] /\ HostEnd(b)' = HostEnd(b)
<1>1. queue' = queue /\ done' = done
  BY DEF CpuWork
<1>2. \A m \in Mem, b \in Buffers :
        held'[m][b] = IF m = "host" /\ b \in Outs(k) THEN nwritten[b] + batch[k] ELSE held[m][b]
  BY DEF CpuWork, TypeOK
<1>3. \A b \in Outs(k) : H2D(b) /\ ~D2H(b) /\ WriteTo(b) = nwritten[b] + batch[k]
  BY CpuWorkCounts, Graph DEF Outs
<1>4. /\ \A m \in Mem, b \in Buffers : Moved(m, b) =>
           held'[m][b] = held[m][b] /\ WEnd(m, b)' = WEnd(m, b)
      /\ \A b \in Buffers : held'["device"][b] = held["device"][b] /\ DevEnd(b)' = DevEnd(b)
  BY <1>2, <1>3, CpuWorkCounts DEF Mem, Moved, WEnd
<1>5. \A b \in Buffers : H2D(b) =>
        /\ b \in Outs(k) => held'["host"][b] = WriteTo(b) /\ HostEnd(b)' = WriteTo(b)
        /\ b \notin Outs(k) => held'["host"][b] = held["host"][b] /\ HostEnd(b)' = HostEnd(b)
  BY <1>2, <1>3, CpuWorkCounts DEF Mem
<1> QED
  BY <1>1, <1>4, <1>5, QuietPending

LEMMA ExecCounts ==
  ASSUME NEW s \in Streams, Exec(s)
  PROVE  SameCounts /\ SameEnds /\ UNCHANGED <<events, counts, control, life>>
<1>1. UNCHANGED <<events, counts, control, life>> /\ SameCounts
  BY CountsRest DEF Exec, control
<1> QED
  BY <1>1 DEF SameEnds, SameCounts, SameReads, SameWrites

LEMMA OrderExec ==
  ASSUME TypeOK, Places, WritesInOrder, NEW s \in Streams, Exec(s)
  PROVE  WritesInOrder'
<1>1. \A m \in Mem, b \in Buffers : Moved(m, b) => WEnd(m, b)' = WEnd(m, b)
  BY ExecCounts DEF Moved, WEnd, SameEnds
<1>2. ASSUME NEW m \in Mem, NEW b \in Buffers, Moved(m, b) PROVE OrderedIn(m, b)'
  <2>0. done[s] + 1 \in Nat
    BY PositionType
  <2>1. CASE /\ WriteStream(m, b) = s
             /\ \E sp \in Span : PendingWrite(m, b, done[s] + 1, sp) /\ held'[m][b] = sp.hi
    <3>1. PICK w \in Span : PendingWrite(m, b, done[s] + 1, w) /\ held'[m][b] = w.hi
      BY <2>1
    <3>2. PICK e \in Nat : e = done[s] + 1
      BY <2>0
    <3>3. \A p \in Nat, sp \in Span :
            PendingWrite(m, b, p, sp)' <=> PendingWrite(m, b, p, sp) /\ p # e
      BY <2>1, <3>2, ExecPending
    <3> QED
      BY <1>1, <1>2, <2>1, <3>1, <3>2, <3>3, OrderLands DEF WritesInOrder
  <2>2. CASE /\ held'[m][b] = held[m][b]
             /\ \A sp \in Span : ~(WriteStream(m, b) = s /\ PendingWrite(m, b, done[s] + 1, sp))
    <3>1. \A p \in Nat, sp \in Span : PendingWrite(m, b, p, sp)' <=> PendingWrite(m, b, p, sp)
      BY <2>2, ExecPending
    <3> QED
      BY <1>1, <1>2, <2>2, <3>1, OrderKept DEF WritesInOrder
  <2> QED
    BY <2>1, <2>2, ExecPending
<1>3. ASSUME NEW b \in Buffers, H2D(b) PROVE held'["host"][b] = HostEnd(b)'
  <2>1. ~D2H(b) /\ ~Moved("host", b) /\ "host" \in Mem
    BY <1>3, Graph DEF Moved, Mem
  <2>2. \A p \in Nat, sp \in Span : ~PendingWrite("host", b, p, sp)
    BY <2>1, WriteStreamType DEF PendingWrite, Places, Placed
  <2>3. done[s] + 1 \in Nat
    BY PositionType
  <2>4. held'["host"][b] = held["host"][b]
    BY <2>1, <2>2, <2>3, ExecPending
  <2> QED
    BY <1>3, <2>4, ExecCounts DEF WritesInOrder, SameEnds
<1> QED
  BY <1>2, <1>3 DEF WritesInOrder

LEMMA OrderStep ==
  ASSUME Base, TypeOK', Places, WritesInOrder, [Next]_vars
  PROVE  WritesInOrder'
<1> USE DEF Base
<1>1. CASE Quiet
  <2>1. \A m \in Mem, b \in Buffers : Moved(m, b) => WEnd(m, b)' = WEnd(m, b)
    BY <1>1 DEF Moved, WEnd, Quiet, SameEnds
  <2> QED
    BY <1>1, <2>1, OrderKept DEF WritesInOrder, Quiet, SamePending, SameEnds
<1>2. ASSUME NEW k \in Blocks, Kernel(k) PROVE WritesInOrder'
  <2>1. \A b \in Buffers : H2D(b) => held'["host"][b] = HostEnd(b)'
    BY <1>2, KernelPending, KernelCounts DEF WritesInOrder
  <2>2. ASSUME NEW m \in Mem, NEW b \in Buffers, Moved(m, b) PROVE OrderedIn(m, b)'
    <3>1. CASE m = "device" /\ b \in Outs(k)
      <4>1. PICK e \in Nat : e = End(k) + 1
        BY <1>2, KernelPending, PositionType DEF Streams
      <4>2. PICK w : w = OutSpan(k, "device", b)
        OBVIOUS
      <4>3. /\ WriteStream(m, b) = k /\ w \in Span /\ e > End(k)
            /\ w.hi = nwritten[b] + batch[k] /\ nwritten[b] < w.hi
        <5>1. ~H2D(b) /\ Writer[b] = k
          BY <1>2, <3>1, KernelCounts DEF Outs
        <5>2. batch[k] >= 1 /\ batch[k] \in Nat /\ nwritten[b] \in Nat
          BY <1>2, CountType DEF Kernel, ControlOK, ThreadOK, Active
        <5>3. w \in Span /\ w.hi = nwritten[b] + batch[k]
          BY <3>1, <4>2, SpanType DEF OutSpan
        <5>4. End(k) \in Nat
          BY <1>2, PositionType DEF Kernel, Streams
        <5> QED
          BY <3>1, <4>1, <5>1, <5>2, <5>3, <5>4 DEF WriteStream
      <4>4. \A p \in Nat, sp \in Span :
              PendingWrite(m, b, p, sp)' <=> PendingWrite(m, b, p, sp) \/ (p = e /\ sp = w)
        BY <1>2, <3>1, <4>1, <4>2, KernelPending
      <4>5. held'[m][b] = held[m][b] /\ WEnd(m, b)' = w.hi /\ WEnd(m, b) < w.hi
        BY <1>2, <3>1, <4>3, KernelCounts, KernelPending DEF WEnd, Outs
      <4> QED
        BY <2>2, <4>3, <4>4, <4>5, OrderAdds DEF WritesInOrder
    <3>2. CASE ~(m = "device" /\ b \in Outs(k))
      <4>1. \A p \in Nat, sp \in Span : PendingWrite(m, b, p, sp)' <=> PendingWrite(m, b, p, sp)
        BY <1>2, <3>2, KernelPending
      <4>2. held'[m][b] = held[m][b] /\ WEnd(m, b)' = WEnd(m, b)
        BY <1>2, <2>2, <3>2, KernelPending, KernelCounts DEF WEnd, Outs, Moved
      <4> QED
        BY <2>2, <4>1, <4>2, OrderKept DEF WritesInOrder
    <3> QED
      BY <3>1, <3>2
  <2> QED
    BY <2>1, <2>2 DEF WritesInOrder
<1>3. ASSUME NEW k \in Blocks, NEW c \in Buffers, post_work_h2d(k, c) PROVE WritesInOrder'
  <2>1. /\ \A b \in Buffers \ {c} : SameWrites(b)
        /\ HostEnd(c)' = HostEnd(c) /\ DevEnd(c) = nwritten[c] /\ DevEnd(c)' = WriteTo(c)
        /\ WriteTo(c) = nwritten[c] + batch[k] /\ H2D(c)
    BY <1>3, UploadCounts, PostCounts, UploadPending
  <2>2. \A b \in Buffers : H2D(b) => held'["host"][b] = HostEnd(b)'
    BY <1>3, <2>1, UploadPending DEF WritesInOrder, SameWrites
  <2>3. ASSUME NEW m \in Mem, NEW b \in Buffers, Moved(m, b) PROVE OrderedIn(m, b)'
    <3>1. CASE m = "device" /\ b = c
      <4>1. PICK e \in Nat : e = End(b) + 2
        BY PositionType DEF Streams
      <4>2. PICK w : w = OutSpan(k, "device", b)
        OBVIOUS
      <4>3. /\ WriteStream(m, b) = b /\ w \in Span /\ e > End(b)
            /\ w.hi = nwritten[b] + batch[k] /\ nwritten[b] < w.hi
        <5>2. batch[k] >= 1 /\ batch[k] \in Nat /\ nwritten[b] \in Nat
          BY <1>3, CountType DEF post_work_h2d, At, ControlOK, ThreadOK, Active
        <5>3. w \in Span /\ w.hi = nwritten[b] + batch[k]
          BY <3>1, <4>2, SpanType DEF OutSpan
        <5>4. End(b) \in Nat
          BY PositionType DEF Streams
        <5> QED
          BY <2>1, <3>1, <4>1, <5>2, <5>3, <5>4 DEF WriteStream
      <4>4. \A p \in Nat, sp \in Span :
              PendingWrite(m, b, p, sp)' <=> PendingWrite(m, b, p, sp) \/ (p = e /\ sp = w)
        BY <1>3, <3>1, <4>1, <4>2, UploadPending
      <4>5. held'[m][b] = held[m][b] /\ WEnd(m, b)' = w.hi /\ WEnd(m, b) < w.hi
        BY <1>3, <2>1, <3>1, <4>3, UploadPending DEF WEnd
      <4> QED
        BY <2>3, <4>3, <4>4, <4>5, OrderAdds DEF WritesInOrder
    <3>2. CASE ~(m = "device" /\ b = c)
      <4>1. \A p \in Nat, sp \in Span : PendingWrite(m, b, p, sp)' <=> PendingWrite(m, b, p, sp)
        BY <1>3, <3>2, UploadPending
      <4>2. held'[m][b] = held[m][b] /\ WEnd(m, b)' = WEnd(m, b)
        BY <1>3, <2>1, <2>3, <3>2, UploadPending DEF WEnd, Moved, SameWrites, Mem
      <4> QED
        BY <2>3, <4>1, <4>2, OrderKept DEF WritesInOrder
    <3> QED
      BY <3>1, <3>2
  <2> QED
    BY <2>2, <2>3 DEF WritesInOrder
<1>4. ASSUME NEW k \in Blocks, NEW c \in Buffers, post_work_d2h(k, c) PROVE WritesInOrder'
  <2>1. /\ \A b \in Buffers \ {c} : SameWrites(b)
        /\ HostEnd(c) = nwritten[c] /\ HostEnd(c)' = WriteTo(c) /\ DevEnd(c)' = DevEnd(c)
        /\ WriteTo(c) = nwritten[c] + batch[k] /\ D2H(c) /\ ~H2D(c)
    BY <1>4, DownloadCounts, PostCounts, DownloadPending, Graph
  <2>2. \A b \in Buffers : H2D(b) => held'["host"][b] = HostEnd(b)'
    BY <1>4, <2>1, DownloadPending DEF WritesInOrder, SameWrites
  <2>3. ASSUME NEW m \in Mem, NEW b \in Buffers, Moved(m, b) PROVE OrderedIn(m, b)'
    <3>1. CASE m = "host" /\ b = c
      <4>1. PICK e \in Nat : e = End(b) + 2
        BY PositionType DEF Streams
      <4>2. PICK w : w = OutSpan(k, "host", b)
        OBVIOUS
      <4>3. /\ WriteStream(m, b) = b /\ w \in Span /\ e > End(b)
            /\ w.hi = nwritten[b] + batch[k] /\ nwritten[b] < w.hi
        <5>2. batch[k] >= 1 /\ batch[k] \in Nat /\ nwritten[b] \in Nat
          BY <1>4, CountType DEF post_work_d2h, At, ControlOK, ThreadOK, Active
        <5>3. w \in Span /\ w.hi = nwritten[b] + batch[k]
          BY <3>1, <4>2, SpanType DEF OutSpan
        <5>4. End(b) \in Nat
          BY PositionType DEF Streams
        <5> QED
          BY <2>1, <3>1, <4>1, <5>2, <5>3, <5>4 DEF WriteStream
      <4>4. \A p \in Nat, sp \in Span :
              PendingWrite(m, b, p, sp)' <=> PendingWrite(m, b, p, sp) \/ (p = e /\ sp = w)
        BY <1>4, <3>1, <4>1, <4>2, DownloadPending
      <4>5. held'[m][b] = held[m][b] /\ WEnd(m, b)' = w.hi /\ WEnd(m, b) < w.hi
        BY <1>4, <2>1, <3>1, <4>3, DownloadPending DEF WEnd
      <4> QED
        BY <2>3, <4>3, <4>4, <4>5, OrderAdds DEF WritesInOrder
    <3>2. CASE ~(m = "host" /\ b = c)
      <4>1. \A p \in Nat, sp \in Span : PendingWrite(m, b, p, sp)' <=> PendingWrite(m, b, p, sp)
        BY <1>4, <3>2, DownloadPending
      <4>2. held'[m][b] = held[m][b] /\ WEnd(m, b)' = WEnd(m, b)
        BY <1>4, <2>1, <2>3, <3>2, DownloadPending DEF WEnd, Moved, SameWrites, Mem
      <4> QED
        BY <2>3, <4>1, <4>2, OrderKept DEF WritesInOrder
    <3> QED
      BY <3>1, <3>2
  <2> QED
    BY <2>2, <2>3 DEF WritesInOrder
<1>5. ASSUME NEW k \in Blocks, CpuWork(k) PROVE WritesInOrder'
  <2>1. \A b \in Buffers : H2D(b) => held'["host"][b] = HostEnd(b)'
    BY <1>5, CpuWorkHeld DEF WritesInOrder
  <2>2. \A m \in Mem, b \in Buffers : Moved(m, b) => OrderedIn(m, b)'
    BY <1>5, CpuWorkHeld, OrderKept DEF WritesInOrder, SamePending
  <2> QED
    BY <2>1, <2>2 DEF WritesInOrder
<1>6. ASSUME NEW s \in Streams, Exec(s) PROVE WritesInOrder'
  BY <1>6, OrderExec
<1> QED
  BY <1>1, <1>2, <1>3, <1>4, <1>5, <1>6, QuietStep

-----------------------------------------------------------------------------
(* The kernels of a reader read its input in order and without gaps, up to *)
(* the end of what is launched.                                            *)

KernelRead(b, k, p, sp) == PendingRead(k, p, sp) /\ sp.buf = b

\* What is read is consumed as a whole or not at all.
ReadsInRange(b, k) ==
  \A p \in Nat, sp \in Span : KernelRead(b, k, p, sp) =>
    /\ sp.lo < sp.hi /\ sp.hi <= ReadEnd(b, k)
    /\ sp.hi <= nread[b][k] \/ nread[b][k] <= sp.lo

ReadsSorted(b, k) ==
  \A p, q \in Nat : \A sp, sq \in Span :
    KernelRead(b, k, p, sp) /\ KernelRead(b, k, q, sq) =>
      (p < q => sp.hi <= sq.lo) /\ (p = q => sp = sq)

ReadsReach(b, k) ==
  \A p \in Nat, sp \in Span : KernelRead(b, k, p, sp) =>
    \/ sp.hi = ReadEnd(b, k)
    \/ \E q \in Nat, sq \in Span : KernelRead(b, k, q, sq) /\ p < q /\ sq.lo = sp.hi

ReadBy(b, k) == ReadsInRange(b, k) /\ ReadsSorted(b, k) /\ ReadsReach(b, k)

ReadsInOrder == \A b \in Buffers : \A k \in Readers[b] \cap Gpu : ReadBy(b, k)

LEMMA ReadEndType ==
  ASSUME TypeOK
  PROVE  \A b \in Buffers, k \in Blocks :
           /\ nread[b][k] \in Nat /\ ReadEnd(b, k) \in Nat /\ ReadTo(b, k) \in Nat
           /\ nread[b][k] <= ReadEnd(b, k) /\ nread[b][k] <= ReadTo(b, k)
<1> TAKE b \in Buffers, k \in Blocks
<1>1. nread[b][k] \in Nat /\ batch[k] \in Nat
  BY CountType
<1> QED
  BY <1>1 DEF ReadEnd, ReadTo, Plus

\* A reader consumes what it has launched, in steps that execute nothing.
LEMMA ReadersMove ==
  ASSUME TypeOK, ControlOK, [Next]_vars
  PROVE  \A b \in Buffers : \A k \in Readers[b] \cap Gpu :
           \/ nread'[b][k] = nread[b][k]
           \/ nread'[b][k] = ReadEnd(b, k) /\ Quiet
<1>1. ASSUME NEW j \in Blocks, NEW c \in Buffers, Consume(j, c)
      PROVE  \A b \in Buffers : \A k \in Readers[b] \cap Gpu :
               nread'[b][k] = nread[b][k] \/ (nread'[b][k] = ReadEnd(b, k) /\ Quiet)
  <2>1. nread' = [nread EXCEPT ![c] = [@ EXCEPT ![j] = ReadTo(c, j)]] /\ ReadEnd(c, j) = ReadTo(c, j)
    BY <1>1, ConsumeCounts
  <2>2. Quiet
    <3>1. ~post_work_h2d(j, c) /\ ~post_work_d2h(j, c)
      BY <1>1 DEF Consume, At, post_work_h2d, post_work_d2h
    <3> QED
      BY <1>1, <3>1, QuietCall DEF BufferCall, post_work
  <2>3. nread \in [Buffers -> [Blocks -> Nat]]
    BY DEF TypeOK
  <2>4. ReadEnd(c, j) \in Nat
    BY ReadEndType
  <2> QED
    BY <2>1, <2>2, <2>3, <2>4, Graph
<1>2. ASSUME NEW j \in Blocks, NEW c \in Buffers, BufferCall(j, c), ~Consume(j, c)
      PROVE  nread' = nread
  BY <1>2 DEF BufferCall, post_work, Publish, wait_for_work, mark_device_ready, mark_read_done_wait,
      mark_read_done_record, wait_host_ready, wait_host_ready_return, post_work_h2d,
      post_work_h2d_ready, post_work_d2h, post_work_d2d, counts
<1>3. ASSUME NEW j \in Blocks, \/ \E n \in 1..N : Poll(j, n)
                              \/ Kernel(j) \/ CpuWork(j) \/ EndLoop(j) \/ Halt(j)
      PROVE  nread' = nread
  BY <1>3 DEF Poll, Kernel, CpuWork, EndLoop, Halt, counts
<1>4. /\ \A s \in Streams : Exec(s) => nread' = nread
      /\ \A c \in Buffers : Destroy(c) \/ Free(c) => nread' = nread
      /\ UNCHANGED vars => nread' = nread
  BY DEF Exec, Destroy, Free, vars, counts
<1>5. nread' = nread \/ \E j \in Blocks, c \in Buffers : Consume(j, c)
  <2>1. ASSUME NEW j \in Blocks, Thread(j)
        PROVE  nread' = nread \/ \E c \in Buffers : Consume(j, c)
    BY <1>2, <1>3, <2>1 DEF Thread
  <2>2. CASE Teardown
    BY <1>3, <1>4, <2>2 DEF Teardown
  <2> QED
    BY <1>4, <2>1, <2>2 DEF Next
<1> QED
  BY <1>1, <1>5

LEMMA ReadsKept ==
  ASSUME TypeOK, NEW b \in Buffers, NEW k \in Readers[b] \cap Gpu, ReadBy(b, k),
         \A p \in Nat, sp \in Span : KernelRead(b, k, p, sp)' <=> KernelRead(b, k, p, sp),
         ReadEnd(b, k)' = ReadEnd(b, k),
         nread'[b][k] = nread[b][k] \/ nread'[b][k] = ReadEnd(b, k)
  PROVE  ReadBy(b, k)'
<1>1. ReadsInRange(b, k)'
  BY DEF ReadBy, ReadsInRange
<1>2. ReadsSorted(b, k)' /\ ReadsReach(b, k)'
  BY DEF ReadBy, ReadsSorted, ReadsReach
<1> QED
  BY <1>1, <1>2 DEF ReadBy

LEMMA ReadsAdd ==
  ASSUME TypeOK, TypeOK', NEW b \in Buffers, NEW k \in Readers[b] \cap Gpu, ReadBy(b, k),
         NEW e \in Nat, NEW w \in Span, e > End(k),
         \A p \in Nat, sp \in Span :
           KernelRead(b, k, p, sp)' <=> KernelRead(b, k, p, sp) \/ (p = e /\ sp = w),
         ReadEnd(b, k) = w.lo, nread[b][k] = w.lo, ReadEnd(b, k)' = w.hi, w.lo < w.hi,
         nread'[b][k] = nread[b][k]
  PROVE  ReadBy(b, k)'
<1>1. \A sp \in Span : sp.hi \in Nat /\ sp.lo \in Nat
  BY DEF Span
<1>2. \A p \in Nat, sp \in Span : KernelRead(b, k, p, sp) => p < e /\ sp.hi <= w.lo
  <2>1. End(k) \in Nat /\ k \in Streams
    BY PositionType DEF Streams
  <2> QED
    BY <2>1, PendingPositions DEF ReadBy, ReadsInRange, KernelRead
<1>3. ReadsInRange(b, k)'
  <2> SUFFICES ASSUME NEW p \in Nat, NEW sp \in Span, KernelRead(b, k, p, sp)'
               PROVE  /\ sp.lo < sp.hi /\ sp.hi <= w.hi
                      /\ sp.hi <= nread[b][k] \/ nread[b][k] <= sp.lo
    BY DEF ReadsInRange
  <2>1. CASE KernelRead(b, k, p, sp)
    BY <1>1, <1>2, <2>1 DEF ReadBy, ReadsInRange
  <2>2. CASE p = e /\ sp = w
    BY <1>1, <2>2
  <2> QED
    BY <2>1, <2>2
<1>4. ReadsSorted(b, k)'
  <2> SUFFICES ASSUME NEW p \in Nat, NEW q \in Nat, NEW sp \in Span, NEW sq \in Span,
                      KernelRead(b, k, p, sp)', KernelRead(b, k, q, sq)'
               PROVE  (p < q => sp.hi <= sq.lo) /\ (p = q => sp = sq)
    BY DEF ReadsSorted
  <2>1. CASE KernelRead(b, k, p, sp) /\ KernelRead(b, k, q, sq)
    BY <2>1 DEF ReadBy, ReadsSorted
  <2>2. CASE KernelRead(b, k, p, sp) /\ ~KernelRead(b, k, q, sq)
    <3>1. q = e /\ sq = w /\ p < e /\ sp.hi <= w.lo
      BY <1>2, <2>2
    <3> QED
      BY <3>1
  <2>3. CASE ~KernelRead(b, k, p, sp) /\ KernelRead(b, k, q, sq)
    <3>1. p = e /\ q < e
      BY <1>2, <2>3
    <3> QED
      BY <3>1
  <2>4. CASE ~KernelRead(b, k, p, sp) /\ ~KernelRead(b, k, q, sq)
    BY <2>4
  <2> QED
    BY <2>1, <2>2, <2>3, <2>4
<1>5. ReadsReach(b, k)'
  <2> SUFFICES ASSUME NEW p \in Nat, NEW sp \in Span, KernelRead(b, k, p, sp)'
               PROVE  \/ sp.hi = w.hi
                      \/ \E q \in Nat, sq \in Span :
                           KernelRead(b, k, q, sq)' /\ p < q /\ sq.lo = sp.hi
    BY DEF ReadsReach
  <2>1. CASE KernelRead(b, k, p, sp)
    BY <1>2, <2>1 DEF ReadBy, ReadsReach
  <2>2. CASE p = e /\ sp = w
    BY <2>2
  <2> QED
    BY <2>1, <2>2
<1> QED
  BY <1>3, <1>4, <1>5 DEF ReadBy

LEMMA ReadsTaken ==
  ASSUME TypeOK, NEW b \in Buffers, NEW k \in Readers[b] \cap Gpu, ReadBy(b, k),
         NEW e \in Nat, e = done[k] + 1,
         \A p \in Nat, sp \in Span :
           KernelRead(b, k, p, sp)' <=> KernelRead(b, k, p, sp) /\ p # e,
         ReadEnd(b, k)' = ReadEnd(b, k), nread'[b][k] = nread[b][k]
  PROVE  ReadBy(b, k)'
<1>1. ReadsInRange(b, k)' /\ ReadsSorted(b, k)'
  BY DEF ReadBy, ReadsInRange, ReadsSorted
<1>2. \A p \in Nat, sp \in Span : KernelRead(b, k, p, sp) => e <= p
  <2>1. done[k] \in Nat /\ k \in Streams
    BY PositionType DEF Streams
  <2> QED
    BY <2>1, PendingPositions DEF KernelRead
<1>3. ReadsReach(b, k)'
  <2> SUFFICES ASSUME NEW p \in Nat, NEW sp \in Span, KernelRead(b, k, p, sp)'
               PROVE  \/ sp.hi = ReadEnd(b, k)'
                      \/ \E q \in Nat, sq \in Span :
                           KernelRead(b, k, q, sq)' /\ p < q /\ sq.lo = sp.hi
    BY DEF ReadsReach
  <2>1. KernelRead(b, k, p, sp) /\ e < p
    BY <1>2
  <2>2. CASE sp.hi = ReadEnd(b, k)
    BY <2>2
  <2>3. ASSUME NEW q \in Nat, NEW sq \in Span, KernelRead(b, k, q, sq), p < q, sq.lo = sp.hi
        PROVE  KernelRead(b, k, q, sq)' /\ p < q /\ sq.lo = sp.hi
    BY <2>1, <2>3
  <2> QED
    BY <2>1, <2>2, <2>3 DEF ReadBy, ReadsReach
<1> QED
  BY <1>1, <1>3 DEF ReadBy

LEMMA ReadsStep ==
  ASSUME Base, TypeOK', Places, ReadsInOrder, [Next]_vars
  PROVE  ReadsInOrder'
<1> USE DEF Base
<1> SUFFICES ASSUME NEW b \in Buffers, NEW r \in Readers[b] \cap Gpu
             PROVE  ReadBy(b, r)'
  BY DEF ReadsInOrder
<1>0. ReadBy(b, r) /\ r \in Streams /\ r \notin Buffers /\ b \in Ins(r) /\ r \in Blocks
  BY Graph DEF ReadsInOrder, Streams, Ins
<1>1. CASE Quiet
  BY <1>0, <1>1, ReadsKept, ReadersMove DEF Quiet, SamePending, SameEnds, KernelRead
<1>2. ASSUME NEW k \in Blocks, Kernel(k) PROVE ReadBy(b, r)'
  <2>1. nread' = nread
    BY <1>2, KernelCounts
  <2>2. CASE r = k
    <3>1. PICK e \in Nat : e = End(k) + 1
      BY <1>0, <2>2, PositionType
    <3>2. PICK w : w = InSpan(k, "device", b)
      OBVIOUS
    <3>3. /\ w \in Span /\ e > End(k) /\ w.lo = nread[b][k] /\ w.hi = nread[b][k] + batch[k]
          /\ w.lo < w.hi
      <4>1. batch[k] >= 1 /\ batch[k] \in Nat /\ nread[b][k] \in Nat
        BY <1>2, CountType DEF Kernel, ControlOK, ThreadOK, Active
      <4>2. w \in Span
        BY <3>2, SpanType DEF Mem
      <4>3. End(k) \in Nat
        BY <1>0, <2>2, PositionType
      <4> QED
        BY <3>1, <3>2, <4>1, <4>2, <4>3 DEF InSpan
    <3>4. ASSUME NEW p \in Nat, NEW sp \in Span
          PROVE  KernelRead(b, k, p, sp)' <=> KernelRead(b, k, p, sp) \/ (p = e /\ sp = w)
      <4>1. \A c \in Ins(k) : InSpan(k, "device", c).buf = c
        BY DEF InSpan
      <4>2. PendingRead(k, p, sp)' <=>
              \/ PendingRead(k, p, sp)
              \/ p = e /\ \E c \in Ins(k) : sp = InSpan(k, "device", c)
        BY <1>0, <1>2, <2>2, <3>1, KernelPending
      <4> QED
        BY <1>0, <2>2, <3>2, <4>1, <4>2 DEF KernelRead
    <3>5. ReadEnd(b, k) = w.lo /\ ReadEnd(b, k)' = w.hi
      BY <1>0, <1>2, <2>2, <3>3, KernelCounts
    <3>6. k \in Readers[b] \cap Gpu /\ ReadBy(b, k) /\ nread'[b][k] = nread[b][k]
      BY <1>0, <2>1, <2>2
    <3>7. ReadEnd(b, k) = w.lo /\ nread[b][k] = w.lo /\ e > End(k) /\ w.lo < w.hi
      BY <3>3, <3>5
    <3>8. TypeOK /\ w \in Span /\ ReadEnd(b, k)' = w.hi
      BY <3>3, <3>5
    <3>9. ReadBy(b, k)'
      <4> HIDE DEF Base
      <4> QED
        BY <3>4, <3>6, <3>7, <3>8, ReadsAdd
    <3> QED
      BY <2>2, <3>9
  <2>3. CASE r # k
    <3>1. \A p \in Nat, sp \in Span : KernelRead(b, r, p, sp)' <=> KernelRead(b, r, p, sp)
      BY <1>0, <1>2, <2>3, KernelPending DEF KernelRead
    <3>2. ReadEnd(b, r)' = ReadEnd(b, r)
      BY <1>2, <2>3, KernelCounts
    <3> QED
      BY <1>0, <2>1, <3>1, <3>2, ReadsKept
  <2> QED
    BY <2>2, <2>3
<1>3. ASSUME NEW k \in Blocks, NEW c \in Buffers, post_work_h2d(k, c) \/ post_work_d2h(k, c)
      PROVE  ReadBy(b, r)'
  <2>1. nread' = nread /\ ReadEnd(b, r)' = ReadEnd(b, r)
    <3>1. PostStep(k, c, "dev_ready") \/ PostStep(k, c, "publish")
      BY <1>3, UploadCounts, DownloadCounts
    <3> QED
      BY <3>1, PostCounts DEF SameReads
  <2>2. r # c
    BY <1>0
  <2>3. \A p \in Nat, sp \in Span : PendingRead(r, p, sp)' <=> PendingRead(r, p, sp)
    <3>1. CASE post_work_h2d(k, c)
      BY <1>0, <2>2, <3>1, UploadPending
    <3>2. CASE post_work_d2h(k, c)
      BY <1>0, <2>2, <3>2, DownloadPending
    <3> QED
      BY <1>3, <3>1, <3>2
  <2>4. \A p \in Nat, sp \in Span : KernelRead(b, r, p, sp)' <=> KernelRead(b, r, p, sp)
    BY <2>3 DEF KernelRead
  <2> QED
    BY <1>0, <2>1, <2>4, ReadsKept
<1>4. ASSUME NEW k \in Blocks, CpuWork(k) PROVE ReadBy(b, r)'
  <2>1. nread' = nread /\ ReadEnd(b, r)' = ReadEnd(b, r)
    BY <1>4, CpuWorkCounts DEF SameReads
  <2>2. \A p \in Nat, sp \in Span : KernelRead(b, r, p, sp)' <=> KernelRead(b, r, p, sp)
    BY <1>0, <1>4, CpuWorkHeld DEF KernelRead, SamePending
  <2> QED
    BY <1>0, <2>1, <2>2, ReadsKept
<1>5. ASSUME NEW s \in Streams, Exec(s) PROVE ReadBy(b, r)'
  <2>1. nread' = nread /\ ReadEnd(b, r)' = ReadEnd(b, r)
    BY <1>5, ExecCounts DEF counts, SameEnds
  <2>2. PICK e \in Nat : e = done[r] + 1
    BY <1>0, PositionType
  <2>3. CASE s = r
    <3>1. \A p \in Nat, sp \in Span :
            KernelRead(b, r, p, sp)' <=> KernelRead(b, r, p, sp) /\ p # e
      BY <1>0, <1>5, <2>2, <2>3, ExecPending DEF KernelRead
    <3> QED
      BY <1>0, <2>1, <2>2, <3>1, ReadsTaken
  <2>4. CASE s # r
    <3>1. \A p \in Nat, sp \in Span : KernelRead(b, r, p, sp)' <=> KernelRead(b, r, p, sp)
      BY <1>0, <1>5, <2>4, ExecPending DEF KernelRead
    <3> QED
      BY <1>0, <2>1, <3>1, ReadsKept
  <2> QED
    BY <2>3, <2>4
<1> QED
  BY <1>1, <1>2, <1>3, <1>4, <1>5, QuietStep

-----------------------------------------------------------------------------
Ordered == Base /\ Places /\ WritesInOrder /\ ReadsInOrder

LEMMA OrderedInvariant == Spec => []Ordered
<1>1. Init => Places /\ WritesInOrder /\ ReadsInOrder
  <2> SUFFICES ASSUME Init PROVE Places /\ WritesInOrder /\ ReadsInOrder
    OBVIOUS
  <2>1. \A s \in Streams : Waiting(s) = {}
    BY DEF Init, Waiting, End
  <2>2. /\ \A m \in Mem, b \in Buffers, p \in Nat, sp \in Span : ~PendingWrite(m, b, p, sp)
        /\ \A s \in Streams, p \in Nat, sp \in Span : ~PendingRead(s, p, sp)
    BY <2>1, WriteStreamType DEF PendingWrite, PendingRead
  <2>3. \A m \in Mem, b \in Buffers : held[m][b] = 0 /\ DevEnd(b) = 0 /\ HostEnd(b) = 0
    BY Graph DEF Init, DevEnd, HostEnd, Plus, Made, Hosted, Worked, Writing
  <2>4. WritesInOrder
    BY <2>2, <2>3 DEF WritesInOrder, OrderedIn, WriteInRange, WritesSorted, WritesReach, WEnd, Mem
  <2>5. ReadsInOrder
    BY <2>2, Graph
       DEF ReadsInOrder, ReadBy, ReadsInRange, ReadsSorted, ReadsReach, KernelRead, Streams
  <2> QED
    BY <2>1, <2>4, <2>5 DEF Places
<1>2. Base /\ Base' /\ Places /\ WritesInOrder /\ ReadsInOrder /\ [Next]_vars
        => Places' /\ WritesInOrder' /\ ReadsInOrder'
  BY PlacesStep, OrderStep, ReadsStep DEF Base
<1> QED
  BY <1>1, <1>2, BaseInvariant, PTL DEF Spec, Ordered
=============================================================================
