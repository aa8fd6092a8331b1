# A TLA+ model of gr-cuda

gr-cuda gives GNU Radio a buffer that lives on the host and on the GPU at once
(`cuda_buffer`), and blocks whose `work()` only enqueues kernels. The threads of
the flowgraph run ahead of the GPU; what keeps the data right is index
arithmetic on a double-mapped ring, and three CUDA events per buffer. This
directory models both, and around them the Python wrapper of user code, the
allocation of the rings, and the work calls of the blocks: those with state of
their own (`throttle`, `probe_rate`, `fft`), and those that move or combine
items, in CUDA and in CuPy. Most of the repository's lines are its build tools,
and they are modelled too: the reader of doxygen's XML, the docstrings made from
it, and the hook that keeps bindings in step with headers. TLC checks the models
on small instances, and TLAPS proves what it can for all instances.

    tlc -workers 2 -config ring.cfg MCCudaRing.tla
    tlapm CudaRingProofs.tla

## The system

| part | state | operations | interacts with |
|---|---|---|---|
| `cuda_buffer` as a ring (`lib/cuda_buffer.cc`, `cuda_buffer.h`) | write index, one read index per reader, last pruned count, tags, host and device memory | `space_available`, `write_pointer`, `_read_pointer`, `post_work`, `index_sub` | called by the scheduler of GNU Radio in the writer's and the readers' threads |
| `cuda_buffer` as a synchroniser | its stream, device-ready, host-ready and read-done event, the read-done mutex | `mark_/wait_device_ready`, `mark_/wait_host_ready`, `mark_/wait_read_done`, `post_work_h2d/d2h/d2d`, destructor | the streams of the blocks, the CPU threads that block on an event |
| `cuda_block_helper.h` | none | `wait_for_work`, `mark_work_done` | every buffer of the block |
| `cuda_block.h`, the blocks of `lib/` | a stream per block | `work`: wait, launch, mark | the two helpers |
| Python wrapper (`python/cuda/cuda_block.py`) | `_cuda_work_done`, the replaced `produce` | `_wrap_work` around `work`/`general_work` | the two helpers, user code in between |
| allocation (`allocate_buffer`, `lib/detail/*`) | virtual ranges, handles, pinned flag | `create`, `register_pinned`, `reset` | CUDA VMM, `mmap` |
| `throttle`, `probe_rate` | counters and clocks | `work`, `set_sample_rate`, `set_alpha`, `start` | another thread calls the setters |
| `fft`, the stream/vector blocks | plan cache, staging buffer, pointer tables | `work` | cuFFT, kernels |
| other blocks (`copy`, `add`, `multiply_const`, `tee`, `load`, `nop`, `null_*`, `*_cupy`) | parameters | `work`, `set_k` | one kernel each, or a few operations on whole arrays |
| `docs/doxygen/doxyxml/generated` | an object per XML element | `build`, `export` | `parse` of `doxyxml` |
| `docs/doxygen/doxyxml`, `update_pydoc.py` | members and caches, the dictionary of docstrings, the slots of templates | `scrape`, `sub` | doxygen's files, the pydoc templates |
| `scripts/check_bindtool_header_hashes.py` | none | `main` | headers, bindings, the other hooks of pre-commit |

What is hard about it: a thread per block, a stream per block and per buffer,
nothing ordered except by events whose meaning is "the latest record at the
moment the wait is enqueued"; several readers that share one read-done event;
CPU threads that block on the GPU (and so can deadlock); a CPU writer that no
event holds back; index arithmetic with a sentinel slot, history and wrap;
teardown while kernels are in flight; failure in the middle of an allocation or
of a work call; setters that race a work call. In the build tools: 81 classes
that differ in how an attribute or a child is kept and written again, files that
are missing or broken, names that collide when `::` becomes `_`, texts that are
used as patterns, and hooks that rewrite what an earlier hook has looked at.

## Modules

| module | models |
|---|---|
| `RingFifo` | the abstract FIFO a buffer promises: one writer, every reader takes every item once, in order, at most `Capacity` behind |
| `CudaRing` | the ring: indices, space, tags, memory cells, split copies |
| `BoundedStream` | the abstract device or host memory of one buffer as the GPU executes it |
| `CudaGraph` | a flowgraph of CPU and GPU blocks, their threads, all streams and events, teardown |
| `MCCudaRing`, `MCCudaGraph` | instances for TLC |
| `MCFlowgraph` | a flowgraph from its start to its end: `BufferAlloc` builds its buffers, `CudaGraph` runs it, both give the buffers back |
| `PyWork` | the Python wrapper of `work()` and `general_work()`, nested and raising |
| `BufferAlloc` | construction and destruction of buffers when any call may fail |
| `BufferSize` | the size of a buffer, with its proof |
| `Throttle` | the throttle's thread against `set_sample_rate` |
| `ProbeRate` | the probe's counts, rates and average, stopped and started, against `set_alpha` |
| `MCBlockThreads` | one of `PyWork`, `Throttle` and `ProbeRate` in each behaviour |
| `FftBlock` | `fft` (kernels, staging buffer, plans) and `fft_cupy` |
| `GpuBlocks` | `copy`, `tee`, `load`, `null_source`, `add`, `multiply_const`, the four stream and vector blocks and five blocks in CuPy |
| `MCGpuBlocks` | one of `FftBlock` and the blocks of `GpuBlocks` in each behaviour |
| `DoxyTypes` | what the 81 generated classes read and write |
| `DoxyParse` | `build()`, `export()` and the text of a description, for any of these classes |
| `Pydoc` | `scrape` and `sub`: from the index to the slots of the templates |
| `BindingHash` | headers, bindings, commits, the hook on hashes and the hooks after it |
| `BuildTools` | `Pydoc` and `BindingHash` side by side |
| `MCBuildTools` | one of `DoxyParse`, `Pydoc` and `BindingHash` in each behaviour |

The theorems of a module are in another that extends it:

| proofs | about |
|---|---|
| `CudaRingProofs` | `CudaRing` |
| `CudaGraphProofs` | `CudaGraph`: types, what each thread may be doing, positions in streams, cuts |
| `CudaGraphSafety` | `CudaGraph`: its safety properties and its refinement of `BoundedStream`; `MCFlowgraph` |
| `BufferAllocProofs` | `BufferAlloc` |
| `BlockThreadsProofs` | `PyWork`, `Throttle`, `ProbeRate` |
| `GpuBlocksProofs` | `FftBlock`, `GpuBlocks` |
| `BuildToolsProofs` | `Pydoc`, `BindingHash` |

`CudaGraph` uses the rings as `CudaRing` shows them to be: `n` items written from
item `w` on take the place of those `N` before. The kernels of the blocks are its
`Kernel` action. `PyWork` is about what one wrapped call does to the records;
that a block consumes before it records is `ConsumeFirst` in `CudaGraph`.

### CudaRing

One ring of `N` items. The scheduler (external) is the writer's thread
`AskSpace -> Work -> post_work -> update_write_pointer` and a `Consume` action
per reader. Items are numbered in the order they are produced; a cell of the
ring holds the number of the item written there last, so that "the reader finds
its item" can be stated. `Dma`, fixed in `Init` as `Hist` is, chooses between a
buffer with two memories (host to device or device to host, which have the same index layer) and one with a
single memory (device to device). The blocked callbacks are constant `FALSE` in
the code; in the model there is no compaction step and `AskInVain` only prunes
tags. The upper bound on a work call, half the ring, is the scheduler's; the
comment at `cuda_buffer.cc:158` relies on it.

`FifoSpec` refines `RingFifo` with `Capacity <- N - 1`, `sent <- nwritten` and,
for every reader, the queue read out of its memory from `d_read_index` plus its
history. It holds only if the memory really holds those items in that order.

### CudaGraph

A stream is the sequence of its operations not executed yet (`queue[s]`) and
the number of those that are (`done[s]`). An operation has one event record to
wait for, memory spans it reads and spans it writes; a kernel launch, an
asynchronous copy and `cudaStreamWaitEvent` are all of this form. A record of
an event is a position in a stream, complete when that many operations are
executed. An event variable holds the latest record, and a wait copies it at
the moment it is enqueued, as CUDA does. `Exec(s)` executes the first operation
of a stream when its record is complete; streams interleave freely.

A thread goes through the phases of a work call:

    GPU block      wait -> work -> ready -> release -> consume -> post
    CPU block      wait -> work -> consume -> post
    ConsumeFirst   wait -> work -> consume -> ready -> release -> post

`wait` is `wait_for_work` (or, in a CPU block, `_read_pointer` for each input),
`ready` and `release` are the two loops of `mark_work_done`, `post` is
`post_work` and `update_write_pointer` of each output. Each loop takes its
ports in any order; the code takes them in port order, so the model allows more.
`ConsumeFirst` blocks are Python `general_work()` blocks that call
`consume_each()` themselves: the wrapper intercepts `produce()` only. All other
GPU blocks are `sync_block`s, for which the scheduler consumes after `work`.

`mark_read_done` takes two steps, with the mutex held between them;
`wait_host_ready` remembers the record it found while it blocks;
`mark_device_ready` blocks until the record it finds is complete, which in its
own thread cannot change meanwhile. `held[m][b]` counts the items ever written
to a memory, of which the ring holds the last `N`.

### PyWork

The attributes of `self` (`_cuda_work_done`, `produce`) are shared by all wrapped
methods that are active, so a `work()` that calls the `work()` of its base class
nests two wrappers around one flag. `produce` counts the `_safe_produce`
closures around the original, `frames` is the `orig_produce` of every active
`wrapped()`. Between the wrapper's steps the user launches kernels, produces any
output in any order, raises (and the caller of a base class may catch it), or
returns. Kernels are numbered; a record of an event is the number of kernels
launched before it.

### BufferAlloc

A construction is a sequence of calls to the system and the driver. Each step
names what it acquires, which members of the object the code sets before and
after the call, and what the code at the call itself gives back when it throws.
`reset_host` and `reset_device` then go by the members that happen to be set, as
the destructors of the two ring helpers do. Two buffers share the model to show
that a failure of one leaves the other alone; one thread builds them, so
constructions do not overlap.

`MCFlowgraph` puts this in front of and behind a running graph: `Build` is
`BufferAlloc` with its failures, `Start` needs all buffers live, `Operate` is
`CudaGraph`, and `Release` joins `Free` of `CudaGraph`, which needs the stream of
the buffer to have run dry, with `Close` of `BufferAlloc`, after which the members
of the rings give back what they hold.

### BufferSize

The loop of `do_allocate_buffer`. `LeastFit` says that it ends at the least size
that holds the request and is a multiple of the granularity and of the item
size; `NoPartialItems` that the 32-bit count of items loses nothing.

### Throttle

The worker (`Submit -> LoadRate -> CountSamples -> WakeUp`) and the setter
(`StoreRate -> ResetTiming`) interleave with a clock. The rate is read and
stored outside `d_mutex`, so both are two-step operations. A rate is kept as ticks
per item, which turns the division of the code into a product.

### ProbeRate

A work call that finds the time up computes its rate in one step (`Update`) and
the average in another, since `set_alpha` writes `d_alpha` and `d_beta` in the
thread of its caller with no lock: either weight may be loaded before or after
either store (`LoadWeight`, `StoreWeight`). `AverageWithinRates`
excuses exactly the updates that a `set_alpha` ran into, since the repository
says nothing of what they give; what it does cover is weights of one setting, and
an average left over from the run before. `SetAlpha` takes weights from 0 to 1,
though `set_alpha` checks nothing: outside them an average is no average. `published` is the set of rates the probe has
published, `reported` the sum of each times its interval. Time and rates are
integers; division rounds down, and `Unit` is a multiple of every interval there
can be, so that `ItemsReported` is exact.

### FftBlock

A work call enqueues at most one kernel, the transform, and at most one kernel
more. `stream` holds the operations of all work calls that are under way; each
kernel runs thread by thread, in any order. Values are terms, so an output shows
which input items, window coefficients and bins, in which direction, it was made
from, and `FftRight` compares it with `numpy`'s definitions of `fftshift` and
`ifftshift` and a window applied before a transform in the direction of
`d_forward`. `Direction` is what the code gives to cuFFT with the plan, and which
of `fft` and `ifft` it calls on real input in CuPy. `FftInside` is about each thread: the
item it reads after the shift, the coefficient and the item it writes, in memory
as large as it is when the kernel runs. `cupy` chooses `fft_cupy`, whose work
call is a list of operations on whole arrays (window, shifts, transform,
scaling), some of them in place; it is held to the same reference.

### GpuBlocks

One instance of one block, chosen in `Init`. `Enqueued` says what a work call puts
into the block's stream, the operators named `kernel_*` what one thread of a
kernel writes and where. A kernel finds its inputs (`add`, `streams_to_vector`) or outputs
(`vector_to_streams`) by the pointers that `ptrs_dev` holds at the moment it
runs, which are those of the work call whose copy of pointers was executed last.
The copy takes the pointers when it is enqueued: the memory it comes from is
pageable, so CUDA stages it before the call returns. `OutputRight`
compares every finished call with the CPU loops that the comments of the
code give as the definition. `InBounds` evaluates what each thread that passes the
test of its kernel reads and writes, through the table of pointers as it is by
then, and holds it to the call that launched it and to what the scheduler granted
that call. `null_source` is modelled with `d_memset` (without
it the code writes nothing) and with `NullOutputs` outputs, of which it fills the
first: `OutputRight` holds with one and is violated with two (Findings); `tee` and `load` with GPU buffers. The blocks in CuPy are lists of
operations on whole arrays. `SetK` sets the factor of a `multiply_const` at any
moment; a call keeps the factor it was launched with.

### DoxyTypes and DoxyParse

The generated classes repeat a few schemes. For each class `DoxyTypes` says which
scheme every attribute and child element follows: kept once or in a list, as
text or as an object, in line with the text or not, written again or not, quoted
or as the text of a `bytes` object. `DoxyParse` gives the schemes their meaning:
a frame of `stack` is one active `build()`, a step handles one child node, and
the document is what has been handled so far, so that every small document of
every class is met. `ExportRight` compares what `export()` writes with what was
read, `DescriptionRight` what `description()` says with the text of the document.
`Kept` names what does not come back: comments, all but the last of an element
that is kept once, and what `export()` never visits. It also names what is
added: the subclasses that are installed for the classes give each child that is
a string the default `''` (`factory`), and `exportChildren` writes whatever is
not `None`, so that a title nobody wrote becomes an empty element.

Words are numbers: spelling, escapes and layout are left out, and all characters
are ASCII. `exportLiteral()` has no caller, and the `find` methods of the
subclasses look at what `build()` has made; neither is modelled.

### Pydoc

`index` is what doxygen wrote, one compound after another, each with the state of
its file: `good`, `malformed` (no XML), or `refused`, which is a file that is
missing or at which the reader raises another exception than `ExpatError`.
`index_file` says the same of `index.xml` itself, which nothing guards. The steps are those of `DoxyIndex._parse`,
of the three loops of `get_docstrings_dict` and of `sub_docstring_in_pydoc_h`,
one compound, member or key at a time. The dictionary is the log of all entries
`dict.update` was given: a key has the place of its first entry (`IsItem`) and the
text of its last (`Item`), as in Python. A member that `convert_mem` makes nothing
of, one that another of its name shadows, and an operator, for which `make_entry`
gives `''`, leave a gap: no category and no key holds it. A name is the sequence
of its words and of `::` and `_`; a text is marked with the entity it was written for and with
what can spoil a substitution: a digit or two octal digits in front, a closing
bracket inside.

Groups are kept by the index and opened by nobody in `scrape`. The test for an
old style block compares a name with one that is split at `::`, which never
holds for the qualified names of C++ classes (`PydocAssumption`).

### BindingHash

The hash of a header is the version of its content; a binding remembers the name
and version it was made from, and `metadata` says whether it records them in the
comments the hook reads. `Edit` is the developer: headers change, move, are
copied and deleted, bindings are made again. `head` is the last commit, from
which `Staged` says whether the `files` of the hook match anything: a commit that
only deletes headers is made without the hook (`CommitUnchecked`), since
pre-commit passes no deleted files. Formatters come after the hook in
`.pre-commit-config.yaml`, and pre-commit (external) refuses a commit in which a
hook fails or changes a file. `CommittedInSync` demands a fitting header after a
checked commit, and after an unchecked one that no header is out of step, though
one may be gone.

## Runs

| run | instance | question |
|---|---|---|
| `ring` | N = 4, with and without DMA, 2 readers (one with history 1 or 2), 9 items, fairness | counts, items, tags and copies right while the ring wraps twice; implements `RingFifo`; no dead zone: everything arrives even when history takes the space |
| `graph_chain` | CPU -> GPU -> CPU, N = 3, 4 items, fairness | uploads, kernels and downloads ordered, also when the fourth item takes the place of the first, on the device and on the host; everything arrives; nobody deadlocks |
| `graph_up` | CPU -> GPU, N = 4, 5 items, stopped and destroyed at any moment | batches of 1 and 2: host items not overwritten before they are copied |
| `graph_fan` | two buffers built with failures anywhere; then GPU -> two GPUs, N = 2, 4 items, stopped at any time | readers that share the read-done event; bounded backlog; the buffer is a `BoundedStream`; nothing is unmapped in use; the rings give back what they took, wherever a construction fails and after a run |
| `graph_consume_first` | as `graph_up`, `ConsumeFirst = {g1}` | violation of `DeviceReadsIntact`, see Findings |
| `block_threads` | Python: two outputs, two nested calls, 4 kernels, all before the first `produce()` of their call. Throttle: two rates, 3 ticks per item against 1, 2 changes. Probe: 4 items, 4 ticks, weights 0, 1/2 and 1, two starts, one `set_alpha` | items recorded before they are handed on, `produce` restored; the rate kept up to one work call, no sleep longer than what is owed; every item in one report, averages within the rates they are made of |
| `py_work_late_kernel` | one call, kernels at any time | violation of `PublishedIsMarked`, see Findings |
| `throttle_set` | the throttle alone, one change | violation of `NoDiscontinuity`, see Findings |
| `gpu_blocks` | both FFT blocks, sizes 2 and 3, batches of 1 and 2, 3 work calls; fifteen other blocks, vectors of 1 and 3, 2 and 3 streams, CUDA blocks of 4 threads, 2 work calls | output right for all parameters and both directions, with calls under way at once; every item moved to the right place, once, into the output of its own call; every thread inside the memory of its call |
| `null_source` | a `null_source` with two outputs | violation of `OutputRight`, see Findings |
| `build_tools` | every class of the schema with up to 3 child nodes (5 in a description); every index of up to 3 of eight compounds, each file and the index itself good, malformed or refused, with and without `--filter`; two bindings, two directories, one name of a header, 4 versions | documents come back as they were; docstrings in the right slots and failures told; a commit keeps bindings with metadata in step |
| `binding_hash` | the hook alone | violation of `AllInSync`, see Findings |

Bounds. Every ordering hazard needs a write in the place of an item that some
reader has still to read, that is item `N + k` over item `k`, with the other
side delayed by at least one whole work call. `MaxItems` is therefore at least
`N + 1` (`graph_chain`, `graph_up`) and twice `N` where the hazard needs a second
round (`graph_fan`). `graph_chain` is the run in which a copy to the
host and the CPU block behind it wrap: with a writer that does not ask for space
(`Poll_unread`) TLC finds a device item overwritten under a kernel, and, much
later in the search, a host cell under the sink. Of the events alone, leaving out
the read-done record of `post_work_d2h`, or the wait of `post_work_h2d` in this
chain, violates nothing here: the sink has waited for the copy when it consumes, and the thread of the GPU
block for its last kernel (`mark_device_ready`) when it consumes the next batch. In
`graph_up` the block has no output, so no such wait, and TLC finds the absence of
the one in `post_work_h2d`. `N = 4` is the least size with
batches of one and of two items, which is what lets a copy stay pending behind
another. In `CudaRing`, `N = 4` and 9 items wrap the indices twice, with split
copies starting at different cells, and a history of `N - 2 = 2` leaves the
writer a single free slot. Every property has a mutant of the code
that breaks it under the bounds of its own run, so the bounds are large enough
to see these bugs. The only counters TLC sees bounded are `nwritten` of a source
(`MaxItems`, in the guards of `Poll`, `AskSpace` and `AskInVain`).

Deadlock is not checked: when all `MaxItems` are delivered the model stops. In
its place `Delivered` and `AllDelivered` say that it stops nowhere else.

Fairness is weak, for each thread (every block has one of its own in the
thread-per-block scheduler, and it is woken when its neighbours produce or
consume) and for each stream (they are created with `cudaStreamNonBlocking`, so
none waits for another except through events). Nothing is strongly fair.

The FFT blocks need an even and an odd size (the split points of the two shifts
agree on even ones), a batch that grows after one that does not (the staging
buffer is replaced), and a CUDA block of threads that is not full. Python code
needs two outputs (a partial `produce()`) and two levels of nesting. For the
throttle a change of rate falls before, between and after every pair of the
worker's steps. The probe needs an update after the first (averages), an
interval left open when it is stopped, and a second start; `Limit = 24`, two
items per tick, stands for the `1e15` of the code and is low enough to be reached.

A class of the schema has no memory beyond its own fields, so what can be lost
needs at most two children of one element and a text between them: 3 nodes. The
description of a paragraph needs a child with a text of its own between two texts:
5. In `Pydoc` two classes whose names become one with a method of the other, a
namespace and a header with overlapping functions, and every ending of a file
meet within 3 compounds. In `BindingHash` four versions allow an edit before
the hook, one after it, and another before the next commit.

## Proofs

TLC finds out on small instances what the theorems then state for all: any
flowgraph, ring, vector, transform, rate and number of work calls. The bounds of
the models (`MaxItems`, `MaxCalls`, ...) are constants too, and the theorems hold
for each value of them.

| module | theorem | property |
|---|---|---|
| `CudaRingProofs` | `Typing`, `CountsAlwaysAgree`, `ReadersAlwaysFindTheirItems`, `CopiesAlwaysStayPinned` | `TypeOK`, `CountsAgree`, `ReadersFindTheirItems`, `CopiesStayPinned` |
| | `NoTagIsLost`, `TagBacklogIsBounded` | `NoTagLost`, `TagBacklogBounded` |
| | `RingIsFifo` | `FifoSpec`, the refinement of `RingFifo` |
| `CudaGraphProofs` | `Typing` | `TypeOK` |
| `CudaGraphSafety` | `CpuReadsAreIntact`, `UploadsReadIntactHost`, `BacklogIsBounded`, `NothingIsUsedAfterFree` | `CpuReadsIntact`, `CopiesReadIntactHost`, `BacklogBounded`, `NoUseAfterFree` |
| | `DeviceReadsAreIntact`, `ReadDoneIsAllRead`, if `ConsumeFirst = {}` | `DeviceReadsIntact`, `ReadDoneMeansAllRead` |
| | `EveryBufferIsAStream`, if `ConsumeFirst = {}` | `StreamSpec`, the refinement of `BoundedStream` |
| | `FlowgraphAllocTyping`, `FlowgraphKeepsRings`, `FlowgraphMapsWhole` | `AllocTypeOK`, `NoRingLeftBehind`, `NothingDangles` of `MCFlowgraph` |
| | `FlowgraphRuns` | `MCSpec => Spec`: the theorems above hold of it |
| `BufferAllocProofs` | `AllocTyping`, `RingsAreGivenBack`, `NothingIsLeftDangling` | the three in `BufferAlloc`, from which those of `MCFlowgraph` follow |
| `BufferSize` | `SizeIsLeast`, `ItemsAreWhole` | `LeastFit`, `NoPartialItems` (no run) |
| `BlockThreadsProofs` | `WrapperTyping`, `AlwaysRestored` | `TypeOK`, `ProduceRestored` of `PyWork` |
| | `AlwaysMarked`, `AlwaysReturnedMarked`, if `KernelsFirst` | `PublishedIsMarked`, `ReturnedIsMarked` |
| | `BlocksTyping`, `ThrottleHolds`, `SleepsAreBounded` | `BlocksTypeOK`, `NeverTooFast`, `SleepsBounded` |
| | `AllItemsReported`, `AverageHolds` | `ItemsReported`, `AverageWithinRates` |
| `GpuBlocksProofs` | `NothingIsOverrun` | `InBounds` |
| | `EveryOutputIsRight`, if `NullOutputs \subseteq {1}` | `OutputRight` |
| `BuildToolsProofs` | `ScrapeIsRight`, `WordsAreOwn`, `NoneUnsaid`, `DocsTyping`, if `PydocAssumption` | `ScrapeRight`, `OwnWords`, `NothingUnsaid`, `TypeOK` of `Pydoc` |
| | `CommitsAreInSync`, `HashTyping` | `CommittedInSync`, `TypeOK` of `BindingHash` |

### The ring

`Inv` adds to the properties it implies

- `ClaimFits`: while the writer works, the space it was promised is still there;
- `NothingReadAhead`: no reader has consumed what was not published;
- `CellsBehind`, `CellsAhead`: what the cells behind and ahead of the write
  index hold, in both memories, by modular distance from the write index. It is
  what makes `ReadersFindTheirItems` inductive: a work call writes ahead, and
  the space it has never reaches a cell that waits for a reader;
- `OneMemory`: a device-to-device ring has one memory.

`TagInv` is about pruning. What the last pruning saw of the slowest reader is
still behind every reader and at most one ring behind the writer
(`PruneIsBehind`), and the tags reach back to the pruning before that
(`TagsAreRecent`); the two together make the bound twice the capacity. `RingIsFifo`
computes the queue of a reader before and after each action: publishing a claim
appends the items of the claim to every queue at once, and consuming takes them
from the front of one.

### The flowgraph

A thread runs ahead of the streams, and what it relies on has mostly not
happened yet. The proofs therefore do not speak of what is executed but of *cuts*:
a choice of how many operations of every stream are executed, in an order the
waits for events allow. What the GPU has executed is a cut, and a cut of a later
state, cut off at what is enqueued now, is a cut of the present one. An event
stands for a fact about every cut that contains it. This survives all
later steps, and a wait for the event hands the fact to every operation enqueued
behind the wait. The invariants are layers:

- `Base`: types; what a thread is doing in each phase, that one thread at most
  is in `mark_read_done` (`ControlOK`); the scheduler's promise of items and
  space (`CountsOK`);
- `Ordered`: each ring is written by one stream, in the order of the items and up
  to what its writer has enqueued; each kernel block reads in order and up to
  what it has launched;
- `Ready`: device-ready and host-ready stand for written items; so what has
  waited for them reads what is written. This is where a GPU block that is
  slower than its thread is covered, and it needs nothing of `ConsumeFirst`;
- `Safe`: read-done stands for all readers' marked reads, because each of them waits
  for the previous record under the mutex; so a write that has waited for it
  overwrites nothing that is still to be read. Here a block that consumes before
  it marks would break the induction, as `graph_consume_first` shows;
- `HostCopies`, `Kernels`: `mark_device_ready` blocks its thread on the event
  before, so one recorded batch and one unrecorded one can be in a stream. It
  gives both `BacklogBounded` and the safety of an upload's host items, which no
  event protects;
- `Closing`: what the three waits of the destructor leave in the streams;
- `Starts`, `Behind`: for the refinement, each write and read of a buffer begins
  where the one before ended, so an executed operation is one `Store` or one
  `Take` of `BoundedStream`, or concerns another buffer.

### Allocation

`RingsHeld` says of every buffer, step by step, that it holds what the steps so
far have acquired (`Built`), that the members by which `reset_host` and
`reset_device` decide are set for all that is held (`Recoverable`), and that
pinned or mapped parts have under them what they need (`Mapped`). `BufferSize`
has the loop invariant that the candidate is a multiple of the granularity and
no smaller size fits. That the loop ends is not proved: it is liveness.

### Threads of blocks

The wrapper's invariant relates the flag to the records: while it is up, all
kernels launched so far are recorded; when a call has returned they are recorded
whatever the flag says. For the throttle, outside a `set_sample_rate` the items
that are counted are due at the present rate, or are those of one work call
(`OnTime`); a work call that has loaded a rate of the past starts from zero items
(`RateIsFresh`). For the probe, weights loaded with no `set_alpha` under way
belong together (`LoadedTogether`), and then the weighted sum lies between the
rates it is made of (`Between`).

### Work calls

A block enqueues the same number `L` of operations in every call, so the
operations ever enqueued are numbered: step `s` of call `c` is number
`First(L, c) + s`, and the stream holds the last of them. `Latest` names the last
step of each call that is executed, and `Made` (`Holds` for the FFT blocks) says
what that step has put into the call's memory, kernel threads that have not run yet
excepted. A call that has nothing left in the stream has its last step as
`Latest`, and what that made is the reference.

For the blocks of `GpuBlocks` the pointers of a kernel need the order: the copy of the
pointers of call `c + 1` is behind the kernel of call `c`. For the FFT blocks
each step reads what the step before it left, the staging buffer is replaced only
when the stream has been drained, and the shifts of an odd size come down to the
arithmetic of two remainders (`RemainderShifts`). The transform itself is a
term: what is proved is which inputs, in which order, with which coefficients
enter it, in which direction, and where its bins go.

`NothingIsOverrun` needs the same: the pointers that a thread follows are those of
its own call since the copy of them is the step before it (`KernelReads`), and the
memory that a step of an FFT block reads and writes has as many items as the
call's batch when the step comes to run, the staging buffer at least as many
(`FftMemory`, `FftFits`). The indices are then below those sizes by the
arithmetic of quotients and remainders.

### The docstrings

The difficulty is that entries replace each other, within a dictionary and once
more in the slots, where names that differ become one. `Inv` is about the log and
the slots, not about the order of things:

- `MembersAre`, `MembersAll`: every member of the index is a compound of it or
  one that an opened compound keeps, and after the first stage none is missing
  that a docstring is promised for;
- `OutputMade`: every entry of the log is about what its key names, a class
  that can be read, one of its functions, or a free function (`Made`), and its
  text has the words of these only, or of the class and its make function (`Near`);
- `Entered`: each of the three loops has made the entries it owes for the members
  behind it (`BlockSaid`, `FunctionSaid`, `ClassSaid`);
- `SlotsFrom`: a slot is as in the template or holds the text of a key that was
  tried on it, so an entry that replaces another in a slot changes nothing about
  whose words can be there;
- `TriedTold`: of every key tried, the slot, the status or an exception tells. A
  later key can only disturb this if the two names become one, which is an
  exception itself.

`ScrapeRight` follows since in C++ no other class and no free function has a name
of a class (`OneMeaning`): whichever entry of a key is the last, it was made for
the same entity. For free functions, which may be overloaded and appear in a
namespace and in a header, the last entry is from one of them, and the property
says no more. That a key which is in the log has a first and a last entry comes from
the well-foundedness of `<` on numbers (`Least`, `Greatest`). TLC has checked `Inv`
on the indexes of `build_tools`, too.

### The hook

`CheckedInSync`: from the moment the hook is through with a binding until the commit,
nobody edits it or its header. `AllChecked`: the hook ends when it is through with
all of them. No bound on versions is needed, except to type them.

### Assumptions

`RingAssumption`, `GraphAssumption`, `PyWorkAssumption`, `ThreadsAssumption`,
`ToolsAssumption`, `FftAssumption` and `BlocksAssumption` say what the constants
are; TLC evaluates each in a run. `ToolsAssumption` is `PydocAssumption`, the hypothesis
of the theorems about docstrings: compounds and members have kinds of their own, the names of
C++ classes are qualified and mean one thing, and each text is marked with what it is
about. It does not exclude a file that is broken or missing, a kind nobody knows,
overloads, names that become one in a slot, or a text that spoils one. The others are hypotheses of theorems:
`SizeAssumption` (sizes are positive numbers) and `VersionAssumption` (so is the
bound of versions) are types; `ConsumeFirst = {}` and `KernelsFirst` are
conditions on code written in Python, and `NullOutputs \subseteq {1}` (no
`null_source` has more than one output) one on the flowgraph; Findings shows that
without them the properties fail. `ConsumeFirst = {}` holds for every block of `lib/`: each
is a `sync_block`, decimator or interpolator, and the scheduler consumes after its `work()`.

### What TLC alone shows

- `AllDelivered` and `Delivered`: liveness under fairness is out of the prover's reach.
- `ExportRight`, `DescriptionRight` and `TypesOK` of the build tools: `DoxyParse` is recursive, since
  a document is a tree, and that puts it and `MCBuildTools` outside what TLAPS proves.
  The proofs about the other two tools extend `BuildTools`, which does without it.
- The five findings, which are counterexamples.

## Findings

`graph_consume_first`. A Python `general_work()` that calls `consume_each()`
before `produce()`, as the example in the repository's README (lines 65-69) and
`qa_general_work_sync.py` do, frees its input before `mark_work_done` has recorded the
read-done event. The CPU producer's next `post_work_h2d` makes the copy wait for the previous
record, and the copy overwrites items the kernel has not read.
`cuda_block_helper.h:77-78` demands the opposite order; the wrapper
(`cuda_block.py:61`) enforces it for `produce()` only.

`py_work_late_kernel`. `_safe_produce` marks the work before the first
`produce()` of a call only. A kernel launched after that is recorded by no event
of this call, and the next `produce()` hands its items on. The README of the
repository (line 61) promises the right order for explicit `produce()` without
this restriction. `KernelsFirst` is the condition on the user's code under which
`block_threads` and `AlwaysMarked` hold.

`throttle_set`. `set_sample_rate` stores the rate, then takes the mutex and resets the timing.
A work call in between divides the old count of samples by the new rate, and
after a change to a lower rate sleeps for everything since the last reset over again
(`throttle_impl.cc:52-57`; the comment there promises no discontinuities).
`block_threads` shows the other direction is bounded: the block is never ahead
by more than one work call.

`null_source`. Its `work()` fills `output_items[0]` only
(`null_source_impl.cc:51`), whatever `num_outputs` is, and publishes the items of
all ports: those after the first hold what was in their ring before. The header
promises zeros (`null_source.h:21`) and a zero-filled output buffer for each call
(lines 41-43), and the comment at `null_source_impl.cc:46` that it mimics GNU
Radio's memset, which goes over all outputs. With one output, the default, it is right.

`binding_hash`. A binding without the two `BINDTOOL_HEADER_FILE` comments is never
compared with its header (`check_bindtool_header_hashes.py:102`), and is counted
among those that have up-to-date hashes. Seven of the sixteen binding files have
none.

## Plan

In this order; the first six are done.

1. `RingFifo`, `CudaRing`, `BoundedStream`, `CudaGraph` with their types and the
   ring's safety proved.
2. `PyWork` with its proofs; `Throttle`; `BufferAlloc`, `BufferSize`.
3. `FftBlock`, with `fft_cupy` as a second implementation.
4. `GpuBlocks`, `ProbeRate`.
5. The build tools: `DoxyTypes`, `DoxyParse`, `Pydoc`, `BindingHash`.
6. Theorems for every component. Of the safety properties only those of
   `DoxyParse` are without one, for the reason given above.
7. Blocks whose rates differ between input and output, and a graph with two
   paths that meet again, in `CudaGraph`.

Liveness (`AllDelivered`, `Delivered`) stays with TLC.

## Not modelled

Values of samples: `FftBlock` and `GpuBlocks` have terms in their place. Mixed
fan-out of one buffer (excluded by `docs/LIMITATIONS.md`, and by
`GraphAssumption`). Rate changes between input and output: every block takes and
gives the same number of items. CUDA errors inside a work call. `load` with
`use_cb=False` (its own 512 KiB staging, `load_impl.h:27`), whose copies from and
to pageable memory keep two work calls from overlapping. `set_name` of the
probe, which replaces a node of a map that `work()` may be reading: the outcomes
of that race are not a choice between values.

Of the build tools: spelling, escapes and characters outside ASCII in XML,
`exportLiteral()`, the old style block of `update_pydoc.py`, the `copy` command, and
the regular expressions by which the hook and `sub` find what they read. The
pybind11 bindings, GRC descriptions, benchmarks, examples and build files hold
no state.
