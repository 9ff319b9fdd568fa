# A TLA+ model of the FPGA-GPU driver

The repository holds a Linux kernel driver for an FPGA GPU (`driver/`,
`include/kmd`, `include/uapi`) and an OpenCL library on top of it (`umd/`). This
directory specifies the parts in which several actors meet, or in which a
failure in the middle matters, checks them with TLC on small instances, and
proves the central properties with TLAPS for every size.

## Inventory

| part | source | state | operations |
|---|---|---|---|
| command path | `fpgagpu_ioctl.c` 156-296, `fpgagpu_sched.c` | ring (`head`, `tail`, `cmds`) and staging buffer in BRAM, `global_lock`, `wait_q`, `queue_mode` | SUBMIT_CMD, LOAD_KERNEL, DOORBELL, interrupt handler |
| DMA transfer | `fpgagpu_ioctl.c` 12-154 | `pinned_pages`, `sgl`, `desc_ring`, channel registers | DMA_TRANSFER |
| driver lifecycle | `fpgagpu_main.c` | what is held of each card, minor counter | init, exit, probe, remove |
| context list | `fpgagpu_main.c`, `fpgagpu_sched.c` | `ctx_list`, `ctx_lock`, open files | open, release, handler |
| device memory | `vram_alloc.c`, `cl_context.c`, `cl_mem.c` | heap pointer, contexts, buffers, DDR3 contents | create, retain, release, write, read, copy |
| kernel launch | `cl_enqueue.c`, `cl_queue.c` | kernel arguments in DDR3, staging buffer, instruction RAM, commands in flight | clEnqueueNDRangeKernel, clFinish |
| programs, kernels | `cl_program.c`, `cl_kernel.c`, `cl_queue.c`, `cl_context.c` | source, binary, `is_built`, arguments, reference counts, temporary files | create, build, set argument, retain, release |
| events, platform queries, version ioctl | `cl_enqueue.c`, `cl_platform.c`, `fpgagpu_ioctl.c` 230-237 | none | queries |
| mmap, board file | `fpgagpu_mmap.c`, `fpgagpu_board.c` | none in use | - |

How they interact. The library opens `/dev/fpgagpu0` and calls the driver by
ioctl; a buffer transfer is one DMA_TRANSFER, a kernel launch is a
DMA_TRANSFER, a LOAD_KERNEL, a SUBMIT_CMD and a DOORBELL. The driver writes
packets into BRAM and rings the command interrupt of the PicoRV32; the firmware
executes packets, moves `head` and sends an MSI; the handler wakes the threads
on `wait_q`. DMA_TRANSFER programs the XDMA engine and polls it. All callers of
a card share one `struct fpgagpu_dev`. A program is built by a script run with
`system()`, through two files in `/tmp`. Firmware, engine and compiler are not
in the repository: they are modelled from how the code uses them.

What is hard: producers against the firmware on a wrapping ring; a wait on an
equality of wrapping indices; a wake-up between test and sleep; the staging
buffer outside the lock; commands that a call which was cut short has left in the
ring; DMA state shared without a lock; a poll that gives up on a busy engine, and a stop
that is posted and not waited for;
twelve acquisitions of probe, each with an error path; a list that the handler
walks while files come and go; a launch in four ioctls that nothing holds
together; an allocator that is reset while it is in use; builds that fail half
way. `PROJECT.json` lists these hazards line by line.

What makes each part correct: the ring is a queue and a result of 0 is true
(command path); exactly the caller's bytes move and nothing stays behind (DMA);
everything acquired is released once, in an order in which nothing is used after
it is gone (lifecycle); the list has the contexts of the open files (context
list); buffers are disjoint and keep their contents (device memory); a launch
that succeeds has run its own kernel on its own arguments over its whole range
(launch); a build that succeeds holds the binary of what it wrote and leaves no file
behind (programs).

## Modules

| module | models | by |
|---|---|---|
| `CommandService` | what the command path promises: a bounded FIFO with truthful results | abstract specification |
| `CommandRing` | command path | one action per step at which another actor can come between |
| `TransferService` | what DMA_TRANSFER promises: the bytes of the target, and no others, take over their sources | abstract specification |
| `DmaTransfer` | DMA_TRANSFER and the engine | memory byte by byte on a small scale |
| `DriverLifecycle` | init, exit, probe, remove, open, release, handler | every acquisition and release is a step |
| `DeviceMemory` | allocator, contexts, buffers | one action per API call |
| `ClProgram` | contexts, queues, programs, kernels, builds | one action per API call, clBuildProgram in steps |
| `KernelLaunch` | clEnqueueNDRangeKernel and clFinish on top of `ClProgram` and `CommandService` | one or two steps per ioctl |
| `CommandRingProofs`, `CommandServiceProofs`, `DmaTransferProofs`, `DriverLifecycleProofs`, `DeviceMemoryProofs`, `KernelLaunchProofs`, `ClObjectProofs`, `ClBuildProofs` | theorems | TLAPS |
| `MC...` | instances for TLC | |

Mutated operators (`Lock_Broken`, `Unwind_BarKept`, ...) stand before the
definitions they vary: each is a plausible mistake in that piece of code, and
makes one property fail.

### CommandRing

`pc[t]` is where a thread is inside its ioctl, `loc[t]` its C locals (`head`,
`tail`, target, the packet). SUBMIT_CMD goes `lock, head, tail, write, publish,
irq, unlock`; LOAD_KERNEL first copies the binary word by word (`stage`) and
waits after the unlock; DOORBELL reads the tail and waits. The wait is
`wait_event_interruptible_timeout` as the kernel defines it: test, queue, test,
sleep, and a last test after the timer or a signal. `IrqHandler` is the whole
handler in both modes. `log`, `executed` and `snap` are history variables.
A packet keeps its opcode, one dimension (with its default) and `task_id`. The
slot over the register block (`InWindow`) is written as it is in the code: the
packet does not arrive and the magic may ring the command interrupt.

### DmaTransfer

The handler is cut wherever it writes or reads back `dev`. pin_user_pages pins a
prefix of the pages, as far as they are in the page table `Frame`. `FillSgl` and
`Chain` are the two loops; `Mappings` lets `dma_map_sg` join any runs of adjacent
entries. The engine (`EngineStep`) copies one descriptor per step and may be
arbitrarily slow. `before` remembers memory at the start of a call.

The write that stops the engine (`Stop`, line 134) is posted, with no read-back and no
wait for idle: the handler goes on to unmap and put the pages, and the stop reaches the
engine at some later point (`StopArrives`). A transfer that timed out therefore leaves
its engine on released pages for a while. The code does not exclude it, and
`EngineOnPinnedPages` makes exactly this exception (`Abandoned`): every other return has
an idle engine. `StopsInTime` says whether the stop arrives before the next call begins.

`ImplementsTransfer` maps host and device memory to the cells of
`TransferService`: one caller at a time cannot tell pages, scatterlist and
descriptors from a copy that moves cells of its request in any order.

### DriverLifecycle

`Steps` is the order of acquisitions, `Unwind` the label each failure jumps to,
`Labels` what the labels release, `Removal` what remove does. Several cards are
probed and removed at the same time. `Unplug` says whether a card may go while
it is in use (unbind through sysfs); an rmmod waits for files to be closed.

open and release take `ctx_lock` with interrupts enabled, change `ctx_list`, and
unlock. A list operation is a read (`ReadList`, into `seen`) and a write of what was
read with one context more or less, so that of two operations that overlap one is
lost. The list and the lock are part of `dev`: a probe that allocates it initialises
both (`Acquire`). The handler (`irq[c]`) runs on another CPU, or over a thread inside
open or release that then waits (`over`), and in `queue_mode` 1 takes the lock and
walks the list entry by entry. `SameCpu` says in which modes it may come over
such a thread.

### DeviceMemory

`AlignUp` and `Fits` keep the wrap-around of `size_t`. A transfer may fail after
any number of bytes. `known` in a buffer is what an application may rely on.
Calls are atomic here: what concurrent transfers do is DmaTransfer's subject.
`SizesFit` limits the sizes to those for which the rounding does not wrap; for
larger ones, near `SIZE_MAX`, the allocator grants the request. `MaxCreated`
bounds the calls of clCreateContext in the life of the process.

### ClProgram and KernelLaunch

Every thread has a context, a queue, a program and a kernel of its own, and
releases them in any order: nothing holds a reference to its parent. A source and
its binary go by the same name; `Torn` is a part of one. A build draws a number
from the static counter, which is a read and a write, writes the source, of which
write() may take a part, compiles, and reads the binary back; each step may fail the
way the code lets it. A rebuild whose read fails loses the old words and leaves
`is_built` as it was. `written` and `success` remember what write() took and what the
build returned. What the library keeps for an argument (`scalar_val`) stands beside what the
application gave (`given`).

A launch goes through `upload, load, loading, submit, submitting, wait, waiting`.
LOAD_KERNEL, SUBMIT_CMD and DOORBELL are calls of `CommandService`, which
`CommandRing` implements (theorem `RingImplementsService`), so that the ring need
not be modelled a second time; any of them may fail and leave its command in the
queue, as a signal or the timer does. A failed upload leaves the argument buffer
old, torn or, when only its end was seen too late, whole. A launch through a freed
program is refused, or loads whatever its words read as (`Words`). `Grid`, `Block` and `Default` keep the rounding, the cut to 32 bits
and the driver's defaults. The device, external, copies the staging buffer to
instruction RAM on a load and runs what is there on a launch; `ran` remembers
with what.

## Runs

Passing:

| run | checks | shows |
|---|---|---|
| `ring_safety` | TypeOK, ExecutedAsPublished, SuccessMeansCompleted, NoLostWakeup, LoadDelivered | two threads with all calls, one of which loads kernels and is cut short by signals and timers, 3 slots of which the last lies on the register, `queue_mode` set to 1 at any time |
| `ring_liveness` | IoctlReturns, PublishedGetsExecuted, ImplementsService | two threads on 2 slots: all calls return, all packets are executed, and the command path implements CommandService |
| `dma_alone` | TypeOK, EngineOnPinnedPages, NothingLeftBehind, WrittenPagesAreDirty, TransferDelivered, WritesConfined, TransferReturns, ImplementsTransfer | one caller at a time, all alignments, joins and failures, the page limit, an engine that may never finish and a stop that arrives after the call |
| `probe_safety` | TypeOK, NothingLeaked, HandlerHasDevice, ReleasesOnlyHeld, FilesAreUsable, MinorsDistinct, NodesHaveClass, WalkFindsLiveContexts, ListIsOpenFiles | two cards, nine kinds of failure, removal, three files, interrupts in both modes, reload |
| `vram_one_context` | TypeOK, BuffersDisjoint, ContentsIntact | one context, three buffers |
| `launch_alone` | TypeOK, BuildDelivers, BuildLeavesNothing, RanAsGiven, WorkCovered, NothingInFlight | one thread that builds, rebuilds, sets arguments, launches, finishes and releases in any order, with short writes and every failure of a build and of an ioctl |

Disagreements between the code and what the repository says of it:

| run | property | what happens |
|---|---|---|
| `ring_overlap` | EveryPacketIntact | the last slot lies on the command interrupt register (`fpgagpu_core.h:24`) |
| `ring_passed_by` | TimeoutOnlyIfPending | head passes the target of a DOORBELL, which times out on finished work |
| `dma_two_callers` | TransferDelivered | concurrent transfers overwrite each other's working state |
| `probe_cdev` | HandlerHasDevice | a failed cdev_add frees dev under the handler |
| `launch_two` | RanAsGiven | two contexts share the argument buffer and instruction RAM: a kernel runs on the other's arguments |
| `ctx_irq` | HandlerReturns | in `queue_mode` 1 the handler spins on `ctx_lock`, which the thread it has interrupted holds |

`launch_two` looks only at behaviours without torn sources and without use of freed
objects (`Undisturbed`), which makes it smaller and its trace the plain one.

Smaller ones are in the model and among the hazards, without a run: in
`queue_mode` 1 the handler wakes queues on which nobody waits, so that a
LOAD_KERNEL, which is not refused there, is ended by its timer; two loaders mix
their words in the staging buffer (`Loaders` of two breaks `LoadDelivered`); a
failed vector allocation leaks the regions and a failed request_irq frees a
handler that was not registered (`MayFail`); minor numbers are never given back
(`TakeMinor`); an unaligned transfer of the full 32 MB is refused (`Valid`); an
unbind through sysfs leaves open files with a freed device (`Unplug = TRUE` breaks
`FilesAreUsable`); a second context is given the memory of the first
(`MaxCreated = 2` breaks `BuffersDisjoint`); an engine that was given up and whose stop
arrives after the next call has begun works on the new call's descriptors
(`StopsInTime = FALSE` breaks `EngineOnPinnedPages`, `WrittenPagesAreDirty`,
`WritesConfined`, `TransferDelivered` and `ImplementsTransfer`); two builders can get
the same file (two `Threads` and two `Sources` break `BuildDelivers`); a scalar wider
than 4 bytes becomes zero (16 in `ArgSizes` breaks `RanAsGiven`).

Three more happen in `launch_alone` and contradict nothing the repository says: a
rebuild whose read fails leaves `is_built` true over lost or partial words, which the
next launch loads if it can; a short write has part of the source compiled and reported
as built; a launch goes through a context or program that has been released. So
`BuildDelivers` speaks of builds that returned success, compares with what write()
took, and `RanAsGiven` with the words the program holds.

So these inputs are left out of the passing runs: failures of vectors,
request_irq and cdev_add, removal in use, and an interrupt of `queue_mode` 1 on the
CPU of an open, in `probe_safety`; a second loader in `ring_safety`; a second caller
and a stop that is later than the next call in `dma_alone`; a second context in
`vram_one_context`; a second thread and wide scalars in `launch_alone`. All else
that the code lets happen stays in.

Bounds. `QUEUE_SIZE` is 2 or 3, so that with 2 to 4 enqueueing calls (`MaxCalls`)
the ring fills and the tail wraps; two threads are enough for every race between
producers, or of a producer and a waiter, and the theorems carry the safety
properties to every number. In the passing runs there are as many calls as slots, so
that no slot is used a second time (one call more takes `ring_safety` beyond five
minutes): that a later lap overwrites nothing is what `RingIsFifo` proves, for any
number of laps. `RING_WINDOW` of 192 bytes holds the header and two
slots. Pages of 2 bytes, transfers of up to 6 bytes and 3 pages contain every
combination of offset and partial last page, a full-size transfer that the page limit
refuses, and scatterlists of which a part, all or nothing can be joined; `Polls = 2` lets the poll both
succeed and give up. Two cards and two minors with three probes run into the
limit; with three files an open, a release and a file that stays open meet each other
and a walk. The
DDR3 of `vram_one_context` has three user pages and a rest of one byte, so that
requests fit exactly, leave a gap, or fail. `launch_alone` has two sources, two
arguments of one value beside the unset 0, two builds (a rebuild) and two launches (one that fails, and the next
that meets its commands), a ring of two commands, and a range with an uneven
dimension and one with a default; `UINT32_MOD` and `SIZE_MOD` are small, and the
theorem on ranges covers the rest. Symmetry is used for threads, cards, files,
sources, buffer handles and data values where no liveness property is checked;
those sets are only compared for equality. `CHECK_DEADLOCK FALSE` is used for
DeviceMemory only: an application may release everything and stop.

Fairness. `CommandRing!FairSpec`: weak fairness for a thread's steps in the
kernel, the timer, the handler and the firmware; strong fairness for `Lock`,
because the queued spinlock serves its waiters in order while weak fairness
would let others take it for ever. New calls are never required.
`DmaTransfer!FairSpec` assumes only that a thread in the handler keeps running.
`DriverLifecycle!FairSpec` has strong fairness for the steps of a thread inside
open or release and of a handler, for the same reason as `Lock`; opens, closes
and interrupts are not required.

## Proofs

The theorems hold for any value of the constants that satisfies the named ASSUMEs
of the modules, and for behaviours of any length (bounds like `MaxCalls` are
arbitrary numbers). What a theorem assumes beyond that is in its ASSUME.

Command path (`CommandRingProofs`, `CommandServiceProofs`). `IndInv` ties indices
to counts. `ExecutedAsPublished` is not inductive, because `head` and `tail` do not
say how many times they have wrapped. `CountInv` says that `head` is the number
of completed packets modulo the size, `tail` the number of published ones, less
than one lap ahead; `SlotInv` that the slots between hold the packets of the
log; `LockInv` that a thread in the critical section is the only one;
`ProducerInv` that the `head` a producer has read, which may be stale, was right
for an earlier count, so that the slot it fills is free; `WaiterInv` that a
waiter's target is the slot of the count it waits for. Since that count is less than
a lap from the completed ones, `head = target` means it has been reached. The
lemmas on remainders (`ModUnique`, `ModDistinct`, ...) carry this arithmetic. TLC
has checked `IndInv` on an instance like that of `ring_safety`.

- `TypeCorrect`, `RingIsFifo`, `SuccessIsCompletion`: `[]TypeOK`,
  `[]ExecutedAsPublished`, `[]SuccessMeansCompleted`.
- `WakeupsReachSleepers`: `[]NoLostWakeup`, which speaks of `queue_mode` 0, if the
  mode is not set back to 0.
- `RingImplementsService`: if every slot lies in the window, `CommandRing`
  implements `CommandService` (step by step, with `IndInv` and `TaskInv`).
- `LoadsDeliver`: `LoadDelivered`, if one thread at most calls LOAD_KERNEL. `LoadInv`
  follows its words through the staging buffer (`StagedInv`), its packet through the
  ring (`SentInv`, from `IndInv`) and the image in instruction RAM (`LoadedInv`): a later
  load packet, left by a call that was cut short or sent with SUBMIT_CMD, copies the
  same words again.
- `LastSlotOverlapsRegisters`: with 512 slots and 32 KB exactly the last slot
  does not lie in the window.

Device memory (`DeviceMemoryProofs`), for one context in the life of the process
(`MaxCreated = 1`; with two the properties fail). `BuffersDisjoint` does not say
where the next buffer will lie: `PlaceInv` adds that every buffer lies below the
heap pointer, rounded up, and `FreshInv` that the pointer starts at the base with
the context. Rounding is multiplication and remainder, with lemmas of its own.

- `TypeCorrect`, `BuffersNeverMeet`, `ContentsKept`: `[]TypeOK`,
  `[]BuffersDisjoint`, `[]ContentsIntact`.

DMA transfer (`DmaTransferProofs`), for one caller (`Threads = {me}`; two break
`TransferDelivered`), every page size, page table, set of requests and poll count, all
failures, and an engine that stops anywhere. Where it matters they assume that a posted
stop arrives before the next call (`StopsInTime = TRUE`); the first two theorems below do
without.

The first half is about data: what the loops over pages and segments compute. They
are recursive functions, and the induction rule of the library takes a predicate as a
parameter, which the provers cannot instantiate. `SetInduction` is the same rule for a
set in place of the predicate; it follows from the well-foundedness of strict
inclusion on finite sets. With it each recursive function is shown to be defined and to
unfold (`LengthUpToUnfolds`, `LeftIsRest`), and the scatterlist to list the bytes of the
buffer in order without gap or overlap: as it is filled (`FillIsLaid`), after the
mapping has joined any runs of adjacent entries (`JoinedIsLaid`), and so for everything
`dma_map_sg` may return (`MappingIsLaid`).

The second half is an inductive invariant, one part for each resource. `CallInv` says
where the caller can be with which request, `PinInv` that what is pinned is the
caller's pages, each as often as it holds it, `SglInv` that the scatterlist is laid out
as above while it is mapped, `ChanInv` that outside a call an engine has been told to
stop, `EngineInv` that the chain is the descriptors of the
scatterlist and a busy engine inside it, also one that was given up, `DirtyInv` that a written page is dirty or still
held, `SourceInv` that the source of a transfer does not change. `MovedInv` counts the
bytes that have arrived.

- `TypeCorrect`, `NothingStaysBehind`: `[]TypeOK`, `[]NothingLeftBehind`, however late
  stops arrive.
- `EngineStaysOnPinnedPages`, `WrittenPagesBecomeDirty`, `WritesStayConfined`:
  `[]EngineOnPinnedPages`, `[]WrittenPagesAreDirty`, `WritesConfined`, with
  `StopsInTime`.
- `TransfersDeliver`: `TransferDelivered`, and `DmaTransferImplementsService`:
  `DmaTransfer` implements `TransferService`, in which a call that failed may move cells
  until the next one begins (`late`); both with `StopsInTime`, and if the device ranges of
  valid requests lie in the device (`InDevice`). The driver does not check `ddr3_addr`; the library
  takes it from its allocator, for which `BuffersNeverMeet` shows this.

Driver lifecycle (`DriverLifecycleProofs`), for any finite set of cards and any files.
`TypeInv` needs a count: there are at least as many probes as numbers drawn and cards
in a probe that have still to draw one (`CountInv`). `LifeInv` says card by card what it can
hold at each point of probe, of an error path and of remove; `MinorInv` that numbers
are drawn once; `UseInv` that the card of a file in use has been probed. None of these
depends on the labels of the gotos, so they hold whatever fails. `OwnedInv` does: what
a card holds is exactly what the rest of its error path or of remove will release. It
is false where a label is wrong, hence `SoundLabels`: vectors, request_irq and cdev_add
do not fail.

- `TypeCorrect`, `NodesInsideClass`, `MinorsAreDistinct`: `[]TypeOK`,
  `[]NodesHaveClass`, `[]MinorsDistinct`, whichever acquisitions fail.
- `OpenFilesAreUsable`: `[]FilesAreUsable`, also whichever fail, if no card goes while it
  is in use (`Unplug = FALSE`).
- `NothingIsLeaked`, `OnlyHeldIsReleased`, `HandlerHasItsDevice`: `[]NothingLeaked`,
  `[]ReleasesOnlyHeld`, `[]HandlerHasDevice`, under `SoundLabels`.

Context list (`DriverLifecycleProofs`), for any finite set of cards, any files, and
interrupts on every CPU. `LockInv`: a file inside a list operation, or a handler that
walks the list, is what `ctx_lock` names, and so they exclude each other; `SeenInv`:
hence what an operation has read of the list is still true when it writes; `MemberInv`
is the list file by file, `WalkInv` the part of it that is still to be walked. A probe
gives its card a new `dev` with an empty list and a free lock, so a list is what it was
only as long as `dev` stays: the theorems need that no card is removed in use (`Unplug = FALSE`,
with `UseInv`) and that no label frees `dev` under a handler (`SoundLabels`, with `OwnedInv`).

- `ListHasOpenFiles`, `WalkMeetsLiveContexts`: `[]ListIsOpenFiles`,
  `[]WalkFindsLiveContexts`.

Kernel launch (`KernelLaunchProofs`, `ClObjectProofs`), for any number of threads
on one ring. `LastInv`: a doorbell waits for at least the thread's last command,
and after SUBMIT_CMD that command is the launch of its range; `PathInv`: the device
takes commands in order. `TypeInv` needs that the number a running build has
drawn is below the count of builds.

- `SuccessMeansNothingInFlight`: `NothingInFlight`.
- `LaunchCoversRange`: `WorkCovered`, if every range is `WellFormed` (one or two
  dimensions, not empty, that fit `size_t` and whose grid fits 32 bits), from the
  lemma that a quotient rounded up covers.
- `TypeCorrect`: `[]TypeOK`.

Builds and what a launch runs (`ClBuildProofs`). `FilesInv`: every temporary file
belongs to a build that is under way and will unlink it; this holds for any number of
threads, since also two builds with the same number both unlink. `WordsInv` follows
what write() took of one thread's source through its two files into `binary_words`;
`ArgsInv` says that what is
kept of an argument is what was given; `RunInv` follows arguments and binary through
argument buffer, staging buffer and instruction RAM, with whatever commands earlier
calls have left in the ring.

- `BuildsLeaveNothing`: `[]BuildLeavesNothing`, for any number of threads.
- `BuildsDeliver`: `[]BuildDelivers` for one thread, whatever builds failed before.
- `LaunchRunsAsGiven`: `RanAsGiven` for one thread and arguments of up to 4 bytes or of
  8 (a buffer).

Each condition of a theorem is one whose failure breaks the property, as listed under
Runs, except `InDevice`, which is about the caller of the driver, and the finiteness
of the set of cards, which `CountInv` counts.

Only model-checked: the liveness properties (`IoctlReturns`, `PublishedGetsExecuted`,
`TransferReturns`), since liveness under fairness is beyond the prover. Every other
property of a passing run is the statement of a theorem.

## Not modelled

Events (complete when they are made), platform queries and GET_VERSION (no
state); mmap (maps a pointer nothing sets); the board file (commented out); error
bits of the XDMA engine, which the repository does not describe; what becomes of a
released page between its put and the last write of an engine that was given up;
`global_work_offset`, which clEnqueueNDRangeKernel accepts and ignores
(`cl_enqueue.c:13`), so that no packet has it and `WorkCovered` speaks of sizes only; the outcome of
an 8-byte scalar, which clSetKernelArg reads through as a pointer, and of a freed object
whose memory is no longer mapped; logging; memory
ordering weaker than the order of MMIO accesses; the contents of kernels.

Of about 24,800 lines of C in the repository all but some 2,100 are the OpenCL
headers and `opencl.hpp` under `include/CL`, third-party declarations and wrappers
without state of this system; they are left out, which bounds the share of lines a
model can stand for. Of the repository's own code the modules cover
what changes state.

## Plan

1. The safety side of the liveness properties, as theorems: that the lock is held only by
   a thread that can go on, and that published packets which the firmware does not
   look at have a command interrupt pending.
2. The allocator's guarantee in the form `InDevice` needs it, so that the hypothesis of
   the DMA theorems is a theorem of `DeviceMemoryProofs`.
3. `RanAsGiven` for several threads that launch one after the other.
