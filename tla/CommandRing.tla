---------------------------- MODULE CommandRing ----------------------------
(***************************************************************************)
(* The command path of the kernel driver in queue_mode 0: the ring buffer  *)
(* in FPGA BRAM, the SUBMIT_CMD, LOAD_KERNEL and DOORBELL cases of         *)
(* fpgagpu_ioctl (driver/fpgagpu_ioctl.c), the interrupt handler           *)
(* (driver/fpgagpu_sched.c), and the PicoRV32 firmware at the other end,   *)
(* which is not in the repository and is modelled from how the driver uses *)
(* it: it wakes on the command interrupt, executes from head until it      *)
(* meets tail, and sends the completion MSI after it has committed head.   *)
(*                                                                         *)
(* A thread's steps are cut where another actor can come between: each     *)
(* MMIO read or write of a shared word, the lock, and every evaluation of  *)
(* the wait condition are steps of their own.                              *)
(***************************************************************************)
EXTENDS Integers, Sequences

CONSTANTS
  Threads,      \* threads that call ioctl on the device
  Loaders,      \* the ones that call LOAD_KERNEL
  CutShort,     \* the ones whose wait a signal or the 5 s timer may end
  UserCmds,     \* what SUBMIT_CMD may be given: [opcode, grid_dim]
  Kernels,      \* kernel binaries LOAD_KERNEL may be given, by kernel_id
  Words,        \* instruction words of a kernel binary
  Modes,        \* values written to the queue_mode parameter at run time
  QUEUE_SIZE,   \* slots of the ring (512)
  RING_WINDOW,  \* bytes from the ring to the CP interrupt register (32 KB)
  MaxCalls      \* bound: SUBMIT_CMD and LOAD_KERNEL calls in a behaviour

ASSUME ThreadsAssumption == Loaders \subseteq Threads /\ CutShort \subseteq Threads
ASSUME QueueAssumption   == QUEUE_SIZE \in Nat /\ QUEUE_SIZE >= 2
ASSUME WindowAssumption  == RING_WINDOW \in Nat
ASSUME CallsAssumption   == MaxCalls \in Nat /\ Words \in Nat \ {0}
ASSUME InputAssumption   ==
  /\ UserCmds \subseteq [opcode : {"nop", "launch", "load"}, grid_dim : Nat]
  /\ Kernels \subseteq Nat
  /\ Modes \subseteq {0, 1}

VARIABLES
  holder,      \* holder of dev->global_lock: {} or {t}
  head,        \* ring->head, written by the firmware
  tail,        \* ring->tail, written by the driver
  cmds,        \* ring->cmds
  staging,     \* kernel staging buffer in BRAM, shared by all callers
  cpIrq,       \* command interrupt pending at the PicoRV32
  msi,         \* completion MSI pending at the CPU
  fw,          \* where the firmware is
  iram,        \* GPU instruction RAM: the image, and the kernel it is taken for
  queue_mode,  \* module parameter, writable through sysfs
  pc,          \* where each thread is
  loc,         \* locals of each thread's ioctl
  woken,       \* threads queued on dev->wait_q that wake_up has made runnable
  ret,         \* result of each thread's last ioctl, "none" inside one
  calls,       \* enqueueing calls so far (bounded by MaxCalls)
  log,         \* history: packets published, in order of publication
  executed,    \* history: packets the firmware read, in order
  snap         \* history: how many packets the thread's call waits for

ring    == <<head, tail, cmds>>
gpu     == <<fw, iram>>
history == <<log, executed>>
vars    == <<holder, ring, staging, cpIrq, msi, gpu, queue_mode,
             pc, loc, woken, ret, calls, history, snap>>

-----------------------------------------------------------------------------
(* Layout and packets (include/kmd/fpgagpu_core.h) *)

PACKET_BYTES == 64
RING_HEADER  == 64      \* head, tail and the padding before cmds

Slots == 0 .. QUEUE_SIZE - 1

\* Does slot i end before the CP interrupt register? The last slot does not:
\* 64 bytes of header and 512 packets of 64 bytes exceed the 32 KB window.
InWindow(i) == RING_HEADER + (i + 1) * PACKET_BYTES <= RING_WINDOW

Packet == [opcode : {"nop", "launch", "load", "junk"}, grid_dim : Nat, task_id : Nat]

\* What the firmware finds in a slot that lies over the register block.
Junk == [opcode |-> "junk", grid_dim |-> 0, task_id |-> 0]

\* The packet of a SUBMIT_CMD: a zero dimension gets its default and task_id
\* stays zero. grid_dim is the x dimension; the other three are alike.
SubmitTask(c) ==
  [opcode   |-> c.opcode,
   grid_dim |-> IF c.grid_dim = 0 THEN 32 ELSE c.grid_dim,
   task_id  |-> 0]

LoadTask(k) == [opcode |-> "load", grid_dim |-> 0, task_id |-> k]

Locals == [op : {"none", "submit", "load", "doorbell"}, task : Packet,
           word : 0 .. Words, head : Slots, tail : Slots, target : Slots]

NoCall == [op |-> "none", task |-> Junk, word |-> 0, head |-> 0, tail |-> 0, target |-> 0]

Next_NoWrap(i) == i + 1
NextSlot(i) == (i + 1) % QUEUE_SIZE

Full(h, t) == NextSlot(t) = h

-----------------------------------------------------------------------------
Init ==
  /\ holder = {} /\ woken = {}
  /\ head = 0 /\ tail = 0
  /\ cmds = [i \in Slots |-> Junk]
  /\ staging = [w \in 1 .. Words |-> 0]
  /\ cpIrq = FALSE /\ msi = FALSE /\ fw = "idle"
  /\ iram = [id |-> 0, image |-> [w \in 1 .. Words |-> 0]]
  /\ queue_mode = 0
  /\ pc  = [t \in Threads |-> "user"]
  /\ loc = [t \in Threads |-> NoCall]
  /\ ret = [t \in Threads |-> "none"]
  /\ calls = 0
  /\ log = << >> /\ executed = << >>
  /\ snap = [t \in Threads |-> 0]

Goto(t, from, to) == pc[t] = from /\ pc' = [pc EXCEPT ![t] = to]

\* The ioctl returns code; its locals are dead.
Leave(t, code) ==
  /\ pc'  = [pc  EXCEPT ![t] = "user"]
  /\ ret' = [ret EXCEPT ![t] = code]
  /\ loc' = [loc EXCEPT ![t] = NoCall]

-----------------------------------------------------------------------------
(* Entering an ioctl *)

\* copy_from_user fails, or LOAD_KERNEL is given a size of 0 or above 1024.
\* EFAULT, EINVAL and ENOTSUPP are one result here: nothing tells them apart.
RejectArgs(t) ==
  /\ pc[t] = "user"
  /\ Leave(t, "rejected")
  /\ snap' = [snap EXCEPT ![t] = 0]
  /\ UNCHANGED <<holder, ring, staging, cpIrq, msi, gpu, queue_mode, woken, calls, history>>

\* SUBMIT_CMD and DOORBELL outside queue_mode 0.
RejectMode(t) ==
  /\ pc[t] = "user" /\ queue_mode # 0
  /\ Leave(t, "rejected")
  /\ snap' = [snap EXCEPT ![t] = 0]
  /\ UNCHANGED <<holder, ring, staging, cpIrq, msi, gpu, queue_mode, woken, calls, history>>

Enter(t, op, task, to) ==
  /\ calls < MaxCalls
  /\ calls' = calls + 1
  /\ Goto(t, "user", to)
  /\ loc'  = [loc  EXCEPT ![t] = [NoCall EXCEPT !.op = op, !.task = task]]
  /\ ret'  = [ret  EXCEPT ![t] = "none"]
  /\ snap' = [snap EXCEPT ![t] = 0]
  /\ UNCHANGED <<holder, ring, staging, cpIrq, msi, gpu, queue_mode, woken, history>>

SubmitCmd(t, c) == queue_mode = 0 /\ Enter(t, "submit", SubmitTask(c), "lock")

\* LOAD_KERNEL does not look at queue_mode.
LoadKernel(t, k) == t \in Loaders /\ Enter(t, "load", LoadTask(k), "stage")

\* DOORBELL: the target is the tail of this moment, read without the lock.
Doorbell(t) ==
  /\ queue_mode = 0
  /\ Goto(t, "user", "cond")
  /\ loc'  = [loc  EXCEPT ![t] = [NoCall EXCEPT !.op = "doorbell", !.target = tail]]
  /\ ret'  = [ret  EXCEPT ![t] = "none"]
  /\ snap' = [snap EXCEPT ![t] = Len(log)]
  /\ UNCHANGED <<holder, ring, staging, cpIrq, msi, gpu, queue_mode, woken, calls, history>>

-----------------------------------------------------------------------------
(* LOAD_KERNEL copies the binary to the staging buffer, before the lock *)

StageWord(t) ==
  LET w == loc[t].word + 1 IN
  /\ Goto(t, "stage", IF w = Words THEN "lock" ELSE "stage")
  /\ staging' = [staging EXCEPT ![w] = loc[t].task.task_id]
  /\ loc' = [loc EXCEPT ![t].word = w]
  /\ UNCHANGED <<holder, ring, cpIrq, msi, gpu, queue_mode, woken, ret, calls, history, snap>>

\* get_user fails: the words already written stay.
StageFault(t) ==
  /\ pc[t] = "stage"
  /\ Leave(t, "rejected")
  /\ UNCHANGED <<holder, ring, staging, cpIrq, msi, gpu, queue_mode, woken, calls, history, snap>>

-----------------------------------------------------------------------------
(* Enqueueing a packet, in SUBMIT_CMD and in LOAD_KERNEL *)

Lock_Broken(t) ==
  /\ Goto(t, "lock", "head")
  /\ holder' = {t}
  /\ UNCHANGED <<ring, staging, cpIrq, msi, gpu, queue_mode, loc, woken, ret, calls, history, snap>>

Lock(t) ==
  /\ Goto(t, "lock", "head")
  /\ holder = {}
  /\ holder' = {t}
  /\ UNCHANGED <<ring, staging, cpIrq, msi, gpu, queue_mode, loc, woken, ret, calls, history, snap>>

ReadHead(t) ==
  /\ Goto(t, "head", "tail")
  /\ loc' = [loc EXCEPT ![t].head = head]
  /\ UNCHANGED <<holder, ring, staging, cpIrq, msi, gpu, queue_mode, woken, ret, calls, history, snap>>

ReadTail(t) ==
  /\ ~Full(loc[t].head, tail)
  /\ Goto(t, "tail", "write")
  /\ loc' = [loc EXCEPT ![t].tail = tail]
  /\ UNCHANGED <<holder, ring, staging, cpIrq, msi, gpu, queue_mode, woken, ret, calls, history, snap>>

QueueFull(t) ==
  /\ pc[t] = "tail" /\ Full(loc[t].head, tail)
  /\ holder' = {}
  /\ Leave(t, "EBUSY")
  /\ UNCHANGED <<ring, staging, cpIrq, msi, gpu, queue_mode, woken, calls, history, snap>>

\* memcpy_toio. Over the register block the first word, the magic, lands on
\* the CP interrupt register and may ring it; the packet is not stored.
WritePacket(t) ==
  LET i == loc[t].tail IN
  /\ Goto(t, "write", "publish")
  /\ \/ /\ InWindow(i)
        /\ cmds' = [cmds EXCEPT ![i] = loc[t].task]
        /\ cpIrq' = cpIrq
     \/ /\ ~InWindow(i)
        /\ cmds' = [cmds EXCEPT ![i] = Junk]
        /\ cpIrq' \in {cpIrq, TRUE}
  /\ UNCHANGED <<holder, head, tail, staging, msi, gpu, queue_mode, loc, woken, ret, calls, history, snap>>

PublishTail(t) ==
  LET next == NextSlot(loc[t].tail) IN
  /\ Goto(t, "publish", "irq")
  /\ tail' = next
  /\ log' = Append(log, loc[t].task)
  /\ \/ /\ loc[t].op = "load"
        /\ loc'  = [loc  EXCEPT ![t].target = next]
        /\ snap' = [snap EXCEPT ![t] = Len(log) + 1]
     \/ loc[t].op # "load" /\ UNCHANGED <<loc, snap>>
  /\ UNCHANGED <<holder, head, cmds, staging, cpIrq, msi, gpu, queue_mode, woken, ret, calls, executed>>

RingCp_Silent(t) ==
  /\ Goto(t, "irq", "unlock")
  /\ UNCHANGED <<holder, ring, staging, cpIrq, msi, gpu, queue_mode, loc, woken, ret, calls, history, snap>>

RingCp(t) ==
  /\ Goto(t, "irq", "unlock")
  /\ cpIrq' = TRUE
  /\ UNCHANGED <<holder, ring, staging, msi, gpu, queue_mode, loc, woken, ret, calls, history, snap>>

Unlock_NoWait(t) ==
  /\ pc[t] = "unlock"
  /\ holder' = {}
  /\ Leave(t, "ok")
  /\ UNCHANGED <<ring, staging, cpIrq, msi, gpu, queue_mode, woken, calls, history, snap>>

Unlock(t) ==
  /\ pc[t] = "unlock"
  /\ holder' = {}
  /\ \/ loc[t].op = "load" /\ Goto(t, "unlock", "cond") /\ UNCHANGED <<loc, ret>>
     \/ loc[t].op # "load" /\ Leave(t, "ok")
  /\ UNCHANGED <<ring, staging, cpIrq, msi, gpu, queue_mode, woken, calls, history, snap>>

-----------------------------------------------------------------------------
(* wait_event_interruptible_timeout(dev->wait_q, head == target, 5 s) *)

Reached(t) == head = loc[t].target

EndWait(t, code) ==
  /\ Leave(t, code)
  /\ woken' = woken \ {t}
  /\ UNCHANGED <<holder, ring, staging, cpIrq, msi, gpu, queue_mode, calls, history, snap>>

\* Still waiting: queued on wait_q in "check", "asleep", "expired", "signalled".
StayWaiting(t, from, to) ==
  /\ Goto(t, from, to)
  /\ woken' = IF to = "check" THEN woken \ {t} ELSE woken
  /\ UNCHANGED <<holder, ring, staging, cpIrq, msi, gpu, queue_mode, loc, ret, calls, history, snap>>

\* The condition is tried once before the thread queues itself, and then each
\* time after it has queued itself and set its state, so that a wake-up
\* between the test and the sleep is not lost.
FirstCheck(t) ==
  \/ pc[t] = "cond" /\ Reached(t) /\ EndWait(t, "ok")
  \/ ~Reached(t) /\ StayWaiting(t, "cond", "check")

CheckAgain_Blind(t) == StayWaiting(t, "check", "asleep")

CheckAgain(t) ==
  \/ pc[t] = "check" /\ Reached(t) /\ EndWait(t, "ok")
  \/ ~Reached(t) /\ StayWaiting(t, "check", "asleep")

WakeUp(t)  == t \in woken    /\ StayWaiting(t, "asleep", "check")
Expire(t)  == t \in CutShort /\ StayWaiting(t, "asleep", "expired")
Signal(t)  == t \in CutShort /\ StayWaiting(t, "asleep", "signalled")

LastCheck_Rearms(t) ==
  \/ pc[t] \in {"expired", "signalled"} /\ Reached(t) /\ EndWait(t, "ok")
  \/ ~Reached(t) /\ StayWaiting(t, "expired", "check")
  \/ pc[t] = "signalled" /\ ~Reached(t) /\ EndWait(t, "ERESTARTSYS")

\* The condition has the last word over the timer and over the signal.
LastCheck(t) ==
  \/ pc[t] \in {"expired", "signalled"} /\ Reached(t) /\ EndWait(t, "ok")
  \/ pc[t] = "expired"   /\ ~Reached(t) /\ EndWait(t, "ETIMEDOUT")
  \/ pc[t] = "signalled" /\ ~Reached(t) /\ EndWait(t, "ERESTARTSYS")

-----------------------------------------------------------------------------
(* The interrupt handler and the module parameter *)

\* In queue_mode 1 the handler wakes the queues of the contexts, on which
\* nobody waits. (irq_fired is written and never read.)
IrqHandler ==
  /\ msi /\ msi' = FALSE
  /\ woken' = woken \cup {t \in Threads : queue_mode = 0 /\ pc[t] \in {"check", "asleep"}}
  /\ UNCHANGED <<holder, ring, staging, cpIrq, gpu, queue_mode, pc, loc, ret, calls, history, snap>>

SetQueueMode(m) ==
  /\ queue_mode' = m
  /\ UNCHANGED <<holder, ring, staging, cpIrq, msi, gpu, pc, loc, woken, ret, calls, history, snap>>

-----------------------------------------------------------------------------
(* The firmware (external) *)

FwTakeIrq ==
  /\ fw = "idle" /\ cpIrq
  /\ fw' = "scan" /\ cpIrq' = FALSE
  /\ UNCHANGED <<holder, ring, staging, msi, iram, queue_mode, pc, loc, woken, ret, calls, history, snap>>

FwSleep ==
  /\ fw = "scan" /\ head = tail
  /\ fw' = "idle"
  /\ UNCHANGED <<holder, ring, staging, cpIrq, msi, iram, queue_mode, pc, loc, woken, ret, calls, history, snap>>

\* Read the packet at head and carry it out. Loading a kernel copies the
\* staging buffer to instruction RAM.
FwExecute ==
  /\ fw = "scan" /\ head # tail
  /\ fw' = "commit"
  /\ executed' = Append(executed, cmds[head])
  /\ iram' = IF cmds[head].opcode = "load"
             THEN [id |-> cmds[head].task_id, image |-> staging]
             ELSE iram
  /\ UNCHANGED <<holder, ring, staging, cpIrq, msi, queue_mode, pc, loc, woken, ret, calls, log, snap>>

FwCommit ==
  /\ fw = "commit"
  /\ fw' = "notify"
  /\ head' = NextSlot(head)
  /\ UNCHANGED <<holder, tail, cmds, staging, cpIrq, msi, iram, queue_mode, pc, loc, woken, ret, calls, history, snap>>

FwNotify ==
  /\ fw = "notify"
  /\ fw' = "scan" /\ msi' = TRUE
  /\ UNCHANGED <<holder, ring, staging, cpIrq, iram, queue_mode, pc, loc, woken, ret, calls, history, snap>>

-----------------------------------------------------------------------------
Call(t) ==
  \/ RejectArgs(t) \/ RejectMode(t)
  \/ \E c \in UserCmds : SubmitCmd(t, c)
  \/ \E k \in Kernels : LoadKernel(t, k)
  \/ Doorbell(t)

Enqueue(t) ==
  \/ ReadHead(t) \/ ReadTail(t) \/ QueueFull(t)
  \/ WritePacket(t) \/ PublishTail(t) \/ RingCp(t) \/ Unlock(t)

Wait(t) == FirstCheck(t) \/ CheckAgain(t) \/ WakeUp(t) \/ LastCheck(t)

Firmware == FwTakeIrq \/ FwSleep \/ FwExecute \/ FwCommit \/ FwNotify

Next ==
  \/ \E t \in Threads :
       \/ Call(t) \/ StageWord(t) \/ StageFault(t)
       \/ Lock(t) \/ Enqueue(t)
       \/ Wait(t) \/ Expire(t) \/ Signal(t)
  \/ IrqHandler
  \/ \E m \in Modes : SetQueueMode(m)
  \/ Firmware

Spec == Init /\ [][Next]_vars

\* A thread in the kernel keeps running, the queued spinlock is first come
\* first served, a pending interrupt is taken, the timer of a sleeping thread
\* goes off, and the firmware keeps executing.
Fairness ==
  /\ \A t \in Threads :
       /\ WF_vars(StageWord(t)) /\ WF_vars(Enqueue(t)) /\ WF_vars(Wait(t))
       /\ WF_vars(Expire(t))
       /\ SF_vars(Lock(t))
  /\ WF_vars(IrqHandler)
  /\ WF_vars(Firmware)

FairSpec == Spec /\ Fairness

-----------------------------------------------------------------------------
(* Properties *)

\* Packets whose completion the firmware has committed to head.
Committed == IF fw = "commit" THEN Len(executed) - 1 ELSE Len(executed)

Waiting == {"cond", "check", "asleep", "expired", "signalled"}

\* Every variable stays in its domain.
TypeOK ==
  /\ holder \in SUBSET Threads /\ woken \in SUBSET Threads
  /\ head \in Slots /\ tail \in Slots
  /\ cmds \in [Slots -> Packet]
  /\ staging \in [1 .. Words -> Nat]
  /\ cpIrq \in BOOLEAN /\ msi \in BOOLEAN
  /\ fw \in {"idle", "scan", "commit", "notify"}
  /\ iram \in [id : Nat, image : [1 .. Words -> Nat]]
  /\ queue_mode \in {0, 1}
  /\ pc \in [Threads -> {"user", "stage", "lock", "head", "tail", "write",
                         "publish", "irq", "unlock"} \cup Waiting]
  /\ loc \in [Threads -> Locals]
  /\ ret \in [Threads -> {"none", "ok", "rejected", "EBUSY", "ETIMEDOUT", "ERESTARTSYS"}]
  /\ calls \in 0 .. MaxCalls
  /\ log \in Seq(Packet) /\ executed \in Seq(Packet)
  /\ snap \in [Threads -> Nat]

\* The slot of the k-th packet of a behaviour.
SlotOf(k) == (k - 1) % QUEUE_SIZE

\* Whatever the producers and the firmware do to the ring at the same time,
\* the k-th packet the firmware executes is the k-th packet published: none is
\* lost, repeated, reordered or overwritten before it is read. The slots that
\* lie over the register block are excepted (see EveryPacketIntact).
ExecutedAsPublished ==
  /\ Len(executed) <= Len(log)
  /\ \A k \in 1 .. Len(executed) : InWindow(SlotOf(k)) => executed[k] = log[k]

\* A DOORBELL or LOAD_KERNEL that returns 0 has seen the completion of every
\* packet published before its wait began, although it compares a wrapping
\* head with a target that may be stale.
SuccessMeansCompleted ==
  \A t \in Threads : ret[t] = "ok" => Committed >= snap[t]

\* In queue_mode 0, if it is not one that queue_mode has come back to, no
\* wake-up is lost: a sleeping thread whose condition has become true is about
\* to be woken, by the wake-up it has, by a pending MSI, or by the one the
\* firmware is about to send.
NoLostWakeup ==
  queue_mode = 0 =>
    \A t \in Threads :
      pc[t] = "asleep" /\ Reached(t) => t \in woken \/ msi \/ fw = "notify"

\* A LOAD_KERNEL that returns 0 has put exactly its binary into instruction RAM,
\* also when an earlier load was cut short, its packet is still in the ring and
\* its words have been overwritten in the staging buffer. (This is for one
\* caller of LOAD_KERNEL at a time, because staging is filled outside the lock,
\* and for packets that do not lie over the register block.)
LoadDelivered ==
  [][\A t \in Threads :
       /\ loc[t].op = "load" /\ InWindow(loc[t].tail)
       /\ pc'[t] = "user" /\ ret'[t] = "ok"
       => \A w \in 1 .. Words : iram.image[w] = loc[t].task.task_id]_vars

\* Every ioctl returns: nobody keeps the lock, sleeps forever or spins.
IoctlReturns == \A t \in Threads : pc[t] # "user" ~> pc[t] = "user"

\* Every published packet is executed: the command interrupt that follows the
\* tail update always finds it.
PublishedGetsExecuted ==
  \A n \in 1 .. MaxCalls : Len(log) >= n ~> Len(executed) >= n

\* What core.h says of the layout, that 512 packets of 64 bytes fit the ring's
\* 32 KB: every packet is executed as published, in every slot.
EveryPacketIntact == \A k \in 1 .. Len(executed) : executed[k] = log[k]

\* What the driver's sequence diagram says of the wait: once the work is done
\* the wait succeeds, so a wait only times out on work that is still pending.
TimeoutOnlyIfPending ==
  [][\A t \in Threads :
       pc[t] = "expired" /\ ret'[t] = "ETIMEDOUT" => Committed < snap[t]]_vars

-----------------------------------------------------------------------------
(* The command path as an implementation of CommandService *)

Tasks == {SubmitTask(c) : c \in UserCmds} \cup {LoadTask(k) : k \in Kernels}

PhaseAt(p) == IF p = "user" THEN "idle"
              ELSE IF p \in {"stage", "lock", "head", "tail", "write", "publish"}
              THEN "pending" ELSE "waiting"

phases == [t \in Threads |-> PhaseAt(pc[t])]

Service == INSTANCE CommandService WITH
  Clients   <- Threads,
  Commands  <- Tasks,
  Failures  <- {"rejected", "EBUSY", "ETIMEDOUT", "ERESTARTSYS"},
  Capacity  <- QUEUE_SIZE - 1,
  submitted <- log,
  taken     <- executed,
  done      <- Committed,
  phase     <- phases,
  ticket    <- snap,
  result    <- ret

\* When every slot lies in the window, ring, lock, waits and interrupts
\* together are a bounded first-in first-out queue with truthful results.
ImplementsService == Service!Spec
=============================================================================
