-------------------------- MODULE CommandRingProofs --------------------------
(***************************************************************************)
(* Proofs about CommandRing for every set of threads, every queue size     *)
(* and every number of calls.                                              *)
(*                                                                         *)
(* The argument counts packets instead of following the wrapping indices:  *)
(* head is the number of committed packets modulo QUEUE_SIZE, tail the     *)
(* number of published ones, and the two counts never lie QUEUE_SIZE       *)
(* apart. Numbers less than QUEUE_SIZE apart have different remainders     *)
(* (ModDistinct), which is why a slot is not written before it has been    *)
(* read and why head = target means that the packet waited for is done.    *)
(***************************************************************************)
EXTENDS CommandRing, SequenceTheorems, TLAPS

\* Inside global_lock.
Critical == {"head", "tail", "write", "publish", "irq", "unlock"}

\* A call in the copy loop of LOAD_KERNEL has words left to copy.
StageInv == \A t \in Threads : pc[t] = "stage" => loc[t].word < Words

\* Only the holder of global_lock is between spin_lock and spin_unlock.
LockInv == \A t \in Threads : pc[t] \in Critical => holder = {t}

\* The indices are the two counts modulo QUEUE_SIZE, at most a full ring apart.
CountInv ==
  /\ head = Committed % QUEUE_SIZE
  /\ tail = Len(log) % QUEUE_SIZE
  /\ Committed \in Nat
  /\ Committed <= Len(log)
  /\ Len(log) < Committed + QUEUE_SIZE
  /\ Len(executed) <= Len(log)
  /\ fw = "commit" => Len(executed) >= 1

\* The slots from head to tail hold the packets not yet committed.
SlotInv ==
  \A k \in 1 .. Len(log) :
    k > Committed /\ InWindow(SlotOf(k)) => cmds[SlotOf(k)] = log[k]

\* What a producer knows of the ring: the head it has read may be stale but
\* was right for some earlier count, and the slot it fills is free.
ProducerInv ==
  \A t \in Threads :
    /\ pc[t] = "tail" =>
         \E c \in 0 .. Committed : /\ loc[t].head = c % QUEUE_SIZE
                                   /\ Len(log) < c + QUEUE_SIZE
    /\ pc[t] \in {"write", "publish"} =>
         loc[t].tail = tail /\ Len(log) + 1 < Committed + QUEUE_SIZE
    /\ pc[t] = "publish" /\ InWindow(tail) => cmds[tail] = loc[t].task

\* What a waiter knows: its target is the index of the count it waits for.
WaiterInv ==
  \A t \in Threads :
    /\ pc[t] \in {"stage", "lock", "head", "tail", "write", "publish"} => snap[t] = 0
    /\ pc[t] \in {"irq", "unlock"} /\ loc[t].op # "load" => snap[t] = 0
    /\ pc[t] \in Waiting \/ (pc[t] \in {"irq", "unlock"} /\ loc[t].op = "load") =>
         loc[t].target = snap[t] % QUEUE_SIZE /\ snap[t] <= Len(log)
    /\ pc[t] # "user" => ret[t] = "none"

IndInv ==
  /\ TypeOK /\ StageInv /\ LockInv /\ CountInv /\ SlotInv /\ ProducerInv /\ WaiterInv
  /\ ExecutedAsPublished /\ SuccessMeansCompleted

-----------------------------------------------------------------------------
(* Remainders *)

\* A multiple of q strictly between -q and q is zero.
LEMMA SmallMultiple ==
  ASSUME NEW q \in Nat, q >= 2, NEW x \in Int, x * q < q, x * q > -q
  PROVE  x = 0
<1>1. CASE x >= 1
  <2>1. x * q >= q BY <1>1
  <2> QED BY <2>1
<1>2. CASE x <= -1
  <2>1. x * q <= -q BY <1>2
  <2> QED BY <2>1
<1> QED BY <1>1, <1>2

\* Every ring count is a number of laps and a slot.
LEMMA ModDecompose ==
  ASSUME NEW q \in Nat, q >= 2, NEW n \in Nat
  PROVE  \E d \in Nat, r \in 0 .. q - 1 : n = d * q + r /\ r = n % q
OBVIOUS

\* The slot of a count is determined: a remainder is unique.
LEMMA ModUnique ==
  ASSUME NEW q \in Nat, q >= 2, NEW d \in Nat, NEW r \in 0 .. q - 1
  PROVE  (d * q + r) % q = r
<1>1. d * q \in Nat OBVIOUS
<1>2. PICK e \in Nat, s \in 0 .. q - 1 : d * q + r = e * q + s /\ s = (d * q + r) % q
  BY <1>1, ModDecompose
<1>3. (d - e) * q = d * q - e * q OBVIOUS
<1>4. d * q + r = e * q + s BY <1>2
<1>5. ASSUME NEW a \in Int, NEW b \in Int, a + r = b + s PROVE a - b = s - r
  BY <1>5
<1>6. d * q - e * q = s - r BY <1>4, <1>5, d * q \in Int, e * q \in Int
<1>7. (d - e) * q < q /\ (d - e) * q > -q BY <1>3, <1>6
<1>8. d - e = 0 BY <1>7, SmallMultiple
<1> QED BY <1>2, <1>8

\* A remainder is a slot.
LEMMA ModRange ==
  ASSUME NEW q \in Nat, q >= 2, NEW n \in Nat
  PROVE  n % q \in 0 .. q - 1
OBVIOUS

\* The successor of a slot is the slot of the next count.
LEMMA ModSucc ==
  ASSUME NEW q \in Nat, q >= 2, NEW n \in Nat
  PROVE  (n + 1) % q = ((n % q) + 1) % q
<1>1. PICK d \in Nat, r \in 0 .. q - 1 : n = d * q + r /\ r = n % q
  BY ModDecompose
<1>2. CASE r + 1 = q
  <2>1. n + 1 = (d + 1) * q + 0 BY <1>1, <1>2
  <2>2. ((d + 1) * q + 0) % q = 0 BY ModUnique
  <2>3. (r + 1) % q = 0 BY <1>2
  <2> QED BY <2>1, <2>2, <2>3, <1>1
<1>3. CASE r + 1 # q
  <2>1. n + 1 = d * q + (r + 1) BY <1>1
  <2>2. r + 1 \in 0 .. q - 1 BY <1>3
  <2>3. (d * q + (r + 1)) % q = r + 1 BY <2>2, ModUnique
  <2>4. (r + 1) % q = r + 1 BY <2>2
  <2> QED BY <2>1, <2>3, <2>4, <1>1
<1> QED BY <1>2, <1>3

\* Counts one lap apart share a slot.
LEMMA ModPeriod ==
  ASSUME NEW q \in Nat, q >= 2, NEW n \in Nat
  PROVE  (n + q) % q = n % q
<1>1. PICK d \in Nat, r \in 0 .. q - 1 : n = d * q + r /\ r = n % q
  BY ModDecompose
<1>2. n + q = (d + 1) * q + r BY <1>1
<1>3. ((d + 1) * q + r) % q = r BY ModUnique
<1> QED BY <1>1, <1>2, <1>3

\* Numbers less than q apart have different remainders.
LEMMA ModDistinct ==
  ASSUME NEW q \in Nat, q >= 2, NEW a \in Nat, NEW b \in Nat,
         a < b, b < a + q
  PROVE  a % q # b % q
<1> SUFFICES ASSUME a % q = b % q PROVE FALSE
  OBVIOUS
<1>1. PICK d \in Nat, r \in 0 .. q - 1 : a = d * q + r /\ r = a % q
  BY ModDecompose
<1>2. PICK e \in Nat, s \in 0 .. q - 1 : b = e * q + s /\ s = b % q
  BY ModDecompose
<1>3. r = s BY <1>1, <1>2
<1>4. a = d * q + r /\ b = e * q + r BY <1>1, <1>2, <1>3
<1>5. ASSUME NEW x \in Int, NEW y \in Int, a = x + r, b = y + r
      PROVE  y - x = b - a
  BY <1>5
<1>6. e * q - d * q = b - a BY <1>4, <1>5, d * q \in Int, e * q \in Int
<1>7. (e - d) * q = e * q - d * q OBVIOUS
<1>8. (e - d) * q < q /\ (e - d) * q > -q BY <1>6, <1>7
<1>9. e - d = 0 BY <1>8, SmallMultiple
<1>10. e * q - d * q = 0 BY <1>9, <1>7
<1> QED BY <1>10, <1>6

-----------------------------------------------------------------------------
(* Types *)

\* (tail + 1) % QUEUE_SIZE is a slot.
LEMMA NextSlotType == \A i \in Slots : NextSlot(i) \in Slots
BY QueueAssumption, ModRange DEF NextSlot, Slots

\* The locals of no call, and a slot never written, have their types.
LEMMA NoCallType == NoCall \in Locals /\ Junk \in Packet
BY QueueAssumption, CallsAssumption DEF NoCall, Locals, Junk, Packet, Slots

\* Advancing the staging index or setting a target keeps the locals typed.
LEMMA LocalsUpdate ==
  ASSUME NEW r \in Locals
  PROVE  /\ \A w \in 0 .. Words : [r EXCEPT !.word = w] \in Locals
         /\ \A i \in Slots : [r EXCEPT !.target = i] \in Locals
BY DEF Locals

\* SUBMIT_CMD and LOAD_KERNEL build packets.
LEMMA TaskType ==
  /\ \A c \in UserCmds : SubmitTask(c) \in Packet
  /\ \A k \in Kernels : LoadTask(k) \in Packet
BY InputAssumption DEF SubmitTask, LoadTask, Packet

\* The state after probe is well typed.
LEMMA InitTypeOK == Init => TypeOK /\ StageInv
<1>1. Init => TypeOK
  BY QueueAssumption, CallsAssumption, NoCallType, EmptySeq DEF Init, TypeOK, Slots
<1>2. Init => StageInv
  BY DEF Init, StageInv
<1> QED BY <1>1, <1>2

\* Returning from an ioctl keeps the callers typed.
LEMMA LeaveType ==
  ASSUME TypeOK, NEW t \in Threads,
         NEW code \in {"ok", "rejected", "EBUSY", "ETIMEDOUT", "ERESTARTSYS"},
         Leave(t, code)
  PROVE  /\ pc' \in [Threads -> {"user", "stage", "lock", "head", "tail", "write",
                                 "publish", "irq", "unlock"} \cup Waiting]
         /\ loc' \in [Threads -> Locals]
         /\ ret' \in [Threads -> {"none", "ok", "rejected", "EBUSY",
                                  "ETIMEDOUT", "ERESTARTSYS"}]
BY NoCallType DEF TypeOK, Leave

\* No step of a thread, the handler or the firmware leaves the types.
LEMMA NextTypeOK == TypeOK /\ StageInv /\ [Next]_vars => TypeOK'
<1> SUFFICES ASSUME TypeOK, StageInv, [Next]_vars PROVE TypeOK'
  OBVIOUS
<1> USE DEF ring, gpu, history
<1>1. ASSUME NEW t \in Threads, RejectArgs(t) \/ RejectMode(t) PROVE TypeOK'
  <2>1. Leave(t, "rejected") BY <1>1 DEF RejectArgs, RejectMode
  <2>2. snap' \in [Threads -> Nat] BY <1>1 DEF RejectArgs, RejectMode, TypeOK
  <2>3. UNCHANGED <<holder, ring, staging, cpIrq, msi, gpu, queue_mode, woken, calls, history>>
    BY <1>1 DEF RejectArgs, RejectMode
  <2> QED BY <2>1, <2>2, <2>3, LeaveType DEF TypeOK
<1>2. ASSUME NEW t \in Threads, NEW op \in {"submit", "load"}, NEW p \in Packet,
             NEW to \in {"lock", "stage"}, Enter(t, op, p, to)
      PROVE  TypeOK'
  <2>1. [NoCall EXCEPT !.op = op, !.task = p] \in Locals
    BY NoCallType DEF Locals
  <2> QED BY <1>2, <2>1, CallsAssumption DEF TypeOK, Enter, Goto
<1>3. ASSUME NEW t \in Threads, NEW c \in UserCmds, SubmitCmd(t, c) PROVE TypeOK'
  BY <1>2, <1>3, TaskType DEF SubmitCmd
<1>4. ASSUME NEW t \in Threads, NEW k \in Kernels, LoadKernel(t, k) PROVE TypeOK'
  BY <1>2, <1>4, TaskType DEF LoadKernel
<1>5. ASSUME NEW t \in Threads, Doorbell(t) PROVE TypeOK'
  <2>1. [NoCall EXCEPT !.op = "doorbell", !.target = tail] \in Locals
    BY NoCallType DEF Locals, TypeOK
  <2>2. Len(log) \in Nat BY DEF TypeOK
  <2> QED BY <1>5, <2>1, <2>2 DEF TypeOK, Doorbell, Goto, Waiting
<1>6. ASSUME NEW t \in Threads, StageWord(t) PROVE TypeOK'
  <2>1. loc[t].word + 1 \in 1 .. Words
    BY <1>6, CallsAssumption DEF TypeOK, StageInv, StageWord, Goto, Locals
  <2>2. loc[t].task.task_id \in Nat
    BY DEF TypeOK, Locals, Packet
  <2>3. staging' \in [1 .. Words -> Nat]
    BY <1>6, <2>1, <2>2 DEF TypeOK, StageWord
  <2>4. loc' \in [Threads -> Locals]
    <3>1. loc' = [loc EXCEPT ![t] = [loc[t] EXCEPT !.word = loc[t].word + 1]]
      BY <1>6 DEF StageWord
    <3> QED BY <2>1, <3>1, LocalsUpdate DEF TypeOK
  <2> QED BY <1>6, <2>3, <2>4 DEF TypeOK, StageWord, Goto
<1>7. ASSUME NEW t \in Threads, StageFault(t) PROVE TypeOK'
  BY <1>7, LeaveType DEF TypeOK, StageFault
<1>8. ASSUME NEW t \in Threads, Lock(t) PROVE TypeOK'
  BY <1>8 DEF TypeOK, Lock, Goto
<1>9. ASSUME NEW t \in Threads, ReadHead(t) PROVE TypeOK'
  BY <1>9 DEF TypeOK, ReadHead, Goto, Locals
<1>10. ASSUME NEW t \in Threads, ReadTail(t) PROVE TypeOK'
  BY <1>10 DEF TypeOK, ReadTail, Goto, Locals
<1>11. ASSUME NEW t \in Threads, QueueFull(t) PROVE TypeOK'
  BY <1>11, LeaveType DEF TypeOK, QueueFull
<1>12. ASSUME NEW t \in Threads, WritePacket(t) PROVE TypeOK'
  <2>1. cmds' \in [Slots -> Packet]
    BY <1>12, NoCallType DEF TypeOK, WritePacket, Locals
  <2>2. cpIrq' \in BOOLEAN
    BY <1>12, Zenon DEF TypeOK, WritePacket
  <2> QED BY <1>12, <2>1, <2>2 DEF TypeOK, WritePacket, Goto
<1>13. ASSUME NEW t \in Threads, PublishTail(t) PROVE TypeOK'
  <2>1. loc[t].task \in Packet /\ NextSlot(loc[t].tail) \in Slots
    BY NextSlotType DEF TypeOK, Locals
  <2>2. log' \in Seq(Packet) /\ tail' \in Slots
    BY <1>13, <2>1, AppendProperties DEF PublishTail, TypeOK
  <2>3. loc' \in [Threads -> Locals] /\ snap' \in [Threads -> Nat]
    <3>1. Len(log) + 1 \in Nat BY DEF TypeOK
    <3>2. CASE loc[t].op = "load"
      <4>1. loc' = [loc EXCEPT ![t] = [loc[t] EXCEPT !.target = NextSlot(loc[t].tail)]]
        BY <1>13, <3>2 DEF PublishTail
      <4>2. snap' = [snap EXCEPT ![t] = Len(log) + 1]
        BY <1>13, <3>2 DEF PublishTail
      <4> QED BY <2>1, <3>1, <4>1, <4>2, LocalsUpdate DEF TypeOK
    <3>3. CASE loc[t].op # "load"
      BY <1>13, <3>3 DEF PublishTail, TypeOK
    <3> QED BY <3>2, <3>3
  <2> QED BY <1>13, <2>2, <2>3 DEF TypeOK, PublishTail, Goto
<1>14. ASSUME NEW t \in Threads, RingCp(t) PROVE TypeOK'
  BY <1>14 DEF TypeOK, RingCp, Goto
<1>15. ASSUME NEW t \in Threads, Unlock(t) PROVE TypeOK'
  <2>1. CASE loc[t].op = "load"
    BY <1>15, <2>1 DEF TypeOK, Unlock, Goto, Waiting
  <2>2. CASE Leave(t, "ok")
    BY <1>15, <2>2, LeaveType DEF TypeOK, Unlock
  <2> QED BY <1>15, <2>1, <2>2 DEF Unlock
<1>16. ASSUME NEW t \in Threads, NEW code \in {"ok", "ETIMEDOUT", "ERESTARTSYS"},
              EndWait(t, code)
       PROVE  TypeOK'
  BY <1>16, LeaveType DEF TypeOK, EndWait
<1>17. ASSUME NEW t \in Threads, NEW from \in Waiting, NEW to \in Waiting,
              StayWaiting(t, from, to)
       PROVE  TypeOK'
  BY <1>17 DEF TypeOK, StayWaiting, Goto
<1>18. ASSUME NEW t \in Threads,
              FirstCheck(t) \/ CheckAgain(t) \/ WakeUp(t) \/ Expire(t) \/ Signal(t) \/ LastCheck(t)
       PROVE  TypeOK'
  BY <1>16, <1>17, <1>18
     DEF FirstCheck, CheckAgain, WakeUp, Expire, Signal, LastCheck, Waiting
<1>19. CASE IrqHandler
  BY <1>19 DEF TypeOK, IrqHandler
<1>20. ASSUME NEW m \in Modes, SetQueueMode(m) PROVE TypeOK'
  BY <1>20, InputAssumption DEF TypeOK, SetQueueMode
<1>21. CASE FwTakeIrq \/ FwSleep \/ FwNotify
  BY <1>21 DEF TypeOK, FwTakeIrq, FwSleep, FwNotify
<1>22. CASE FwExecute
  <2>1. cmds[head] \in Packet /\ cmds[head].task_id \in Nat
    BY DEF TypeOK, Packet
  <2>2. executed' \in Seq(Packet)
    BY <1>22, <2>1, AppendProperties DEF FwExecute, TypeOK
  <2>3. iram' \in [id : Nat, image : [1 .. Words -> Nat]]
    BY <1>22, <2>1 DEF FwExecute, TypeOK
  <2> QED BY <1>22, <2>2, <2>3 DEF TypeOK, FwExecute
<1>23. CASE FwCommit
  BY <1>23, NextSlotType DEF TypeOK, FwCommit
<1>24. CASE UNCHANGED vars
  BY <1>24 DEF TypeOK, vars
<1> QED
  BY <1>1, <1>3, <1>4, <1>5, <1>6, <1>7, <1>8, <1>9, <1>10, <1>11, <1>12, <1>13,
     <1>14, <1>15, <1>18, <1>19, <1>20, <1>21, <1>22, <1>23, <1>24
     DEF Next, Call, Enqueue, Wait, Firmware

\* One step of thread t, by whichever of its actions.
Step(t) ==
  \/ Call(t) \/ StageWord(t) \/ StageFault(t) \/ Lock(t) \/ Enqueue(t)
  \/ Wait(t) \/ Expire(t) \/ Signal(t)

\* A step of the interrupt handler, of sysfs or of the firmware.
Other == IrqHandler \/ (\E m \in Modes : SetQueueMode(m)) \/ Firmware

\* A step is one of a thread or one of something else.
LEMMA NextCases == Next <=> (\E t \in Threads : Step(t)) \/ Other
BY DEF Next, Step, Other

\* A thread's step leaves the other threads where they are.
LEMMA StepFrame ==
  ASSUME TypeOK, NEW t \in Threads, NEW u \in Threads, u # t, Step(u)
  PROVE  pc'[t] = pc[t] /\ loc'[t] = loc[t] /\ ret'[t] = ret[t] /\ snap'[t] = snap[t]
<1>1. CASE Call(u)
  BY <1>1 DEF Call, RejectArgs, RejectMode, SubmitCmd, LoadKernel, Enter, Doorbell,
              Goto, Leave, TypeOK
<1>2. CASE StageWord(u) \/ StageFault(u) \/ Lock(u)
  BY <1>2 DEF StageWord, StageFault, Lock, Goto, Leave, TypeOK
<1>3. CASE Enqueue(u)
  BY <1>3 DEF Enqueue, ReadHead, ReadTail, QueueFull, WritePacket, PublishTail, RingCp,
              Unlock, Goto, Leave, TypeOK
<1>4. CASE Wait(u) \/ Expire(u) \/ Signal(u)
  BY <1>4 DEF Wait, Expire, Signal, FirstCheck, CheckAgain, WakeUp, LastCheck,
              EndWait, StayWaiting, Goto, Leave, TypeOK
<1> QED BY <1>1, <1>2, <1>3, <1>4 DEF Step

\* The handler, sysfs and the firmware do not touch threads, lock or tail.
LEMMA OtherFrame == Other => UNCHANGED <<pc, loc, ret, snap, holder, log, tail, cmds>>
BY DEF Other, IrqHandler, SetQueueMode, Firmware, FwTakeIrq, FwSleep, FwExecute,
       FwCommit, FwNotify, ring, gpu, history

\* LOAD_KERNEL never copies more words than the binary has.
LEMMA NextStageInv == TypeOK /\ StageInv /\ [Next]_vars => StageInv'
<1> SUFFICES ASSUME TypeOK, StageInv, [Next]_vars, NEW t \in Threads,
                    pc'[t] = "stage"
             PROVE  loc'[t].word < Words
  BY DEF StageInv
<1>1. CASE pc[t] = "stage" /\ loc'[t] = loc[t]
  BY <1>1 DEF StageInv
<1>2. CASE Step(t)
  <2>1. CASE StageWord(t)
    <3>1. loc[t].word + 1 # Words BY <2>1 DEF StageWord, Goto, TypeOK
    <3>2. loc'[t].word = loc[t].word + 1 BY <2>1 DEF StageWord, TypeOK, Locals
    <3>3. pc[t] = "stage" /\ loc[t].word < Words /\ loc[t].word \in Nat
      BY <2>1 DEF StageWord, Goto, StageInv, TypeOK, Locals
    <3> QED BY <3>1, <3>2, <3>3, CallsAssumption
  <2>2. CASE Call(t)
    <3>1. ASSUME NEW op, NEW p, NEW to, Enter(t, op, p, to) PROVE loc'[t].word = 0
      <4>1. loc'[t] = [NoCall EXCEPT !.op = op, !.task = p]
        BY <3>1 DEF Enter, TypeOK
      <4> QED BY <4>1 DEF NoCall
    <3>2. CASE (\E c \in UserCmds : SubmitCmd(t, c)) \/ (\E k \in Kernels : LoadKernel(t, k))
      BY <3>1, <3>2, CallsAssumption DEF SubmitCmd, LoadKernel
    <3>3. CASE RejectArgs(t) \/ RejectMode(t) \/ Doorbell(t)
      BY <3>3 DEF RejectArgs, RejectMode, Doorbell, Goto, Leave, TypeOK
    <3> QED BY <2>2, <3>2, <3>3 DEF Call
  <2>3. CASE Enqueue(t) \/ Lock(t) \/ StageFault(t)
    BY <2>3 DEF Enqueue, ReadHead, ReadTail, QueueFull, WritePacket, PublishTail, RingCp,
                Unlock, Lock, StageFault, Goto, Leave, TypeOK
  <2>4. CASE Wait(t) \/ Expire(t) \/ Signal(t)
    BY <2>4 DEF Wait, Expire, Signal, FirstCheck, CheckAgain, WakeUp, LastCheck,
                EndWait, StayWaiting, Goto, Leave, TypeOK
  <2> QED BY <1>2, <2>1, <2>2, <2>3, <2>4 DEF Step
<1>3. ASSUME NEW u \in Threads, u # t, Step(u) PROVE pc[t] = "stage" /\ loc'[t] = loc[t]
  BY <1>3, StepFrame
<1>4. CASE Other \/ UNCHANGED vars
  BY <1>1, <1>4, OtherFrame DEF vars
<1> QED BY <1>1, <1>2, <1>3, <1>4, NextCases

\* Every variable of the driver's command path stays in its domain: the ring
\* indices in range of the ring, whatever the threads and the firmware do.
THEOREM TypeCorrect == Spec => []TypeOK
BY InitTypeOK, NextTypeOK, NextStageInv, PTL DEF Spec

-----------------------------------------------------------------------------
(* The lock *)

\* The threads between lock and unlock are the holders of global_lock.
LEMMA NextLockInv == TypeOK /\ LockInv /\ [Next]_vars => LockInv'
<1> SUFFICES ASSUME TypeOK, LockInv, [Next]_vars, NEW t \in Threads, pc'[t] \in Critical
             PROVE  holder' = {t}
  BY DEF LockInv
<1>1. CASE Step(t)
  <2>1. CASE Call(t)
    BY <2>1 DEF Call, RejectArgs, RejectMode, SubmitCmd, LoadKernel, Enter, Doorbell,
                Goto, Leave, TypeOK, Critical
  <2>2. CASE StageWord(t) \/ StageFault(t)
    BY <2>2 DEF StageWord, StageFault, Goto, Leave, TypeOK, Critical
  <2>3. CASE Lock(t)
    BY <2>3 DEF Lock
  <2>4. CASE Enqueue(t)
    BY <2>4 DEF Enqueue, ReadHead, ReadTail, QueueFull, WritePacket, PublishTail, RingCp,
                Unlock, Goto, Leave, TypeOK, Critical, LockInv
  <2>5. CASE Wait(t) \/ Expire(t) \/ Signal(t)
    BY <2>5 DEF Wait, Expire, Signal, FirstCheck, CheckAgain, WakeUp, LastCheck,
                EndWait, StayWaiting, Goto, Leave, TypeOK, Critical
  <2> QED BY <1>1, <2>1, <2>2, <2>3, <2>4, <2>5 DEF Step
<1>2. ASSUME NEW u \in Threads, u # t, Step(u) PROVE holder' = {t}
  <2>1. holder = {t} BY <1>2, StepFrame DEF LockInv
  <2>2. pc[u] \notin Critical BY <1>2, <2>1 DEF LockInv
  <2>3. holder' = holder
    BY <1>2, <2>1, <2>2 DEF Step, Call, RejectArgs, RejectMode, SubmitCmd, LoadKernel,
       Enter, Doorbell, StageWord, StageFault, Lock, Enqueue, ReadHead, ReadTail,
       QueueFull, WritePacket, PublishTail, RingCp, Unlock, Wait, Expire, Signal,
       FirstCheck, CheckAgain, WakeUp, LastCheck, EndWait, StayWaiting, Goto, Critical
  <2> QED BY <2>1, <2>3
<1>3. CASE Other \/ UNCHANGED vars
  BY <1>3, OtherFrame DEF vars, LockInv
<1> QED BY <1>1, <1>2, <1>3, NextCases

-----------------------------------------------------------------------------
(* The ring *)

core == <<head, tail, cmds, log, executed, fw>>

RingInv == CountInv /\ SlotInv /\ ExecutedAsPublished

\* Outside the critical section a thread does not touch the ring.
LEMMA OutsideFrame ==
  ASSUME NEW u \in Threads, Step(u), pc[u] \notin Critical
  PROVE  UNCHANGED core
BY DEF core, Step, Call, RejectArgs, RejectMode, SubmitCmd, LoadKernel, Enter, Doorbell,
   StageWord, StageFault, Lock, Enqueue, ReadHead, ReadTail, QueueFull, WritePacket,
   PublishTail, RingCp, Unlock, Wait, Expire, Signal, FirstCheck, CheckAgain, WakeUp,
   LastCheck, EndWait, StayWaiting, Goto, Critical, ring, gpu, history

\* A step that leaves the ring and the histories alone keeps the ring intact.
LEMMA CoreFrame ==
  ASSUME UNCHANGED core
  PROVE  Committed' = Committed /\ (RingInv => RingInv')
BY DEF core, Committed, RingInv, CountInv, SlotInv, ExecutedAsPublished

\* Writing a packet at tail does not touch one that is still to be read.
LEMMA RingWrite ==
  ASSUME TypeOK, RingInv, ProducerInv, NEW t \in Threads, WritePacket(t)
  PROVE  RingInv' /\ Committed' = Committed
<1>1. Committed' = Committed /\ UNCHANGED <<head, tail, log, executed, fw>>
  BY DEF WritePacket, Committed, gpu, history
<1>2. loc[t].tail = tail /\ Len(log) + 1 < Committed + QUEUE_SIZE
  BY DEF ProducerInv, WritePacket, Goto
<1>3. CountInv' /\ ExecutedAsPublished'
  BY <1>1 DEF RingInv, CountInv, ExecutedAsPublished
<1>4. ASSUME NEW k \in 1 .. Len(log), k > Committed, InWindow(SlotOf(k))
      PROVE  cmds'[SlotOf(k)] = log[k]
  <2>1. Len(log) \in Nat /\ Committed \in Nat BY DEF TypeOK, RingInv, CountInv
  <2>2. k - 1 \in Nat /\ k - 1 < Len(log) /\ Len(log) < (k - 1) + QUEUE_SIZE
    BY <1>2, <1>4, <2>1, QueueAssumption
  <2>3. SlotOf(k) # tail
    BY <2>1, <2>2, ModDistinct, QueueAssumption DEF SlotOf, RingInv, CountInv
  <2>4. cmds'[SlotOf(k)] = cmds[SlotOf(k)]
    <3>1. SlotOf(k) \in Slots
      BY <2>2, ModRange, QueueAssumption DEF SlotOf, Slots
    <3> QED BY <1>2, <2>3, <3>1 DEF WritePacket, TypeOK
  <2> QED BY <1>4, <2>4 DEF RingInv, SlotInv
<1>5. SlotInv' BY <1>1, <1>4 DEF SlotInv
<1> QED BY <1>1, <1>3, <1>5 DEF RingInv

\* Publishing the tail makes the written packet the next of the log.
LEMMA RingPublish ==
  ASSUME TypeOK, RingInv, ProducerInv, NEW t \in Threads, PublishTail(t)
  PROVE  RingInv' /\ Committed' = Committed /\ Len(log') = Len(log) + 1
<1>1. Committed' = Committed /\ UNCHANGED <<head, cmds, executed, fw>>
  BY DEF PublishTail, Committed, gpu
<1>2. /\ loc[t].tail = tail
      /\ Len(log) + 1 < Committed + QUEUE_SIZE
      /\ InWindow(tail) => cmds[tail] = loc[t].task
  BY DEF ProducerInv, PublishTail, Goto
<1>3. /\ log' = Append(log, loc[t].task) /\ log \in Seq(Packet)
      /\ loc[t].task \in Packet /\ Len(log) \in Nat
  BY DEF PublishTail, TypeOK, Locals
<1>4. /\ Len(log') = Len(log) + 1
      /\ log'[Len(log) + 1] = loc[t].task
      /\ \A k \in 1 .. Len(log) : log'[k] = log[k]
  BY <1>3, AppendProperties
<1>5. tail' = (Len(log) + 1) % QUEUE_SIZE
  BY <1>2, <1>3, ModSucc, QueueAssumption DEF PublishTail, NextSlot, RingInv, CountInv
<1>6. CountInv'
  BY <1>1, <1>2, <1>3, <1>4, <1>5 DEF RingInv, CountInv
<1>7. ExecutedAsPublished'
  <2>1. Len(executed) \in Nat BY DEF TypeOK
  <2> QED BY <1>1, <1>3, <1>4, <2>1 DEF RingInv, ExecutedAsPublished
<1>8. ASSUME NEW k \in 1 .. Len(log'), k > Committed, InWindow(SlotOf(k))
      PROVE  cmds[SlotOf(k)] = log'[k]
  <2>1. CASE k <= Len(log)
    BY <1>3, <1>4, <1>8, <2>1 DEF RingInv, SlotInv
  <2>2. CASE k = Len(log) + 1
    <3>1. SlotOf(k) = tail BY <1>3, <2>2 DEF SlotOf, RingInv, CountInv
    <3> QED BY <1>2, <1>4, <1>8, <2>2, <3>1
  <2> QED BY <1>3, <1>4, <2>1, <2>2
<1>9. SlotInv' BY <1>1, <1>8 DEF SlotInv
<1> QED BY <1>1, <1>4, <1>6, <1>7, <1>9 DEF RingInv

\* What the firmware reads at head is the next packet of the log.
LEMMA RingExecute ==
  ASSUME TypeOK, RingInv, FwExecute
  PROVE  RingInv' /\ Committed' = Committed
<1>1. /\ executed' = Append(executed, cmds[head]) /\ executed \in Seq(Packet)
      /\ cmds[head] \in Packet /\ Len(executed) \in Nat /\ Len(log) \in Nat
      /\ UNCHANGED <<head, tail, cmds, log>> /\ fw = "scan" /\ fw' = "commit"
  BY DEF FwExecute, TypeOK, ring
<1>2. /\ Len(executed') = Len(executed) + 1
      /\ executed'[Len(executed) + 1] = cmds[head]
      /\ \A k \in 1 .. Len(executed) : executed'[k] = executed[k]
  BY <1>1, AppendProperties
<1>3. Committed = Len(executed) /\ Committed' = Committed
  BY <1>1, <1>2 DEF Committed
<1>4. Committed # Len(log)
  BY DEF FwExecute, RingInv, CountInv
<1>5. Committed + 1 <= Len(log)
  BY <1>1, <1>3, <1>4 DEF RingInv, CountInv
<1>6. CountInv' BY <1>1, <1>2, <1>3, <1>5 DEF RingInv, CountInv
<1>7. SlotInv' BY <1>1, <1>3 DEF RingInv, SlotInv
<1>8. SlotOf(Committed + 1) = head
  BY <1>1, <1>3 DEF SlotOf, RingInv, CountInv
<1>9. InWindow(head) => cmds[head] = log[Committed + 1]
  BY <1>1, <1>3, <1>5, <1>8 DEF RingInv, SlotInv
<1>10. ASSUME NEW k \in 1 .. Len(executed'), InWindow(SlotOf(k))
       PROVE  executed'[k] = log[k]
  <2>1. CASE k <= Len(executed)
    BY <1>1, <1>2, <1>10, <2>1 DEF RingInv, ExecutedAsPublished
  <2>2. CASE k = Len(executed) + 1
    BY <1>2, <1>3, <1>8, <1>9, <1>10, <2>2
  <2> QED BY <1>1, <1>2, <2>1, <2>2
<1>11. ExecutedAsPublished'
  BY <1>1, <1>2, <1>3, <1>5, <1>10 DEF ExecutedAsPublished
<1> QED BY <1>3, <1>6, <1>7, <1>11 DEF RingInv

\* Committing head frees the slot of a packet that has been read.
LEMMA RingCommit ==
  ASSUME TypeOK, RingInv, FwCommit
  PROVE  RingInv' /\ Committed' = Committed + 1
<1>1. /\ fw = "commit" /\ fw' = "notify" /\ UNCHANGED <<tail, cmds, log, executed>>
      /\ head' = NextSlot(head) /\ Len(executed) \in Nat /\ Len(log) \in Nat
  BY DEF FwCommit, TypeOK, history
<1>2. Committed = Len(executed) - 1 /\ Committed' = Len(executed)
  BY <1>1 DEF Committed
<1>3. head' = (Committed + 1) % QUEUE_SIZE
  BY <1>1, ModSucc, QueueAssumption DEF NextSlot, RingInv, CountInv
<1>4. CountInv'
  <2>1. Committed' = Committed + 1 /\ Committed' \in Nat BY <1>1, <1>2
  <2>2. head' = Committed' % QUEUE_SIZE BY <1>3, <2>1
  <2>3. Len(executed) <= Len(log) /\ Len(log) < Committed + QUEUE_SIZE
    BY DEF RingInv, CountInv
  <2>4. Committed' <= Len(log) /\ Len(log) < Committed' + QUEUE_SIZE
    BY <1>1, <1>2, <2>3, QueueAssumption
  <2> QED BY <1>1, <2>1, <2>2, <2>3, <2>4 DEF RingInv, CountInv
<1>5. SlotInv' BY <1>1, <1>2 DEF RingInv, SlotInv, CountInv
<1>6. ExecutedAsPublished' BY <1>1 DEF RingInv, ExecutedAsPublished
<1> QED BY <1>1, <1>2, <1>4, <1>5, <1>6 DEF RingInv

\* The ring survives every step, and no packet is ever taken back.
LEMMA NextRingInv ==
  ASSUME TypeOK, RingInv, ProducerInv, [Next]_vars
  PROVE  RingInv' /\ Committed' >= Committed /\ Len(log') >= Len(log)
<1>0. Committed \in Nat /\ Len(log) \in Nat BY DEF TypeOK, RingInv, CountInv
<1>1. CASE UNCHANGED core
  BY <1>0, <1>1, CoreFrame DEF core
<1>2. ASSUME NEW t \in Threads, Step(t)
      PROVE  \/ UNCHANGED core
             \/ RingInv' /\ Committed' >= Committed /\ Len(log') >= Len(log)
  <2>1. CASE pc[t] \notin Critical BY <1>2, <2>1, OutsideFrame
  <2>2. CASE WritePacket(t)
    <3>1. log' = log BY <2>2 DEF WritePacket, history
    <3>2. RingInv' /\ Committed' = Committed BY <2>2, RingWrite
    <3> QED BY <1>0, <3>1, <3>2
  <2>3. CASE PublishTail(t) BY <1>0, <2>3, RingPublish
  <2>4. CASE ReadHead(t) \/ ReadTail(t) \/ QueueFull(t) \/ RingCp(t) \/ Unlock(t)
    BY <2>4 DEF ReadHead, ReadTail, QueueFull, RingCp, Unlock, core, ring, gpu, history
  <2>5. CASE pc[t] \in Critical /\ ~Enqueue(t)
    BY <1>2, <2>5 DEF Step, Call, RejectArgs, RejectMode, SubmitCmd, LoadKernel, Enter,
       Doorbell, StageWord, StageFault, Lock, Wait, Expire, Signal, FirstCheck,
       CheckAgain, WakeUp, LastCheck, StayWaiting, Goto, Critical
  <2> QED BY <2>1, <2>2, <2>3, <2>4, <2>5 DEF Enqueue
<1>3. CASE Other
  <2>1. CASE IrqHandler \/ \E m \in Modes : SetQueueMode(m)
    BY <1>1, <2>1 DEF IrqHandler, SetQueueMode, core, ring, gpu, history
  <2>2. CASE FwExecute BY <1>0, <2>2, RingExecute DEF FwExecute
  <2>3. CASE FwCommit BY <1>0, <2>3, RingCommit DEF FwCommit, history
  <2>4. CASE FwTakeIrq \/ FwSleep \/ FwNotify
    <3>1. UNCHANGED <<head, tail, cmds, log, executed>> /\ fw # "commit" /\ fw' # "commit"
      BY <2>4 DEF FwTakeIrq, FwSleep, FwNotify, ring, history
    <3>2. Committed' = Committed BY <3>1 DEF Committed
    <3>3. CountInv' BY <3>1, <3>2 DEF RingInv, CountInv
    <3>4. SlotInv' /\ ExecutedAsPublished'
      BY <3>1, <3>2 DEF RingInv, SlotInv, ExecutedAsPublished
    <3> QED BY <1>0, <3>1, <3>2, <3>3, <3>4 DEF RingInv
  <2> QED BY <1>3, <2>1, <2>2, <2>3, <2>4 DEF Other, Firmware
<1>4. CASE UNCHANGED vars
  BY <1>1, <1>4 DEF vars, core, ring, gpu, history
<1> QED BY <1>1, <1>2, <1>3, <1>4, NextCases

-----------------------------------------------------------------------------
(* Producers *)

\* A producer in the critical section works on the tail it has read, with room left.
LEMMA NextProducerInv ==
  ASSUME TypeOK, LockInv, RingInv, ProducerInv, [Next]_vars
  PROVE  ProducerInv'
<1> SUFFICES ASSUME NEW t \in Threads
    PROVE /\ pc'[t] = "tail" =>
               \E c \in 0 .. Committed' : /\ loc'[t].head = c % QUEUE_SIZE
                                          /\ Len(log') < c + QUEUE_SIZE
          /\ pc'[t] \in {"write", "publish"} =>
               loc'[t].tail = tail' /\ Len(log') + 1 < Committed' + QUEUE_SIZE
          /\ pc'[t] = "publish" /\ InWindow(tail') => cmds'[tail'] = loc'[t].task
  BY DEF ProducerInv
<1>0. /\ Committed \in Nat /\ Len(log) \in Nat
      /\ Len(log) < Committed + QUEUE_SIZE /\ Committed <= Len(log)
      /\ head = Committed % QUEUE_SIZE /\ tail = Len(log) % QUEUE_SIZE
  BY DEF TypeOK, RingInv, CountInv
<1>1. CASE Step(t)
  <2>1. CASE ReadHead(t)
    <3>1. Committed' = Committed /\ log' = log /\ pc'[t] = "tail" /\ loc'[t].head = head
      BY <2>1 DEF ReadHead, Committed, Goto, TypeOK, Locals, gpu, history
    <3> QED BY <1>0, <3>1
  <2>2. CASE ReadTail(t)
    <3>1. /\ Committed' = Committed /\ UNCHANGED <<log, tail>> /\ pc'[t] = "write"
          /\ loc'[t].tail = tail /\ pc[t] = "tail" /\ ~Full(loc[t].head, tail)
      BY <2>2 DEF ReadTail, Committed, Goto, TypeOK, Locals, gpu, history, ring
    <3>2. PICK c \in 0 .. Committed : /\ loc[t].head = c % QUEUE_SIZE
                                     /\ Len(log) < c + QUEUE_SIZE
      BY <3>1 DEF ProducerInv
    <3>3. NextSlot(tail) = (Len(log) + 1) % QUEUE_SIZE
      BY <1>0, ModSucc, QueueAssumption DEF NextSlot
    <3>4. Len(log) + 1 # c + QUEUE_SIZE
      <4>1. c \in Nat BY <1>0
      <4>2. (c + QUEUE_SIZE) % QUEUE_SIZE = c % QUEUE_SIZE
        BY <4>1, ModPeriod, QueueAssumption
      <4> QED BY <3>1, <3>2, <3>3, <4>2 DEF Full
    <3>5. Len(log) + 1 < Committed + QUEUE_SIZE
      BY <1>0, <3>2, <3>4, QueueAssumption
    <3> QED BY <3>1, <3>5
  <2>3. CASE WritePacket(t)
    <3>1. /\ UNCHANGED <<log, tail, loc>> /\ pc'[t] = "publish" /\ pc[t] = "write"
      BY <2>3 DEF WritePacket, Goto, TypeOK, history
    <3>2. Committed' = Committed BY <2>3, RingWrite
    <3>3. loc[t].tail = tail /\ Len(log) + 1 < Committed + QUEUE_SIZE
      BY <3>1 DEF ProducerInv
    <3>4. InWindow(tail) => cmds'[tail] = loc[t].task
      BY <2>3, <3>3 DEF WritePacket, TypeOK
    <3> QED BY <3>1, <3>2, <3>3, <3>4
  <2>4. CASE pc'[t] \notin {"tail", "write", "publish"}
    BY <2>4
  <2>5. CASE Call(t) \/ StageWord(t) \/ StageFault(t) \/ Lock(t) \/ QueueFull(t)
             \/ PublishTail(t) \/ RingCp(t) \/ Unlock(t)
    <3>1. pc'[t] \notin {"tail", "write", "publish"}
      BY <2>5 DEF Call, RejectArgs, RejectMode, SubmitCmd, LoadKernel, Enter, Doorbell,
         StageWord, StageFault, Lock, QueueFull, PublishTail, RingCp, Unlock, Goto, Leave,
         TypeOK
    <3> QED BY <3>1
  <2>6. CASE Wait(t) \/ Expire(t) \/ Signal(t)
    <3>1. pc'[t] \notin {"tail", "write", "publish"}
      BY <2>6 DEF Wait, Expire, Signal, FirstCheck, CheckAgain, WakeUp, LastCheck,
         EndWait, StayWaiting, Goto, Leave, TypeOK
    <3> QED BY <3>1
  <2> QED BY <1>1, <2>1, <2>2, <2>3, <2>5, <2>6 DEF Step, Enqueue
<1>2. CASE /\ pc'[t] = pc[t] /\ loc'[t] = loc[t] /\ UNCHANGED <<log, tail, cmds>>
           /\ Committed' >= Committed /\ Committed' \in Nat
  <2>1. CASE pc[t] = "tail"
    <3>1. PICK c \in 0 .. Committed : /\ loc[t].head = c % QUEUE_SIZE
                                     /\ Len(log) < c + QUEUE_SIZE
      BY <2>1 DEF ProducerInv
    <3>2. c \in 0 .. Committed' BY <1>0, <1>2
    <3> QED BY <1>2, <2>1, <3>1, <3>2
  <2>2. CASE pc[t] \in {"write", "publish"}
    <3>1. loc[t].tail = tail /\ Len(log) + 1 < Committed + QUEUE_SIZE
      BY <2>2 DEF ProducerInv
    <3>2. Len(log) + 1 < Committed' + QUEUE_SIZE
      BY <1>0, <1>2, <3>1, QueueAssumption
    <3>3. pc[t] = "publish" /\ InWindow(tail) => cmds[tail] = loc[t].task
      BY DEF ProducerInv
    <3> QED BY <1>2, <2>2, <3>1, <3>2, <3>3
  <2> QED BY <1>2, <2>1, <2>2
<1>3. ASSUME NEW u \in Threads, u # t, Step(u), pc[t] \in {"tail", "write", "publish"}
      PROVE  UNCHANGED core
  BY <1>3, OutsideFrame DEF LockInv, Critical
<1>4. Committed' >= Committed /\ Committed' \in Nat
  BY NextRingInv DEF RingInv, CountInv
<1>5. ASSUME NEW u \in Threads, u # t, Step(u)
      PROVE  \/ pc'[t] \notin {"tail", "write", "publish"}
             \/ pc'[t] = pc[t] /\ loc'[t] = loc[t] /\ UNCHANGED <<log, tail, cmds>>
  BY <1>3, <1>5, StepFrame DEF core
<1>6. CASE Other \/ UNCHANGED vars
  <2>1. pc' = pc /\ loc' = loc /\ UNCHANGED <<log, tail, cmds>>
    BY <1>6, OtherFrame DEF vars, ring, history
  <2> QED BY <1>2, <1>4, <2>1
<1>7. CASE pc'[t] \notin {"tail", "write", "publish"}
  BY <1>7
<1> QED BY <1>1, <1>2, <1>4, <1>5, <1>6, <1>7, NextCases

-----------------------------------------------------------------------------
(* Waiters *)

\* The count behind a target that head has reached has been committed.
LEMMA ReachedMeansDone ==
  ASSUME TypeOK, RingInv, WaiterInv, NEW t \in Threads, pc[t] \in Waiting, Reached(t)
  PROVE  Committed >= snap[t]
<1>1. /\ Committed \in Nat /\ Len(log) \in Nat /\ snap[t] \in Nat
      /\ Len(log) < Committed + QUEUE_SIZE /\ head = Committed % QUEUE_SIZE
  BY DEF TypeOK, RingInv, CountInv
<1>2. snap[t] % QUEUE_SIZE = head /\ snap[t] <= Len(log)
  BY DEF WaiterInv, Reached
<1>3. ASSUME Committed < snap[t] PROVE FALSE
  <2>1. snap[t] < Committed + QUEUE_SIZE BY <1>1, <1>2, QueueAssumption
  <2> QED BY <1>1, <1>2, <1>3, <2>1, ModDistinct, QueueAssumption
<1> QED BY <1>1, <1>3

\* A waiter's target is the slot of the count it waits for.
LEMMA NextWaiterInv ==
  ASSUME TypeOK, RingInv, ProducerInv, WaiterInv, [Next]_vars
  PROVE  WaiterInv'
<1> SUFFICES ASSUME NEW t \in Threads
    PROVE /\ pc'[t] \in {"stage", "lock", "head", "tail", "write", "publish"} => snap'[t] = 0
          /\ pc'[t] \in {"irq", "unlock"} /\ loc'[t].op # "load" => snap'[t] = 0
          /\ pc'[t] \in Waiting \/ (pc'[t] \in {"irq", "unlock"} /\ loc'[t].op = "load") =>
               loc'[t].target = snap'[t] % QUEUE_SIZE /\ snap'[t] <= Len(log')
          /\ pc'[t] # "user" => ret'[t] = "none"
  BY DEF WaiterInv
<1>0. /\ Len(log) \in Nat /\ Len(log') \in Nat /\ Len(log') >= Len(log)
      /\ snap[t] \in Nat /\ tail = Len(log) % QUEUE_SIZE
  <2>1. TypeOK => Len(log) \in Nat /\ snap[t] \in Nat BY DEF TypeOK
  <2>2. Len(log') \in Nat
    BY NextRingInv DEF RingInv, CountInv, TypeOK, Committed
  <2> QED BY <2>1, <2>2, NextRingInv DEF RingInv, CountInv
<1>1. CASE pc'[t] = pc[t] /\ loc'[t] = loc[t] /\ ret'[t] = ret[t] /\ snap'[t] = snap[t]
  BY <1>0, <1>1 DEF WaiterInv
<1>2. CASE Step(t)
  <2>1. CASE pc'[t] = "user"
    BY <2>1 DEF Waiting
  <2>2. CASE Call(t)
    <3>1. ASSUME NEW op, NEW p, NEW to \in {"lock", "stage"}, Enter(t, op, p, to)
          PROVE  pc'[t] \in {"lock", "stage"} /\ snap'[t] = 0 /\ ret'[t] = "none"
      BY <3>1 DEF Enter, Goto, TypeOK
    <3>2. CASE (\E c \in UserCmds : SubmitCmd(t, c)) \/ (\E k \in Kernels : LoadKernel(t, k))
      <4>1. pc'[t] \in {"lock", "stage"} /\ snap'[t] = 0 /\ ret'[t] = "none"
        BY <3>1, <3>2 DEF SubmitCmd, LoadKernel
      <4> QED BY <4>1 DEF Waiting
    <3>3. CASE Doorbell(t)
      <4>1. loc'[t] = [NoCall EXCEPT !.op = "doorbell", !.target = tail]
        BY <3>3 DEF Doorbell, TypeOK
      <4>2. loc'[t].target = tail BY <4>1 DEF NoCall
      <4>3. pc'[t] = "cond" /\ snap'[t] = Len(log) /\ ret'[t] = "none" /\ log' = log
        BY <3>3 DEF Doorbell, Goto, TypeOK, history
      <4> QED BY <1>0, <4>2, <4>3
    <3>4. CASE RejectArgs(t) \/ RejectMode(t)
      BY <2>1, <3>4 DEF RejectArgs, RejectMode, Leave, TypeOK
    <3> QED BY <2>2, <3>2, <3>3, <3>4 DEF Call
  <2>3. CASE StageWord(t) \/ Lock(t) \/ ReadHead(t) \/ ReadTail(t) \/ WritePacket(t)
    <3>1. /\ pc[t] \in {"stage", "lock", "head", "tail", "write"}
          /\ pc'[t] \in {"stage", "lock", "head", "tail", "write", "publish"}
          /\ UNCHANGED <<snap, ret>>
      BY <2>3 DEF StageWord, Lock, ReadHead, ReadTail, WritePacket, Goto, TypeOK
    <3>2. snap[t] = 0 /\ ret[t] = "none" BY <3>1 DEF WaiterInv
    <3> QED BY <3>1, <3>2 DEF Waiting
  <2>4. CASE PublishTail(t)
    <3>1. pc'[t] = "irq" /\ pc[t] = "publish" /\ ret'[t] = "none" /\ snap[t] = 0
      BY <2>4 DEF PublishTail, Goto, TypeOK, WaiterInv
    <3>2. CASE loc[t].op # "load"
      <4>1. loc' = loc /\ snap' = snap BY <2>4, <3>2 DEF PublishTail
      <4> QED BY <3>1, <3>2, <4>1 DEF Waiting
    <3>3. CASE loc[t].op = "load"
      <4>1. /\ loc' = [loc EXCEPT ![t].target = NextSlot(loc[t].tail)]
            /\ snap' = [snap EXCEPT ![t] = Len(log) + 1]
        BY <2>4, <3>3 DEF PublishTail
      <4>2. /\ loc'[t].op = "load" /\ loc'[t].target = NextSlot(loc[t].tail)
            /\ snap'[t] = Len(log) + 1
        BY <3>3, <4>1 DEF TypeOK, Locals
      <4>3. loc[t].tail = tail BY <3>1 DEF ProducerInv
      <4>4. NextSlot(tail) = (Len(log) + 1) % QUEUE_SIZE
        BY <1>0, ModSucc, QueueAssumption DEF NextSlot
      <4>5. Len(log') = Len(log) + 1 BY <2>4, RingPublish
      <4> QED BY <1>0, <3>1, <4>2, <4>3, <4>4, <4>5 DEF Waiting
    <3> QED BY <3>2, <3>3
  <2>5. CASE RingCp(t)
    <3>1. pc[t] = "irq" /\ pc'[t] = "unlock" /\ UNCHANGED <<loc, snap, ret, log>>
      BY <2>5 DEF RingCp, Goto, TypeOK, history
    <3> QED BY <3>1 DEF WaiterInv, Waiting
  <2>6. CASE Unlock(t)
    <3>1. CASE loc[t].op = "load"
      <4>1. pc[t] = "unlock" /\ pc'[t] = "cond" /\ UNCHANGED <<loc, snap, ret, log>>
        BY <2>6, <3>1 DEF Unlock, Goto, TypeOK, history
      <4> QED BY <3>1, <4>1 DEF WaiterInv, Waiting
    <3>2. CASE loc[t].op # "load"
      BY <2>1, <2>6, <3>2 DEF Unlock, Leave, TypeOK
    <3> QED BY <3>1, <3>2
  <2>7. CASE StageFault(t) \/ QueueFull(t)
    BY <2>1, <2>7 DEF StageFault, QueueFull, Leave, TypeOK
  <2>8. ASSUME NEW code, EndWait(t, code) PROVE pc'[t] = "user"
    BY <2>8 DEF EndWait, Leave, TypeOK
  <2>9. ASSUME NEW from \in Waiting, NEW to \in Waiting, StayWaiting(t, from, to)
        PROVE  pc[t] \in Waiting /\ pc'[t] \in Waiting /\ UNCHANGED <<loc, snap, ret, log>>
    BY <2>9 DEF StayWaiting, Goto, TypeOK, history
  <2>10. CASE Wait(t) \/ Expire(t) \/ Signal(t)
    <3>1. \/ pc'[t] = "user"
          \/ pc[t] \in Waiting /\ pc'[t] \in Waiting /\ UNCHANGED <<loc, snap, ret, log>>
      BY <2>8, <2>9, <2>10
         DEF Wait, Expire, Signal, FirstCheck, CheckAgain, WakeUp, LastCheck, Waiting
    <3> QED BY <2>1, <3>1 DEF WaiterInv, Waiting
  <2> QED BY <1>2, <2>2, <2>3, <2>4, <2>5, <2>6, <2>7, <2>10 DEF Step, Enqueue
<1>3. ASSUME NEW u \in Threads, u # t, Step(u)
      PROVE  pc'[t] = pc[t] /\ loc'[t] = loc[t] /\ ret'[t] = ret[t] /\ snap'[t] = snap[t]
  BY <1>3, StepFrame
<1>4. CASE Other \/ UNCHANGED vars
  BY <1>1, <1>4, OtherFrame DEF vars
<1> QED BY <1>1, <1>2, <1>3, <1>4, NextCases

\* A result of 0 stays true: completions are never taken back.
LEMMA NextSuccess ==
  ASSUME TypeOK, RingInv, ProducerInv, WaiterInv, SuccessMeansCompleted, [Next]_vars
  PROVE  SuccessMeansCompleted'
<1> SUFFICES ASSUME NEW t \in Threads, ret'[t] = "ok" PROVE Committed' >= snap'[t]
  BY DEF SuccessMeansCompleted
<1>0. Committed \in Nat /\ Committed' \in Nat /\ Committed' >= Committed /\ snap[t] \in Nat
  BY NextRingInv DEF RingInv, CountInv, TypeOK
<1>1. CASE ret[t] = "ok" /\ snap'[t] = snap[t]
  BY <1>0, <1>1 DEF SuccessMeansCompleted
<1>2. CASE Step(t)
  <2>1. CASE Call(t)
    <3>1. ret'[t] # "ok"
      BY <2>1 DEF Call, RejectArgs, RejectMode, SubmitCmd, LoadKernel, Enter, Doorbell,
                  Leave, TypeOK
    <3> QED BY <3>1
  <2>2. CASE StageFault(t) \/ QueueFull(t)
    <3>1. ret'[t] # "ok" BY <2>2 DEF StageFault, QueueFull, Leave, TypeOK
    <3> QED BY <3>1
  <2>3. CASE StageWord(t) \/ Lock(t) \/ ReadHead(t) \/ ReadTail(t) \/ WritePacket(t)
             \/ PublishTail(t) \/ RingCp(t)
    <3>1. pc[t] # "user" /\ ret'[t] = ret[t]
      BY <2>3 DEF StageWord, Lock, ReadHead, ReadTail, WritePacket, PublishTail, RingCp,
                  Goto, TypeOK
    <3> QED BY <3>1 DEF WaiterInv
  <2>4. CASE Unlock(t)
    <3>1. pc[t] = "unlock" /\ ret[t] = "none" /\ snap' = snap
      BY <2>4 DEF Unlock, WaiterInv
    <3>2. loc[t].op # "load" BY <2>4, <3>1 DEF Unlock
    <3> QED BY <1>0, <3>1, <3>2 DEF WaiterInv
  <2>5. CASE pc[t] \in Waiting /\ Reached(t) /\ snap' = snap
    BY <1>0, <2>5, ReachedMeansDone
  <2>6. ASSUME NEW from \in Waiting, NEW to, StayWaiting(t, from, to) PROVE ret'[t] # "ok"
    BY <2>6 DEF StayWaiting, Goto, WaiterInv, Waiting
  <2>7. ASSUME NEW code, EndWait(t, code) PROVE ret'[t] = code /\ snap' = snap
    BY <2>7 DEF EndWait, Leave, TypeOK
  <2>8. CASE Wait(t) \/ Expire(t) \/ Signal(t)
    <3>1. pc[t] \in Waiting /\ Reached(t) /\ snap' = snap
      BY <2>6, <2>7, <2>8
         DEF Wait, Expire, Signal, FirstCheck, CheckAgain, WakeUp, LastCheck, Waiting
    <3> QED BY <2>5, <3>1
  <2> QED BY <1>2, <2>1, <2>2, <2>3, <2>4, <2>8 DEF Step, Enqueue
<1>3. ASSUME NEW u \in Threads, u # t, Step(u) PROVE ret[t] = "ok" /\ snap'[t] = snap[t]
  BY <1>3, StepFrame
<1>4. CASE Other \/ UNCHANGED vars
  BY <1>1, <1>4, OtherFrame DEF vars
<1> QED BY <1>1, <1>2, <1>3, <1>4, NextCases

-----------------------------------------------------------------------------
(* The inductive invariant and what follows from it *)

\* The inductive invariant holds after probe.
LEMMA InitIndInv == Init => IndInv
<1> SUFFICES ASSUME Init PROVE IndInv
  OBVIOUS
<1>1. TypeOK /\ StageInv BY InitTypeOK
<1>2. Len(log) = 0 /\ Len(executed) = 0 /\ Committed = 0
  BY EmptySeq DEF Init, Committed
<1>3. LockInv /\ ProducerInv /\ WaiterInv
  BY DEF Init, LockInv, ProducerInv, WaiterInv, Critical, Waiting
<1>4. CountInv
  <2>1. 0 % QUEUE_SIZE = 0 BY QueueAssumption
  <2> QED BY <1>2, <2>1, QueueAssumption DEF Init, CountInv
<1>5. SlotInv /\ ExecutedAsPublished
  BY <1>2 DEF SlotInv, ExecutedAsPublished
<1>6. SuccessMeansCompleted
  BY DEF Init, SuccessMeansCompleted
<1> QED BY <1>1, <1>3, <1>4, <1>5, <1>6 DEF IndInv

\* Every step keeps the inductive invariant.
LEMMA NextIndInv == IndInv /\ [Next]_vars => IndInv'
<1> SUFFICES ASSUME IndInv, [Next]_vars PROVE IndInv'
  OBVIOUS
<1>1. RingInv BY DEF IndInv, RingInv
<1>2. TypeOK' /\ StageInv' /\ LockInv'
  BY NextTypeOK, NextStageInv, NextLockInv DEF IndInv
<1>3. RingInv' BY <1>1, NextRingInv DEF IndInv
<1>4. ProducerInv' BY <1>1, NextProducerInv DEF IndInv
<1>5. WaiterInv' BY <1>1, NextWaiterInv DEF IndInv
<1>6. SuccessMeansCompleted' BY <1>1, NextSuccess DEF IndInv
<1> QED BY <1>2, <1>3, <1>4, <1>5, <1>6 DEF IndInv, RingInv

\* The inductive invariant of the command path: types, the lock, the ring with its
\* counts, the producers, the waiters and their results, in every reachable state.
THEOREM Invariance == Spec => []IndInv
BY InitIndInv, NextIndInv, PTL DEF Spec

\* The firmware executes the packets the driver published, in the order of
\* their publication, without loss, repetition or overwriting, for any number
\* of producers, any queue size and any number of wrap-arounds.
THEOREM RingIsFifo == Spec => []ExecutedAsPublished
<1>1. IndInv => ExecutedAsPublished BY DEF IndInv
<1> QED BY <1>1, Invariance, PTL

\* A DOORBELL or LOAD_KERNEL that returns 0 returns after the completion of
\* every packet published before its wait began.
THEOREM SuccessIsCompletion == Spec => []SuccessMeansCompleted
<1>1. IndInv => SuccessMeansCompleted BY DEF IndInv
<1> QED BY <1>1, Invariance, PTL

-----------------------------------------------------------------------------
(* Wake-ups *)

\* No step in queue_mode 0 leaves a sleeper behind whose condition is true.
LEMMA NextWake ==
  ASSUME TypeOK, 0 \notin Modes, NoLostWakeup, [Next]_vars
  PROVE  NoLostWakeup'
<1> SUFFICES ASSUME queue_mode' = 0 PROVE NoLostWakeup'
  BY DEF NoLostWakeup
<1>1. queue_mode = 0
  BY DEF Next, Call, RejectArgs, RejectMode, SubmitCmd, LoadKernel, Enter, Doorbell,
     StageWord, StageFault, Lock, Enqueue, ReadHead, ReadTail, QueueFull, WritePacket,
     PublishTail, RingCp, Unlock, Wait, Expire, Signal, FirstCheck, CheckAgain, WakeUp,
     LastCheck, EndWait, StayWaiting, IrqHandler, SetQueueMode, Firmware, FwTakeIrq,
     FwSleep, FwExecute, FwCommit, FwNotify, vars
<1> SUFFICES ASSUME NEW t \in Threads, pc'[t] = "asleep", head' = loc'[t].target
             PROVE  t \in woken' \/ msi' \/ fw' = "notify"
  BY DEF NoLostWakeup, Reached
\* A sleeper that was asleep already, and whose condition was true already.
<1>2. CASE /\ pc[t] = "asleep" /\ loc'[t] = loc[t] /\ head' = head
           /\ woken \subseteq woken' \cup (Threads \ {t}) /\ UNCHANGED <<msi, fw>>
  BY <1>1, <1>2 DEF NoLostWakeup, Reached
<1>3. CASE Step(t)
  <2>1. CASE Call(t) \/ StageWord(t) \/ StageFault(t) \/ Lock(t)
    BY <2>1 DEF Call, RejectArgs, RejectMode, SubmitCmd, LoadKernel, Enter, Doorbell,
       StageWord, StageFault, Lock, Goto, Leave, TypeOK
  <2>2. CASE Enqueue(t)
    BY <2>2 DEF Enqueue, ReadHead, ReadTail, QueueFull, WritePacket, PublishTail, RingCp,
       Unlock, Goto, Leave, TypeOK
  <2>3. CASE Wait(t) \/ Expire(t) \/ Signal(t)
    <3>1. ASSUME NEW code, EndWait(t, code) PROVE pc'[t] = "user"
      BY <3>1 DEF EndWait, Leave, TypeOK
    <3>2. ASSUME NEW from, NEW to, StayWaiting(t, from, to)
          PROVE  pc'[t] = to /\ UNCHANGED <<head, loc>>
      BY <3>2 DEF StayWaiting, Goto, TypeOK, ring
    <3>3. head # loc[t].target
      BY <2>3, <3>1, <3>2 DEF Wait, Expire, Signal, FirstCheck, CheckAgain, WakeUp,
         LastCheck, Reached
    <3>4. UNCHANGED <<head, loc>>
      BY <2>3, <3>1, <3>2 DEF Wait, Expire, Signal, FirstCheck, CheckAgain, WakeUp,
         LastCheck
    <3> QED BY <3>3, <3>4
  <2> QED BY <1>3, <2>1, <2>2, <2>3 DEF Step
<1>4. ASSUME NEW u \in Threads, u # t, Step(u)
      PROVE  /\ pc[t] = "asleep" /\ loc'[t] = loc[t] /\ head' = head
             /\ woken \subseteq woken' \cup (Threads \ {t}) /\ UNCHANGED <<msi, fw>>
  <2>1. pc[t] = "asleep" /\ loc'[t] = loc[t] BY <1>4, StepFrame
  <2>2. UNCHANGED <<head, msi, fw>> /\ (woken' = woken \/ woken' = woken \ {u})
    BY <1>4 DEF Step, Call, RejectArgs, RejectMode, SubmitCmd, LoadKernel, Enter, Doorbell,
       StageWord, StageFault, Lock, Enqueue, ReadHead, ReadTail, QueueFull, WritePacket,
       PublishTail, RingCp, Unlock, Wait, Expire, Signal, FirstCheck, CheckAgain, WakeUp,
       LastCheck, EndWait, StayWaiting, ring, gpu
  <2>3. woken \subseteq Threads BY DEF TypeOK
  <2> QED BY <1>4, <2>1, <2>2, <2>3
<1>5. CASE Other
  <2>1. pc[t] = "asleep" /\ loc' = loc BY <1>5, OtherFrame
  <2>2. CASE IrqHandler
    BY <1>1, <2>1, <2>2 DEF IrqHandler
  <2>3. CASE \E m \in Modes : SetQueueMode(m)
    BY <1>2, <2>1, <2>3 DEF SetQueueMode, ring, gpu, TypeOK
  <2>4. CASE FwCommit BY <2>4 DEF FwCommit
  <2>5. CASE FwNotify BY <2>5 DEF FwNotify
  <2>6. CASE FwTakeIrq \/ FwSleep \/ FwExecute
    BY <1>1, <2>1, <2>6 DEF FwTakeIrq, FwSleep, FwExecute, ring, NoLostWakeup, Reached
  <2> QED BY <1>5, <2>2, <2>3, <2>4, <2>5, <2>6 DEF Other, Firmware
<1>6. CASE UNCHANGED vars
  BY <1>2, <1>6 DEF vars, ring, gpu, TypeOK
<1> QED BY <1>1, <1>2, <1>3, <1>4, <1>5, <1>6, NextCases

\* Until queue_mode 0 is left, the test-queue-test order of the wait and the
\* commit-before-MSI order of the firmware together lose no wake-up. (If it is
\* left and set again, a wake-up of the time between is lost.)
THEOREM WakeupsReachSleepers ==
  ASSUME 0 \notin Modes
  PROVE  Spec => []NoLostWakeup
<1>1. Init => NoLostWakeup
  BY DEF Init, NoLostWakeup
<1>2. TypeOK /\ NoLostWakeup /\ [Next]_vars => NoLostWakeup'
  BY NextWake
<1> QED BY <1>1, <1>2, TypeCorrect, PTL DEF Spec

-----------------------------------------------------------------------------
(* Loading a kernel *)

\* The packet of the call has been published.
Sent(t) == pc[t] \in {"irq", "unlock"} \cup Waiting

\* Only l is ever in LOAD_KERNEL, and with a packet that loads.
LoaderInv(l) ==
  \A t \in Threads :
    /\ pc[t] = "stage" => loc[t].op = "load"
    /\ loc[t].op = "load" => t = l /\ pc[t] # "user" /\ loc[t].task.opcode = "load"

\* The words l has copied are its own; all are copied before the lock.
StagedInv(l) ==
  l \in Threads /\ loc[l].op = "load" =>
    /\ pc[l] # "stage" => loc[l].word = Words
    /\ \A w \in 1 .. Words : w <= loc[l].word => staging[w] = loc[l].task.task_id

\* The packet l waits for is its own and lies in the slot it has filled.
SentInv(l) ==
  l \in Threads /\ loc[l].op = "load" /\ Sent(l) =>
    /\ snap[l] \in 1 .. Len(log)
    /\ log[snap[l]] = loc[l].task
    /\ SlotOf(snap[l]) = loc[l].tail

\* Once it has been executed instruction RAM has the words of l, and every
\* later load, of whatever packet, copies the same words again.
LoadedInv(l) ==
  l \in Threads /\ loc[l].op = "load" /\ Sent(l) /\ InWindow(loc[l].tail) /\ Len(executed) >= snap[l] =>
    \A w \in 1 .. Words : iram.image[w] = loc[l].task.task_id

LoadInv(l) == LoaderInv(l) /\ StagedInv(l) /\ SentInv(l) /\ LoadedInv(l)

\* What a thread's step does to what LoadInv says of that thread.
LEMMA LoadStep ==
  ASSUME TypeOK, NEW t \in Threads, Step(t)
  PROVE  \/ loc'[t].op # "load" /\ pc'[t] # "stage"
         \/ \E k \in Kernels : /\ t \in Loaders /\ pc'[t] = "stage" /\ UNCHANGED staging
                               /\ loc'[t] = [NoCall EXCEPT !.op = "load", !.task = LoadTask(k)]
         \/ StageWord(t)
         \/ PublishTail(t)
         \/ /\ loc'[t].op = loc[t].op /\ loc'[t].task = loc[t].task /\ loc'[t].word = loc[t].word
            /\ pc[t] # "user" /\ pc'[t] \notin {"user", "stage"} /\ pc[t] # "stage"
            /\ UNCHANGED <<staging, snap>> /\ (Sent(t)' <=> Sent(t))
            /\ Sent(t) => loc'[t].tail = loc[t].tail
<1> USE DEF Sent, Waiting
<1>1. CASE Call(t)
  <2>1. CASE RejectArgs(t) \/ RejectMode(t)
    <3>1. loc'[t] = NoCall /\ pc'[t] = "user"
      BY <2>1 DEF RejectArgs, RejectMode, Leave, TypeOK
    <3> QED BY <3>1 DEF NoCall
  <2>2. ASSUME NEW c \in UserCmds, SubmitCmd(t, c) PROVE loc'[t].op # "load" /\ pc'[t] # "stage"
    <3>1. loc'[t] = [NoCall EXCEPT !.op = "submit", !.task = SubmitTask(c)] /\ pc'[t] = "lock"
      BY <2>2 DEF SubmitCmd, Enter, Goto, TypeOK
    <3> QED BY <3>1 DEF NoCall
  <2>3. ASSUME NEW k \in Kernels, LoadKernel(t, k)
        PROVE  /\ t \in Loaders /\ pc'[t] = "stage" /\ UNCHANGED staging
               /\ loc'[t] = [NoCall EXCEPT !.op = "load", !.task = LoadTask(k)]
    BY <2>3 DEF LoadKernel, Enter, Goto, TypeOK
  <2>4. CASE Doorbell(t)
    <3>1. loc'[t] = [NoCall EXCEPT !.op = "doorbell", !.target = tail] /\ pc'[t] = "cond"
      BY <2>4 DEF Doorbell, Goto, TypeOK
    <3> QED BY <3>1 DEF NoCall
  <2> QED BY <1>1, <2>1, <2>2, <2>3, <2>4 DEF Call
<1>2. CASE StageFault(t) \/ QueueFull(t)
  <2>1. loc'[t] = NoCall /\ pc'[t] = "user" BY <1>2 DEF StageFault, QueueFull, Leave, TypeOK
  <2> QED BY <2>1 DEF NoCall
<1>3. CASE Lock(t) \/ WritePacket(t) \/ RingCp(t)
  BY <1>3 DEF Lock, WritePacket, RingCp, Goto, TypeOK
<1>4. CASE ReadHead(t) \/ ReadTail(t)
  <2>1. loc'[t].op = loc[t].op /\ loc'[t].task = loc[t].task /\ loc'[t].word = loc[t].word
    BY <1>4 DEF ReadHead, ReadTail, TypeOK, Locals
  <2>2. /\ pc[t] \in {"head", "tail"} /\ pc'[t] \in {"tail", "write"}
        /\ UNCHANGED <<staging, snap>>
    BY <1>4 DEF ReadHead, ReadTail, Goto, TypeOK
  <2> QED BY <2>1, <2>2
<1>5. CASE Unlock(t)
  <2>1. CASE loc[t].op = "load" BY <1>5, <2>1 DEF Unlock, Goto, TypeOK
  <2>2. CASE loc[t].op # "load"
    <3>1. loc'[t] = NoCall /\ pc'[t] = "user" BY <1>5, <2>2 DEF Unlock, Leave, TypeOK
    <3> QED BY <3>1 DEF NoCall
  <2> QED BY <2>1, <2>2
<1>6. ASSUME NEW code, EndWait(t, code) PROVE loc'[t].op # "load" /\ pc'[t] # "stage"
  <2>1. loc'[t] = NoCall /\ pc'[t] = "user" BY <1>6 DEF EndWait, Leave, TypeOK
  <2> QED BY <2>1 DEF NoCall
<1>7. ASSUME NEW from \in Waiting, NEW to \in Waiting, StayWaiting(t, from, to)
      PROVE  pc[t] \in Waiting /\ pc'[t] \in Waiting /\ UNCHANGED <<loc, snap, staging>>
  BY <1>7 DEF StayWaiting, Goto, TypeOK
<1>8. CASE Wait(t) \/ Expire(t) \/ Signal(t)
  BY <1>6, <1>7, <1>8 DEF Wait, Expire, Signal, FirstCheck, CheckAgain, WakeUp, LastCheck
<1> QED BY <1>1, <1>2, <1>3, <1>4, <1>5, <1>8 DEF Step, Enqueue

\* A thread's step leaves the firmware's side alone; only StageWord writes the
\* staging buffer and only PublishTail the log.
LEMMA LoadFrame ==
  ASSUME TypeOK, NEW u \in Threads, Step(u)
  PROVE  /\ UNCHANGED <<iram, executed>>
         /\ ~StageWord(u) => UNCHANGED staging
         /\ ~PublishTail(u) => UNCHANGED log
BY DEF Step, Call, RejectArgs, RejectMode, SubmitCmd, LoadKernel, Enter, Doorbell,
   StageWord, StageFault, Lock, Enqueue, ReadHead, ReadTail, QueueFull, WritePacket,
   PublishTail, RingCp, Unlock, Wait, Expire, Signal, FirstCheck, CheckAgain, WakeUp,
   LastCheck, EndWait, StayWaiting, gpu, history

\* The log keeps the packets it has.
LEMMA LogGrows ==
  ASSUME TypeOK, RingInv, ProducerInv, [Next]_vars, NEW k \in 1 .. Len(log)
  PROVE  k \in 1 .. Len(log') /\ log'[k] = log[k]
<1>1. CASE \E u \in Threads : PublishTail(u)
  <2>1. PICK u \in Threads : PublishTail(u) BY <1>1
  <2>2. log' = Append(log, loc[u].task) BY <2>1 DEF PublishTail
  <2> QED BY <2>2 DEF TypeOK
<1>2. CASE log' = log BY <1>2
<1> QED BY <1>1, <1>2, LoadFrame, OtherFrame, NextCases DEF vars, history

\* Every step keeps the load: the words staged, the packet sent, the image.
LEMMA NextLoadInv ==
  ASSUME NEW l, Loaders \subseteq {l}, IndInv, LoadInv(l), [Next]_vars
  PROVE  LoadInv(l)'
<1>0. /\ TypeOK /\ StageInv /\ RingInv /\ ProducerInv /\ WaiterInv
      /\ LoaderInv(l) /\ StagedInv(l) /\ SentInv(l) /\ LoadedInv(l)
      /\ IndInv'
  BY NextIndInv DEF IndInv, RingInv, LoadInv
<1>1. LoaderInv(l)'
  <2> SUFFICES ASSUME NEW t \in Threads
      PROVE /\ pc'[t] = "stage" => loc'[t].op = "load"
            /\ loc'[t].op = "load" => t = l /\ pc'[t] # "user" /\ loc'[t].task.opcode = "load"
    BY DEF LoaderInv
  <2>1. CASE pc'[t] = pc[t] /\ loc'[t] = loc[t] BY <1>0, <2>1 DEF LoaderInv
  <2>2. CASE Step(t)
    <3>1. ASSUME NEW k \in Kernels, t \in Loaders, pc'[t] = "stage",
                 loc'[t] = [NoCall EXCEPT !.op = "load", !.task = LoadTask(k)]
          PROVE  loc'[t].op = "load" /\ t = l /\ pc'[t] # "user" /\ loc'[t].task.opcode = "load"
      BY <3>1 DEF NoCall, LoadTask
    <3>2. CASE StageWord(t) \/ PublishTail(t)
      <4>1. /\ pc[t] \in {"stage", "publish"} /\ pc'[t] \in {"stage", "lock", "irq"}
            /\ pc'[t] = "stage" => pc[t] = "stage"
            /\ loc'[t].op = loc[t].op /\ loc'[t].task = loc[t].task
        BY <1>0, <3>2 DEF StageWord, PublishTail, Goto, TypeOK, Locals
      <4> QED BY <1>0, <4>1 DEF LoaderInv
    <3> QED BY <1>0, <2>2, <3>1, <3>2, LoadStep DEF LoaderInv
  <2>3. ASSUME NEW u \in Threads, u # t, Step(u) PROVE pc'[t] = pc[t] /\ loc'[t] = loc[t]
    BY <1>0, <2>3, StepFrame
  <2>4. CASE Other \/ UNCHANGED vars BY <2>1, <2>4, OtherFrame DEF vars
  <2> QED BY <2>1, <2>2, <2>3, <2>4, NextCases
<1>2. ASSUME NEW u \in Threads, StageWord(u) PROVE u = l
  BY <1>0, <1>2 DEF StageWord, Goto, LoaderInv
<1>3. StagedInv(l)'
  <2> SUFFICES ASSUME l \in Threads, loc'[l].op = "load"
      PROVE /\ pc'[l] # "stage" => loc'[l].word = Words
            /\ \A w \in 1 .. Words : w <= loc'[l].word => staging'[w] = loc'[l].task.task_id
    BY DEF StagedInv
  <2>1. CASE /\ loc[l].op = "load" /\ loc'[l].task = loc[l].task /\ loc'[l].word = loc[l].word
             /\ (pc'[l] # "stage" => pc[l] # "stage") /\ UNCHANGED staging
    BY <1>0, <2>1 DEF StagedInv
  <2>2. CASE Step(l)
    <3>1. ASSUME NEW k \in Kernels, pc'[l] = "stage",
                 loc'[l] = [NoCall EXCEPT !.op = "load", !.task = LoadTask(k)]
          PROVE  pc'[l] = "stage" /\ loc'[l].word = 0
      BY <3>1 DEF NoCall
    <3>2. CASE StageWord(l)
      <4>1. /\ pc[l] = "stage" /\ loc'[l].op = loc[l].op /\ loc'[l].task = loc[l].task
            /\ loc'[l].word = loc[l].word + 1 /\ loc[l].word \in Nat
            /\ staging' = [staging EXCEPT ![loc[l].word + 1] = loc[l].task.task_id]
            /\ pc'[l] # "stage" => loc[l].word + 1 = Words
        BY <1>0, <3>2 DEF StageWord, Goto, TypeOK, Locals
      <4>2. ASSUME NEW w \in 1 .. Words, w <= loc[l].word + 1 PROVE staging'[w] = loc[l].task.task_id
        <5>1. CASE w = loc[l].word + 1 BY <1>0, <4>1, <5>1 DEF TypeOK
        <5>2. CASE w # loc[l].word + 1
          <6>1. w <= loc[l].word BY <4>1, <4>2, <5>2
          <6>2. staging[w] = loc[l].task.task_id BY <1>0, <4>1, <6>1 DEF StagedInv
          <6>3. staging'[w] = staging[w] BY <1>0, <4>1, <5>2 DEF TypeOK
          <6> QED BY <6>2, <6>3
        <5> QED BY <5>1, <5>2
      <4> QED BY <4>1, <4>2
    <3>3. CASE PublishTail(l)
      BY <1>0, <2>1, <3>3 DEF PublishTail, Goto, TypeOK, Locals
    <3>4. ASSUME NEW w \in 1 .. Words PROVE ~(w <= 0) OBVIOUS
    <3> QED BY <1>0, <2>1, <2>2, <3>1, <3>2, <3>3, <3>4, LoadStep
  <2>3. ASSUME NEW u \in Threads, u # l, Step(u)
        PROVE  loc'[l] = loc[l] /\ pc'[l] = pc[l] /\ UNCHANGED staging
    BY <1>0, <1>2, <2>3, StepFrame, LoadFrame
  <2>4. CASE Other \/ UNCHANGED vars
    <3>1. UNCHANGED <<pc, loc, staging>>
      BY <2>4, OtherFrame DEF vars, Other, IrqHandler, SetQueueMode, Firmware, FwTakeIrq,
         FwSleep, FwExecute, FwCommit, FwNotify
    <3> QED BY <2>1, <3>1
  <2> QED BY <2>1, <2>2, <2>3, <2>4, NextCases
<1>4. SentInv(l)'
  <2> SUFFICES ASSUME l \in Threads, loc'[l].op = "load", Sent(l)'
      PROVE  /\ snap'[l] \in 1 .. Len(log') /\ log'[snap'[l]] = loc'[l].task
             /\ SlotOf(snap'[l]) = loc'[l].tail
    BY DEF SentInv, SlotOf
  <2>1. CASE /\ loc[l].op = "load" /\ Sent(l) /\ loc'[l].task = loc[l].task
             /\ loc'[l].tail = loc[l].tail /\ snap'[l] = snap[l]
    BY <1>0, <2>1, LogGrows DEF SentInv
  <2>2. CASE Step(l)
    <3>1. CASE PublishTail(l)
      <4>1. /\ pc[l] = "publish" /\ log' = Append(log, loc[l].task)
            /\ loc'[l].op = loc[l].op /\ loc'[l].task = loc[l].task /\ loc'[l].tail = loc[l].tail
        BY <1>0, <3>1 DEF PublishTail, Goto, TypeOK, Locals
      <4>2. snap'[l] = Len(log) + 1 BY <1>0, <3>1, <4>1 DEF PublishTail, TypeOK
      <4>3. loc[l].tail = tail /\ tail = Len(log) % QUEUE_SIZE
        BY <1>0, <4>1 DEF ProducerInv, RingInv, CountInv
      <4>4. Len(log) \in Nat /\ log \in Seq(Packet) /\ loc[l].task \in Packet
        BY <1>0 DEF TypeOK, Locals
      <4>5. Len(log') = Len(log) + 1 /\ log'[Len(log) + 1] = loc[l].task BY <4>1, <4>4
      <4>6. SlotOf(Len(log) + 1) = Len(log) % QUEUE_SIZE BY <4>4 DEF SlotOf
      <4> QED BY <4>1, <4>2, <4>3, <4>4, <4>5, <4>6
    <3>2. CASE StageWord(l)
      BY <1>0, <3>2 DEF StageWord, Goto, TypeOK, Sent, Waiting
    <3>3. pc'[l] # "stage" BY DEF Sent, Waiting
    <3> QED BY <1>0, <2>1, <2>2, <3>1, <3>2, <3>3, LoadStep
  <2>3. ASSUME NEW u \in Threads, u # l, Step(u)
        PROVE  loc'[l] = loc[l] /\ pc'[l] = pc[l] /\ snap'[l] = snap[l]
    BY <1>0, <2>3, StepFrame
  <2>4. CASE Other \/ UNCHANGED vars
    BY <2>1, <2>4, OtherFrame DEF vars, Sent
  <2>5. ASSUME loc'[l] = loc[l], pc'[l] = pc[l], snap'[l] = snap[l]
        PROVE  /\ loc[l].op = "load" /\ Sent(l) /\ loc'[l].task = loc[l].task
               /\ loc'[l].tail = loc[l].tail /\ snap'[l] = snap[l]
    BY <2>5 DEF Sent
  <2> QED BY <2>1, <2>2, <2>3, <2>4, <2>5, NextCases
<1>5. LoadedInv(l)'
  <2> SUFFICES ASSUME l \in Threads, loc'[l].op = "load", Sent(l)', InWindow(loc'[l].tail),
                      Len(executed') >= snap'[l], NEW w \in 1 .. Words
      PROVE  iram'.image[w] = loc'[l].task.task_id
    BY DEF LoadedInv, InWindow, RING_HEADER, PACKET_BYTES
  <2>0. Len(executed) \in Nat /\ Len(log) \in Nat /\ snap[l] \in Nat /\ Len(executed) <= Len(log)
    BY <1>0 DEF TypeOK, RingInv, CountInv
  <2>1. CASE /\ loc[l].op = "load" /\ Sent(l) /\ loc'[l].task = loc[l].task
             /\ loc'[l].tail = loc[l].tail /\ snap'[l] = snap[l] /\ UNCHANGED <<iram, executed>>
    BY <1>0, <2>1 DEF LoadedInv
  <2>2. CASE Step(l)
    <3>1. UNCHANGED <<iram, executed>> BY <1>0, <2>2, LoadFrame
    \* A packet that has just been published has not been executed.
    <3>2. CASE PublishTail(l)
      <4>1. loc'[l].op = loc[l].op BY <1>0, <3>2 DEF PublishTail, TypeOK, Locals
      <4>2. snap'[l] = Len(log) + 1 BY <1>0, <3>2, <4>1 DEF PublishTail, TypeOK
      <4> QED BY <2>0, <3>1, <4>2
    <3>3. CASE StageWord(l)
      BY <1>0, <3>3 DEF StageWord, Goto, TypeOK, Sent, Waiting
    <3>4. pc'[l] # "stage" BY DEF Sent, Waiting
    <3> QED BY <1>0, <2>1, <2>2, <3>1, <3>2, <3>3, <3>4, LoadStep
  <2>3. ASSUME UNCHANGED <<iram, executed>>, loc'[l] = loc[l], pc'[l] = pc[l], snap'[l] = snap[l]
        PROVE  iram'.image[w] = loc'[l].task.task_id
    BY <2>1, <2>3 DEF Sent
  <2>4. ASSUME NEW u \in Threads, u # l, Step(u) PROVE iram'.image[w] = loc'[l].task.task_id
    <3>1. UNCHANGED <<iram, executed>> /\ loc'[l] = loc[l] /\ pc'[l] = pc[l] /\ snap'[l] = snap[l]
      BY <1>0, <2>4, StepFrame, LoadFrame
    <3> QED BY <2>3, <3>1
  <2>5. CASE FwExecute
    <3>1. UNCHANGED <<pc, loc, snap, log, staging>>
      BY <2>5 DEF FwExecute
    <3>2. loc[l].op = "load" /\ Sent(l) /\ InWindow(loc[l].tail) BY <3>1 DEF Sent
    <3>3. pc[l] # "stage" /\ loc[l].word = Words BY <1>0, <3>2 DEF Sent, Waiting, StagedInv
    <3>4. staging[w] = loc[l].task.task_id BY <1>0, <3>2, <3>3, CallsAssumption DEF StagedInv
    <3>5. CASE cmds[head].opcode = "load"
      BY <2>5, <3>1, <3>4, <3>5 DEF FwExecute
    <3>6. CASE cmds[head].opcode # "load"
      <4>1. iram' = iram /\ executed' = Append(executed, cmds[head]) BY <2>5, <3>6 DEF FwExecute
      <4>2. /\ Len(executed') = Len(executed) + 1
            /\ executed'[Len(executed) + 1] = cmds[head]
        BY <1>0, <4>1 DEF TypeOK
      <4>3. CASE Len(executed) >= snap[l] BY <1>0, <3>1, <3>2, <4>1, <4>3 DEF LoadedInv
      \* The packet just executed is that of l, which loads.
      <4>4. CASE ~(Len(executed) >= snap[l])
        <5>1. snap[l] = Len(executed) + 1 BY <2>0, <3>1, <4>2, <4>4
        <5>2. log[snap[l]] = loc[l].task /\ SlotOf(snap[l]) = loc[l].tail
          BY <1>0, <3>2 DEF SentInv
        <5>3. \A k \in 1 .. Len(executed') : InWindow(SlotOf(k)) => executed'[k] = log'[k]
          BY <1>0 DEF IndInv, ExecutedAsPublished, InWindow, SlotOf, RING_HEADER, PACKET_BYTES
        <5>4. executed'[snap[l]] = log[snap[l]] BY <2>0, <3>1, <3>2, <4>2, <5>1, <5>2, <5>3
        <5>5. loc[l].task.opcode = "load" BY <1>0, <3>2 DEF LoaderInv
        <5> QED BY <3>6, <4>2, <5>1, <5>2, <5>4, <5>5
      <4> QED BY <4>3, <4>4
    <3> QED BY <3>5, <3>6
  <2>6. CASE Other /\ ~FwExecute
    <3>1. UNCHANGED <<iram, executed>>
      BY <2>6 DEF Other, IrqHandler, SetQueueMode, Firmware, FwTakeIrq, FwSleep, FwCommit,
         FwNotify, gpu, history
    <3> QED BY <2>3, <2>6, <3>1, OtherFrame
  <2>7. CASE UNCHANGED vars BY <2>3, <2>7 DEF vars, gpu, history
  <2> QED BY <2>2, <2>4, <2>5, <2>6, <2>7, NextCases
<1> QED BY <1>1, <1>3, <1>4, <1>5 DEF LoadInv

\* A LOAD_KERNEL that returns 0 has put exactly its binary into instruction
\* RAM, for any ring, any number of other threads and whatever packets they
\* submit, loads among them, and after any loads that were cut short: where one
\* thread at a time is in LOAD_KERNEL.
THEOREM LoadsDeliver ==
  ASSUME NEW l, Loaders \subseteq {l}
  PROVE  Spec => LoadDelivered
<1> DEFINE Delivered ==
             \A t \in Threads :
               /\ loc[t].op = "load" /\ InWindow(loc[t].tail)
               /\ pc'[t] = "user" /\ ret'[t] = "ok"
               => \A w \in 1 .. Words : iram.image[w] = loc[t].task.task_id
<1>1. Init => LoadInv(l)
  BY DEF Init, LoadInv, LoaderInv, StagedInv, SentInv, LoadedInv, NoCall
<1>2. IndInv /\ LoadInv(l) /\ [Next]_vars => LoadInv(l)'
  BY NextLoadInv
<1>3. IndInv /\ LoadInv(l) /\ [Next]_vars => [Delivered]_vars
  <2> SUFFICES ASSUME IndInv, LoadInv(l), Next, NEW t \in Threads, loc[t].op = "load",
                      InWindow(loc[t].tail), pc'[t] = "user", ret'[t] = "ok", NEW w \in 1 .. Words
               PROVE  iram.image[w] = loc[t].task.task_id
    OBVIOUS
  <2>1. TypeOK /\ RingInv /\ WaiterInv /\ t = l /\ pc[t] # "user" /\ LoadedInv(l)
    BY DEF IndInv, RingInv, LoadInv, LoaderInv
  <2>2. Step(t)
    <3>1. ASSUME NEW u \in Threads, u # t, Step(u) PROVE FALSE BY <2>1, <3>1, StepFrame
    <3>2. ~Other BY <2>1, OtherFrame
    <3> QED BY <3>1, <3>2, NextCases
  <2>3. ASSUME NEW from, NEW to, to # "user", StayWaiting(t, from, to) PROVE FALSE
    BY <2>1, <2>3 DEF StayWaiting, Goto, TypeOK
  <2>4. ASSUME NEW code, EndWait(t, code) PROVE code = "ok"
    BY <2>1, <2>4 DEF EndWait, Leave, TypeOK
  <2>5. CASE Wait(t) \/ Expire(t) \/ Signal(t)
    <3>1. pc[t] \in Waiting /\ Reached(t)
      BY <2>3, <2>4, <2>5
         DEF Wait, Expire, Signal, FirstCheck, CheckAgain, WakeUp, LastCheck, Waiting
    <3>2. Committed >= snap[t] BY <2>1, <3>1, ReachedMeansDone
    <3>3. Len(executed) >= snap[t]
      BY <2>1, <3>2 DEF Committed, TypeOK
    <3> QED BY <2>1, <3>1, <3>3 DEF LoadedInv, Sent
  <2>6. CASE Call(t) BY <2>1, <2>6 DEF Call, RejectArgs, RejectMode, SubmitCmd, LoadKernel, Enter, Doorbell, Goto
  <2>7. CASE StageWord(t) \/ StageFault(t) \/ Lock(t)
    BY <2>1, <2>7 DEF StageWord, StageFault, Lock, Goto, Leave, TypeOK
  <2>8. CASE Enqueue(t)
    BY <2>1, <2>8 DEF Enqueue, ReadHead, ReadTail, QueueFull, WritePacket, PublishTail, RingCp,
       Unlock, Goto, Leave, TypeOK
  <2> QED BY <2>2, <2>5, <2>6, <2>7, <2>8 DEF Step
<1>4. Spec => [][Delivered]_vars
  <2>. HIDE DEF Delivered
  <2>. QED BY <1>1, <1>2, <1>3, Invariance, PTL DEF Spec
<1> QED BY <1>4 DEF LoadDelivered

-----------------------------------------------------------------------------
(* The layout *)

\* With the constants of fpgagpu_core.h every slot but the last lies before the
\* command interrupt register, and the last one lies on it: 512 packets and the
\* 64-byte header are 64 bytes more than the 32 KB between the two offsets.
THEOREM LastSlotOverlapsRegisters ==
  ASSUME QUEUE_SIZE = 512, RING_WINDOW = 131072 - 98304
  PROVE  \A i \in Slots : InWindow(i) <=> i # 511
BY DEF Slots, InWindow, RING_HEADER, PACKET_BYTES
=============================================================================
