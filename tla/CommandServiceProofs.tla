------------------------ MODULE CommandServiceProofs ------------------------
(***************************************************************************)
(* The command path implements CommandService, for every queue size and    *)
(* every set of threads, when every slot lies before the register block.   *)
(* Every step of the ring is matched with the step of the service it is,   *)
(* or with none; most of the argument is the inductive invariant of        *)
(* CommandRingProofs.                                                      *)
(***************************************************************************)
EXTENDS CommandRingProofs

\* A call with a packet to publish holds one that a caller asked for.
TaskInv == \A t \in Threads : PhaseAt(pc[t]) = "pending" => loc[t].task \in Tasks

\* A thread that moves changes only its own phase.
LEMMA MovePhase ==
  ASSUME TypeOK, NEW t \in Threads, NEW p, pc' = [pc EXCEPT ![t] = p]
  PROVE  phases' = [phases EXCEPT ![t] = PhaseAt(p)]
BY DEF phases, TypeOK

\* A move inside a phase changes no phase.
LEMMA SamePhase ==
  ASSUME TypeOK, NEW t \in Threads, NEW p, pc' = [pc EXCEPT ![t] = p],
         PhaseAt(p) = PhaseAt(pc[t])
  PROVE  phases' = phases
BY DEF phases, TypeOK

\* A packet on its way to the ring is one a caller asked for.
LEMMA NextTaskInv == TypeOK /\ TaskInv /\ [Next]_vars => TaskInv'
<1> SUFFICES ASSUME TypeOK, TaskInv, [Next]_vars, NEW t \in Threads,
                    PhaseAt(pc'[t]) = "pending"
             PROVE  loc'[t].task \in Tasks
  BY DEF TaskInv
<1>1. CASE PhaseAt(pc[t]) = "pending" /\ loc'[t].task = loc[t].task
  BY <1>1 DEF TaskInv
<1>2. CASE Step(t)
  <2>1. CASE Call(t)
    <3>1. ASSUME NEW op, NEW p, NEW to, Enter(t, op, p, to) PROVE loc'[t].task = p
      <4>1. loc'[t] = [NoCall EXCEPT !.op = op, !.task = p]
        BY <3>1 DEF Enter, TypeOK
      <4> QED BY <4>1 DEF NoCall
    <3>2. CASE (\E c \in UserCmds : SubmitCmd(t, c)) \/ (\E k \in Kernels : LoadKernel(t, k))
      BY <3>1, <3>2 DEF SubmitCmd, LoadKernel, Tasks
    <3>3. CASE RejectArgs(t) \/ RejectMode(t) \/ Doorbell(t)
      BY <3>3 DEF RejectArgs, RejectMode, Doorbell, Goto, Leave, TypeOK, PhaseAt
    <3> QED BY <2>1, <3>2, <3>3 DEF Call
  <2>2. CASE StageWord(t) \/ Lock(t) \/ ReadHead(t) \/ ReadTail(t) \/ WritePacket(t)
    <3>1. loc'[t].task = loc[t].task
      <4>1. CASE StageWord(t) BY <4>1 DEF StageWord, TypeOK, Locals
      <4>2. CASE ReadHead(t) BY <4>2 DEF ReadHead, TypeOK, Locals
      <4>3. CASE ReadTail(t) BY <4>3 DEF ReadTail, TypeOK, Locals
      <4>4. CASE Lock(t) \/ WritePacket(t) BY <4>4 DEF Lock, WritePacket
      <4> QED BY <2>2, <4>1, <4>2, <4>3, <4>4
    <3>2. PhaseAt(pc[t]) = "pending"
      BY <2>2 DEF StageWord, Lock, ReadHead, ReadTail, WritePacket, Goto, PhaseAt
    <3> QED BY <1>1, <3>1, <3>2
  <2>3. CASE StageFault(t) \/ QueueFull(t) \/ PublishTail(t) \/ RingCp(t) \/ Unlock(t)
    BY <2>3 DEF StageFault, QueueFull, PublishTail, RingCp, Unlock, Goto, Leave, TypeOK, PhaseAt
  <2>4. CASE Wait(t) \/ Expire(t) \/ Signal(t)
    BY <2>4 DEF Wait, Expire, Signal, FirstCheck, CheckAgain, WakeUp, LastCheck,
       EndWait, StayWaiting, Goto, Leave, TypeOK, PhaseAt
  <2> QED BY <1>2, <2>1, <2>2, <2>3, <2>4 DEF Step, Enqueue
<1>3. ASSUME NEW u \in Threads, u # t, Step(u)
      PROVE  PhaseAt(pc[t]) = "pending" /\ loc'[t].task = loc[t].task
  BY <1>3, StepFrame
<1>4. CASE Other \/ UNCHANGED vars
  BY <1>1, <1>4, OtherFrame DEF vars
<1> QED BY <1>1, <1>2, <1>3, <1>4, NextCases

-----------------------------------------------------------------------------
(* Each step is a step of the service, or none *)

\* A thread's step is a step of the service, or none.
LEMMA StepRefines ==
  ASSUME IndInv, TaskInv, NEW t \in Threads, Step(t)
  PROVE  [Service!Next]_(Service!vars)
<1> USE DEF Service!vars, Service!queue, Service!clients
<1>0. TypeOK /\ RingInv /\ ProducerInv /\ WaiterInv BY DEF IndInv, RingInv
<1>1. CASE Call(t)
  <2>1. CASE RejectArgs(t) \/ RejectMode(t)
    <3>1. /\ pc[t] = "user" /\ Leave(t, "rejected") /\ snap' = [snap EXCEPT ![t] = 0]
          /\ UNCHANGED core
      BY <2>1 DEF RejectArgs, RejectMode, core, ring, gpu, history
    <3>2. phases' = [phases EXCEPT ![t] = "idle"] /\ phases[t] = "idle"
      BY <1>0, <3>1, MovePhase DEF Leave, PhaseAt, phases
    <3>3. Service!Move(t, "idle", "idle", 0, "rejected")
      BY <3>1, <3>2 DEF Service!Move, Leave
    <3>4. UNCHANGED <<log, executed, Committed>>
      BY <3>1, CoreFrame DEF core
    <3>5. Service!Refuse(t) BY <3>3, <3>4 DEF Service!Refuse
    <3> QED BY <3>5 DEF Service!Next
  <2>2. ASSUME NEW op, NEW p, NEW to \in {"stage", "lock"}, Enter(t, op, p, to)
        PROVE  Service!Next
    <3>1. /\ pc[t] = "user" /\ pc' = [pc EXCEPT ![t] = to]
          /\ snap' = [snap EXCEPT ![t] = 0] /\ ret' = [ret EXCEPT ![t] = "none"]
          /\ UNCHANGED core
      BY <2>2 DEF Enter, Goto, core, ring, gpu, history
    <3>2. phases' = [phases EXCEPT ![t] = "pending"] /\ phases[t] = "idle"
      <4>1. PhaseAt(to) = "pending" BY DEF PhaseAt
      <4>2. phases' = [phases EXCEPT ![t] = PhaseAt(to)] BY <1>0, <3>1, MovePhase
      <4>3. phases[t] = "idle" BY <3>1 DEF PhaseAt, phases
      <4> QED BY <4>1, <4>2, <4>3
    <3>3. UNCHANGED <<log, executed, Committed>>
      BY <3>1, CoreFrame DEF core
    <3>4. Service!Call(t) BY <3>1, <3>2, <3>3 DEF Service!Call, Service!Move
    <3> QED BY <3>4 DEF Service!Next
  <2>3. CASE Doorbell(t)
    <3>1. /\ pc[t] = "user" /\ pc' = [pc EXCEPT ![t] = "cond"]
          /\ snap' = [snap EXCEPT ![t] = Len(log)] /\ ret' = [ret EXCEPT ![t] = "none"]
          /\ UNCHANGED core
      BY <2>3 DEF Doorbell, Goto, core, ring, gpu, history
    <3>2. phases' = [phases EXCEPT ![t] = "waiting"] /\ phases[t] = "idle"
      <4>1. PhaseAt("cond") = "waiting" BY DEF PhaseAt
      <4>2. phases' = [phases EXCEPT ![t] = PhaseAt("cond")] BY <1>0, <3>1, MovePhase
      <4>3. phases[t] = "idle" BY <3>1 DEF PhaseAt, phases
      <4> QED BY <4>1, <4>2, <4>3
    <3>3. UNCHANGED <<log, executed, Committed>>
      BY <3>1, CoreFrame DEF core
    <3>4. Service!Await(t) BY <3>1, <3>2, <3>3 DEF Service!Await, Service!Move
    <3> QED BY <3>4 DEF Service!Next
  <2> QED BY <1>1, <2>1, <2>2, <2>3 DEF Call, SubmitCmd, LoadKernel
<1>2. CASE StageWord(t) \/ Lock(t) \/ ReadHead(t) \/ ReadTail(t) \/ WritePacket(t)
  <2>1. /\ UNCHANGED <<snap, ret, log, executed, fw>>
        /\ \E p \in {"stage", "lock", "head", "tail", "write", "publish"} :
             pc' = [pc EXCEPT ![t] = p]
        /\ pc[t] \in {"stage", "lock", "head", "tail", "write", "publish"}
    BY <1>2 DEF StageWord, Lock, ReadHead, ReadTail, WritePacket, Goto, gpu, history
  <2>2. phases' = phases BY <1>0, <2>1, SamePhase DEF PhaseAt
  <2>3. Committed' = Committed BY <2>1 DEF Committed
  <2> QED BY <2>1, <2>2, <2>3
<1>3. CASE PublishTail(t)
  <2>1. /\ pc[t] = "publish" /\ pc' = [pc EXCEPT ![t] = "irq"] /\ ret' = ret
        /\ log' = Append(log, loc[t].task) /\ executed' = executed
    BY <1>3 DEF PublishTail, Goto
  <2>2. /\ snap[t] = 0 /\ ret[t] = "none"
        /\ Len(log) + 1 < Committed + QUEUE_SIZE
        /\ loc[t].task \in Tasks
    BY <1>0, <2>1 DEF WaiterInv, ProducerInv, TaskInv, PhaseAt
  <2>3. Committed' = Committed BY <1>0, <1>3, RingPublish
  <2>4. Len(log) \in Nat /\ Committed \in Nat BY <1>0 DEF TypeOK, RingInv, CountInv
  <2>5. Len(log) - Committed < QUEUE_SIZE - 1 BY <2>2, <2>4, QueueAssumption
  <2>6. phases' = [phases EXCEPT ![t] = "waiting"] /\ phases[t] = "pending"
    BY <1>0, <2>1, MovePhase DEF PhaseAt, phases
  <2>7. ret' = [ret EXCEPT ![t] = "none"] BY <1>0, <2>1, <2>2 DEF TypeOK
  <2>8. \E n \in {0, Len(log) + 1} : snap' = [snap EXCEPT ![t] = n]
    <3>1. CASE loc[t].op = "load" BY <1>3, <3>1 DEF PublishTail
    <3>2. CASE loc[t].op # "load"
      <4>1. snap' = snap BY <1>3, <3>2 DEF PublishTail
      <4>2. snap = [snap EXCEPT ![t] = 0] BY <1>0, <2>2 DEF TypeOK
      <4> QED BY <4>1, <4>2
    <3> QED BY <3>1, <3>2
  <2>9. Service!Submit(t, loc[t].task)
    BY <2>1, <2>3, <2>5, <2>6, <2>7, <2>8 DEF Service!Submit, Service!Move
  <2> QED BY <2>2, <2>9 DEF Service!Next
<1>4. ASSUME NEW code, Leave(t, code), pc[t] # "user", snap' = snap,
             UNCHANGED <<log, executed, Committed>>,
             \/ code \in {"rejected", "EBUSY", "ETIMEDOUT", "ERESTARTSYS"}
             \/ code = "ok" /\ PhaseAt(pc[t]) = "waiting" /\ Committed >= snap[t]
      PROVE  Service!Next
  <2>1. phases' = [phases EXCEPT ![t] = "idle"] /\ phases[t] \in {"pending", "waiting"}
    BY <1>0, <1>4, MovePhase DEF Leave, PhaseAt, phases
  <2>2. snap' = [snap EXCEPT ![t] = snap[t]] BY <1>0, <1>4 DEF TypeOK
  <2>3. ret' = [ret EXCEPT ![t] = code] BY <1>4 DEF Leave
  <2>4. CASE code \in {"rejected", "EBUSY", "ETIMEDOUT", "ERESTARTSYS"}
    <3>1. Service!Fail(t) BY <1>4, <2>1, <2>2, <2>3, <2>4 DEF Service!Fail, Service!Move
    <3> QED BY <3>1 DEF Service!Next
  <2>5. CASE code = "ok" /\ PhaseAt(pc[t]) = "waiting" /\ Committed >= snap[t]
    <3>1. phases[t] = "waiting" BY <2>5 DEF phases
    <3>2. Service!Succeed(t)
      BY <1>4, <2>1, <2>2, <2>3, <2>5, <3>1 DEF Service!Succeed, Service!Move
    <3> QED BY <3>2 DEF Service!Next
  <2> QED BY <1>4, <2>4, <2>5
<1>5. CASE StageFault(t) \/ QueueFull(t)
  <2>1. pc[t] # "user" /\ snap' = snap /\ UNCHANGED core
    BY <1>5 DEF StageFault, QueueFull, core, ring, gpu, history
  <2>2. UNCHANGED <<log, executed, Committed>> BY <2>1, CoreFrame DEF core
  <2> QED BY <1>4, <1>5, <2>1, <2>2 DEF StageFault, QueueFull
<1>6. CASE RingCp(t)
  <2>1. /\ UNCHANGED <<snap, ret, log, executed, fw>> /\ pc[t] = "irq"
        /\ pc' = [pc EXCEPT ![t] = "unlock"]
    BY <1>6 DEF RingCp, Goto, gpu, history
  <2>2. phases' = phases BY <1>0, <2>1, SamePhase DEF PhaseAt
  <2>3. Committed' = Committed BY <2>1 DEF Committed
  <2> QED BY <2>1, <2>2, <2>3
<1>7. CASE Unlock(t)
  <2>1. pc[t] = "unlock" /\ snap' = snap /\ UNCHANGED core
    BY <1>7 DEF Unlock, core, ring, gpu, history
  <2>2. UNCHANGED <<log, executed, Committed>> BY <2>1, CoreFrame DEF core
  <2>3. CASE loc[t].op = "load"
    <3>1. pc' = [pc EXCEPT ![t] = "cond"] /\ ret' = ret BY <1>7, <2>3 DEF Unlock, Goto
    <3>2. phases' = phases BY <1>0, <2>1, <3>1, SamePhase DEF PhaseAt
    <3> QED BY <2>1, <2>2, <3>1, <3>2
  <2>4. CASE loc[t].op # "load"
    <3>1. Leave(t, "ok") BY <1>7, <2>4 DEF Unlock
    <3>2. Committed >= snap[t]
      <4>1. snap[t] = 0 BY <1>0, <2>1, <2>4 DEF WaiterInv
      <4>2. Committed \in Nat BY <1>0 DEF RingInv, CountInv
      <4> QED BY <4>1, <4>2
    <3> QED BY <1>4, <2>1, <2>2, <3>1, <3>2 DEF PhaseAt
  <2> QED BY <2>3, <2>4
<1>8. ASSUME NEW code, EndWait(t, code), pc[t] \in Waiting,
             \/ code \in {"ETIMEDOUT", "ERESTARTSYS"}
             \/ code = "ok" /\ Reached(t)
      PROVE  Service!Next
  <2>1. Leave(t, code) /\ snap' = snap /\ UNCHANGED core
    BY <1>8 DEF EndWait, core, ring, gpu, history
  <2>2. UNCHANGED <<log, executed, Committed>> BY <2>1, CoreFrame DEF core
  <2>3. code = "ok" => Committed >= snap[t] BY <1>0, <1>8, ReachedMeansDone
  <2>4. pc[t] # "user" /\ PhaseAt(pc[t]) = "waiting" BY <1>8 DEF Waiting, PhaseAt
  <2> QED BY <1>4, <1>8, <2>1, <2>2, <2>3, <2>4
<1>9. ASSUME NEW from \in Waiting, NEW to \in Waiting, StayWaiting(t, from, to)
      PROVE  UNCHANGED Service!vars
  <2>1. /\ pc[t] \in Waiting /\ pc' = [pc EXCEPT ![t] = to]
        /\ UNCHANGED <<snap, ret>> /\ UNCHANGED core
    BY <1>9 DEF StayWaiting, Goto, core, ring, gpu, history
  <2>2. UNCHANGED <<log, executed, Committed>> BY <2>1, CoreFrame DEF core
  <2>3. phases' = phases BY <1>0, <1>9, <2>1, SamePhase DEF PhaseAt, Waiting
  <2> QED BY <2>1, <2>2, <2>3
<1>10. CASE Wait(t) \/ Expire(t) \/ Signal(t)
  BY <1>8, <1>9, <1>10
     DEF Wait, Expire, Signal, FirstCheck, CheckAgain, WakeUp, LastCheck, Waiting
<1> QED BY <1>1, <1>2, <1>3, <1>5, <1>6, <1>7, <1>10 DEF Step, Enqueue

\* A step of the handler or the firmware is a step of the service, or none.
LEMMA OtherRefines ==
  ASSUME IndInv, \A i \in Slots : InWindow(i), Other
  PROVE  [Service!Next]_(Service!vars)
<1> USE DEF Service!vars, Service!queue, Service!clients
<1>0. TypeOK /\ RingInv BY DEF IndInv, RingInv
<1>1. UNCHANGED <<snap, ret, log, phases>>
  BY OtherFrame DEF phases
<1>2. CASE FwExecute
  <2>1. Committed' = Committed BY <1>0, <1>2, RingExecute
  <2>2. fw = "scan" /\ executed' = Append(executed, cmds[head]) /\ head # tail
    BY <1>2 DEF FwExecute
  <2>3. Committed = Len(executed) BY <2>2 DEF Committed
  <2>4. /\ Len(executed) \in Nat /\ Len(log) \in Nat /\ Len(executed) <= Len(log)
        /\ head = Len(executed) % QUEUE_SIZE /\ tail = Len(log) % QUEUE_SIZE
    BY <1>0, <2>3 DEF TypeOK, RingInv, CountInv
  <2>5. Len(executed) < Len(log) BY <2>2, <2>4
  <2>6. SlotOf(Len(executed) + 1) = head BY <2>4 DEF SlotOf
  <2>7. cmds[head] = log[Len(executed) + 1]
    <3>1. InWindow(head) BY <1>0 DEF TypeOK
    <3> QED BY <1>0, <2>3, <2>4, <2>5, <2>6, <3>1 DEF RingInv, SlotInv
  <2>8. Service!Take BY <1>1, <2>1, <2>2, <2>3, <2>5, <2>7 DEF Service!Take
  <2> QED BY <2>8 DEF Service!Next
<1>3. CASE FwCommit
  <2>1. Committed' = Committed + 1 BY <1>0, <1>3, RingCommit
  <2>2. fw = "commit" /\ executed' = executed BY <1>3 DEF FwCommit, history
  <2>3. Committed < Len(executed)
    <3>1. Committed = Len(executed) - 1 /\ Len(executed) \in Nat
      BY <1>0, <2>2 DEF Committed, TypeOK
    <3> QED BY <3>1
  <2>4. Service!Complete BY <1>1, <2>1, <2>2, <2>3 DEF Service!Complete
  <2> QED BY <2>4 DEF Service!Next
<1>4. CASE FwTakeIrq \/ FwSleep \/ FwNotify
  <2>1. executed' = executed /\ fw # "commit" /\ fw' # "commit"
    BY <1>4 DEF FwTakeIrq, FwSleep, FwNotify, history
  <2>2. Committed' = Committed BY <2>1 DEF Committed
  <2> QED BY <1>1, <2>1, <2>2
<1>5. CASE IrqHandler \/ \E m \in Modes : SetQueueMode(m)
  <2>1. executed' = executed /\ fw' = fw
    BY <1>5 DEF IrqHandler, SetQueueMode, gpu, history
  <2>2. Committed' = Committed BY <2>1 DEF Committed
  <2> QED BY <1>1, <2>1, <2>2
<1> QED BY <1>2, <1>3, <1>4, <1>5 DEF Other, Firmware

\* With a ring that fits its window, the three ioctls, the interrupt handler
\* and the firmware together behave as one bounded first-in first-out queue:
\* every call submits at most one command, the commands are executed once, in
\* order and unchanged, and "ok" comes only after what the call waits for.
THEOREM RingImplementsService ==
  ASSUME \A i \in Slots : InWindow(i)
  PROVE  Spec => ImplementsService
<1>1. Init => Service!Init /\ TaskInv
  <2>1. Init => Len(executed) = 0 /\ Committed = 0 BY EmptySeq DEF Init, Committed
  <2>2. Init => phases = [t \in Threads |-> "idle"] BY DEF Init, phases, PhaseAt
  <2>3. Init => TaskInv BY DEF Init, TaskInv, PhaseAt
  <2> QED BY <2>1, <2>2, <2>3 DEF Init, Service!Init
<1>2. IndInv /\ TaskInv /\ [Next]_vars => [Service!Next]_(Service!vars)
  <2> SUFFICES ASSUME IndInv, TaskInv, [Next]_vars
               PROVE  [Service!Next]_(Service!vars)
    OBVIOUS
  <2>1. CASE Next BY <2>1, NextCases, StepRefines, OtherRefines
  <2>2. CASE UNCHANGED vars
    <3>1. UNCHANGED core /\ UNCHANGED <<snap, ret, phases>>
      BY <2>2 DEF vars, core, ring, gpu, history, phases
    <3>2. UNCHANGED <<log, executed, Committed>> BY <3>1, CoreFrame DEF core
    <3> QED BY <3>1, <3>2 DEF Service!vars, Service!queue, Service!clients
  <2> QED BY <2>1, <2>2
<1>3. IndInv /\ TaskInv /\ [Next]_vars => TaskInv'
  BY NextTaskInv DEF IndInv
<1> QED BY <1>1, <1>2, <1>3, Invariance, PTL DEF Spec, ImplementsService, Service!Spec
=============================================================================
