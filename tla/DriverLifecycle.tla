-------------------------- MODULE DriverLifecycle --------------------------
(***************************************************************************)
(* The life of the driver and of its devices (driver/fpgagpu_main.c):      *)
(* module init and exit, fpgagpu_probe with its error labels,              *)
(* fpgagpu_remove, open and release with the list of contexts they keep,   *)
(* and the interrupt handler that walks it (driver/fpgagpu_sched.c). Every *)
(* acquisition of probe is a step that may fail, and every release, in the *)
(* error labels and in remove, is a step, so that an interrupt, an open or *)
(* another card's probe can come between any two. The kernel decides when  *)
(* cards come and go; it unloads the module only when no file is open      *)
(* (.owner = THIS_MODULE). Whom the handler wakes, and what for, is the    *)
(* subject of CommandRing; here it is one more user of dev and ctx_list.   *)
(***************************************************************************)
EXTENDS Integers, Sequences

CONSTANTS
  Cards,      \* PCI functions that match the id table
  MayFail,    \* acquisitions of probe and init that may fail
  Unplug,     \* may a card go while it is in use?
  Files,      \* struct file objects, each with the thread that opens and closes it
  Modes,      \* values queue_mode is given, at load or through sysfs
  SameCpu,    \* values of queue_mode in which the handler may also come on the CPU
              \* of a thread inside open or release, and not only on others
  MAX_fpgagpu_DEVICES,
  MaxProbes   \* bound: probes in the life of a module

ASSUME LifecycleAssumption ==
  /\ MAX_fpgagpu_DEVICES \in Nat /\ MaxProbes \in Nat
  /\ Unplug \in BOOLEAN /\ SameCpu \subseteq {0, 1}
  /\ Modes \subseteq {0, 1} /\ Modes # {}
  /\ "none" \notin Cards /\ "irq" \notin Files

VARIABLES
  module,    \* what init has acquired: subset of {"chrdev", "class", "driver"}
  exiting,   \* fpgagpu_core_exit is running
  counter,   \* fpgagpu_minor_counter
  probes,    \* probes so far (bounded by MaxProbes)
  at,        \* the next acquisition of a probe, 0 when none is running
  todo,      \* releases an error label or remove has still to do
  held,      \* what the driver holds of each card
  minor,     \* dev->minor, -1 when there is none
  result,    \* what the last probe of the card returned
  misfreed,  \* resources released that were not held
  queue_mode,
  ctx,       \* per file: the device of its context, and where its open or release is
  ctx_list,  \* per card: the contexts on dev->ctx_list
  ctx_lock,  \* per card: holder of dev->ctx_lock, {} or a singleton
  seen,      \* per file: the list as its list operation under way has read it, else {}
  irq        \* per card: the handler, the contexts it has still to wake, and the
             \* thread it has interrupted

card     == <<at, todo, held, minor, result>>
contexts == <<ctx, ctx_list, ctx_lock, seen>>
vars     == <<module, exiting, counter, probes, card, misfreed, queue_mode, contexts, irq>>

-----------------------------------------------------------------------------
(* The order of acquisitions, and the labels *)

Steps_NodeEarly == <<"enabled", "regions", "vectors", "dev", "bar0", "bar1", "minor",
                     "cdev", "node", "desc", "pages", "irq">>

Steps == <<"enabled", "regions", "vectors", "dev", "bar0", "bar1", "minor",
           "desc", "pages", "irq", "cdev", "node">>

Resources == {Steps[i] : i \in DOMAIN Steps} \ {"minor"}

\* From err_cdev down to err_disable.
Labels == <<"cdev", "irq", "pages", "desc", "bar1", "bar0", "dev",
            "vectors", "regions", "enabled">>

From(r) == SubSeq(Labels, CHOOSE i \in DOMAIN Labels : Labels[i] = r, Len(Labels))

\* What the goto of each failing acquisition releases. A failed vectors
\* allocation goes to err_disable and a failed cdev_add to err_mem.
Unwind_BarKept(s) ==
  CASE s \in {"regions", "vectors"} -> From("enabled")
    [] s = "dev"  -> From("vectors")
    [] s \in {"bar0", "bar1"} -> From("dev")
    [] s \in {"minor", "cdev"} -> From("bar1")
    [] s \in {"desc", "pages"} -> From("pages")
    [] s = "irq"  -> From("irq")
    [] s = "node" -> From("cdev")
    [] OTHER -> << >>

Unwind_PagesFreeIrq(s) ==
  CASE s \in {"regions", "vectors"} -> From("enabled")
    [] s = "dev"  -> From("vectors")
    [] s = "bar0" -> From("dev")
    [] s = "bar1" -> From("bar0")
    [] s \in {"minor", "cdev"} -> From("bar1")
    [] s \in {"desc", "pages", "irq"} -> From("irq")
    [] s = "node" -> From("cdev")
    [] OTHER -> << >>

Unwind(s) ==
  CASE s \in {"regions", "vectors"} -> From("enabled")
    [] s = "dev"  -> From("vectors")
    [] s = "bar0" -> From("dev")
    [] s = "bar1" -> From("bar0")
    [] s \in {"minor", "cdev"} -> From("bar1")
    [] s \in {"desc", "pages"} -> From("pages")
    [] s = "irq"  -> From("irq")
    [] s = "node" -> From("cdev")
    [] OTHER -> << >>

\* Released only if the pointer is set.
Guarded == {"pages", "desc", "bar1", "bar0"}

Removal == <<"node", "cdev", "pages", "desc", "bar1", "bar0", "irq", "dev",
             "vectors", "regions", "enabled">>

Idle(c)  == at[c] = 0 /\ todo[c] = << >>
Bound(c) == Idle(c) /\ result[c] = "ok"

NoContext   == [dev |-> "none", pc |-> "closed"]
NoInterrupt == [pc |-> "idle", left |-> {}, over |-> {}]

\* Files that are open, being opened or being closed on the card.
Users(c) == {f \in Files : ctx[f].dev = c}

-----------------------------------------------------------------------------
Init ==
  /\ module = {} /\ exiting = FALSE /\ counter = 0 /\ probes = 0 /\ misfreed = {}
  /\ at = [c \in Cards |-> 0]
  /\ todo = [c \in Cards |-> << >>]
  /\ held = [c \in Cards |-> {}]
  /\ minor = [c \in Cards |-> -1]
  /\ result = [c \in Cards |-> "none"]
  /\ queue_mode \in Modes
  /\ ctx = [f \in Files |-> NoContext]
  /\ ctx_list = [c \in Cards |-> {}]
  /\ ctx_lock = [c \in Cards |-> {}]
  /\ seen = [f \in Files |-> {}]
  /\ irq = [c \in Cards |-> NoInterrupt]

\* fpgagpu_core_init; on a failure it undoes what it has done. The statics of
\* the module are those of a fresh load.
ModuleInit ==
  /\ module = {}
  /\ counter' = 0 /\ probes' = 0 /\ queue_mode' \in Modes
  /\ \/ module' = {"chrdev", "class", "driver"}
     \/ module' = {} /\ MayFail \cap {"chrdev", "class", "driver"} # {}
  /\ UNCHANGED <<exiting, card, misfreed, contexts, irq>>

\* fpgagpu_core_exit begins: pci_unregister_driver removes the cards, after
\* the probes that are running have ended.
ModuleExit ==
  /\ "driver" \in module /\ ~exiting
  /\ \A c \in Cards : Users(c) = {}
  /\ exiting' = TRUE
  /\ UNCHANGED <<module, counter, probes, card, misfreed, queue_mode, contexts, irq>>

\* It returns, and class_destroy and unregister_chrdev_region follow.
ModuleGone_AtOnce ==
  /\ exiting
  /\ module' = {} /\ exiting' = FALSE
  /\ UNCHANGED <<counter, probes, card, misfreed, queue_mode, contexts, irq>>

ModuleGone ==
  /\ exiting /\ \A c \in Cards : Idle(c) /\ result[c] # "ok"
  /\ module' = {} /\ exiting' = FALSE
  /\ UNCHANGED <<counter, probes, card, misfreed, queue_mode, contexts, irq>>

-----------------------------------------------------------------------------
(* fpgagpu_probe *)

Probe(c) ==
  /\ "driver" \in module /\ ~exiting /\ probes < MaxProbes
  /\ Idle(c) /\ result[c] # "ok"
  /\ probes' = probes + 1
  /\ at' = [at EXCEPT ![c] = 1]
  /\ result' = [result EXCEPT ![c] = "none"]
  /\ UNCHANGED <<module, exiting, counter, todo, held, minor, misfreed, queue_mode, contexts, irq>>

\* One acquisition that succeeds. The new dev comes from kzalloc, and its list
\* and its lock are initialised with it.
Acquire(c) ==
  /\ at[c] # 0 /\ Steps[at[c]] # "minor"
  /\ held' = [held EXCEPT ![c] = @ \cup {Steps[at[c]]}]
  /\ \/ /\ at[c] < Len(Steps)
        /\ at' = [at EXCEPT ![c] = @ + 1]
        /\ UNCHANGED result
     \/ /\ at[c] = Len(Steps)
        /\ at' = [at EXCEPT ![c] = 0]
        /\ result' = [result EXCEPT ![c] = "ok"]
  /\ \/ /\ Steps[at[c]] = "dev"
        /\ ctx_list' = [ctx_list EXCEPT ![c] = {}]
        /\ ctx_lock' = [ctx_lock EXCEPT ![c] = {}]
     \/ Steps[at[c]] # "dev" /\ UNCHANGED <<ctx_list, ctx_lock>>
  /\ UNCHANGED <<module, exiting, counter, probes, todo, minor, misfreed, queue_mode, ctx, seen, irq>>

Abandon(c, code) ==
  /\ at'     = [at     EXCEPT ![c] = 0]
  /\ todo'   = [todo   EXCEPT ![c] = Unwind(Steps[at[c]])]
  /\ result' = [result EXCEPT ![c] = code]

AcquireFails(c) ==
  /\ at[c] # 0 /\ Steps[at[c]] \in MayFail
  /\ Abandon(c, "failed")
  /\ UNCHANGED <<module, exiting, counter, probes, held, minor, misfreed, queue_mode, contexts, irq>>

\* atomic_inc_return(&fpgagpu_minor_counter) - 1
TakeMinor_Shared(c) ==
  /\ at[c] # 0 /\ Steps[at[c]] = "minor"
  /\ UNCHANGED counter
  /\ minor' = [minor EXCEPT ![c] = counter]
  /\ counter < MAX_fpgagpu_DEVICES /\ at' = [at EXCEPT ![c] = @ + 1] /\ UNCHANGED <<todo, result>>
  /\ UNCHANGED <<module, exiting, probes, held, misfreed, queue_mode, contexts, irq>>

TakeMinor_FromOne(c) ==
  /\ at[c] # 0 /\ Steps[at[c]] = "minor"
  /\ counter' = counter + 1
  /\ minor' = [minor EXCEPT ![c] = counter + 1]
  /\ \/ /\ minor'[c] < MAX_fpgagpu_DEVICES
        /\ at' = [at EXCEPT ![c] = @ + 1]
        /\ UNCHANGED <<todo, result>>
     \/ minor'[c] >= MAX_fpgagpu_DEVICES /\ Abandon(c, "ENOSPC")
  /\ UNCHANGED <<module, exiting, probes, held, misfreed, queue_mode, contexts, irq>>

TakeMinor(c) ==
  /\ at[c] # 0 /\ Steps[at[c]] = "minor"
  /\ counter' = counter + 1
  /\ minor' = [minor EXCEPT ![c] = counter]
  /\ \/ /\ counter < MAX_fpgagpu_DEVICES
        /\ at' = [at EXCEPT ![c] = @ + 1]
        /\ UNCHANGED <<todo, result>>
     \/ counter >= MAX_fpgagpu_DEVICES /\ Abandon(c, "ENOSPC")
  /\ UNCHANGED <<module, exiting, probes, held, misfreed, queue_mode, contexts, irq>>

Release_NoWait(c) ==
  LET r == todo[c][1] IN
  /\ todo[c] # << >>
  /\ todo' = [todo EXCEPT ![c] = Tail(@)]
  /\ held' = [held EXCEPT ![c] = @ \ {r}]
  /\ minor' = IF r = "dev" THEN [minor EXCEPT ![c] = -1] ELSE minor
  /\ misfreed' = IF r \in held[c] \cup Guarded THEN misfreed ELSE misfreed \cup {r}
  /\ UNCHANGED <<module, exiting, counter, probes, at, result, queue_mode, contexts, irq>>

\* One release of an error label or of remove. free_irq waits for a handler
\* that is running.
Release(c) ==
  LET r == todo[c][1] IN
  /\ todo[c] # << >>
  /\ r = "irq" => irq[c].pc = "idle"
  /\ todo' = [todo EXCEPT ![c] = Tail(@)]
  /\ held' = [held EXCEPT ![c] = @ \ {r}]
  /\ minor' = IF r = "dev" THEN [minor EXCEPT ![c] = -1] ELSE minor
  /\ misfreed' = IF r \in held[c] \cup Guarded THEN misfreed ELSE misfreed \cup {r}
  /\ UNCHANGED <<module, exiting, counter, probes, at, result, queue_mode, contexts, irq>>

\* fpgagpu_remove begins: rmmod, an unbind through sysfs, or the card goes.
Remove(c) ==
  /\ Bound(c) /\ (Unplug \/ Users(c) = {})
  /\ todo' = [todo EXCEPT ![c] = Removal]
  /\ result' = [result EXCEPT ![c] = "none"]
  /\ UNCHANGED <<module, exiting, counter, probes, at, held, minor, misfreed, queue_mode, contexts, irq>>

-----------------------------------------------------------------------------
(* fpgagpu_open and fpgagpu_release *)

\* A thread the handler has interrupted waits until the handler returns.
Runs(f) == \A c \in Cards : f \notin irq[c].over

At(f, from, to) ==
  /\ ctx[f].pc = from /\ Runs(f)
  /\ ctx' = [ctx EXCEPT ![f].pc = to]
  /\ UNCHANGED <<module, exiting, counter, probes, card, misfreed, queue_mode, irq>>

\* udev has made the node; a failing kzalloc changes nothing. Nothing in the
\* driver keeps an open from coming in while remove runs: that needs a removal
\* that is not an rmmod, and is part of what Unplug allows.
Open(f, c) ==
  /\ ctx[f] = NoContext
  /\ {"cdev", "node"} \subseteq held[c] /\ ~exiting
  /\ Unplug \/ todo[c] = << >>
  /\ ctx' = [ctx EXCEPT ![f] = [dev |-> c, pc |-> "lock_add"]]
  /\ UNCHANGED <<module, exiting, counter, probes, card, misfreed, queue_mode,
                 ctx_list, ctx_lock, seen, irq>>

Close(f) == At(f, "open", "lock_del") /\ UNCHANGED <<ctx_list, ctx_lock, seen>>

\* spin_lock(&dev->ctx_lock), in open and in release. Interrupts stay enabled.
LockContexts_Broken(f) ==
  LET c == ctx[f].dev IN
  /\ \/ At(f, "lock_add", "add")
     \/ At(f, "lock_del", "del")
  /\ ctx_lock' = [ctx_lock EXCEPT ![c] = {f}]
  /\ UNCHANGED <<ctx_list, seen>>

LockContexts(f) ==
  LET c == ctx[f].dev IN
  /\ \/ At(f, "lock_add", "add")
     \/ At(f, "lock_del", "del")
  /\ ctx_lock[c] = {}
  /\ ctx_lock' = [ctx_lock EXCEPT ![c] = {f}]
  /\ UNCHANGED <<ctx_list, seen>>

\* list_add_tail and list_del are a read of the neighbouring links and then
\* writes to them: what they leave on the list is what they read, with the one
\* context added or taken out. The writes of another CPU in between are lost.
ReadList(f) ==
  /\ \/ At(f, "add", "link")
     \/ At(f, "del", "unlink")
  /\ seen' = [seen EXCEPT ![f] = ctx_list[ctx[f].dev]]
  /\ UNCHANGED <<ctx_list, ctx_lock>>

WriteList(f, list) ==
  /\ ctx_list' = [ctx_list EXCEPT ![ctx[f].dev] = list]
  /\ ctx_lock' = [ctx_lock EXCEPT ![ctx[f].dev] = {}]
  /\ seen' = [seen EXCEPT ![f] = {}]

\* The writes of list_add_tail, and spin_unlock.
AddContext(f) == At(f, "link", "open") /\ WriteList(f, seen[f] \cup {f})

\* The writes of list_del, and spin_unlock.
DelContext(f) == At(f, "unlink", "free") /\ WriteList(f, seen[f] \ {f})

\* kfree(ctx)
FreeContext(f) ==
  /\ ctx[f].pc = "free" /\ Runs(f)
  /\ ctx' = [ctx EXCEPT ![f] = NoContext]
  /\ UNCHANGED <<module, exiting, counter, probes, card, misfreed, queue_mode,
                 ctx_list, ctx_lock, seen, irq>>

FileStep(f) == LockContexts(f) \/ ReadList(f) \/ AddContext(f) \/ DelContext(f) \/ FreeContext(f)

-----------------------------------------------------------------------------
(* fpgagpu_irq_handler *)

Interrupting(c, from, to, left, over) ==
  /\ irq[c].pc = from
  /\ irq' = [irq EXCEPT ![c] = [pc |-> to, left |-> left, over |-> over]]
  /\ UNCHANGED <<module, exiting, counter, probes, card, misfreed, queue_mode, ctx, ctx_list, seen>>

\* Threads inside open or release that the handler may come over.
Interruptible ==
  {f \in Files : queue_mode \in SameCpu /\ ctx[f].pc \notin {"closed", "open"} /\ Runs(f)}

\* The handler starts and looks at queue_mode.
Interrupt(c) ==
  /\ "irq" \in held[c]
  /\ \E over \in {{}} \cup {{f} : f \in Interruptible} :
       Interrupting(c, "idle", IF queue_mode = 0 THEN "wake" ELSE "lock", {}, over)
  /\ UNCHANGED ctx_lock

\* queue_mode 0: dev->irq_fired and wake_up on dev->wait_q.
WakeDevice(c) == Interrupting(c, "wake", "idle", {}, {}) /\ UNCHANGED ctx_lock

LockList(c) ==
  /\ ctx_lock[c] = {}
  /\ Interrupting(c, "lock", "walk", ctx_list[c], irq[c].over)
  /\ ctx_lock' = [ctx_lock EXCEPT ![c] = {"irq"}]

\* One turn of list_for_each_entry.
WakeContext(c) ==
  /\ \E f \in irq[c].left : Interrupting(c, "walk", "walk", irq[c].left \ {f}, irq[c].over)
  /\ UNCHANGED ctx_lock

EndWalk(c) ==
  /\ irq[c].left = {}
  /\ Interrupting(c, "walk", "idle", {}, {})
  /\ ctx_lock' = [ctx_lock EXCEPT ![c] = {}]

HandlerStep(c) == WakeDevice(c) \/ LockList(c) \/ WakeContext(c) \/ EndWalk(c)

\* A write to /sys/module/.../parameters/queue_mode.
SetQueueMode(m) ==
  /\ "driver" \in module
  /\ queue_mode' = m
  /\ UNCHANGED <<module, exiting, counter, probes, card, misfreed, contexts, irq>>

-----------------------------------------------------------------------------
Next ==
  \/ ModuleInit \/ ModuleExit \/ ModuleGone
  \/ \E c \in Cards : \/ Probe(c) \/ Acquire(c) \/ AcquireFails(c) \/ TakeMinor(c)
                      \/ Release(c) \/ Remove(c)
                      \/ Interrupt(c) \/ HandlerStep(c)
  \/ \E f \in Files : Close(f) \/ FileStep(f) \/ \E c \in Cards : Open(f, c)
  \/ \E m \in Modes : SetQueueMode(m)

Spec == Init /\ [][Next]_vars

\* A thread inside open or release and a handler keep running; the fairness is
\* strong because the queued spinlock is first come first served.
Fairness ==
  /\ \A f \in Files : SF_vars(FileStep(f))
  /\ \A c \in Cards : SF_vars(HandlerStep(c))

FairSpec == Spec /\ Fairness

-----------------------------------------------------------------------------
(* Properties *)

\* Every variable stays in its domain.
TypeOK ==
  /\ module \subseteq {"chrdev", "class", "driver"} /\ exiting \in BOOLEAN
  /\ counter \in 0 .. MaxProbes /\ probes \in 0 .. MaxProbes
  /\ at \in [Cards -> 0 .. Len(Steps)] /\ held \in [Cards -> SUBSET Resources]
  /\ minor \in [Cards -> -1 .. MaxProbes - 1] /\ queue_mode \in {0, 1}
  /\ result \in [Cards -> {"none", "ok", "failed", "ENOSPC"}]
  /\ \A c \in Cards : \A i \in DOMAIN todo[c] : todo[c][i] \in Resources
  /\ misfreed \subseteq Resources
  /\ ctx \in [Files -> [dev : Cards \cup {"none"},
                       pc : {"closed", "lock_add", "add", "link", "open", "lock_del", "del",
                             "unlink", "free"}]]
  /\ ctx_list \in [Cards -> SUBSET Files]
  /\ ctx_lock \in [Cards -> SUBSET (Files \cup {"irq"})]
  /\ seen \in [Files -> SUBSET Files]
  /\ irq \in [Cards -> [pc : {"idle", "wake", "lock", "walk"}, left : SUBSET Files, over : SUBSET Files]]

\* A card whose probe has failed, or that has been removed, keeps nothing.
NothingLeaked == \A c \in Cards : Idle(c) /\ result[c] # "ok" => held[c] = {}

\* As long as the handler is registered or running, the dev it is given is
\* not freed.
HandlerHasDevice ==
  \A c \in Cards : "irq" \in held[c] \/ irq[c].pc # "idle" => "dev" \in held[c]

\* No error label and no step of remove releases what is not held.
ReleasesOnlyHeld == misfreed = {}

\* An open file can be used: its dev is there, with both BARs mapped, the
\* descriptor ring, the page array and the interrupt handler.
FilesAreUsable ==
  \A c \in Cards : Users(c) # {} =>
    {"dev", "bar0", "bar1", "desc", "pages", "irq"} \subseteq held[c]

\* Two cards in use at the same time have different device numbers, in the
\* region that init has allocated.
MinorsDistinct ==
  \A c, d \in Cards :
    "cdev" \in held[c] =>
      /\ minor[c] \in 0 .. MAX_fpgagpu_DEVICES - 1
      /\ "cdev" \in held[d] /\ minor[c] = minor[d] => c = d

\* The class and the region outlive every device node and every cdev.
NodesHaveClass ==
  \A c \in Cards : held[c] \cap {"cdev", "node"} # {} => {"chrdev", "class"} \subseteq module

\* Every context the handler has still to wake is on the list and not freed:
\* no open or release changes the list under the walk.
WalkFindsLiveContexts ==
  \A c \in Cards : irq[c].pc = "walk" =>
    /\ irq[c].left \subseteq ctx_list[c]
    /\ irq[c].left \subseteq Users(c)

\* The list of a card has exactly the contexts of its open files: no two
\* operations on it overlap, so that none of several opens and releases on
\* different CPUs is lost, a freed context is never reachable, and the handler
\* forgets nobody.
ListIsOpenFiles ==
  \A c \in Cards :
    ctx_list[c] = {f \in Users(c) : ctx[f].pc \in {"open", "lock_del", "del", "unlink"}}

\* What the handler promises: in queue_mode 1 it wakes everyone on the list,
\* in queue_mode 0 the device's queue, and returns, as interrupt context has to.
HandlerReturns == \A c \in Cards : irq[c].pc # "idle" ~> irq[c].pc = "idle"
=============================================================================
