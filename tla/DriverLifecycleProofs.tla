----------------------- MODULE DriverLifecycleProofs -----------------------
(***************************************************************************)
(* Proofs about DriverLifecycle, for any number of cards and files: the    *)
(* types; where a card is in its life (what it has shown, its device       *)
(* number, the files open on it), whatever goto a failing probe takes;     *)
(* what it owns, where the gotos are right; and, on top of these, that     *)
(* dev->ctx_list has exactly the contexts of open files and the handler    *)
(* that walks it finds them alive.                                         *)
(***************************************************************************)
EXTENDS DriverLifecycle, FiniteSetTheorems, SequenceTheorems, TLAPS

FilePlaces ==
  {"closed", "lock_add", "add", "link", "open", "lock_del", "del", "unlink", "free"}

Ctx == [dev : Cards \cup {"none"}, pc : FilePlaces]
Irq == [pc : {"idle", "wake", "lock", "walk"}, left : SUBSET Files, over : SUBSET Files]

ContextTypes ==
  /\ ctx \in [Files -> Ctx] /\ ctx_list \in [Cards -> SUBSET Files]
  /\ ctx_lock \in [Cards -> SUBSET (Files \cup {"irq"})] /\ irq \in [Cards -> Irq]
  /\ seen \in [Files -> SUBSET Files]
  /\ \A f \in Files : ctx[f].dev = "none" <=> ctx[f].pc = "closed"

-----------------------------------------------------------------------------
(* Contexts and handlers: types *)

\* What a step of open or release does to its file.
Moves(f, from, to) ==
  /\ ctx[f].pc = from
  /\ ctx' = [ctx EXCEPT ![f] = [dev |-> ctx[f].dev, pc |-> to]]
  /\ UNCHANGED irq

LEMMA AtMoves ==
  ASSUME ContextTypes, NEW f \in Files, NEW from, NEW to, At(f, from, to)
  PROVE  Moves(f, from, to)
<1>1. ctx[f] \in Ctx BY DEF ContextTypes
<1>2. [ctx[f] EXCEPT !.pc = to] = [dev |-> ctx[f].dev, pc |-> to] BY <1>1 DEF Ctx
<1>3. ctx' = [ctx EXCEPT ![f] = [ctx[f] EXCEPT !.pc = to]] BY DEF At
<1> QED BY <1>2, <1>3 DEF At, Moves

\* The other files stay where they are.
LEMMA MoveEffect ==
  ASSUME ContextTypes, NEW f \in Files, NEW from \in FilePlaces \ {"closed"},
         NEW to \in FilePlaces \ {"closed"}, At(f, from, to)
  PROVE  /\ ctx'[f].dev = ctx[f].dev /\ ctx'[f].pc = to /\ ctx[f].dev \in Cards /\ ctx[f].pc = from
         /\ \A g \in Files \ {f} : ctx'[g] = ctx[g]
         /\ ctx' \in [Files -> Ctx] /\ irq' = irq
         /\ \A g \in Files : ctx'[g].dev = "none" <=> ctx'[g].pc = "closed"
<1>1. ctx \in [Files -> Ctx] /\ ctx[f] \in Ctx /\ ctx[f].pc = from /\ irq' = irq
  BY AtMoves DEF ContextTypes, Moves
<1>2. ctx[f].dev \in Cards BY <1>1 DEF ContextTypes, Ctx
<1> DEFINE n == [dev |-> ctx[f].dev, pc |-> to]
<1>3. n \in Ctx /\ n.dev = ctx[f].dev /\ n.pc = to BY <1>2 DEF Ctx
<1>4. ctx' = [ctx EXCEPT ![f] = n] BY AtMoves DEF Moves
<1> HIDE DEF n
<1>5. ctx'[f] = n /\ (\A g \in Files \ {f} : ctx'[g] = ctx[g]) /\ ctx' \in [Files -> Ctx]
  BY <1>1, <1>3, <1>4
<1>6. n.dev # "none" /\ n.pc # "closed" BY <1>2, <1>3, LifecycleAssumption
<1>7. \A g \in Files : ctx'[g].dev = "none" <=> ctx'[g].pc = "closed"
  BY <1>5, <1>6 DEF ContextTypes
<1> QED BY <1>1, <1>2, <1>3, <1>5, <1>7

\* A context is made, or freed.
LEMMA OpenEffect ==
  ASSUME ContextTypes, NEW f \in Files, NEW c \in Cards, Open(f, c)
  PROVE  /\ ctx'[f].dev = c /\ ctx'[f].pc = "lock_add" /\ ctx[f].pc = "closed" /\ ctx[f].dev = "none"
         /\ \A g \in Files \ {f} : ctx'[g] = ctx[g]
         /\ ctx' \in [Files -> Ctx] /\ UNCHANGED <<ctx_list, ctx_lock, seen, irq>>
         /\ \A g \in Files : ctx'[g].dev = "none" <=> ctx'[g].pc = "closed"
<1> DEFINE n == [dev |-> c, pc |-> "lock_add"]
<1>1. n \in Ctx /\ n.dev = c /\ n.pc = "lock_add" /\ c # "none"
  BY LifecycleAssumption DEF Ctx, FilePlaces
<1>2. /\ ctx' = [ctx EXCEPT ![f] = n] /\ ctx[f].pc = "closed" /\ ctx[f].dev = "none"
      /\ UNCHANGED <<ctx_list, ctx_lock, seen, irq>>
  BY DEF Open, NoContext
<1> HIDE DEF n
<1>3. ctx'[f] = n /\ (\A g \in Files \ {f} : ctx'[g] = ctx[g]) /\ ctx' \in [Files -> Ctx]
  BY <1>1, <1>2 DEF ContextTypes
<1> QED BY <1>1, <1>2, <1>3 DEF ContextTypes

LEMMA FreeEffect ==
  ASSUME ContextTypes, NEW f \in Files, FreeContext(f)
  PROVE  /\ ctx'[f].dev = "none" /\ ctx'[f].pc = "closed" /\ ctx[f].pc = "free"
         /\ \A g \in Files \ {f} : ctx'[g] = ctx[g]
         /\ ctx' \in [Files -> Ctx] /\ UNCHANGED <<ctx_list, ctx_lock, seen, irq>>
         /\ \A g \in Files : ctx'[g].dev = "none" <=> ctx'[g].pc = "closed"
<1>1. /\ UNCHANGED <<ctx_list, ctx_lock, seen, irq>> /\ ctx[f].pc = "free"
      /\ ctx' = [ctx EXCEPT ![f] = NoContext]
  BY DEF FreeContext
<1>2. NoContext \in Ctx /\ NoContext.dev = "none" /\ NoContext.pc = "closed"
  BY DEF NoContext, Ctx, FilePlaces
<1>3. ctx'[f] = NoContext /\ (\A g \in Files \ {f} : ctx'[g] = ctx[g]) /\ ctx' \in [Files -> Ctx]
  BY <1>1, <1>2 DEF ContextTypes
<1> QED BY <1>1, <1>2, <1>3 DEF ContextTypes

\* What a list operation writes.
LEMMA WriteEffect ==
  ASSUME ContextTypes, NEW f \in Files, AddContext(f) \/ DelContext(f)
  PROVE  \E from \in {"link", "unlink"}, to \in {"open", "free"}, l \in SUBSET Files :
           /\ At(f, from, to) /\ (from = "link" <=> to = "open")
           /\ l = IF to = "open" THEN seen[f] \cup {f} ELSE seen[f] \ {f}
           /\ ctx_list' = [ctx_list EXCEPT ![ctx[f].dev] = l]
           /\ ctx_lock' = [ctx_lock EXCEPT ![ctx[f].dev] = {}]
           /\ seen' = [seen EXCEPT ![f] = {}]
<1>1. seen[f] \cup {f} \in SUBSET Files /\ seen[f] \ {f} \in SUBSET Files BY DEF ContextTypes
<1>2. CASE AddContext(f) BY <1>1, <1>2 DEF AddContext, WriteList
<1>3. CASE DelContext(f) BY <1>1, <1>3 DEF DelContext, WriteList
<1> QED BY <1>2, <1>3

\* A step of the handler, in terms of the list and its lock.
HandlerMove(c, to, left, over) ==
  /\ irq' = [irq EXCEPT ![c] = [pc |-> to, left |-> left, over |-> over]]
  /\ \/ to # "walk" /\ irq[c].pc # "walk" /\ UNCHANGED ctx_lock
     \/ to = "walk" /\ irq[c].pc = "walk" /\ left \subseteq irq[c].left /\ UNCHANGED ctx_lock
     \/ /\ to = "walk" /\ left = ctx_list[c] /\ ctx_lock[c] = {}
        /\ ctx_lock' = [ctx_lock EXCEPT ![c] = {"irq"}]
     \/ to # "walk" /\ irq[c].pc = "walk" /\ ctx_lock' = [ctx_lock EXCEPT ![c] = {}]

LEMMA HandlerEffect ==
  ASSUME ContextTypes, NEW c \in Cards, Interrupt(c) \/ HandlerStep(c)
  PROVE  /\ UNCHANGED <<ctx, ctx_list, seen>>
         /\ \E to \in {"idle", "wake", "lock", "walk"}, left \in SUBSET Files, over \in SUBSET Files :
              HandlerMove(c, to, left, over)
<1>1. UNCHANGED <<ctx, ctx_list, seen>>
  BY DEF Interrupt, HandlerStep, WakeDevice, LockList, WakeContext, EndWalk, Interrupting
<1>2. irq[c] \in Irq /\ ctx_list[c] \in SUBSET Files BY DEF ContextTypes
<1>3. irq[c].left \in SUBSET Files /\ irq[c].over \in SUBSET Files /\ {} \in SUBSET Files
  BY <1>2 DEF Irq
<1>4. CASE Interrupt(c)
  <2>1. PICK over \in {{}} \cup {{f} : f \in Interruptible} :
          Interrupting(c, "idle", IF queue_mode = 0 THEN "wake" ELSE "lock", {}, over)
    BY <1>4 DEF Interrupt
  <2>2. over \in SUBSET Files BY DEF Interruptible
  <2>3. HandlerMove(c, IF queue_mode = 0 THEN "wake" ELSE "lock", {}, over)
    BY <1>4, <2>1 DEF Interrupt, Interrupting, HandlerMove
  <2> QED BY <1>1, <1>3, <2>2, <2>3
<1>5. CASE WakeDevice(c)
  <2>1. HandlerMove(c, "idle", {}, {}) BY <1>5 DEF WakeDevice, Interrupting, HandlerMove
  <2> QED BY <1>1, <1>3, <2>1
<1>6. CASE LockList(c)
  <2>1. HandlerMove(c, "walk", ctx_list[c], irq[c].over)
    BY <1>6 DEF LockList, Interrupting, HandlerMove
  <2> QED BY <1>1, <1>2, <1>3, <2>1
<1>7. CASE WakeContext(c)
  <2>1. PICK f \in irq[c].left : Interrupting(c, "walk", "walk", irq[c].left \ {f}, irq[c].over)
    BY <1>7 DEF WakeContext
  <2>2. irq[c].left \ {f} \in SUBSET Files BY <1>3
  <2>3. HandlerMove(c, "walk", irq[c].left \ {f}, irq[c].over)
    BY <1>7, <2>1 DEF WakeContext, Interrupting, HandlerMove
  <2> QED BY <1>1, <1>3, <2>2, <2>3
<1>8. CASE EndWalk(c)
  <2>1. HandlerMove(c, "idle", {}, {}) BY <1>8 DEF EndWalk, Interrupting, HandlerMove
  <2> QED BY <1>1, <1>3, <2>1
<1> QED BY <1>4, <1>5, <1>6, <1>7, <1>8 DEF HandlerStep

\* All other steps, of the module, of probes and of removals, leave contexts
\* and handlers alone; a probe that makes a new dev makes its list and lock.
LEMMA StepCases ==
  ASSUME [Next]_vars
  PROVE  \/ UNCHANGED <<ctx, ctx_list, ctx_lock, seen, irq>>
         \/ \E c \in Cards : Acquire(c)
         \/ \E c \in Cards : Interrupt(c) \/ HandlerStep(c)
         \/ \E f \in Files : Close(f) \/ FileStep(f) \/ \E c \in Cards : Open(f, c)
<1>1. CASE ModuleInit \/ ModuleExit \/ ModuleGone \/ \E m \in Modes : SetQueueMode(m)
  BY <1>1 DEF ModuleInit, ModuleExit, ModuleGone, SetQueueMode, contexts
<1>2. ASSUME NEW c \in Cards, Probe(c) \/ AcquireFails(c) \/ TakeMinor(c) \/ Release(c) \/ Remove(c)
      PROVE  UNCHANGED <<ctx, ctx_list, ctx_lock, seen, irq>>
  BY <1>2 DEF Probe, AcquireFails, TakeMinor, Release, Remove, contexts
<1>3. CASE UNCHANGED vars BY <1>3 DEF vars, contexts
<1> QED BY <1>1, <1>2, <1>3 DEF Next

LEMMA FileTypesKept ==
  ASSUME ContextTypes, NEW f \in Files, Close(f) \/ FileStep(f) \/ \E c \in Cards : Open(f, c)
  PROVE  ContextTypes'
<1>1. CASE \E c \in Cards : Open(f, c) BY <1>1, OpenEffect DEF ContextTypes
<1>2. CASE FreeContext(f) BY <1>2, FreeEffect DEF ContextTypes
<1>3. CASE Close(f)
  <2>1. At(f, "open", "lock_del") /\ UNCHANGED <<ctx_list, ctx_lock, seen>> BY <1>3 DEF Close
  <2>2. /\ ctx' \in [Files -> Ctx] /\ irq' = irq
        /\ \A g \in Files : ctx'[g].dev = "none" <=> ctx'[g].pc = "closed"
    BY <2>1, MoveEffect DEF FilePlaces
  <2> QED BY <2>1, <2>2 DEF ContextTypes
<1>4. CASE LockContexts(f)
  <2>1. PICK from \in {"lock_add", "lock_del"}, to \in {"add", "del"} : At(f, from, to)
    BY <1>4 DEF LockContexts
  <2>2. ctx_lock' = [ctx_lock EXCEPT ![ctx[f].dev] = {f}] /\ UNCHANGED <<ctx_list, seen>>
    BY <1>4 DEF LockContexts
  <2>3. /\ ctx' \in [Files -> Ctx] /\ irq' = irq
        /\ \A g \in Files : ctx'[g].dev = "none" <=> ctx'[g].pc = "closed"
    BY <2>1, MoveEffect DEF FilePlaces
  <2> QED BY <2>2, <2>3 DEF ContextTypes
<1>5. CASE ReadList(f)
  <2>1. PICK from \in {"add", "del"}, to \in {"link", "unlink"} : At(f, from, to)
    BY <1>5 DEF ReadList
  <2>2. seen' = [seen EXCEPT ![f] = ctx_list[ctx[f].dev]] /\ UNCHANGED <<ctx_list, ctx_lock>>
    BY <1>5 DEF ReadList
  <2>3. /\ ctx' \in [Files -> Ctx] /\ irq' = irq /\ ctx[f].dev \in Cards
        /\ \A g \in Files : ctx'[g].dev = "none" <=> ctx'[g].pc = "closed"
    BY <2>1, MoveEffect DEF FilePlaces
  <2> QED BY <2>2, <2>3 DEF ContextTypes
<1>6. CASE AddContext(f) \/ DelContext(f)
  <2>1. PICK from \in {"link", "unlink"}, to \in {"open", "free"}, l \in SUBSET Files :
          /\ At(f, from, to)
          /\ ctx_list' = [ctx_list EXCEPT ![ctx[f].dev] = l]
          /\ ctx_lock' = [ctx_lock EXCEPT ![ctx[f].dev] = {}]
          /\ seen' = [seen EXCEPT ![f] = {}]
    BY <1>6, WriteEffect
  <2>2. /\ ctx' \in [Files -> Ctx] /\ irq' = irq
        /\ \A g \in Files : ctx'[g].dev = "none" <=> ctx'[g].pc = "closed"
    BY <2>1, MoveEffect DEF FilePlaces
  <2> QED BY <2>1, <2>2 DEF ContextTypes
<1> QED BY <1>1, <1>2, <1>3, <1>4, <1>5, <1>6 DEF FileStep

LEMMA ContextTypesInvariance == Spec => []ContextTypes
<1>1. Init => ContextTypes
  <2> SUFFICES ASSUME Init PROVE ContextTypes OBVIOUS
  <2>1. NoContext \in Ctx /\ NoContext.dev = "none" /\ NoContext.pc = "closed"
    BY DEF NoContext, Ctx, FilePlaces
  <2>2. NoInterrupt \in Irq BY DEF NoInterrupt, Irq
  <2> QED BY <2>1, <2>2 DEF Init, ContextTypes
<1>2. ContextTypes /\ [Next]_vars => ContextTypes'
  <2> SUFFICES ASSUME ContextTypes, [Next]_vars PROVE ContextTypes' OBVIOUS
  <2>1. CASE UNCHANGED <<ctx, ctx_list, ctx_lock, seen, irq>> BY <2>1 DEF ContextTypes
  <2>2. ASSUME NEW c \in Cards, Acquire(c) PROVE ContextTypes'
    <3>1. UNCHANGED <<ctx, seen, irq>> BY <2>2 DEF Acquire
    <3>2. /\ ctx_list' = ctx_list \/ ctx_list' = [ctx_list EXCEPT ![c] = {}]
          /\ ctx_lock' = ctx_lock \/ ctx_lock' = [ctx_lock EXCEPT ![c] = {}]
      BY <2>2 DEF Acquire
    <3> QED BY <3>1, <3>2 DEF ContextTypes
  <2>3. ASSUME NEW c \in Cards, Interrupt(c) \/ HandlerStep(c) PROVE ContextTypes'
    <3>1. PICK to \in {"idle", "wake", "lock", "walk"}, left \in SUBSET Files, over \in SUBSET Files :
            HandlerMove(c, to, left, over)
      BY <2>3, HandlerEffect
    <3>2. [pc |-> to, left |-> left, over |-> over] \in Irq BY DEF Irq
    <3>3. irq' \in [Cards -> Irq] BY <3>1, <3>2 DEF HandlerMove, ContextTypes
    <3>4. ctx_lock' \in [Cards -> SUBSET (Files \cup {"irq"})] BY <3>1 DEF HandlerMove, ContextTypes
    <3> QED BY <2>3, <3>3, <3>4, HandlerEffect DEF ContextTypes
  <2>4. CASE \E f \in Files : Close(f) \/ FileStep(f) \/ \E c \in Cards : Open(f, c)
    BY <2>4, FileTypesKept
  <2> QED BY <2>1, <2>2, <2>3, <2>4, StepCases
<1> QED BY <1>1, <1>2, PTL DEF Spec

-----------------------------------------------------------------------------
(* What is held of a card *)

Names(s) == {s[i] : i \in 1 .. Len(s)}

\* What a probe that is at its k-th acquisition holds.
Below(k) == {Steps[i] : i \in 1 .. k - 1} \ {"minor"}

\* Releases that are still to do: each at most once, and dev after everything
\* that still leads to it.
Orderly(s) ==
  /\ s \in Seq(Resources)
  /\ \A i, j \in 1 .. Len(s) : s[i] = s[j] => i = j
  /\ \A i, j \in 1 .. Len(s) : s[i] = "dev" /\ s[j] \in {"irq", "cdev"} => j < i

\* The acquisitions by number.
LEMMA StepsAre ==
  /\ Len(Steps) = 12 /\ DOMAIN Steps = 1 .. 12
  /\ Steps[1] = "enabled" /\ Steps[2] = "regions" /\ Steps[3] = "vectors" /\ Steps[4] = "dev"
  /\ Steps[5] = "bar0" /\ Steps[6] = "bar1" /\ Steps[7] = "minor" /\ Steps[8] = "desc"
  /\ Steps[9] = "pages" /\ Steps[10] = "irq" /\ Steps[11] = "cdev" /\ Steps[12] = "node"
BY DEF Steps

LEMMA ResourcesAre ==
  Resources = {"enabled", "regions", "vectors", "dev", "bar0", "bar1", "desc", "pages", "irq",
               "cdev", "node"}
<1>1. \A i \in 1 .. 12 : i \in {1, 2, 3, 4, 5, 6, 7, 8, 9, 10, 11, 12} OBVIOUS
<1> QED BY <1>1, StepsAre DEF Resources

\* One release less.
LEMMA TailOrderly ==
  ASSUME NEW s, Orderly(s), s # << >>
  PROVE  /\ Orderly(Tail(s)) /\ Names(Tail(s)) = Names(s) \ {s[1]} /\ s[1] \in Resources
         /\ s[1] \in Names(s)
         /\ s[1] = "dev" => "irq" \notin Names(s) /\ "cdev" \notin Names(s)
<1>1. s \in Seq(Resources) /\ Len(s) \in Nat \ {0} /\ s[1] \in Resources BY DEF Orderly
<1>2. /\ Tail(s) \in Seq(Resources) /\ Len(Tail(s)) = Len(s) - 1
      /\ \A i \in 1 .. Len(s) - 1 : Tail(s)[i] = s[i + 1]
  BY <1>1
<1>3. Orderly(Tail(s)) BY <1>1, <1>2 DEF Orderly
<1>4. Names(Tail(s)) = Names(s) \ {s[1]}
  <2>1. ASSUME NEW x \in Names(Tail(s)) PROVE x \in Names(s) \ {s[1]}
    <3>1. PICK i \in 1 .. Len(s) - 1 : x = s[i + 1] BY <1>2 DEF Names
    <3>2. i + 1 \in 1 .. Len(s) /\ 1 \in 1 .. Len(s) /\ i + 1 # 1 BY <1>1
    <3> QED BY <3>1, <3>2 DEF Orderly, Names
  <2>2. ASSUME NEW x \in Names(s) \ {s[1]} PROVE x \in Names(Tail(s))
    <3>1. PICK i \in 1 .. Len(s) : x = s[i] /\ i # 1 BY DEF Names
    <3>2. i - 1 \in 1 .. Len(s) - 1 /\ (i - 1) + 1 = i BY <1>1, <3>1
    <3>3. x = Tail(s)[i - 1] BY <1>2, <3>1, <3>2
    <3> QED BY <1>2, <3>2, <3>3 DEF Names
  <2> QED BY <2>1, <2>2
<1>5. 1 \in 1 .. Len(s) BY <1>1
<1>6. s[1] \in Names(s) BY <1>5 DEF Names
<1>7. s[1] = "dev" => "irq" \notin Names(s) /\ "cdev" \notin Names(s)
  BY <1>1, <1>5 DEF Orderly, Names
<1> QED BY <1>1, <1>3, <1>4, <1>6, <1>7

\* remove releases everything.
LEMMA RemovalOrderly == Orderly(Removal) /\ Names(Removal) = Resources
<1>1. /\ Len(Removal) = 11
      /\ Removal[1] = "node" /\ Removal[2] = "cdev" /\ Removal[3] = "pages" /\ Removal[4] = "desc"
      /\ Removal[5] = "bar1" /\ Removal[6] = "bar0" /\ Removal[7] = "irq" /\ Removal[8] = "dev"
      /\ Removal[9] = "vectors" /\ Removal[10] = "regions" /\ Removal[11] = "enabled"
  BY DEF Removal
<1>2. Removal \in Seq(Resources) BY ResourcesAre DEF Removal
<1>3. \A i \in 1 .. 11 : i \in {1, 2, 3, 4, 5, 6, 7, 8, 9, 10, 11} OBVIOUS
<1>4. \A i, j \in 1 .. 11 : Removal[i] = Removal[j] => i = j BY <1>1, <1>3
<1>5. \A i, j \in 1 .. 11 : Removal[i] = "dev" /\ Removal[j] \in {"irq", "cdev"} => j < i BY <1>1, <1>3
<1>6. Names(Removal) = Resources BY <1>1, <1>3, ResourcesAre DEF Names
<1> QED BY <1>1, <1>2, <1>4, <1>5, <1>6 DEF Orderly

\* The labels from a given one on.
LEMMA FromLabel ==
  ASSUME NEW k \in 1 .. 10
  PROVE  /\ Orderly(From(Labels[k]))
         /\ Names(From(Labels[k])) = {Labels[j] : j \in k .. 10}
<1>1. /\ Len(Labels) = 10 /\ DOMAIN Labels = 1 .. 10
      /\ Labels[1] = "cdev" /\ Labels[2] = "irq" /\ Labels[3] = "pages" /\ Labels[4] = "desc"
      /\ Labels[5] = "bar1" /\ Labels[6] = "bar0" /\ Labels[7] = "dev" /\ Labels[8] = "vectors"
      /\ Labels[9] = "regions" /\ Labels[10] = "enabled"
  BY DEF Labels
<1>2. \A i \in 1 .. 10 : i \in {1, 2, 3, 4, 5, 6, 7, 8, 9, 10} OBVIOUS
<1>3. \A i, j \in 1 .. 10 : Labels[i] = Labels[j] => i = j BY <1>1, <1>2
<1>4. \A i, j \in 1 .. 10 : Labels[i] = "dev" /\ Labels[j] \in {"irq", "cdev"} => j < i BY <1>1, <1>2
<1>5. \A i \in 1 .. 10 : Labels[i] \in Resources BY <1>1, <1>2, ResourcesAre
<1> DEFINE m == CHOOSE i \in DOMAIN Labels : Labels[i] = Labels[k]
<1>6. m = k
  <2>1. m \in DOMAIN Labels /\ Labels[m] = Labels[k] BY <1>1
  <2> QED BY <2>1, <1>1, <1>3
<1>7. From(Labels[k]) = SubSeq(Labels, k, 10) BY <1>1, <1>6 DEF From
<1> DEFINE s == SubSeq(Labels, k, 10)
<1> HIDE DEF m
<1>9. s \in Seq(Resources) /\ Len(s) = 11 - k /\ \A i \in 1 .. 11 - k : s[i] = Labels[i + k - 1]
  <2>1. \A i \in k .. 10 : Labels[i] \in Resources BY <1>5
  <2>2. /\ s \in Seq(Resources) /\ Len(s) = IF k <= 10 THEN 10 - k + 1 ELSE 0
        /\ \A i \in 1 .. 10 - k + 1 : s[i] = Labels[k + i - 1]
    BY <2>1, SubSeqProperties
  <2> HIDE DEF s
  <2>3. 10 - k + 1 = 11 - k /\ \A i \in 1 .. 11 - k : k + i - 1 = i + k - 1 OBVIOUS
  <2> QED BY <2>2, <2>3
<1> HIDE DEF s
<1>10. \A i \in 1 .. 11 - k : i + k - 1 \in 1 .. 10 /\ i + k - 1 \in k .. 10 OBVIOUS
<1>11. Orderly(s)
  <2>1. ASSUME NEW i \in 1 .. Len(s), NEW j \in 1 .. Len(s)
        PROVE  /\ s[i] = s[j] => i = j
               /\ s[i] = "dev" /\ s[j] \in {"irq", "cdev"} => j < i
    <3>1. /\ i \in 1 .. 11 - k /\ j \in 1 .. 11 - k /\ i + k - 1 \in 1 .. 10 /\ j + k - 1 \in 1 .. 10
          /\ s[i] = Labels[i + k - 1] /\ s[j] = Labels[j + k - 1]
      BY <1>9, <1>10
    <3>2. s[i] = s[j] => i + k - 1 = j + k - 1 BY <3>1, <1>3
    <3>3. s[i] = "dev" /\ s[j] \in {"irq", "cdev"} => j + k - 1 < i + k - 1 BY <3>1, <1>4
    <3> QED BY <3>1, <3>2, <3>3
  <2> QED BY <2>1, <1>9 DEF Orderly
<1>12. Names(s) = {Labels[j] : j \in k .. 10}
  <2>1. ASSUME NEW x \in Names(s) PROVE x \in {Labels[j] : j \in k .. 10}
    BY <1>9, <1>10 DEF Names
  <2>2. ASSUME NEW j \in k .. 10 PROVE Labels[j] \in Names(s)
    <3>1. j - k + 1 \in 1 .. 11 - k /\ (j - k + 1) + k - 1 = j OBVIOUS
    <3>2. s[j - k + 1] = Labels[j] BY <1>9, <3>1
    <3> QED BY <1>9, <3>1, <3>2 DEF Names
  <2> QED BY <2>1, <2>2
<1> QED BY <1>7, <1>11, <1>12 DEF s

\* The label a failing acquisition jumps to releases all that is held then,
\* and nothing else but pointers that are tested first: but for the three
\* acquisitions whose goto is wrong.
LEMMA UnwindOrderly ==
  ASSUME NEW k \in 1 .. 12, Steps[k] \notin {"vectors", "irq", "cdev"}
  PROVE  /\ Orderly(Unwind(Steps[k]))
         /\ Below(k) \subseteq Names(Unwind(Steps[k]))
         /\ Names(Unwind(Steps[k])) \subseteq Below(k) \cup Guarded
<1>1. \A i \in 1 .. 12 : i \in {1, 2, 3, 4, 5, 6, 7, 8, 9, 10, 11, 12} OBVIOUS
<1>2. /\ Labels[1] = "cdev" /\ Labels[2] = "irq" /\ Labels[3] = "pages" /\ Labels[4] = "desc"
      /\ Labels[5] = "bar1" /\ Labels[6] = "bar0" /\ Labels[7] = "dev" /\ Labels[8] = "vectors"
      /\ Labels[9] = "regions" /\ Labels[10] = "enabled"
  BY DEF Labels
<1>3. CASE k = 1
  <2>1. Unwind(Steps[k]) = << >> BY <1>3, StepsAre DEF Unwind
  <2>2. Below(k) = {} BY <1>3 DEF Below
  <2> QED BY <2>1, <2>2 DEF Orderly, Names
<1>4. ASSUME k # 1, NEW l \in 1 .. 10, Unwind(Steps[k]) = From(Labels[l]),
             Below(k) \subseteq {Labels[j] : j \in l .. 10},
             {Labels[j] : j \in l .. 10} \subseteq Below(k) \cup Guarded
      PROVE  /\ Orderly(Unwind(Steps[k]))
             /\ Below(k) \subseteq Names(Unwind(Steps[k]))
             /\ Names(Unwind(Steps[k])) \subseteq Below(k) \cup Guarded
  BY <1>4, FromLabel
<1>6. CASE k = 2
  <2>1. Below(k) = {"enabled"} BY <1>6, StepsAre DEF Below
  <2>2. {Labels[j] : j \in 10 .. 10} = {"enabled"} BY <1>2
  <2>3. Unwind(Steps[k]) = From(Labels[10]) BY <1>2, <1>6, StepsAre DEF Unwind
  <2> QED BY <1>4, <1>6, <2>1, <2>2, <2>3
<1>7. CASE k = 4
  <2>1. Below(k) = {"enabled", "regions", "vectors"} BY <1>7, StepsAre DEF Below
  <2>2. {Labels[j] : j \in 8 .. 10} = {"enabled", "regions", "vectors"} BY <1>2
  <2>3. Unwind(Steps[k]) = From(Labels[8]) BY <1>2, <1>7, StepsAre DEF Unwind
  <2> QED BY <1>4, <1>7, <2>1, <2>2, <2>3
<1>8. CASE k = 5
  <2>1. Below(k) = {"enabled", "regions", "vectors", "dev"} BY <1>8, StepsAre DEF Below
  <2>2. {Labels[j] : j \in 7 .. 10} = {"enabled", "regions", "vectors", "dev"} BY <1>2
  <2>3. Unwind(Steps[k]) = From(Labels[7]) BY <1>2, <1>8, StepsAre DEF Unwind
  <2> QED BY <1>4, <1>8, <2>1, <2>2, <2>3
<1>9. CASE k = 6
  <2>1. Below(k) = {"enabled", "regions", "vectors", "dev", "bar0"} BY <1>9, StepsAre DEF Below
  <2>2. {Labels[j] : j \in 6 .. 10} = {"enabled", "regions", "vectors", "dev", "bar0"} BY <1>2
  <2>3. Unwind(Steps[k]) = From(Labels[6]) BY <1>2, <1>9, StepsAre DEF Unwind
  <2> QED BY <1>4, <1>9, <2>1, <2>2, <2>3
<1>10. CASE k = 7
  <2>1. Below(k) = {"enabled", "regions", "vectors", "dev", "bar0", "bar1"} BY <1>10, StepsAre DEF Below
  <2>2. {Labels[j] : j \in 5 .. 10} = {"enabled", "regions", "vectors", "dev", "bar0", "bar1"} BY <1>2
  <2>3. Unwind(Steps[k]) = From(Labels[5]) BY <1>2, <1>10, StepsAre DEF Unwind
  <2> QED BY <1>4, <1>10, <2>1, <2>2, <2>3
<1>11. CASE k \in {8, 9}
  <2>1. /\ {"enabled", "regions", "vectors", "dev", "bar0", "bar1"} \subseteq Below(k)
        /\ Below(k) \subseteq {"enabled", "regions", "vectors", "dev", "bar0", "bar1", "desc"}
    BY <1>11, StepsAre DEF Below
  <2>2. {Labels[j] : j \in 3 .. 10}
          = {"enabled", "regions", "vectors", "dev", "bar0", "bar1", "desc", "pages"}
    BY <1>2
  <2>3. Unwind(Steps[k]) = From(Labels[3]) BY <1>2, <1>11, StepsAre DEF Unwind
  <2>4. {"desc", "pages"} \subseteq Guarded BY DEF Guarded
  <2> QED BY <1>4, <1>11, <2>1, <2>2, <2>3, <2>4
<1>12. CASE k = 12
  <2>1. Below(k) = {"enabled", "regions", "vectors", "dev", "bar0", "bar1", "desc", "pages", "irq", "cdev"}
    BY <1>12, StepsAre DEF Below
  <2>2. {Labels[j] : j \in 1 .. 10}
          = {"enabled", "regions", "vectors", "dev", "bar0", "bar1", "desc", "pages", "irq", "cdev"}
    BY <1>2
  <2>3. Unwind(Steps[k]) = From(Labels[1]) BY <1>2, <1>12, StepsAre DEF Unwind
  <2> QED BY <1>4, <1>12, <2>1, <2>2, <2>3
<1> QED BY <1>1, <1>3, <1>6, <1>7, <1>8, <1>9, <1>10, <1>11, <1>12, StepsAre

\* Every goto, right or wrong, leads to an orderly list.
LEMMA UnwindTypes ==
  ASSUME NEW k \in 1 .. 12
  PROVE  Orderly(Unwind(Steps[k]))
<1>1. Labels[10] = "enabled" /\ Labels[2] = "irq" /\ Labels[5] = "bar1" BY DEF Labels
<1>2. CASE Steps[k] = "vectors" BY <1>1, <1>2, FromLabel DEF Unwind
<1>3. CASE Steps[k] = "irq" BY <1>1, <1>3, FromLabel DEF Unwind
<1>4. CASE Steps[k] = "cdev" BY <1>1, <1>4, FromLabel DEF Unwind
<1> QED BY <1>2, <1>3, <1>4, UnwindOrderly

\* A successful acquisition, and the two ends of the order.
LEMMA BelowNext ==
  ASSUME NEW k \in 1 .. 12
  PROVE  /\ Below(k + 1) = (Below(k) \cup {Steps[k]}) \ {"minor"}
         /\ "irq" \in Below(k) => k > 10
         /\ "cdev" \in Below(k) => k > 11
         /\ "node" \notin Below(k)
         /\ k > 4 => "dev" \in Below(k)
<1>1. 1 .. (k + 1) - 1 = (1 .. k - 1) \cup {k} OBVIOUS
<1>2. Below(k + 1) = (Below(k) \cup {Steps[k]}) \ {"minor"} BY <1>1 DEF Below
<1>3. \A i \in 1 .. 12 : /\ Steps[i] = "irq" => i = 10 
                         /\ Steps[i] = "cdev" => i = 11 
                         /\ Steps[i] = "node" => i = 12
  <2>1. \A i \in 1 .. 12 : i \in {1, 2, 3, 4, 5, 6, 7, 8, 9, 10, 11, 12} OBVIOUS
  <2> QED BY <2>1, StepsAre
<1>4. \A i \in 1 .. k - 1 : i \in 1 .. 12 /\ i < k OBVIOUS
<1>5. k > 4 => "dev" \in Below(k)
  <2>1. k > 4 => 4 \in 1 .. k - 1 OBVIOUS
  <2> QED BY <2>1, StepsAre DEF Below
<1> QED BY <1>2, <1>3, <1>4, <1>5 DEF Below

LEMMA BelowEnds == Below(1) = {} /\ Below(13) = Resources /\ "minor" \notin Resources
<1>1. Below(1) = {} BY DEF Below
<1>2. 1 .. 13 - 1 = 1 .. 12 OBVIOUS
<1> QED BY <1>1, <1>2, StepsAre DEF Below, Resources

\* What is acquired is a resource.
LEMMA BelowTypes ==
  ASSUME NEW k \in 1 .. 12
  PROVE  /\ Below(k) \subseteq Resources
         /\ Steps[k] # "minor" => Steps[k] \in Resources
         /\ k < 12 => k + 1 \in 1 .. 12
<1>1. \A i \in 1 .. k : i \in DOMAIN Steps BY StepsAre
<1> QED BY <1>1 DEF Below, Resources

-----------------------------------------------------------------------------
(* Types *)

Results == {"none", "ok", "failed", "ENOSPC"}

\* Cards whose probe has still to draw its minor.
Undrawn == {c \in Cards : at[c] \in 1 .. 7}

CardTypes ==
  /\ at \in [Cards -> 0 .. 12] /\ held \in [Cards -> SUBSET Resources]
  /\ minor \in [Cards -> -1 .. MaxProbes - 1] /\ result \in [Cards -> Results]
  /\ todo \in [Cards -> Seq(Resources)] /\ \A c \in Cards : Orderly(todo[c])
  /\ misfreed \subseteq Resources

ModuleTypes ==
  /\ module \in {{}, {"chrdev", "class", "driver"}} /\ exiting \in BOOLEAN
  /\ queue_mode \in {0, 1}
  /\ module = {} => ~exiting /\ \A c \in Cards : Idle(c) /\ result[c] # "ok"

\* Every minor that is drawn has its probe.
CountInv == counter \in Nat /\ probes \in 0 .. MaxProbes /\ counter + Cardinality(Undrawn) <= probes

TypeInv == CardTypes /\ ModuleTypes /\ CountInv

\* Steps that concern neither cards nor the module.
LEMMA TypeFrame ==
  ASSUME TypeInv, UNCHANGED <<module, exiting, counter, probes, at, todo, held, minor, result, misfreed>>,
         queue_mode' \in {0, 1}
  PROVE  TypeInv'
<1>1. UNCHANGED Undrawn BY DEF Undrawn
<1>2. CardTypes' BY DEF TypeInv, CardTypes
<1>3. ModuleTypes' BY DEF TypeInv, ModuleTypes, Idle
<1>4. CountInv' BY <1>1 DEF TypeInv, CountInv
<1> QED BY <1>2, <1>3, <1>4 DEF TypeInv

\* A step of the module.
LEMMA ModuleTypesKept ==
  ASSUME TypeInv, ModuleInit \/ ModuleExit \/ ModuleGone
  PROVE  TypeInv'
<1>1. UNCHANGED <<at, todo, held, minor, result, misfreed>>
  BY DEF ModuleInit, ModuleExit, ModuleGone, card
<1>2. CardTypes' BY <1>1 DEF TypeInv, CardTypes
<1>3. ModuleTypes'
  <2>1. /\ module \in {{}, {"chrdev", "class", "driver"}} /\ exiting \in BOOLEAN /\ queue_mode \in {0, 1}
        /\ module = {} => ~exiting /\ \A c \in Cards : Idle(c) /\ result[c] # "ok"
    BY DEF TypeInv, ModuleTypes
  <2>2. \A c \in Cards : Idle(c)' = Idle(c) BY <1>1 DEF Idle
  <2>3. CASE ModuleInit
    <3>1. /\ module = {} /\ module' \in {{}, {"chrdev", "class", "driver"}} /\ UNCHANGED exiting
          /\ queue_mode' \in {0, 1}
      BY <2>3, LifecycleAssumption DEF ModuleInit
    <3> QED BY <1>1, <2>1, <2>2, <3>1 DEF ModuleTypes
  <2>4. CASE ModuleExit
    <3>1. module' = module /\ module # {} /\ exiting' = TRUE /\ UNCHANGED queue_mode BY <2>4 DEF ModuleExit
    <3> QED BY <2>1, <3>1 DEF ModuleTypes
  <2>5. CASE ModuleGone
    <3>1. /\ module' = {} /\ exiting' = FALSE /\ UNCHANGED queue_mode
          /\ \A c \in Cards : Idle(c) /\ result[c] # "ok"
      BY <2>5 DEF ModuleGone
    <3> QED BY <1>1, <2>1, <2>2, <3>1 DEF ModuleTypes
  <2> QED BY <2>3, <2>4, <2>5
<1>4. CountInv'
  <2>1. CASE ModuleInit
    <3>1. Undrawn' = {} BY <1>1, <2>1 DEF ModuleInit, TypeInv, ModuleTypes, Idle, Undrawn
    <3>2. counter' = 0 /\ probes' = 0 BY <2>1 DEF ModuleInit
    <3>3. Cardinality({}) = 0 BY FS_EmptySet
    <3> QED BY <3>1, <3>2, <3>3, LifecycleAssumption DEF CountInv
  <2>2. CASE ModuleExit \/ ModuleGone
    <3>1. UNCHANGED <<Undrawn, counter, probes>> BY <1>1, <2>2 DEF ModuleExit, ModuleGone, Undrawn
    <3> QED BY <3>1 DEF TypeInv, CountInv
  <2> QED BY <2>1, <2>2
<1> QED BY <1>2, <1>3, <1>4 DEF TypeInv

\* A card that is not idle has a module.
LEMMA ModuleFrame ==
  ASSUME TypeInv, module # {}, UNCHANGED <<module, exiting, queue_mode>>
  PROVE  ModuleTypes'
BY DEF TypeInv, ModuleTypes

\* Cards that begin or end the first part of a probe.
LEMMA UndrawnCount ==
  ASSUME IsFiniteSet(Cards), TypeInv, NEW c \in Cards, NEW a \in 0 .. 12, at' = [at EXCEPT ![c] = a]
  PROVE  /\ Cardinality(Undrawn) \in Nat /\ Cardinality(Undrawn') \in Nat
         /\ a \in 1 .. 7 /\ at[c] \in 1 .. 7 => Cardinality(Undrawn') = Cardinality(Undrawn)
         /\ a \in 1 .. 7 /\ at[c] \notin 1 .. 7 => Cardinality(Undrawn') = Cardinality(Undrawn) + 1
         /\ a \notin 1 .. 7 /\ at[c] \in 1 .. 7 => Cardinality(Undrawn') = Cardinality(Undrawn) - 1
         /\ a \notin 1 .. 7 /\ at[c] \notin 1 .. 7 => Cardinality(Undrawn') = Cardinality(Undrawn)
<1>1. at'[c] = a /\ \A d \in Cards \ {c} : at'[d] = at[d] BY DEF TypeInv, CardTypes
<1>2. IsFiniteSet(Undrawn)
  <2>1. Undrawn \subseteq Cards BY DEF Undrawn
  <2> QED BY <2>1, FS_Subset
<1>3. Undrawn' = IF a \in 1 .. 7 THEN Undrawn \cup {c} ELSE Undrawn \ {c} BY <1>1 DEF Undrawn
<1>4. c \in Undrawn <=> at[c] \in 1 .. 7 BY DEF Undrawn
<1>5. /\ Cardinality(Undrawn \cup {c}) = IF c \in Undrawn THEN Cardinality(Undrawn)
                                                         ELSE Cardinality(Undrawn) + 1
      /\ Cardinality(Undrawn \ {c}) = IF c \in Undrawn THEN Cardinality(Undrawn) - 1
                                                       ELSE Cardinality(Undrawn)
      /\ IsFiniteSet(Undrawn \cup {c}) /\ IsFiniteSet(Undrawn \ {c})
  BY <1>2, FS_AddElement, FS_RemoveElement
<1>6. Cardinality(Undrawn) \in Nat BY <1>2, FS_CardinalityType
<1>7. Cardinality(Undrawn') \in Nat BY <1>3, <1>5, FS_CardinalityType
<1> QED BY <1>3, <1>4, <1>5, <1>6, <1>7

\* A step of a probe, of the labels, or of remove.
LEMMA CardTypesKept ==
  ASSUME IsFiniteSet(Cards), TypeInv, NEW c \in Cards,
         Probe(c) \/ Acquire(c) \/ AcquireFails(c) \/ TakeMinor(c) \/ Release(c) \/ Remove(c)
  PROVE  TypeInv'
<1>1. /\ at \in [Cards -> 0 .. 12] /\ held \in [Cards -> SUBSET Resources]
      /\ minor \in [Cards -> -1 .. MaxProbes - 1] /\ result \in [Cards -> Results]
      /\ todo \in [Cards -> Seq(Resources)] /\ \A d \in Cards : Orderly(todo[d])
      /\ misfreed \subseteq Resources /\ counter \in Nat /\ probes \in 0 .. MaxProbes
      /\ counter + Cardinality(Undrawn) <= probes
  BY DEF TypeInv, CardTypes, CountInv
<1>2. UNCHANGED <<module, exiting, queue_mode>>
  BY DEF Probe, Acquire, AcquireFails, TakeMinor, Release, Remove
<1>3. module # {}
  <2>1. CASE Probe(c) BY <2>1 DEF Probe
  <2>2. CASE Acquire(c) \/ AcquireFails(c) \/ TakeMinor(c)
    BY <2>2 DEF Acquire, AcquireFails, TakeMinor, TypeInv, ModuleTypes, Idle
  <2>3. CASE Release(c) BY <2>3 DEF Release, TypeInv, ModuleTypes, Idle
  <2>4. CASE Remove(c) BY <2>4 DEF Remove, Bound, TypeInv, ModuleTypes
  <2> QED BY <2>1, <2>2, <2>3, <2>4
<1>4. ModuleTypes' BY <1>2, <1>3, ModuleFrame
<1>5. MaxProbes \in Nat BY LifecycleAssumption
<1>6. CASE Probe(c)
  <2>1. /\ probes < MaxProbes /\ probes' = probes + 1 /\ at' = [at EXCEPT ![c] = 1] /\ at[c] = 0
        /\ result' = [result EXCEPT ![c] = "none"] /\ UNCHANGED <<counter, todo, held, minor, misfreed>>
    BY <1>6 DEF Probe, Idle
  <2>2. CardTypes' BY <1>1, <2>1 DEF CardTypes, Results
  <2>3. Cardinality(Undrawn') = Cardinality(Undrawn) + 1 /\ Cardinality(Undrawn) \in Nat
    <3>1. 1 \in 0 .. 12 /\ 1 \in 1 .. 7 /\ at[c] \notin 1 .. 7 BY <2>1
    <3> QED BY <2>1, <3>1, UndrawnCount
  <2>4. CountInv' BY <1>1, <1>5, <2>1, <2>3 DEF CountInv
  <2> QED BY <1>4, <2>2, <2>4 DEF TypeInv
<1>7. CASE Acquire(c)
  <2>1. /\ at[c] \in 1 .. 12 /\ Steps[at[c]] # "minor" /\ held' = [held EXCEPT ![c] = held[c] \cup {Steps[at[c]]}]
        /\ UNCHANGED <<counter, probes, todo, minor, misfreed>>
    BY <1>1, <1>7 DEF Acquire
  <2>2. at[c] # 7 BY <2>1, StepsAre
  <2>3. PICK a \in 0 .. 12, r \in Results :
          /\ at' = [at EXCEPT ![c] = a] /\ (result' = result \/ result' = [result EXCEPT ![c] = r])
          /\ a \in 1 .. 7 <=> at[c] \in 1 .. 7
    <3>1. CASE at[c] < 12
      <4>1. at' = [at EXCEPT ![c] = at[c] + 1] /\ UNCHANGED result BY <1>7, <3>1, StepsAre DEF Acquire
      <4>2. at[c] + 1 \in 0 .. 12 /\ (at[c] + 1 \in 1 .. 7 <=> at[c] \in 1 .. 7) BY <2>1, <2>2, <3>1
      <4> QED BY <4>1, <4>2 DEF Results
    <3>2. CASE ~(at[c] < 12)
      <4>1. at' = [at EXCEPT ![c] = 0] /\ result' = [result EXCEPT ![c] = "ok"]
        BY <1>7, <3>2, StepsAre DEF Acquire
      <4>2. at[c] \notin 1 .. 7 /\ 0 \in 0 .. 12 /\ 0 \notin 1 .. 7 BY <2>1, <3>2
      <4> QED BY <4>1, <4>2 DEF Results
    <3> QED BY <3>1, <3>2
  <2>4. CardTypes'
    <3>1. Steps[at[c]] \in Resources BY <2>1, BelowTypes
    <3> QED BY <1>1, <2>1, <2>3, <3>1 DEF CardTypes
  <2>5. Cardinality(Undrawn') = Cardinality(Undrawn) BY <2>3, UndrawnCount
  <2>6. CountInv' BY <1>1, <2>1, <2>5 DEF CountInv
  <2> QED BY <1>4, <2>4, <2>6 DEF TypeInv
<1>8. ASSUME NEW code \in Results, at[c] # 0, Abandon(c, code)
      PROVE  /\ at' \in [Cards -> 0 .. 12] /\ result' \in [Cards -> Results]
             /\ todo' \in [Cards -> Seq(Resources)] /\ \A d \in Cards : Orderly(todo'[d])
             /\ Cardinality(Undrawn') \in Nat /\ Cardinality(Undrawn) \in Nat
             /\ Cardinality(Undrawn') <= Cardinality(Undrawn)
             /\ at[c] \in 1 .. 7 => Cardinality(Undrawn') = Cardinality(Undrawn) - 1
  <2>1. at[c] \in 1 .. 12 BY <1>1, <1>8
  <2>2. Orderly(Unwind(Steps[at[c]])) BY <2>1, UnwindTypes
  <2>3. Unwind(Steps[at[c]]) \in Seq(Resources) BY <2>2 DEF Orderly
  <2>4. at' = [at EXCEPT ![c] = 0] /\ 0 \notin 1 .. 7 /\ 0 \in 0 .. 12 BY <1>8 DEF Abandon
  <2>5. /\ Cardinality(Undrawn') \in Nat /\ Cardinality(Undrawn) \in Nat
        /\ at[c] \in 1 .. 7 => Cardinality(Undrawn') = Cardinality(Undrawn) - 1
        /\ at[c] \notin 1 .. 7 => Cardinality(Undrawn') = Cardinality(Undrawn)
    BY <2>4, UndrawnCount
  <2>6. todo' = [todo EXCEPT ![c] = Unwind(Steps[at[c]])] BY <1>8 DEF Abandon
  <2>7. todo' \in [Cards -> Seq(Resources)] /\ \A d \in Cards : Orderly(todo'[d])
    BY <1>1, <2>2, <2>3, <2>6
  <2>8. Cardinality(Undrawn') <= Cardinality(Undrawn) BY <2>5
  <2> QED BY <1>1, <1>8, <2>4, <2>5, <2>7, <2>8 DEF Abandon
<1>9. CASE AcquireFails(c)
  <2>1. /\ at[c] # 0 /\ Abandon(c, "failed") /\ UNCHANGED <<counter, probes, held, minor, misfreed>>
        /\ "failed" \in Results
    BY <1>9 DEF AcquireFails, Results
  <2>2. CardTypes' BY <1>1, <1>8, <2>1 DEF CardTypes
  <2>3. Cardinality(Undrawn') \in Nat /\ Cardinality(Undrawn) \in Nat /\ Cardinality(Undrawn') <= Cardinality(Undrawn)
    BY <1>8, <2>1
  <2>4. CountInv' BY <1>1, <2>1, <2>3 DEF CountInv
  <2> QED BY <1>4, <2>2, <2>4 DEF TypeInv
<1>10. CASE TakeMinor(c)
  <2>1. /\ at[c] # 0 /\ Steps[at[c]] = "minor" /\ counter' = counter + 1
        /\ minor' = [minor EXCEPT ![c] = counter] /\ UNCHANGED <<probes, held, misfreed>>
    BY <1>10 DEF TakeMinor
  <2>2. at[c] = 7
    <3>1. \A i \in 1 .. 12 : i \in {1, 2, 3, 4, 5, 6, 7, 8, 9, 10, 11, 12} OBVIOUS
    <3> QED BY <1>1, <2>1, <3>1, StepsAre
  <2>3. /\ at' \in [Cards -> 0 .. 12] /\ result' \in [Cards -> Results]
        /\ todo' \in [Cards -> Seq(Resources)] /\ \A d \in Cards : Orderly(todo'[d])
        /\ Cardinality(Undrawn') \in Nat /\ Cardinality(Undrawn) \in Nat
        /\ Cardinality(Undrawn') = Cardinality(Undrawn) - 1
    <3>1. CASE at' = [at EXCEPT ![c] = at[c] + 1] /\ UNCHANGED <<todo, result>>
      <4>1. at' = [at EXCEPT ![c] = 8] /\ 8 \notin 1 .. 7 /\ at[c] \in 1 .. 7 /\ 8 \in 0 .. 12 BY <2>2, <3>1
      <4>2. /\ Cardinality(Undrawn') \in Nat /\ Cardinality(Undrawn) \in Nat
            /\ Cardinality(Undrawn') = Cardinality(Undrawn) - 1
        BY <4>1, UndrawnCount
      <4> QED BY <1>1, <3>1, <4>1, <4>2
    <3>2. CASE Abandon(c, "ENOSPC") BY <1>8, <2>1, <2>2, <3>2 DEF Results
    <3> QED BY <1>10, <3>1, <3>2 DEF TakeMinor
  <2>4. counter \in -1 .. MaxProbes - 1 /\ CountInv' BY <1>1, <1>5, <2>1, <2>3 DEF CountInv
  <2>5. CardTypes' BY <1>1, <2>1, <2>3, <2>4 DEF CardTypes
  <2> QED BY <1>4, <2>4, <2>5 DEF TypeInv
<1>11. CASE Release(c)
  <2> DEFINE r == todo[c][1]
  <2>1. /\ todo[c] # << >> /\ todo' = [todo EXCEPT ![c] = Tail(todo[c])]
        /\ held' = [held EXCEPT ![c] = held[c] \ {r}]
        /\ minor' = IF r = "dev" THEN [minor EXCEPT ![c] = -1] ELSE minor
        /\ misfreed' \subseteq misfreed \cup {r}
        /\ UNCHANGED <<counter, probes, at, result>>
    BY <1>11 DEF Release
  <2>2. Orderly(Tail(todo[c])) /\ r \in Resources BY <1>1, <2>1, TailOrderly
  <2>3. Tail(todo[c]) \in Seq(Resources) BY <2>2 DEF Orderly
  <2>4. -1 \in -1 .. MaxProbes - 1 BY <1>5
  <2> HIDE DEF r
  <2>5. minor' \in [Cards -> -1 .. MaxProbes - 1] BY <1>1, <2>1, <2>4
  <2>6. CardTypes' BY <1>1, <2>1, <2>2, <2>3, <2>5 DEF CardTypes
  <2>7. UNCHANGED Undrawn BY <2>1 DEF Undrawn
  <2>8. CountInv' BY <1>1, <2>1, <2>7 DEF CountInv
  <2> QED BY <1>4, <2>6, <2>8 DEF TypeInv
<1>12. CASE Remove(c)
  <2>1. /\ todo' = [todo EXCEPT ![c] = Removal] /\ result' = [result EXCEPT ![c] = "none"]
        /\ UNCHANGED <<counter, probes, at, held, minor, misfreed>>
    BY <1>12 DEF Remove
  <2>2. Removal \in Seq(Resources) /\ Orderly(Removal) BY RemovalOrderly DEF Orderly
  <2>3. CardTypes' BY <1>1, <2>1, <2>2 DEF CardTypes, Results
  <2>4. UNCHANGED Undrawn BY <2>1 DEF Undrawn
  <2>5. CountInv' BY <1>1, <2>1, <2>4 DEF CountInv
  <2> QED BY <1>4, <2>3, <2>5 DEF TypeInv
<1> QED BY <1>6, <1>7, <1>9, <1>10, <1>11, <1>12

\* The steps of a card, of the module, and the others: opens, releases, the
\* handler and queue_mode.
CardStep(c) ==
  Probe(c) \/ Acquire(c) \/ AcquireFails(c) \/ TakeMinor(c) \/ Release(c) \/ Remove(c)

Unconcerned ==
  UNCHANGED <<module, exiting, counter, probes, at, todo, held, minor, result, misfreed>>

LEMMA LifeSteps ==
  ASSUME [Next]_vars
  PROVE  \/ ModuleInit \/ ModuleExit \/ ModuleGone
         \/ \E c \in Cards : CardStep(c)
         \/ \E c \in Cards : (Interrupt(c) \/ HandlerStep(c)) /\ Unconcerned /\ UNCHANGED queue_mode
         \/ Unconcerned /\ UNCHANGED <<queue_mode, irq>>
         \/ Unconcerned /\ UNCHANGED <<ctx, irq>> /\ queue_mode' \in Modes
<1>1. CASE ModuleInit \/ ModuleExit \/ ModuleGone BY <1>1
<1>2. CASE \E c \in Cards : CardStep(c) BY <1>2
<1>3. ASSUME NEW c \in Cards, Interrupt(c) \/ HandlerStep(c)
      PROVE  Unconcerned /\ UNCHANGED queue_mode
  BY <1>3 DEF Interrupt, HandlerStep, WakeDevice, LockList, WakeContext, EndWalk, Interrupting, card, Unconcerned
<1>4. ASSUME NEW f \in Files, Close(f) \/ FileStep(f) \/ \E c \in Cards : Open(f, c)
      PROVE  Unconcerned /\ UNCHANGED <<queue_mode, irq>>
  BY <1>4 DEF Close, At, FileStep, LockContexts, ReadList, AddContext, DelContext, FreeContext, Open,
         card, Unconcerned
<1>5. ASSUME NEW m \in Modes, SetQueueMode(m)
      PROVE  Unconcerned /\ UNCHANGED <<ctx, irq>> /\ queue_mode' \in Modes
  BY <1>5 DEF SetQueueMode, card, contexts, Unconcerned
<1>6. CASE UNCHANGED vars BY <1>6 DEF vars, card, contexts, Unconcerned
<1> QED BY <1>1, <1>2, <1>3, <1>4, <1>5, <1>6 DEF Next, CardStep

LEMMA TypeInvariance == ASSUME IsFiniteSet(Cards) PROVE Spec => []TypeInv
<1>1. Init => TypeInv
  <2> SUFFICES ASSUME Init PROVE TypeInv OBVIOUS
  <2>1. MaxProbes \in Nat /\ -1 \in -1 .. MaxProbes - 1 BY LifecycleAssumption
  <2>2. Orderly(<< >>) BY DEF Orderly
  <2>3. CardTypes BY <2>1, <2>2 DEF Init, CardTypes, Results
  <2>4. ModuleTypes BY LifecycleAssumption DEF Init, ModuleTypes, Idle
  <2>5. Undrawn = {} BY DEF Init, Undrawn
  <2>6. CountInv BY <2>1, <2>5, FS_EmptySet DEF Init, CountInv
  <2> QED BY <2>3, <2>4, <2>6 DEF TypeInv
<1>2. TypeInv /\ [Next]_vars => TypeInv'
  <2> SUFFICES ASSUME TypeInv, [Next]_vars PROVE TypeInv' OBVIOUS
  <2>1. CASE ModuleInit \/ ModuleExit \/ ModuleGone BY <2>1, ModuleTypesKept
  <2>2. CASE \E c \in Cards : CardStep(c) BY <2>2, CardTypesKept DEF CardStep
  <2>3. CASE Unconcerned /\ (UNCHANGED queue_mode \/ queue_mode' \in Modes)
    <3>1. queue_mode' \in {0, 1} BY <2>3, LifecycleAssumption DEF TypeInv, ModuleTypes
    <3> QED BY <2>3, <3>1, TypeFrame DEF Unconcerned
  <2> QED BY <2>1, <2>2, <2>3, LifeSteps
<1> QED BY <1>1, <1>2, PTL DEF Spec

\* Every variable stays in its domain: in particular fpgagpu_minor_counter is
\* never ahead of the probes, since each draws at most one number.
THEOREM TypeCorrect == ASSUME IsFiniteSet(Cards) PROVE Spec => []TypeOK
<1>1. TypeInv /\ ContextTypes => TypeOK
  <2> SUFFICES ASSUME TypeInv, ContextTypes PROVE TypeOK OBVIOUS
  <2>1. /\ module \subseteq {"chrdev", "class", "driver"} /\ exiting \in BOOLEAN /\ queue_mode \in {0, 1}
    BY DEF TypeInv, ModuleTypes
  <2>2. counter \in 0 .. MaxProbes /\ probes \in 0 .. MaxProbes
    <3>1. Undrawn \subseteq Cards BY DEF Undrawn
    <3>2. Cardinality(Undrawn) \in Nat BY <3>1, FS_Subset, FS_CardinalityType
    <3> QED BY <3>2, LifecycleAssumption DEF TypeInv, CountInv
  <2>3. /\ at \in [Cards -> 0 .. Len(Steps)] /\ held \in [Cards -> SUBSET Resources]
        /\ minor \in [Cards -> -1 .. MaxProbes - 1] /\ misfreed \subseteq Resources
        /\ result \in [Cards -> {"none", "ok", "failed", "ENOSPC"}]
    BY StepsAre DEF TypeInv, CardTypes, Results
  <2>4. \A c \in Cards : \A i \in DOMAIN todo[c] : todo[c][i] \in Resources
    BY DEF TypeInv, CardTypes
  <2>5. /\ ctx \in [Files -> Ctx] /\ ctx_list \in [Cards -> SUBSET Files]
        /\ ctx_lock \in [Cards -> SUBSET (Files \cup {"irq"})] /\ irq \in [Cards -> Irq]
        /\ seen \in [Files -> SUBSET Files]
    BY DEF ContextTypes
  <2> QED BY <2>1, <2>2, <2>3, <2>4, <2>5 DEF TypeOK, Ctx, FilePlaces, Irq
<1> QED BY <1>1, TypeInvariance, ContextTypesInvariance, PTL

-----------------------------------------------------------------------------
(* Where a card is in its life, whatever gotos its probe takes *)

Shown == {"cdev", "node"}

LifeOf(c) ==
  /\ at[c] # 0 => /\ todo[c] = << >> /\ result[c] # "ok" /\ Below(at[c]) \subseteq held[c]
                  /\ held[c] \cap Shown = Below(at[c]) \cap Shown
  /\ result[c] = "ok" => at[c] = 0 /\ todo[c] = << >> /\ held[c] = Resources
  /\ at[c] = 0 /\ result[c] # "ok" => held[c] \cap Shown \subseteq Names(todo[c])

LifeInv == \A c \in Cards : LifeOf(c)

\* A step of one card leaves the others alone.
LEMMA CardFrame ==
  ASSUME TypeInv, NEW c \in Cards, CardStep(c)
  PROVE  /\ UNCHANGED <<module, exiting, queue_mode, ctx, irq>>
         /\ \A d \in Cards \ {c} : /\ at'[d] = at[d] /\ todo'[d] = todo[d] /\ held'[d] = held[d]
                                   /\ minor'[d] = minor[d] /\ result'[d] = result[d]
<1>1. UNCHANGED <<module, exiting, queue_mode, ctx, irq>>
  BY DEF CardStep, Probe, Acquire, AcquireFails, TakeMinor, Release, Remove, contexts
<1>2. /\ at \in [Cards -> 0 .. 12] /\ held \in [Cards -> SUBSET Resources]
      /\ minor \in [Cards -> -1 .. MaxProbes - 1] /\ result \in [Cards -> Results]
      /\ todo \in [Cards -> Seq(Resources)]
  BY DEF TypeInv, CardTypes
<1>3. CASE Probe(c) BY <1>1, <1>2, <1>3 DEF Probe
<1>4. CASE Acquire(c) BY <1>1, <1>2, <1>4 DEF Acquire
<1>5. CASE AcquireFails(c) BY <1>1, <1>2, <1>5 DEF AcquireFails, Abandon
<1>6. CASE TakeMinor(c) BY <1>1, <1>2, <1>6 DEF TakeMinor, Abandon
<1>7. CASE Release(c) BY <1>1, <1>2, <1>7 DEF Release
<1>8. CASE Remove(c) BY <1>1, <1>2, <1>8 DEF Remove
<1> QED BY <1>1, <1>3, <1>4, <1>5, <1>6, <1>7, <1>8 DEF CardStep

\* A probe that fails where the label is irrelevant: it has shown nothing yet,
\* or only the cdev, which err_cdev deletes.
LEMMA AbandonShown ==
  ASSUME NEW k \in 1 .. 12
  PROVE  Below(k) \cap Shown \subseteq Names(Unwind(Steps[k]))
<1>1. CASE k = 12
  <2>1. Steps[k] \notin {"vectors", "irq", "cdev"} BY <1>1, StepsAre
  <2> QED BY <2>1, UnwindOrderly
<1>2. CASE k # 12
  <2>1. "node" \notin Below(k) /\ "cdev" \notin Below(k) BY <1>2, BelowNext
  <2> QED BY <2>1 DEF Shown
<1> QED BY <1>1, <1>2

\* What each step of a card does to it.
ProbeEffect(c) ==
  /\ at[c] = 0 /\ todo[c] = << >> /\ result[c] # "ok" 
  /\ at'[c] = 1 /\ result'[c] = "none"
  /\ todo'[c] = todo[c] /\ held'[c] = held[c] /\ minor'[c] = minor[c]
  /\ UNCHANGED <<counter, misfreed>>

AcquireEffect(c) ==
  /\ at[c] \in 1 .. 12 /\ at[c] # 7
  /\ held'[c] = held[c] \cup {Steps[at[c]]}
  /\ \/ at[c] < 12 /\ at'[c] = at[c] + 1 /\ result'[c] = result[c]
     \/ at[c] = 12 /\ at'[c] = 0 /\ result'[c] = "ok"
  /\ todo'[c] = todo[c] /\ minor'[c] = minor[c]
  /\ UNCHANGED <<counter, misfreed>>

AbandonEffect(c) ==
  /\ at[c] \in 1 .. 12 /\ Steps[at[c]] \in MayFail \cup {"minor"}
  /\ at'[c] = 0 /\ todo'[c] = Unwind(Steps[at[c]]) /\ result'[c] # "ok"
  /\ held'[c] = held[c]
  /\ counter' \in {counter, counter + 1}
  /\ UNCHANGED misfreed

MinorEffect(c) ==
  /\ at[c] = 7 /\ at'[c] = 8 /\ held'[c] = held[c] /\ todo'[c] = todo[c] /\ result'[c] = result[c]
  /\ counter < MAX_fpgagpu_DEVICES /\ counter' = counter + 1 /\ minor'[c] = counter
  /\ UNCHANGED misfreed

ReleaseEffect(c) ==
  /\ todo[c] # << >> /\ todo'[c] = Tail(todo[c]) /\ held'[c] = held[c] \ {todo[c][1]}
  /\ at'[c] = at[c] /\ result'[c] = result[c]
  /\ todo[c][1] = "irq" => irq[c].pc = "idle"
  /\ todo[c][1] # "dev" => minor'[c] = minor[c]
  /\ todo[c][1] \in held[c] \cup Guarded => misfreed' = misfreed
  /\ UNCHANGED counter

RemoveEffect(c) ==
  /\ at[c] = 0 /\ todo[c] = << >> /\ result[c] = "ok" /\ (Unplug \/ Users(c) = {})
  /\ todo'[c] = Removal /\ result'[c] = "none"
  /\ at'[c] = at[c] /\ held'[c] = held[c] /\ minor'[c] = minor[c]
  /\ UNCHANGED <<counter, misfreed>>

LEMMA CardEffects ==
  ASSUME TypeInv, NEW c \in Cards, CardStep(c)
  PROVE  \/ ProbeEffect(c) \/ AcquireEffect(c) \/ AbandonEffect(c) \/ MinorEffect(c)
         \/ ReleaseEffect(c) \/ RemoveEffect(c)
<1>1. /\ at \in [Cards -> 0 .. 12] /\ held \in [Cards -> SUBSET Resources]
      /\ minor \in [Cards -> -1 .. MaxProbes - 1] /\ result \in [Cards -> Results]
      /\ todo \in [Cards -> Seq(Resources)] /\ at[c] \in 0 .. 12
  BY DEF TypeInv, CardTypes
<1>2. CASE Probe(c) BY <1>1, <1>2 DEF Probe, Idle, ProbeEffect
<1>3. CASE Acquire(c)
  <2>1. at[c] \in 1 .. 12 /\ at[c] # 7 BY <1>1, <1>3, StepsAre DEF Acquire
  <2> QED BY <1>1, <1>3, <2>1, StepsAre DEF Acquire, AcquireEffect
<1>4. CASE AcquireFails(c)
  <2>1. at[c] \in 1 .. 12 BY <1>1, <1>4 DEF AcquireFails
  <2> QED BY <1>1, <1>4, <2>1 DEF AcquireFails, Abandon, AbandonEffect
<1>5. CASE TakeMinor(c)
  <2>1. at[c] = 7
    <3>1. \A i \in 1 .. 12 : i \in {1, 2, 3, 4, 5, 6, 7, 8, 9, 10, 11, 12} OBVIOUS
    <3> QED BY <1>1, <1>5, <3>1, StepsAre DEF TakeMinor
  <2>2. CASE counter < MAX_fpgagpu_DEVICES /\ at' = [at EXCEPT ![c] = at[c] + 1] /\ UNCHANGED <<todo, result>>
    <3>1. at'[c] = 8 BY <1>1, <2>1, <2>2
    <3> QED BY <1>1, <1>5, <2>1, <2>2, <3>1 DEF TakeMinor, MinorEffect
  <2>3. CASE Abandon(c, "ENOSPC") BY <1>1, <1>5, <2>1, <2>3 DEF TakeMinor, Abandon, AbandonEffect
  <2> QED BY <1>5, <2>2, <2>3 DEF TakeMinor
<1>6. CASE Release(c)
  <2> DEFINE r == todo[c][1]
  <2>1. /\ todo[c] # << >> /\ todo' = [todo EXCEPT ![c] = Tail(todo[c])]
        /\ held' = [held EXCEPT ![c] = held[c] \ {r}]
        /\ minor' = IF r = "dev" THEN [minor EXCEPT ![c] = -1] ELSE minor
        /\ misfreed' = IF r \in held[c] \cup Guarded THEN misfreed ELSE misfreed \cup {r}
        /\ r = "irq" => irq[c].pc = "idle"
        /\ UNCHANGED <<counter, at, result>>
    BY <1>6 DEF Release
  <2>2. r # "dev" => minor' = minor BY <2>1
  <2>3. r \in held[c] \cup Guarded => misfreed' = misfreed BY <2>1
  <2>4. todo'[c] = Tail(todo[c]) /\ held'[c] = held[c] \ {r} BY <1>1, <2>1
  <2> QED BY <2>1, <2>2, <2>3, <2>4 DEF ReleaseEffect
<1>7. CASE Remove(c) BY <1>1, <1>7 DEF Remove, Bound, Idle, RemoveEffect
<1> QED BY <1>2, <1>3, <1>4, <1>5, <1>6, <1>7 DEF CardStep

LEMMA LifeKept ==
  ASSUME TypeInv, LifeInv, NEW c \in Cards, CardStep(c)
  PROVE  LifeInv'
<1>1. \A d \in Cards \ {c} : LifeOf(d)'
  BY CardFrame DEF LifeInv, LifeOf
<1>2. /\ LifeOf(c) /\ Orderly(todo[c]) /\ held[c] \subseteq Resources /\ held'[c] \subseteq Resources
  <2>1. held \in [Cards -> SUBSET Resources] /\ Orderly(todo[c]) BY DEF TypeInv, CardTypes
  <2>2. held[c] \subseteq Resources BY <2>1
  <2>3. \A k \in 1 .. 12 : k # 7 => Steps[k] \in Resources
    <3>1. \A k \in 1 .. 12 : k \in {1, 2, 3, 4, 5, 6, 7, 8, 9, 10, 11, 12} OBVIOUS
    <3> QED BY <3>1, StepsAre, ResourcesAre
  <2>4. held'[c] \subseteq held[c] \cup Resources
    BY <2>3, CardEffects DEF ProbeEffect, AcquireEffect, AbandonEffect, MinorEffect, ReleaseEffect, RemoveEffect
  <2> QED BY <2>1, <2>2, <2>4 DEF LifeInv
<1>3. Names(<< >>) = {} BY DEF Names
<1>4. CASE ProbeEffect(c)
  <2>1. held[c] \cap Shown = {} BY <1>2, <1>3, <1>4 DEF LifeOf, ProbeEffect
  <2>2. at'[c] = 1 /\ todo'[c] = << >> /\ result'[c] = "none" /\ held'[c] = held[c] BY <1>4 DEF ProbeEffect
  <2> QED BY <1>1, <2>1, <2>2, BelowEnds DEF LifeOf, LifeInv
<1>5. CASE AcquireEffect(c)
  <2> DEFINE k == at[c]
  <2>1. /\ k \in 1 .. 12 /\ k # 7 /\ k # 0 /\ held'[c] = held[c] \cup {Steps[k]} /\ todo'[c] = todo[c]
    BY <1>5 DEF AcquireEffect
  <2>2. Steps[k] # "minor"
    <3>1. \A i \in 1 .. 12 : i \in {1, 2, 3, 4, 5, 6, 7, 8, 9, 10, 11, 12} OBVIOUS
    <3> QED BY <2>1, <3>1, StepsAre
  <2>3. todo[c] = << >> /\ result[c] # "ok" /\ Below(k) \subseteq held[c] /\ held[c] \cap Shown = Below(k) \cap Shown
    BY <1>2, <2>1 DEF LifeOf
  <2>4. Below(k + 1) = Below(k) \cup {Steps[k]} BY <2>1, <2>2, BelowNext DEF Below
  <2>5. CASE k < 12 /\ at'[c] = k + 1 /\ result'[c] = result[c]
    <3>1. at'[c] # 0 BY <2>1, <2>5
    <3> QED BY <1>1, <2>1, <2>3, <2>4, <2>5, <3>1 DEF LifeOf, LifeInv
  <2>6. CASE k = 12 /\ at'[c] = 0 /\ result'[c] = "ok"
    <3>1. Below(k + 1) = Resources BY <2>6, BelowEnds
    <3>2. held'[c] = Resources BY <1>2, <2>1, <2>3, <2>4, <3>1
    <3> QED BY <1>1, <2>1, <2>3, <2>6, <3>2 DEF LifeOf, LifeInv
  <2> QED BY <1>5, <2>5, <2>6 DEF AcquireEffect
<1>6. CASE AbandonEffect(c)
  <2>1. /\ at[c] \in 1 .. 12 /\ at[c] # 0 /\ at'[c] = 0 /\ todo'[c] = Unwind(Steps[at[c]])
        /\ result'[c] # "ok" /\ held'[c] = held[c]
    BY <1>6 DEF AbandonEffect
  <2>2. held[c] \cap Shown \subseteq Names(todo'[c]) BY <1>2, <2>1, AbandonShown DEF LifeOf
  <2> QED BY <1>1, <2>1, <2>2 DEF LifeOf, LifeInv
<1>7. CASE MinorEffect(c)
  <2>1. at[c] = 7 /\ at'[c] = 8 /\ held'[c] = held[c] /\ todo'[c] = todo[c] /\ result'[c] = result[c]
    BY <1>7 DEF MinorEffect
  <2>2. Below(8) = Below(7)
    <3>1. 7 \in 1 .. 12 /\ 7 + 1 = 8 OBVIOUS
    <3>2. Below(8) = (Below(7) \cup {Steps[7]}) \ {"minor"} BY <3>1, BelowNext
    <3> QED BY <3>2, StepsAre DEF Below
  <2> QED BY <1>1, <1>2, <2>1, <2>2 DEF LifeOf, LifeInv
<1>8. CASE ReleaseEffect(c)
  <2>1. /\ todo[c] # << >> /\ todo'[c] = Tail(todo[c]) /\ held'[c] = held[c] \ {todo[c][1]}
        /\ at'[c] = at[c] /\ result'[c] = result[c]
    BY <1>8 DEF ReleaseEffect
  <2>2. at[c] = 0 /\ result[c] # "ok" /\ held[c] \cap Shown \subseteq Names(todo[c]) BY <1>2, <2>1 DEF LifeOf
  <2>3. Names(todo'[c]) = Names(todo[c]) \ {todo[c][1]} BY <1>2, <2>1, TailOrderly
  <2> QED BY <1>1, <2>1, <2>2, <2>3 DEF LifeOf, LifeInv
<1>9. CASE RemoveEffect(c)
  <2>1. at'[c] = 0 /\ todo'[c] = Removal /\ result'[c] = "none" /\ held'[c] = held[c]
    BY <1>9 DEF RemoveEffect
  <2> QED BY <1>1, <1>2, <2>1, RemovalOrderly DEF LifeOf, LifeInv
<1> QED BY <1>4, <1>5, <1>6, <1>7, <1>8, <1>9, CardEffects

LEMMA ModuleLeavesCards ==
  ASSUME ModuleInit \/ ModuleExit \/ ModuleGone
  PROVE  UNCHANGED <<at, todo, held, minor, result, misfreed, ctx, irq>>
BY DEF ModuleInit, ModuleExit, ModuleGone, card, contexts

LEMMA LifeInvariance == ASSUME IsFiniteSet(Cards) PROVE Spec => []LifeInv
<1>1. Init => LifeInv
  <2> SUFFICES ASSUME Init, NEW c \in Cards PROVE LifeOf(c) BY DEF LifeInv
  <2>1. at[c] = 0 /\ result[c] = "none" /\ held[c] = {} BY DEF Init
  <2> QED BY <2>1 DEF LifeOf
<1>2. TypeInv /\ LifeInv /\ [Next]_vars => LifeInv'
  <2> SUFFICES ASSUME TypeInv, LifeInv, [Next]_vars PROVE LifeInv' OBVIOUS
  <2>1. CASE \E c \in Cards : CardStep(c) BY <2>1, LifeKept
  <2>2. CASE UNCHANGED <<at, todo, held, result>> BY <2>2 DEF LifeInv, LifeOf
  <2> QED BY <2>1, <2>2, LifeSteps, ModuleLeavesCards DEF Unconcerned
<1> QED BY <1>1, <1>2, TypeInvariance, PTL DEF Spec

\* class_destroy and unregister_chrdev_region come after the last device node
\* and the last cdev are gone, and no probe makes one before they are there:
\* also when probes fail, with the right label or a wrong one.
THEOREM NodesInsideClass == ASSUME IsFiniteSet(Cards) PROVE Spec => []NodesHaveClass
<1>1. TypeInv /\ LifeInv => NodesHaveClass
  <2> SUFFICES ASSUME TypeInv, LifeInv, NEW c \in Cards, held[c] \cap {"cdev", "node"} # {}
               PROVE  {"chrdev", "class"} \subseteq module
    BY DEF NodesHaveClass
  <2>1. Names(<< >>) = {} BY DEF Names
  <2>2. at[c] # 0 \/ todo[c] # << >> \/ result[c] = "ok" BY <2>1 DEF LifeInv, LifeOf, Shown
  <2>3. module # {} BY <2>2 DEF TypeInv, ModuleTypes, Idle
  <2> QED BY <2>3 DEF TypeInv, ModuleTypes
<1> QED BY <1>1, TypeInvariance, LifeInvariance, PTL

-----------------------------------------------------------------------------
(* Files *)

UseInv == \A f \in Files : ctx[f].dev \in Cards => result[ctx[f].dev] = "ok"

\* open is reached only through a node that is there, so on a card that is bound.
LEMMA OpenFindsBound ==
  ASSUME LifeInv, NEW c \in Cards, "node" \in held[c], todo[c] = << >>, at[c] \in 0 .. 12
  PROVE  result[c] = "ok"
<1>1. Names(<< >>) = {} BY DEF Names
<1>2. at[c] # 0 => at[c] \in 1 .. 12 OBVIOUS
<1>3. at[c] # 0 => "node" \notin Below(at[c]) BY <1>2, BelowNext
<1> QED BY <1>1, <1>3 DEF LifeInv, LifeOf, Shown

\* Where a file's context comes from.
LEMMA DevOnlyByOpen ==
  ASSUME ContextTypes, [Next]_vars, NEW f \in Files
  PROVE  \/ ctx'[f].dev = ctx[f].dev \/ ctx'[f].dev = "none"
         \/ \E c \in Cards : Open(f, c) /\ ctx'[f].dev = c
<1>1. ctx \in [Files -> Ctx] BY DEF ContextTypes
<1>2. CASE UNCHANGED ctx \/ \E c \in Cards : Acquire(c) BY <1>2 DEF Acquire
<1>3. CASE \E c \in Cards : Interrupt(c) \/ HandlerStep(c)
  BY <1>3 DEF Interrupt, HandlerStep, WakeDevice, LockList, WakeContext, EndWalk, Interrupting
<1>4. ASSUME NEW g \in Files, NEW from, NEW to, At(g, from, to)
      PROVE  ctx'[f].dev = ctx[f].dev
  <2>1. ctx' = [ctx EXCEPT ![g] = [dev |-> ctx[g].dev, pc |-> to]] BY <1>4, AtMoves DEF Moves
  <2> QED BY <1>1, <2>1
<1>5. ASSUME NEW g \in Files, NEW c \in Cards, Open(g, c)
      PROVE  ctx'[f].dev = ctx[f].dev \/ (Open(f, c) /\ ctx'[f].dev = c)
  <2>1. ctx' = [ctx EXCEPT ![g] = [dev |-> c, pc |-> "lock_add"]] BY <1>5 DEF Open
  <2>2. CASE f = g BY <1>1, <1>5, <2>1, <2>2
  <2>3. CASE f # g BY <1>1, <2>1, <2>3
  <2> QED BY <2>2, <2>3
<1>6. ASSUME NEW g \in Files, FreeContext(g)
      PROVE  ctx'[f].dev = ctx[f].dev \/ ctx'[f].dev = "none"
  <2>1. ctx' = [ctx EXCEPT ![g] = NoContext] /\ NoContext.dev = "none" BY <1>6 DEF FreeContext, NoContext
  <2> QED BY <1>1, <2>1
<1>7. ASSUME NEW g \in Files, Close(g) \/ LockContexts(g) \/ ReadList(g) \/ AddContext(g) \/ DelContext(g)
      PROVE  ctx'[f].dev = ctx[f].dev
  BY <1>4, <1>7 DEF Close, LockContexts, ReadList, AddContext, DelContext
<1>8. CASE \E g \in Files : Close(g) \/ FileStep(g) \/ \E c \in Cards : Open(g, c)
  BY <1>5, <1>6, <1>7, <1>8 DEF FileStep
<1> QED BY <1>2, <1>3, <1>8, StepCases

LEMMA UseInvariance == ASSUME IsFiniteSet(Cards), Unplug = FALSE PROVE Spec => []UseInv
<1>1. Init => UseInv
  BY LifecycleAssumption DEF Init, UseInv, NoContext
<1>2. TypeInv /\ LifeInv /\ ContextTypes /\ UseInv /\ [Next]_vars => UseInv'
  <2> SUFFICES ASSUME TypeInv, LifeInv, ContextTypes, UseInv, [Next]_vars,
                      NEW f \in Files, ctx'[f].dev \in Cards
               PROVE  result'[ctx'[f].dev] = "ok"
    BY DEF UseInv
  <2>1. ASSUME NEW c \in Cards, Open(f, c), ctx'[f].dev = c
        PROVE  result'[ctx'[f].dev] = "ok"
    <3>1. "node" \in held[c] /\ todo[c] = << >> /\ UNCHANGED result BY <2>1 DEF Open, card
    <3>2. at[c] \in 0 .. 12 BY DEF TypeInv, CardTypes
    <3> QED BY <2>1, <3>1, <3>2, OpenFindsBound
  <2>2. CASE ctx'[f].dev = ctx[f].dev
    <3> DEFINE d == ctx[f].dev
    <3>1. d \in Cards /\ result[d] = "ok" BY <2>2 DEF UseInv
    <3>2. Users(d) # {} BY <3>1 DEF Users
    <3> HIDE DEF d
    <3>3. at[d] = 0 /\ todo[d] = << >> BY <3>1 DEF LifeInv, LifeOf
    <3>4. ASSUME NEW c \in Cards, CardStep(c) PROVE result'[d] = "ok"
      <4>1. CASE c # d BY <3>1, <3>4, <4>1, CardFrame
      <4>2. CASE c = d
        <5>1. ~ProbeEffect(d) BY <3>1 DEF ProbeEffect
        <5>2. ~AcquireEffect(d) /\ ~AbandonEffect(d) /\ ~MinorEffect(d)
          BY <3>3 DEF AcquireEffect, AbandonEffect, MinorEffect
        <5>3. ~RemoveEffect(d) BY <3>2 DEF RemoveEffect
        <5>4. ReleaseEffect(d) => result'[d] = "ok" BY <3>1 DEF ReleaseEffect
        <5> QED BY <3>4, <4>2, <5>1, <5>2, <5>3, <5>4, CardEffects
      <4> QED BY <4>1, <4>2
    <3>5. UNCHANGED result => result'[d] = "ok" BY <3>1
    <3>6. result'[d] = "ok" BY <3>4, <3>5, LifeSteps, ModuleLeavesCards DEF Unconcerned
    <3> QED BY <2>2, <3>6 DEF d
  <2>3. ctx'[f].dev # "none" BY LifecycleAssumption
  <2> QED BY <2>1, <2>2, <2>3, DevOnlyByOpen
<1> QED BY <1>1, <1>2, TypeInvariance, LifeInvariance, ContextTypesInvariance, PTL DEF Spec

\* As long as cards do not go under open files, a file that is open, being
\* opened or being closed has a device with everything probe has acquired: the
\* node is made last and no removal begins before the last release.
THEOREM OpenFilesAreUsable ==
  ASSUME IsFiniteSet(Cards), Unplug = FALSE
  PROVE  Spec => []FilesAreUsable
<1>1. UseInv /\ LifeInv => FilesAreUsable
  <2> SUFFICES ASSUME UseInv, LifeInv, NEW c \in Cards, Users(c) # {}
               PROVE  {"dev", "bar0", "bar1", "desc", "pages", "irq"} \subseteq held[c]
    BY DEF FilesAreUsable
  <2>1. PICK f \in Files : ctx[f].dev = c BY DEF Users
  <2>2. held[c] = Resources BY <2>1 DEF UseInv, LifeInv, LifeOf
  <2> QED BY <2>2, ResourcesAre
<1> QED BY <1>1, UseInvariance, LifeInvariance, PTL

-----------------------------------------------------------------------------
(* Device numbers *)

\* Cards that have their number: from the draw until the cdev is deleted.
Numbered(c) == at[c] > 7 \/ "cdev" \in held[c]

MinorInv ==
  /\ \A c \in Cards : Numbered(c) => minor[c] \in 0 .. counter - 1 /\ minor[c] < MAX_fpgagpu_DEVICES
  /\ \A c, d \in Cards : Numbered(c) /\ Numbered(d) /\ minor[c] = minor[d] => c = d

\* A card that keeps its number, or has none.
LEMMA NumberKept ==
  ASSUME MinorInv, NEW c \in Cards, counter \in Nat, counter' \in {counter, counter + 1},
         \A d \in Cards \ {c} : /\ Numbered(d)' = Numbered(d) /\ minor'[d] = minor[d],
         Numbered(c)' => Numbered(c) /\ minor'[c] = minor[c]
  PROVE  MinorInv'
<1>1. \A d \in Cards : Numbered(d)' => Numbered(d) /\ minor'[d] = minor[d] OBVIOUS
<1>2. \A n \in 0 .. counter - 1 : n \in 0 .. counter' - 1
  <2>1. CASE counter' = counter BY <2>1
  <2>2. CASE counter' = counter + 1 BY <2>2
  <2> QED BY <2>1, <2>2
<1> QED BY <1>1, <1>2 DEF MinorInv

LEMMA MinorsKept ==
  ASSUME TypeInv, LifeInv, MinorInv, NEW c \in Cards, CardStep(c)
  PROVE  MinorInv'
<1>1. /\ counter \in Nat /\ MAX_fpgagpu_DEVICES \in Nat /\ at[c] \in 0 .. 12 /\ Orderly(todo[c])
      /\ minor \in [Cards -> -1 .. MaxProbes - 1]
  BY LifecycleAssumption DEF TypeInv, CountInv, CardTypes
<1>2. \A d \in Cards \ {c} : Numbered(d)' = Numbered(d) /\ minor'[d] = minor[d]
  BY CardFrame DEF Numbered
<1>3. LifeOf(c) BY DEF LifeInv
<1>4. Names(<< >>) = {} BY DEF Names
<1>5. CASE ProbeEffect(c)
  <2>1. "cdev" \notin held[c] BY <1>3, <1>4, <1>5 DEF LifeOf, ProbeEffect, Shown
  <2>2. ~(Numbered(c)') BY <1>5, <2>1 DEF ProbeEffect, Numbered
  <2>3. counter' = counter BY <1>5 DEF ProbeEffect
  <2> QED BY <1>1, <1>2, <2>2, <2>3, NumberKept
<1>6. CASE AcquireEffect(c)
  <2>1. /\ at[c] \in 1 .. 12 /\ at[c] # 7 /\ held'[c] = held[c] \cup {Steps[at[c]]}
        /\ at'[c] = at[c] + 1 \/ at[c] = 12
        /\ minor'[c] = minor[c] /\ counter' = counter
    BY <1>6 DEF AcquireEffect
  <2>2. Numbered(c)' => Numbered(c)
    <3>1. CASE at[c] > 7 BY <3>1 DEF Numbered
    <3>2. CASE ~(at[c] > 7)
      <4>1. at[c] \in {1, 2, 3, 4, 5, 6} /\ at'[c] = at[c] + 1 BY <2>1, <3>2
      <4>2. Steps[at[c]] # "cdev" /\ ~(at'[c] > 7) BY <4>1, StepsAre
      <4> QED BY <2>1, <4>2 DEF Numbered
    <3> QED BY <3>1, <3>2
  <2> QED BY <1>1, <1>2, <2>1, <2>2, NumberKept
<1>7. CASE AbandonEffect(c)
  <2>1. at[c] \in 1 .. 12 /\ at'[c] = 0 /\ held'[c] = held[c] /\ counter' \in {counter, counter + 1}
    BY <1>7 DEF AbandonEffect
  <2>2. CASE "cdev" \notin held[c]
    <3>1. ~(Numbered(c)') BY <2>1, <2>2 DEF Numbered
    <3> QED BY <1>1, <1>2, <2>1, <3>1, NumberKept
  <2>3. CASE "cdev" \in held[c]
    <3>1. "cdev" \in Below(at[c]) BY <1>3, <2>1, <2>3 DEF LifeOf, Shown
    <3>2. at[c] = 12 BY <2>1, <3>1, BelowNext
    <3>3. minor'[c] = minor[c]
      <4>1. ~TakeMinor(c) BY <3>2, StepsAre DEF TakeMinor
      <4>2. Probe(c) \/ Acquire(c) \/ AcquireFails(c) \/ Remove(c) => minor' = minor
        BY DEF Probe, Acquire, AcquireFails, Remove
      <4>3. ~Release(c) BY <1>3, <2>1 DEF Release, LifeOf
      <4> QED BY <4>1, <4>2, <4>3 DEF CardStep
    <3>4. Numbered(c) BY <2>3 DEF Numbered
    <3> QED BY <1>1, <1>2, <2>1, <3>3, <3>4, NumberKept
  <2> QED BY <2>2, <2>3
<1>8. CASE MinorEffect(c)
  <2>1. counter < MAX_fpgagpu_DEVICES /\ counter' = counter + 1 /\ minor'[c] = counter BY <1>8 DEF MinorEffect
  <2>2. ASSUME NEW d \in Cards, Numbered(d)'
        PROVE  /\ minor'[d] \in 0 .. counter' - 1 /\ minor'[d] < MAX_fpgagpu_DEVICES
               /\ d # c => minor'[d] < counter /\ Numbered(d) /\ minor'[d] = minor[d]
    <3>1. CASE d = c BY <1>1, <2>1, <3>1
    <3>2. CASE d # c
      <4>1. Numbered(d) /\ minor'[d] = minor[d] BY <1>2, <2>2, <3>2
      <4>2. minor[d] \in 0 .. counter - 1 /\ minor[d] < MAX_fpgagpu_DEVICES BY <4>1 DEF MinorInv
      <4> QED BY <1>1, <2>1, <4>1, <4>2
    <3> QED BY <3>1, <3>2
  <2>3. ASSUME NEW d \in Cards, NEW e \in Cards, Numbered(d)', Numbered(e)', minor'[d] = minor'[e]
        PROVE  d = e
    <3>1. CASE d = c \/ e = c BY <1>1, <2>1, <2>2, <2>3, <3>1
    <3>2. CASE d # c /\ e # c BY <2>2, <2>3, <3>2 DEF MinorInv
    <3> QED BY <3>1, <3>2
  <2> QED BY <2>2, <2>3 DEF MinorInv
<1>9. CASE ReleaseEffect(c)
  <2>1. /\ todo[c] # << >> /\ held'[c] = held[c] \ {todo[c][1]} /\ at'[c] = at[c] /\ counter' = counter
        /\ todo[c][1] # "dev" => minor'[c] = minor[c]
    BY <1>9 DEF ReleaseEffect
  <2>2. Numbered(c)' => Numbered(c) BY <2>1 DEF Numbered
  <2>3. todo[c][1] = "dev" => ~Numbered(c)
    <3>1. todo[c][1] = "dev" => "cdev" \notin Names(todo[c]) BY <1>1, <2>1, TailOrderly
    <3>2. at[c] = 0 /\ held[c] \cap Shown \subseteq Names(todo[c]) BY <1>3, <2>1 DEF LifeOf
    <3> QED BY <3>1, <3>2 DEF Numbered, Shown
  <2> QED BY <1>1, <1>2, <2>1, <2>2, <2>3, NumberKept
<1>10. CASE RemoveEffect(c)
  <2>1. at'[c] = at[c] /\ held'[c] = held[c] /\ minor'[c] = minor[c] /\ counter' = counter
    BY <1>10 DEF RemoveEffect
  <2>2. Numbered(c)' = Numbered(c) BY <2>1 DEF Numbered
  <2> QED BY <1>1, <1>2, <2>1, <2>2, NumberKept
<1> QED BY <1>5, <1>6, <1>7, <1>8, <1>9, <1>10, CardEffects

LEMMA MinorInvariance == ASSUME IsFiniteSet(Cards) PROVE Spec => []MinorInv
<1>1. Init => MinorInv
  <2> SUFFICES ASSUME Init PROVE MinorInv OBVIOUS
  <2>1. ASSUME NEW c \in Cards PROVE ~Numbered(c)
    <3>1. at[c] = 0 /\ held[c] = {} BY DEF Init
    <3>2. ~(at[c] > 7) BY <3>1
    <3>3. "cdev" \notin held[c] BY <3>1
    <3> QED BY <3>2, <3>3 DEF Numbered
  <2> QED BY <2>1 DEF MinorInv
<1>2. TypeInv /\ LifeInv /\ MinorInv /\ [Next]_vars => MinorInv'
  <2> SUFFICES ASSUME TypeInv, LifeInv, MinorInv, [Next]_vars PROVE MinorInv' OBVIOUS
  <2>1. CASE \E c \in Cards : CardStep(c) BY <2>1, MinorsKept
  <2>2. CASE UNCHANGED <<at, held, minor, counter>> BY <2>2 DEF MinorInv, Numbered
  <2>3. CASE ModuleInit
    <3>1. UNCHANGED <<at, held>> BY <2>3, ModuleLeavesCards
    <3>2. module = {} BY <2>3 DEF ModuleInit
    <3>3. ASSUME NEW c \in Cards PROVE ~Numbered(c)
      <4>1. at[c] = 0 /\ todo[c] = << >> /\ result[c] # "ok" BY <3>2 DEF TypeInv, ModuleTypes, Idle
      <4>2. Names(<< >>) = {} BY DEF Names
      <4>3. "cdev" \notin held[c] BY <4>1, <4>2 DEF LifeInv, LifeOf, Shown
      <4> QED BY <4>1, <4>3 DEF Numbered
    <3>4. \A c \in Cards : ~(Numbered(c)') BY <3>1, <3>3 DEF Numbered
    <3> QED BY <3>4 DEF MinorInv
  <2>4. CASE ModuleExit \/ ModuleGone
    BY <2>4, ModuleLeavesCards DEF ModuleExit, ModuleGone, MinorInv, Numbered
  <2> QED BY <2>1, <2>2, <2>3, <2>4, LifeSteps DEF Unconcerned
<1> QED BY <1>1, <1>2, TypeInvariance, LifeInvariance, PTL DEF Spec

\* Cards in use at the same time have different device numbers below
\* MAX_fpgagpu_DEVICES, however many probes ran, failed or ran side by side
\* before, and after the module was unloaded and its counter began again.
THEOREM MinorsAreDistinct == ASSUME IsFiniteSet(Cards) PROVE Spec => []MinorsDistinct
<1>1. TypeInv /\ MinorInv => MinorsDistinct
  <2> SUFFICES ASSUME TypeInv, MinorInv, NEW c \in Cards, NEW d \in Cards, "cdev" \in held[c]
               PROVE  /\ minor[c] \in 0 .. MAX_fpgagpu_DEVICES - 1
                      /\ "cdev" \in held[d] /\ minor[c] = minor[d] => c = d
    BY DEF MinorsDistinct
  <2>1. Numbered(c) /\ ("cdev" \in held[d] => Numbered(d)) BY DEF Numbered
  <2>2. minor[c] \in 0 .. counter - 1 /\ minor[c] < MAX_fpgagpu_DEVICES /\ counter \in Nat
    BY <2>1 DEF MinorInv, TypeInv, CountInv
  <2>3. minor[c] \in 0 .. MAX_fpgagpu_DEVICES - 1 BY <2>2, LifecycleAssumption
  <2> QED BY <2>1, <2>3 DEF MinorInv
<1> QED BY <1>1, TypeInvariance, MinorInvariance, PTL

-----------------------------------------------------------------------------
(* The right labels *)

\* The failures whose goto is right.
SoundLabels == MayFail \cap {"vectors", "irq", "cdev"} = {}

OwnedOf(c) ==
  /\ at[c] # 0 => held[c] = Below(at[c])
  /\ at[c] = 0 /\ result[c] # "ok" => /\ held[c] \subseteq Names(todo[c])
                                      /\ Names(todo[c]) \subseteq held[c] \cup Guarded
  /\ "irq" \in held[c] => "dev" \in held[c]
  /\ irq[c].pc # "idle" => "irq" \in held[c]

OwnedInv == (\A c \in Cards : OwnedOf(c)) /\ misfreed = {}

LEMMA OwnedKept ==
  ASSUME SoundLabels, TypeInv, LifeInv, OwnedInv, NEW c \in Cards, CardStep(c)
  PROVE  OwnedInv'
<1>1. \A d \in Cards \ {c} : OwnedOf(d)'
  BY CardFrame DEF OwnedInv, OwnedOf
<1>2. /\ LifeOf(c) /\ OwnedOf(c) /\ misfreed = {} /\ irq' = irq /\ Orderly(todo[c]) /\ at[c] \in 0 .. 12
  BY CardFrame DEF LifeInv, OwnedInv, TypeInv, CardTypes
<1>3. Names(<< >>) = {} BY DEF Names
<1>4. SUFFICES OwnedOf(c)' /\ misfreed' = misfreed
  BY <1>1, <1>2 DEF OwnedInv
<1>5. CASE ProbeEffect(c)
  <2>1. held[c] = {} BY <1>2, <1>3, <1>5 DEF OwnedOf, ProbeEffect
  <2>2. at'[c] = 1 /\ held'[c] = {} /\ misfreed' = misfreed BY <1>5, <2>1 DEF ProbeEffect
  <2> QED BY <1>2, <2>1, <2>2, BelowEnds DEF OwnedOf
<1>6. CASE AcquireEffect(c)
  <2> DEFINE k == at[c]
  <2>1. /\ k \in 1 .. 12 /\ k # 7 /\ k # 0 /\ held'[c] = held[c] \cup {Steps[k]} /\ misfreed' = misfreed
    BY <1>6 DEF AcquireEffect
  <2>2. Steps[k] # "minor" /\ (Steps[k] = "irq" => k > 4)
    <3>1. \A i \in 1 .. 12 : i \in {1, 2, 3, 4, 5, 6, 7, 8, 9, 10, 11, 12} OBVIOUS
    <3> QED BY <2>1, <3>1, StepsAre
  <2>3. held[c] = Below(k) BY <1>2, <2>1 DEF OwnedOf
  <2>4. Below(k + 1) = Below(k) \cup {Steps[k]} /\ (k > 4 => "dev" \in Below(k))
    BY <2>1, <2>2, BelowNext DEF Below
  <2>5. "irq" \in held'[c] => "dev" \in held'[c] BY <1>2, <2>1, <2>2, <2>3, <2>4 DEF OwnedOf
  <2>6. irq'[c].pc # "idle" => "irq" \in held'[c] BY <1>2, <2>1 DEF OwnedOf
  <2>7. CASE k < 12 /\ at'[c] = k + 1 /\ result'[c] = result[c]
    <3>1. at'[c] # 0 BY <2>1, <2>7
    <3> QED BY <2>1, <2>3, <2>4, <2>5, <2>6, <2>7, <3>1 DEF OwnedOf
  <2>8. CASE k = 12 /\ at'[c] = 0 /\ result'[c] = "ok"
    BY <2>1, <2>5, <2>6, <2>8 DEF OwnedOf
  <2> QED BY <1>6, <2>7, <2>8 DEF AcquireEffect
<1>7. CASE AbandonEffect(c)
  <2>1. /\ at[c] \in 1 .. 12 /\ at[c] # 0 /\ at'[c] = 0 /\ todo'[c] = Unwind(Steps[at[c]])
        /\ held'[c] = held[c] /\ misfreed' = misfreed
    BY <1>7 DEF AbandonEffect
  <2>2. Steps[at[c]] \notin {"vectors", "irq", "cdev"} BY <1>7 DEF AbandonEffect, SoundLabels
  <2>3. held[c] = Below(at[c]) BY <1>2, <2>1 DEF OwnedOf
  <2>4. held[c] \subseteq Names(todo'[c]) /\ Names(todo'[c]) \subseteq held[c] \cup Guarded
    BY <2>1, <2>2, <2>3, UnwindOrderly
  <2> QED BY <1>2, <2>1, <2>4 DEF OwnedOf
<1>8. CASE MinorEffect(c)
  <2>1. at[c] = 7 /\ at'[c] = 8 /\ held'[c] = held[c] /\ misfreed' = misfreed BY <1>8 DEF MinorEffect
  <2>2. Below(8) = Below(7)
    <3>1. 7 \in 1 .. 12 /\ 7 + 1 = 8 OBVIOUS
    <3>2. Below(8) = (Below(7) \cup {Steps[7]}) \ {"minor"} BY <3>1, BelowNext
    <3> QED BY <3>2, StepsAre DEF Below
  <2> QED BY <1>2, <2>1, <2>2 DEF OwnedOf
<1>9. CASE ReleaseEffect(c)
  <2> DEFINE r == todo[c][1]
  <2>1. /\ todo[c] # << >> /\ todo'[c] = Tail(todo[c]) /\ held'[c] = held[c] \ {r}
        /\ at'[c] = at[c] /\ result'[c] = result[c] /\ (r = "irq" => irq[c].pc = "idle")
        /\ r \in held[c] \cup Guarded => misfreed' = misfreed
    BY <1>9 DEF ReleaseEffect
  <2>2. at[c] = 0 /\ result[c] # "ok" BY <1>2, <2>1 DEF LifeOf
  <2>3. held[c] \subseteq Names(todo[c]) /\ Names(todo[c]) \subseteq held[c] \cup Guarded
    BY <1>2, <2>2 DEF OwnedOf
  <2>4. /\ Names(todo'[c]) = Names(todo[c]) \ {r} /\ r \in Names(todo[c])
        /\ r = "dev" => "irq" \notin Names(todo[c])
    BY <1>2, <2>1, TailOrderly
  <2> HIDE DEF r
  <2>5. misfreed' = misfreed BY <2>1, <2>3, <2>4
  <2>6. "irq" \in held'[c] => "dev" \in held'[c] BY <1>2, <2>1, <2>3, <2>4 DEF OwnedOf
  <2>7. irq'[c].pc # "idle" => "irq" \in held'[c] BY <1>2, <2>1 DEF OwnedOf
  <2>8. held'[c] \subseteq Names(todo'[c]) /\ Names(todo'[c]) \subseteq held'[c] \cup Guarded
    BY <2>1, <2>3, <2>4
  <2> QED BY <2>1, <2>2, <2>5, <2>6, <2>7, <2>8 DEF OwnedOf
<1>10. CASE RemoveEffect(c)
  <2>1. /\ at'[c] = 0 /\ todo'[c] = Removal /\ held'[c] = held[c] /\ misfreed' = misfreed
        /\ result[c] = "ok"
    BY <1>10 DEF RemoveEffect
  <2>2. held[c] = Resources BY <1>2, <2>1 DEF LifeOf
  <2> QED BY <1>2, <2>1, <2>2, RemovalOrderly, ResourcesAre DEF OwnedOf
<1> QED BY <1>5, <1>6, <1>7, <1>8, <1>9, <1>10, CardEffects

\* A handler starts only where it is registered.
LEMMA HandlerFrame ==
  ASSUME ContextTypes, NEW c \in Cards, Interrupt(c) \/ HandlerStep(c)
  PROVE  /\ \A d \in Cards \ {c} : irq'[d] = irq[d]
         /\ irq[c].pc # "idle" \/ "irq" \in held[c]
<1>1. irq \in [Cards -> Irq] BY DEF ContextTypes
<1>2. ASSUME NEW from, NEW to, NEW left, NEW over, Interrupting(c, from, to, left, over)
      PROVE  \A d \in Cards \ {c} : irq'[d] = irq[d]
  BY <1>1, <1>2 DEF Interrupting
<1>3. \A d \in Cards \ {c} : irq'[d] = irq[d]
  BY <1>2 DEF Interrupt, HandlerStep, WakeDevice, LockList, WakeContext, EndWalk
<1>4. irq[c].pc # "idle" \/ "irq" \in held[c]
  BY DEF Interrupt, HandlerStep, WakeDevice, LockList, WakeContext, EndWalk, Interrupting
<1> QED BY <1>3, <1>4

LEMMA OwnedInvariance == ASSUME IsFiniteSet(Cards), SoundLabels PROVE Spec => []OwnedInv
<1>1. Init => OwnedInv
  <2> SUFFICES ASSUME Init PROVE OwnedInv OBVIOUS
  <2>1. Names(<< >>) = {} BY DEF Names
  <2>2. ASSUME NEW c \in Cards PROVE OwnedOf(c)
    <3>1. at[c] = 0 /\ held[c] = {} /\ todo[c] = << >> /\ irq[c].pc = "idle" BY DEF Init, NoInterrupt
    <3> QED BY <2>1, <3>1 DEF OwnedOf
  <2>3. misfreed = {} BY DEF Init
  <2> QED BY <2>2, <2>3 DEF OwnedInv
<1>2. TypeInv /\ LifeInv /\ ContextTypes /\ OwnedInv /\ [Next]_vars => OwnedInv'
  <2> SUFFICES ASSUME TypeInv, LifeInv, ContextTypes, OwnedInv, [Next]_vars PROVE OwnedInv' OBVIOUS
  <2>1. CASE \E c \in Cards : CardStep(c) BY <2>1, OwnedKept
  <2>2. CASE UNCHANGED <<at, todo, held, result, misfreed, irq>> BY <2>2 DEF OwnedInv, OwnedOf
  <2>3. ASSUME NEW c \in Cards, Interrupt(c) \/ HandlerStep(c), Unconcerned
        PROVE  OwnedInv'
    <3>1. UNCHANGED <<at, todo, held, result, misfreed>> BY <2>3 DEF Unconcerned
    <3>2. "irq" \in held[c] BY <2>3, HandlerFrame DEF OwnedInv, OwnedOf
    <3>3. \A d \in Cards \ {c} : irq'[d] = irq[d] BY <2>3, HandlerFrame
    <3> QED BY <3>1, <3>2, <3>3 DEF OwnedInv, OwnedOf
  <2> QED BY <2>1, <2>2, <2>3, LifeSteps, ModuleLeavesCards DEF Unconcerned
<1> QED BY <1>1, <1>2, TypeInvariance, LifeInvariance, ContextTypesInvariance, PTL DEF Spec

\* A probe that fails at any acquisition but those three, and remove, leave
\* nothing of the card held.
THEOREM NothingIsLeaked == ASSUME IsFiniteSet(Cards), SoundLabels PROVE Spec => []NothingLeaked
<1>1. OwnedInv => NothingLeaked
  <2>1. Names(<< >>) = {} BY DEF Names
  <2> QED BY <2>1 DEF OwnedInv, OwnedOf, NothingLeaked, Idle
<1> QED BY <1>1, OwnedInvariance, PTL

\* The same labels, and remove, release only what is held.
THEOREM OnlyHeldIsReleased == ASSUME IsFiniteSet(Cards), SoundLabels PROVE Spec => []ReleasesOnlyHeld
<1>1. OwnedInv => ReleasesOnlyHeld BY DEF OwnedInv, ReleasesOnlyHeld
<1> QED BY <1>1, OwnedInvariance, PTL

\* free_irq comes before dev is freed, on every path, and waits for the
\* handler: a handler that is registered or running has its dev.
THEOREM HandlerHasItsDevice == ASSUME IsFiniteSet(Cards), SoundLabels PROVE Spec => []HandlerHasDevice
<1>1. OwnedInv => HandlerHasDevice BY DEF OwnedInv, OwnedOf, HandlerHasDevice
<1> QED BY <1>1, OwnedInvariance, PTL

-----------------------------------------------------------------------------
(* The list of contexts *)

Listed == {"open", "lock_del", "del", "unlink"}
Inside == {"add", "del", "link", "unlink"}

\* Who changes the list, or walks it, has the lock.
LockInv ==
  /\ \A f \in Files : ctx[f].pc \in Inside => ctx_lock[ctx[f].dev] = {f}
  /\ \A c \in Cards : irq[c].pc = "walk" => ctx_lock[c] = {"irq"}

\* What a list operation has read is still true.
SeenInv == \A f \in Files : ctx[f].pc \in {"link", "unlink"} => seen[f] = ctx_list[ctx[f].dev]

\* The list, file by file, and the part of it the handler has still to walk.
MemberInv == \A c \in Cards, f \in Files : f \in ctx_list[c] <=> ctx[f].dev = c /\ ctx[f].pc \in Listed
WalkInv   == \A c \in Cards : irq[c].pc = "walk" => irq[c].left \subseteq ctx_list[c]

ListInv == LockInv /\ SeenInv /\ MemberInv /\ WalkInv

\* A file is opened, or its release begins: the list is not concerned.
LEMMA OpenClose ==
  ASSUME ContextTypes, ListInv, NEW f \in Files, Close(f) \/ \E c \in Cards : Open(f, c)
  PROVE  ListInv'
<1>1. CASE Close(f)
  <2>1. At(f, "open", "lock_del") /\ UNCHANGED <<ctx_list, ctx_lock, seen>> BY <1>1 DEF Close
  <2>2. /\ ctx'[f].dev = ctx[f].dev /\ ctx'[f].pc = "lock_del" /\ ctx[f].pc = "open"
        /\ irq' = irq /\ \A g \in Files \ {f} : ctx'[g] = ctx[g]
    BY <2>1, MoveEffect DEF FilePlaces
  <2>3. LockInv' BY <2>1, <2>2 DEF ListInv, LockInv, Inside
  <2>4. SeenInv' BY <2>1, <2>2 DEF ListInv, SeenInv
  <2>5. MemberInv' BY <2>1, <2>2 DEF ListInv, MemberInv, Listed
  <2>6. WalkInv' BY <2>1, <2>2 DEF ListInv, WalkInv
  <2> QED BY <2>3, <2>4, <2>5, <2>6 DEF ListInv
<1>2. ASSUME NEW c \in Cards, Open(f, c)
      PROVE  ListInv'
  <2>1. /\ ctx'[f].dev = c /\ ctx'[f].pc = "lock_add" /\ ctx[f].pc = "closed" /\ ctx[f].dev = "none"
        /\ \A g \in Files \ {f} : ctx'[g] = ctx[g]
        /\ UNCHANGED <<ctx_list, ctx_lock, seen, irq>>
    BY <1>2, OpenEffect
  <2>2. LockInv' BY <2>1 DEF ListInv, LockInv, Inside
  <2>3. SeenInv' BY <2>1 DEF ListInv, SeenInv
  <2>4. MemberInv' BY <2>1 DEF ListInv, MemberInv, Listed
  <2>5. WalkInv' BY <2>1 DEF ListInv, WalkInv
  <2> QED BY <2>2, <2>3, <2>4, <2>5 DEF ListInv
<1> QED BY <1>1, <1>2

\* The lock is taken: nobody else was inside, and no walk is under way.
LEMMA LockStep ==
  ASSUME ContextTypes, ListInv, NEW f \in Files, LockContexts(f)
  PROVE  ListInv'
<1>1. PICK from \in {"lock_add", "lock_del"}, to \in {"add", "del"} :
        At(f, from, to) /\ (from = "lock_add" <=> to = "add")
  BY DEF LockContexts
<1> DEFINE c == ctx[f].dev
<1>2. /\ ctx_lock[c] = {} /\ ctx_lock' = [ctx_lock EXCEPT ![c] = {f}]
      /\ UNCHANGED <<ctx_list, seen>>
  BY DEF LockContexts
<1>3. /\ ctx'[f].dev = c /\ ctx'[f].pc = to /\ c \in Cards /\ ctx[f].pc = from /\ irq' = irq
      /\ \A g \in Files \ {f} : ctx'[g] = ctx[g]
  BY <1>1, MoveEffect DEF FilePlaces
<1> HIDE DEF c
<1>4. ctx_lock'[c] = {f} /\ \A d \in Cards \ {c} : ctx_lock'[d] = ctx_lock[d]
  BY <1>2, <1>3 DEF ContextTypes
<1>5. LockInv'
  <2>1. ASSUME NEW g \in Files, ctx'[g].pc \in Inside
        PROVE  ctx_lock'[ctx'[g].dev] = {g}
    <3>1. CASE g = f BY <1>3, <1>4, <3>1
    <3>2. CASE g # f
      <4>1. ctx_lock[ctx[g].dev] = {g} BY <1>3, <2>1, <3>2 DEF ListInv, LockInv
      <4>2. ctx[g].dev # c /\ ctx[g].dev \in Cards
        BY <1>2, <1>3, <2>1, <3>2, <4>1 DEF ContextTypes, Ctx, Inside
      <4> QED BY <1>3, <1>4, <3>2, <4>1, <4>2
    <3> QED BY <3>1, <3>2
  <2>2. ASSUME NEW d \in Cards, irq'[d].pc = "walk"
        PROVE  ctx_lock'[d] = {"irq"}
    <3>1. ctx_lock[d] = {"irq"} BY <1>3, <2>2 DEF ListInv, LockInv
    <3>2. d # c BY <1>2, <3>1
    <3> QED BY <1>4, <3>1, <3>2
  <2> QED BY <2>1, <2>2 DEF LockInv
<1>6. SeenInv' BY <1>2, <1>3 DEF ListInv, SeenInv
<1>7. MemberInv' BY <1>1, <1>2, <1>3 DEF ListInv, MemberInv, Listed, c
<1>8. WalkInv' BY <1>2, <1>3 DEF ListInv, WalkInv
<1> QED BY <1>5, <1>6, <1>7, <1>8 DEF ListInv

\* The list is read.
LEMMA ReadStep ==
  ASSUME ContextTypes, ListInv, NEW f \in Files, ReadList(f)
  PROVE  ListInv'
<1>1. PICK from \in {"add", "del"}, to \in {"link", "unlink"} :
        At(f, from, to) /\ (from = "add" <=> to = "link")
  BY DEF ReadList
<1>2. seen' = [seen EXCEPT ![f] = ctx_list[ctx[f].dev]] /\ UNCHANGED <<ctx_list, ctx_lock>>
  BY DEF ReadList
<1>3. /\ ctx'[f].dev = ctx[f].dev /\ ctx'[f].pc = to /\ ctx[f].pc = from /\ irq' = irq
      /\ \A g \in Files \ {f} : ctx'[g] = ctx[g]
  BY <1>1, MoveEffect DEF FilePlaces
<1>4. seen'[f] = ctx_list[ctx[f].dev] /\ \A g \in Files \ {f} : seen'[g] = seen[g]
  BY <1>2 DEF ContextTypes
<1>5. LockInv' BY <1>2, <1>3 DEF ListInv, LockInv, Inside
<1>6. SeenInv' BY <1>2, <1>3, <1>4 DEF ListInv, SeenInv
<1>7. MemberInv' BY <1>1, <1>2, <1>3 DEF ListInv, MemberInv, Listed
<1>8. WalkInv' BY <1>2, <1>3 DEF ListInv, WalkInv
<1> QED BY <1>5, <1>6, <1>7, <1>8 DEF ListInv

\* The list is written and the lock dropped: since it was held, no handler is
\* walking the list of this card, no other file has read it, and what was read
\* is what is there.
LEMMA WriteStep ==
  ASSUME ContextTypes, ListInv, NEW f \in Files, AddContext(f) \/ DelContext(f)
  PROVE  ListInv'
<1> DEFINE c == ctx[f].dev
<1>1. PICK from \in {"link", "unlink"}, to \in {"open", "free"}, l \in SUBSET Files :
        /\ At(f, from, to) /\ (from = "link" <=> to = "open")
        /\ l = IF to = "open" THEN seen[f] \cup {f} ELSE seen[f] \ {f}
        /\ ctx_list' = [ctx_list EXCEPT ![c] = l]
        /\ ctx_lock' = [ctx_lock EXCEPT ![c] = {}]
        /\ seen' = [seen EXCEPT ![f] = {}]
  BY WriteEffect
<1>2. /\ ctx'[f].dev = c /\ ctx'[f].pc = to /\ c \in Cards /\ ctx[f].pc = from /\ irq' = irq
      /\ \A g \in Files \ {f} : ctx'[g] = ctx[g]
  BY <1>1, MoveEffect DEF FilePlaces
<1>3. ctx_lock[c] = {f} /\ seen[f] = ctx_list[c]
  BY <1>2 DEF ListInv, LockInv, SeenInv, Inside
<1>4. irq[c].pc # "walk"
  BY <1>2, <1>3, LifecycleAssumption DEF ListInv, LockInv
<1> HIDE DEF c
<1>5. /\ ctx_lock'[c] = {} /\ ctx_list'[c] = l
      /\ \A d \in Cards \ {c} : ctx_lock'[d] = ctx_lock[d] /\ ctx_list'[d] = ctx_list[d]
      /\ \A g \in Files \ {f} : seen'[g] = seen[g]
  BY <1>1, <1>2 DEF ContextTypes
<1>6. ASSUME NEW g \in Files, ctx'[g].pc \in Inside
      PROVE  /\ g # f /\ ctx'[g] = ctx[g] /\ ctx_lock[ctx[g].dev] = {g}
             /\ ctx[g].dev \in Cards \ {c}
  <2>1. g # f BY <1>2, <1>6 DEF Inside
  <2>2. ctx_lock[ctx[g].dev] = {g} /\ ctx'[g] = ctx[g] BY <1>2, <1>6, <2>1 DEF ListInv, LockInv
  <2>3. ctx[g].dev # c /\ ctx[g].dev \in Cards
    BY <1>3, <1>6, <2>1, <2>2 DEF ContextTypes, Ctx, Inside
  <2> QED BY <2>1, <2>2, <2>3
<1>7. LockInv'
  <2>1. ASSUME NEW d \in Cards, irq'[d].pc = "walk"
        PROVE  ctx_lock'[d] = {"irq"}
    BY <1>2, <1>4, <1>5, <2>1 DEF ListInv, LockInv
  <2>2. ASSUME NEW g \in Files, ctx'[g].pc \in Inside
        PROVE  ctx_lock'[ctx'[g].dev] = {g}
    BY <1>5, <1>6, <2>2
  <2> QED BY <2>1, <2>2 DEF LockInv
<1>8. SeenInv'
  <2> SUFFICES ASSUME NEW g \in Files, ctx'[g].pc \in {"link", "unlink"}
               PROVE  seen'[g] = ctx_list'[ctx'[g].dev]
    BY DEF SeenInv
  <2>1. g # f /\ ctx'[g] = ctx[g] /\ ctx[g].dev \in Cards \ {c} BY <1>6 DEF Inside
  <2> QED BY <1>5, <2>1 DEF ListInv, SeenInv
<1>9. MemberInv'
  <2> SUFFICES ASSUME NEW d \in Cards, NEW g \in Files
               PROVE  g \in ctx_list'[d] <=> ctx'[g].dev = d /\ ctx'[g].pc \in Listed
    BY DEF MemberInv
  <2>1. g \in ctx_list[d] <=> ctx[g].dev = d /\ ctx[g].pc \in Listed BY DEF ListInv, MemberInv
  <2>2. CASE d # c
    BY <1>2, <1>5, <2>1, <2>2 DEF c
  <2>3. CASE d = c
    <3>1. CASE g # f BY <1>1, <1>2, <1>3, <1>5, <2>1, <2>3, <3>1
    <3>2. CASE g = f BY <1>1, <1>2, <1>3, <1>5, <2>3, <3>2 DEF Listed
    <3> QED BY <3>1, <3>2
  <2> QED BY <2>2, <2>3
<1>10. WalkInv' BY <1>2, <1>4, <1>5 DEF ListInv, WalkInv
<1> QED BY <1>7, <1>8, <1>9, <1>10 DEF ListInv

\* The context is freed after it has left the list.
LEMMA FreeStep ==
  ASSUME ContextTypes, ListInv, NEW f \in Files, FreeContext(f)
  PROVE  ListInv'
<1>1. /\ ctx'[f].dev = "none" /\ ctx'[f].pc = "closed" /\ ctx[f].pc = "free"
      /\ \A g \in Files \ {f} : ctx'[g] = ctx[g]
      /\ UNCHANGED <<ctx_list, ctx_lock, seen, irq>>
  BY FreeEffect
<1>2. LockInv' BY <1>1 DEF ListInv, LockInv, Inside
<1>3. SeenInv' BY <1>1 DEF ListInv, SeenInv
<1>4. MemberInv' BY <1>1 DEF ListInv, MemberInv, Listed
<1>5. WalkInv' BY <1>1 DEF ListInv, WalkInv
<1> QED BY <1>2, <1>3, <1>4, <1>5 DEF ListInv

\* The handler: it reads the list only with the lock.
LEMMA HandlerKeepsList ==
  ASSUME ContextTypes, ListInv, NEW c \in Cards, Interrupt(c) \/ HandlerStep(c)
  PROVE  ListInv'
<1>1. UNCHANGED <<ctx, ctx_list, seen>> BY HandlerEffect
<1>2. PICK to \in {"idle", "wake", "lock", "walk"}, left \in SUBSET Files, over \in SUBSET Files :
        HandlerMove(c, to, left, over)
  BY HandlerEffect
<1> DEFINE h == [pc |-> to, left |-> left, over |-> over]
<1>3. h.pc = to /\ h.left = left OBVIOUS
<1>4. irq' = [irq EXCEPT ![c] = h] BY <1>2 DEF HandlerMove
<1> HIDE DEF h
<1>5. irq'[c].pc = to /\ irq'[c].left = left /\ \A d \in Cards \ {c} : irq'[d] = irq[d]
  BY <1>3, <1>4 DEF ContextTypes
<1>6. /\ \A d \in Cards \ {c} : ctx_lock'[d] = ctx_lock[d]
      /\ \/ to # "walk" /\ irq[c].pc # "walk" /\ UNCHANGED ctx_lock
         \/ to = "walk" /\ irq[c].pc = "walk" /\ left \subseteq irq[c].left /\ UNCHANGED ctx_lock
         \/ to = "walk" /\ left = ctx_list[c] /\ ctx_lock[c] = {} /\ ctx_lock'[c] = {"irq"}
         \/ to # "walk" /\ ctx_lock[c] = {"irq"} /\ ctx_lock'[c] = {}
  BY <1>2 DEF HandlerMove, ListInv, ContextTypes, LockInv
<1>7. LockInv'
  <2>1. ASSUME NEW g \in Files, ctx[g].pc \in Inside
        PROVE  ctx_lock'[ctx[g].dev] = {g}
    <3>1. ctx_lock[ctx[g].dev] = {g} /\ ctx[g].dev \in Cards
      BY <2>1 DEF ListInv, LockInv, ContextTypes, Ctx, Inside
    <3>2. {g} # {"irq"} BY LifecycleAssumption
    <3> QED BY <1>6, <3>1, <3>2
  <2>2. ASSUME NEW d \in Cards, irq'[d].pc = "walk"
        PROVE  ctx_lock'[d] = {"irq"}
    <3>1. CASE d = c BY <1>5, <1>6, <2>2, <3>1 DEF ListInv, LockInv
    <3>2. CASE d # c BY <1>5, <1>6, <2>2, <3>2 DEF ListInv, LockInv
    <3> QED BY <3>1, <3>2
  <2> QED BY <1>1, <2>1, <2>2 DEF LockInv
<1>8. SeenInv' BY <1>1 DEF ListInv, SeenInv
<1>9. MemberInv' BY <1>1 DEF ListInv, MemberInv
<1>10. WalkInv'
  <2>1. irq'[c].pc = "walk" => irq'[c].left \subseteq ctx_list[c] BY <1>5, <1>6 DEF ListInv, WalkInv
  <2> QED BY <1>1, <1>5, <2>1 DEF ListInv, WalkInv
<1> QED BY <1>7, <1>8, <1>9, <1>10 DEF ListInv

\* A new dev: the card has no files and no handler yet.
LEMMA NewListStep ==
  ASSUME TypeInv, LifeInv, UseInv, OwnedInv, ContextTypes, ListInv, NEW c \in Cards, Acquire(c)
  PROVE  ListInv'
<1>1. UNCHANGED <<ctx, seen, irq>> BY DEF Acquire
<1>2. CASE Steps[at[c]] # "dev"
  <2>1. UNCHANGED <<ctx_list, ctx_lock>> BY <1>2 DEF Acquire
  <2> QED BY <1>1, <2>1 DEF ListInv, LockInv, SeenInv, MemberInv, WalkInv
<1>3. CASE Steps[at[c]] = "dev"
  <2>1. ctx_list' = [ctx_list EXCEPT ![c] = {}] /\ ctx_lock' = [ctx_lock EXCEPT ![c] = {}]
    BY <1>3 DEF Acquire
  <2>2. at[c] = 4
    <3>1. at[c] \in 1 .. 12 BY DEF Acquire, TypeInv, CardTypes
    <3>2. \A i \in 1 .. 12 : i \in {1, 2, 3, 4, 5, 6, 7, 8, 9, 10, 11, 12} OBVIOUS
    <3> QED BY <1>3, <3>1, <3>2, StepsAre
  <2>3. irq[c].pc = "idle"
    <3>1. held[c] = Below(4) BY <2>2 DEF OwnedInv, OwnedOf
    <3>2. "irq" \notin Below(4)
      <4>1. 4 \in 1 .. 12 OBVIOUS
      <4> QED BY <4>1, BelowNext
    <3> QED BY <3>1, <3>2 DEF OwnedInv, OwnedOf
  <2>4. \A f \in Files : ctx[f].dev # c
    <3>1. result[c] # "ok" BY <2>2 DEF LifeInv, LifeOf
    <3> QED BY <3>1 DEF UseInv
  <2>5. /\ ctx_list'[c] = {}
        /\ \A d \in Cards \ {c} : ctx_lock'[d] = ctx_lock[d] /\ ctx_list'[d] = ctx_list[d]
    BY <2>1 DEF ContextTypes
  <2>6. \A f \in Files : ctx[f].pc \in Inside => ctx[f].dev \in Cards \ {c}
    BY <2>4 DEF ContextTypes, Ctx, Inside
  <2>7. LockInv' BY <1>1, <2>3, <2>5, <2>6 DEF ListInv, LockInv
  <2>8. SeenInv'
    <3>1. \A f \in Files : ctx[f].pc \in {"link", "unlink"} => ctx[f].dev \in Cards \ {c}
      BY <2>6 DEF Inside
    <3> QED BY <1>1, <2>5, <3>1 DEF ListInv, SeenInv
  <2>9. MemberInv' BY <1>1, <2>4, <2>5 DEF ListInv, MemberInv
  <2>10. WalkInv' BY <1>1, <2>3, <2>5 DEF ListInv, WalkInv
  <2> QED BY <2>7, <2>8, <2>9, <2>10 DEF ListInv
<1> QED BY <1>2, <1>3

\* The inductive invariant of the context list: a list and a lock outlive
\* whoever uses them only because a bound card is not removed under open files
\* and the labels free dev after the handler is gone.
THEOREM ListInvariance ==
  ASSUME IsFiniteSet(Cards), Unplug = FALSE, SoundLabels
  PROVE  Spec => []ListInv
<1>1. Init => ListInv
  <2> SUFFICES ASSUME Init PROVE ListInv OBVIOUS
  <2>1. NoContext.dev = "none" /\ NoContext.pc = "closed" BY DEF NoContext
  <2>2. NoInterrupt.pc = "idle" BY DEF NoInterrupt
  <2> QED BY <2>1, <2>2 DEF Init, ListInv, LockInv, SeenInv, MemberInv, WalkInv, Listed, Inside
<1>2. TypeInv /\ LifeInv /\ UseInv /\ OwnedInv /\ ContextTypes /\ ListInv /\ [Next]_vars => ListInv'
  <2> SUFFICES ASSUME TypeInv, LifeInv, UseInv, OwnedInv, ContextTypes, ListInv, [Next]_vars
               PROVE  ListInv'
    OBVIOUS
  <2>1. CASE UNCHANGED <<ctx, ctx_list, ctx_lock, seen, irq>>
    BY <2>1 DEF ListInv, LockInv, SeenInv, MemberInv, WalkInv
  <2>2. CASE \E c \in Cards : Acquire(c) BY <2>2, NewListStep
  <2>3. CASE \E c \in Cards : Interrupt(c) \/ HandlerStep(c) BY <2>3, HandlerKeepsList
  <2>4. CASE \E f \in Files : Close(f) \/ FileStep(f) \/ \E c \in Cards : Open(f, c)
    BY <2>4, OpenClose, LockStep, ReadStep, WriteStep, FreeStep DEF FileStep
  <2> QED BY <2>1, <2>2, <2>3, <2>4, StepCases
<1> QED
  BY <1>1, <1>2, TypeInvariance, LifeInvariance, UseInvariance, OwnedInvariance,
     ContextTypesInvariance, PTL
  DEF Spec

\* The reads and writes of opens and releases on any number of CPUs never
\* overlap, so that ctx_list has exactly the contexts of open files.
THEOREM ListHasOpenFiles ==
  ASSUME IsFiniteSet(Cards), Unplug = FALSE, SoundLabels
  PROVE  Spec => []ListIsOpenFiles
<1>1. ContextTypes /\ ListInv => ListIsOpenFiles
  BY DEF ListInv, ContextTypes, MemberInv, Listed, ListIsOpenFiles, Users
<1> QED BY <1>1, ListInvariance, ContextTypesInvariance, PTL

\* The handler never comes to a context that has left the list or is freed,
\* also when it runs over a thread inside open or release.
THEOREM WalkMeetsLiveContexts ==
  ASSUME IsFiniteSet(Cards), Unplug = FALSE, SoundLabels
  PROVE  Spec => []WalkFindsLiveContexts
<1>1. ContextTypes /\ ListInv => WalkFindsLiveContexts
  BY DEF ListInv, ContextTypes, MemberInv, WalkInv, WalkFindsLiveContexts, Users
<1> QED BY <1>1, ListInvariance, ContextTypesInvariance, PTL
=============================================================================
