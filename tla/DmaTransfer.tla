---------------------------- MODULE DmaTransfer ----------------------------
(***************************************************************************)
(* The DMA_TRANSFER case of fpgagpu_ioctl (driver/fpgagpu_ioctl.c) and the *)
(* XDMA engine it drives. The handler keeps its working state (pinned      *)
(* pages, scatterlist, descriptor ring) in struct fpgagpu_dev, shared by   *)
(* all callers and under no lock; it is cut into steps wherever it writes  *)
(* that state or reads it back.                                            *)
(*                                                                         *)
(* Memory is modelled byte by byte on a small scale, so that page offsets, *)
(* lengths and the order of the descriptors matter. Frame is the caller's  *)
(* page table; a bus address is a physical address. The engine is not in   *)
(* the repository: it follows the chain from the first descriptor, one     *)
(* descriptor at a time, is busy until it has executed the one without a   *)
(* successor, and stops when its run bit is cleared. The write that clears *)
(* it is posted: the handler goes on before it has reached the engine,     *)
(* which until then executes further descriptors.                          *)
(***************************************************************************)
EXTENDS Integers, Sequences, FiniteSets

CONSTANTS
  Threads,    \* callers
  Requests,   \* struct fpgagpu_dma_param: [direction, host_vaddr, size, ddr3_addr]
  Frame,      \* page table: virtual page number -> frame number
  DdrBytes,   \* bytes of device memory
  ADDR_MAX,   \* ULONG_MAX, the last address a buffer may have
  PAGE_SIZE,  \* 4096
  MAX_SIZE,   \* 32 MB, the largest transfer
  MAX_PAGES,  \* 8192, the entries of pinned_pages and desc_ring
  Polls,      \* 10000000, the reads of the status register before giving up
  StopsInTime,  \* whether a posted stop reaches the engine before the next call begins
  MaxCalls    \* bound: accepted calls in a behaviour

ASSUME GeometryAssumption ==
  /\ ADDR_MAX \in Nat /\ PAGE_SIZE \in Nat \ {0} /\ MAX_SIZE \in Nat /\ MAX_PAGES \in Nat \ {0}
  /\ Polls \in Nat \ {0} /\ MaxCalls \in Nat /\ StopsInTime \in BOOLEAN
ASSUME MemoryAssumption ==
  /\ Frame \in [DOMAIN Frame -> Nat] /\ DdrBytes \in SUBSET Nat
  /\ \A p, q \in DOMAIN Frame : Frame[p] = Frame[q] => p = q
ASSUME RequestAssumption ==
  \A r \in Requests : r.host_vaddr \in Nat /\ r.size \in Nat /\ r.ddr3_addr \in Nat

VARIABLES
  pinned_pages,      \* dev->pinned_pages, frames
  num_pinned_pages,  \* dev->num_pinned_pages, negative after a failed pin
  sgl,               \* dev->sgl: entries [addr, length], << >> for NULL
  sgl_nents,         \* dev->sgl_nents
  desc_ring,         \* dev->desc_ring: [src, dst, bytes, next], next = 0 at the end
  chan,              \* the engine: [run, at, stop] per direction, at = 0 when idle,
                     \* stop while a write of 0 to the run bit is on its way
  host, ddr,         \* contents of host memory and of device memory
  pins,              \* references on each frame
  dirty,             \* frames marked dirty
  maps,              \* scatterlists mapped for DMA
  sgls,              \* scatterlists allocated
  pc, req, timeout, ret,  \* each caller: place, argument, poll count, result
  calls,             \* accepted calls so far (bounded by MaxCalls)
  before             \* history: memory when the caller's ioctl began

shared == <<pinned_pages, num_pinned_pages, sgl, sgl_nents, desc_ring>>
memory == <<host, ddr>>
kernel == <<pins, dirty, maps, sgls>>
caller == <<pc, req, timeout, ret, calls, before>>
vars   == <<shared, chan, memory, kernel, caller>>

-----------------------------------------------------------------------------
(* Geometry *)

Directions == {"to_device", "from_device"}
Frames     == {Frame[p] : p \in DOMAIN Frame}
HostBytes  == {f * PAGE_SIZE + o : f \in Frames, o \in 0 .. PAGE_SIZE - 1}

FirstPage(r) == r.host_vaddr \div PAGE_SIZE
offset_in_page(a) == a % PAGE_SIZE

\* Physical address of a byte of the caller's buffer.
Phys(v) == Frame[v \div PAGE_SIZE] * PAGE_SIZE + offset_in_page(v)

NumPages(r) == (offset_in_page(r.host_vaddr) + r.size + PAGE_SIZE - 1) \div PAGE_SIZE

\* The argument checks that come before anything is touched. (A failing
\* copy_from_user returns before them and changes nothing either.)
Valid(r) ==
  /\ r.size # 0 /\ r.host_vaddr # 0 /\ r.size <= MAX_SIZE
  /\ r.host_vaddr <= ADDR_MAX - (r.size - 1)
  /\ NumPages(r) <= MAX_PAGES
  /\ r.direction \in Directions

Smaller(a, b) == IF a < b THEN a ELSE b

FillSgl_WholePages(r, pages, n) ==
  [i \in 1 .. n |-> [addr |-> pages[i] * PAGE_SIZE, length |-> PAGE_SIZE]]

\* The scatterlist loop: the first page starts at the offset, each entry takes
\* what is left up to the end of its page.
FillSgl(r, pages, n) ==
  LET offset(i) == IF i = 1 THEN offset_in_page(r.host_vaddr) ELSE 0
      remaining[i \in 1 .. n + 1] ==
        IF i = 1 THEN r.size
        ELSE remaining[i - 1] - Smaller(remaining[i - 1], PAGE_SIZE - offset(i - 1))
  IN  [i \in 1 .. n |-> [addr   |-> pages[i] * PAGE_SIZE + offset(i),
                         length |-> Smaller(remaining[i], PAGE_SIZE - offset(i))]]

\* Sum of the lengths of the first i segments.
LengthUpTo(s, i) ==
  LET sum[j \in 0 .. i] == IF j = 0 THEN 0 ELSE sum[j - 1] + s[j].length IN sum[i]

\* dma_map_sg may join entries that are adjacent on the bus: it cuts the list
\* into k runs, the i-th from entry c[i] to entry c[i + 1] - 1, and each run
\* becomes one segment.
Adjacent(s, i) == s[i + 1].addr = s[i].addr + s[i].length

Cuts(s, k) ==
  {c \in [1 .. k + 1 -> 1 .. Len(s) + 1] :
     /\ c[1] = 1 /\ c[k + 1] = Len(s) + 1
     /\ \A i \in 1 .. k : /\ c[i] < c[i + 1]
                         /\ \A j \in c[i] .. c[i + 1] - 2 : Adjacent(s, j)}

Joined(s, k, c) ==
  [i \in 1 .. k |-> [addr   |-> s[c[i]].addr,
                    length |-> LengthUpTo(s, c[i + 1] - 1) - LengthUpTo(s, c[i] - 1)]]

Mappings(s) == UNION {{Joined(s, k, c) : c \in Cuts(s, k)} : k \in 1 .. Len(s)}

Chain_FixedTarget(r, s) ==
  [i \in 1 .. Len(s) |->
     LET card == r.ddr3_addr IN
     [src   |-> IF r.direction = "to_device" THEN s[i].addr ELSE card,
      dst   |-> IF r.direction = "to_device" THEN card ELSE s[i].addr,
      bytes |-> s[i].length,
      next  |-> IF i < Len(s) THEN i + 1 ELSE 0]]

\* The descriptor loop over the mapped segments.
Chain(r, s) ==
  [i \in 1 .. Len(s) |->
     LET card == r.ddr3_addr + LengthUpTo(s, i - 1) IN
     [src   |-> IF r.direction = "to_device" THEN s[i].addr ELSE card,
      dst   |-> IF r.direction = "to_device" THEN card ELSE s[i].addr,
      bytes |-> s[i].length,
      next  |-> IF i < Len(s) THEN i + 1 ELSE 0]]

\* desc_ring keeps its old entries behind the new chain.
Overlay(new, old) == [i \in DOMAIN old |-> IF i \in DOMAIN new THEN new[i] ELSE old[i]]

NoDesc == [src |-> 0, dst |-> 0, bytes |-> 0, next |-> 0]
NoReq  == [direction |-> "none", host_vaddr |-> 0, size |-> 0, ddr3_addr |-> 0]
Memory == [host |-> host, ddr |-> ddr]

-----------------------------------------------------------------------------
Init ==
  /\ pinned_pages = [i \in 1 .. MAX_PAGES |-> 0] /\ num_pinned_pages = 0
  /\ sgl = << >> /\ sgl_nents = 0
  /\ desc_ring = [i \in 1 .. MAX_PAGES |-> NoDesc]
  /\ chan = [d \in Directions |-> [run |-> FALSE, at |-> 0, stop |-> FALSE]]
  /\ host = [a \in HostBytes |-> <<"host", a>>]
  /\ ddr  = [a \in DdrBytes |-> <<"ddr", a>>]
  /\ pins = [f \in Frames |-> 0] /\ dirty = {} /\ maps = 0 /\ sgls = 0
  /\ pc  = [t \in Threads |-> "user"]
  /\ req = [t \in Threads |-> NoReq]
  /\ timeout = [t \in Threads |-> 0]
  /\ ret = [t \in Threads |-> "none"]
  /\ calls = 0
  /\ before = [t \in Threads |-> [host |-> << >>, ddr |-> << >>]]

Goto(t, from, to) == pc[t] = from /\ pc' = [pc EXCEPT ![t] = to]

Leave(t, code) ==
  /\ pc'  = [pc  EXCEPT ![t] = "user"]
  /\ ret' = [ret EXCEPT ![t] = code]
  /\ UNCHANGED <<req, timeout, calls, before>>

Reject(t, r) ==
  /\ pc[t] = "user" /\ ~Valid(r)
  /\ ret' = [ret EXCEPT ![t] = "EINVAL"]
  /\ UNCHANGED <<shared, chan, memory, kernel, pc, req, timeout, calls, before>>

Accept(t, r) ==
  /\ Valid(r) /\ calls < MaxCalls
  /\ StopsInTime => \A d \in Directions : ~chan[d].stop
  /\ Goto(t, "user", "pin")
  /\ calls' = calls + 1
  /\ req'    = [req    EXCEPT ![t] = r]
  /\ ret'    = [ret    EXCEPT ![t] = "none"]
  /\ before' = [before EXCEPT ![t] = Memory]
  /\ UNCHANGED <<shared, chan, memory, kernel, timeout>>

\* get_user_pages_fast pins a prefix of the pages, as far as they are in the
\* page table, or fails.
PinPages(t, k) ==
  /\ k \in 0 .. NumPages(req[t])
  /\ \A i \in 1 .. k : FirstPage(req[t]) + i - 1 \in DOMAIN Frame
  /\ Goto(t, "pin", "pinned")
  /\ num_pinned_pages' = IF k = 0 THEN -1 ELSE k
  /\ pinned_pages' = [i \in DOMAIN pinned_pages |->
       IF i <= k THEN Frame[FirstPage(req[t]) + i - 1] ELSE pinned_pages[i]]
  /\ pins' = [f \in Frames |->
       pins[f] + Cardinality({i \in 1 .. k : Frame[FirstPage(req[t]) + i - 1] = f})]
  /\ UNCHANGED <<sgl, sgl_nents, desc_ring, chan, memory, dirty, maps, sgls,
                 req, timeout, ret, calls, before>>

Unpin_KeepsLast ==
  /\ pins' = [f \in Frames |->
       pins[f] - Cardinality({i \in 1 .. num_pinned_pages - 1 : pinned_pages[i] = f})]
  /\ num_pinned_pages' = 0

Unpin_OneMore ==
  /\ pins' = [f \in Frames |->
       pins[f] - Cardinality({i \in DOMAIN pinned_pages :
                                i <= num_pinned_pages + 1 /\ pinned_pages[i] = f})]
  /\ num_pinned_pages' = 0

\* put_page on the first dev->num_pinned_pages entries, then forget them.
Unpin ==
  /\ pins' = [f \in Frames |->
       pins[f] - Cardinality({i \in 1 .. num_pinned_pages : pinned_pages[i] = f})]
  /\ num_pinned_pages' = 0

PinFailed(t) ==
  /\ pc[t] = "pinned" /\ num_pinned_pages < 0
  /\ Leave(t, "EFAULT")
  /\ UNCHANGED <<shared, chan, memory, kernel>>

PinnedTooFew(t) ==
  /\ pc[t] = "pinned" /\ num_pinned_pages >= 0 /\ num_pinned_pages # NumPages(req[t])
  /\ Unpin
  /\ Leave(t, "EFAULT")
  /\ UNCHANGED <<pinned_pages, sgl, sgl_nents, desc_ring, chan, memory, dirty, maps, sgls>>

AllocFailed(t) ==
  /\ pc[t] = "pinned" /\ num_pinned_pages = NumPages(req[t])
  /\ sgl' = << >>
  /\ Unpin
  /\ Leave(t, "ENOMEM")
  /\ UNCHANGED <<pinned_pages, sgl_nents, desc_ring, chan, memory, dirty, maps, sgls>>

\* kmalloc_array and the scatterlist loop.
BuildSgl(t) ==
  /\ num_pinned_pages = NumPages(req[t])
  /\ Goto(t, "pinned", "map")
  /\ sgl' = FillSgl(req[t], pinned_pages, num_pinned_pages)
  /\ sgls' = sgls + 1
  /\ UNCHANGED <<pinned_pages, num_pinned_pages, sgl_nents, desc_ring, chan, memory,
                 pins, dirty, maps, req, timeout, ret, calls, before>>

MapFailed(t) ==
  /\ pc[t] = "map" /\ sgl # << >>
  /\ sgl_nents' = 0 /\ sgl' = << >> /\ sgls' = sgls - 1
  /\ Unpin
  /\ Leave(t, "ENOMEM")
  /\ UNCHANGED <<pinned_pages, desc_ring, chan, memory, dirty, maps>>

MapSgl(t, s) ==
  /\ sgl # << >> /\ s \in Mappings(sgl)
  /\ Goto(t, "map", "chain")
  /\ sgl' = s /\ sgl_nents' = Len(s)
  /\ maps' = maps + 1
  /\ UNCHANGED <<pinned_pages, num_pinned_pages, desc_ring, chan, memory,
                 pins, dirty, sgls, req, timeout, ret, calls, before>>

\* The loop takes dev->sgl_nents segments of dev->sgl. (What it reads beyond a
\* shorter list, another caller's, is not followed.)
BuildChain(t) ==
  /\ sgl_nents <= Len(sgl)
  /\ Goto(t, "chain", "start")
  /\ desc_ring' = Overlay(Chain(req[t], SubSeq(sgl, 1, sgl_nents)), desc_ring)
  /\ UNCHANGED <<pinned_pages, num_pinned_pages, sgl, sgl_nents, chan, memory, kernel,
                 req, timeout, ret, calls, before>>

\* Posted writes arrive in order, so an earlier stop has arrived with this one.
Start(t) ==
  /\ Goto(t, "start", "poll")
  /\ chan' = [chan EXCEPT ![req[t].direction] = [run |-> TRUE, at |-> 1, stop |-> FALSE]]
  /\ timeout' = [timeout EXCEPT ![t] = Polls]
  /\ UNCHANGED <<shared, memory, kernel, req, ret, calls, before>>

Busy(t) == chan[req[t].direction].at # 0

Poll_Forever(t) ==
  /\ pc[t] = "poll" /\ Busy(t)
  /\ UNCHANGED vars

\* while (busy && --timeout > 0)
Poll(t) ==
  /\ pc[t] = "poll" /\ Busy(t)
  /\ timeout' = [timeout EXCEPT ![t] = @ - 1]
  /\ Goto(t, "poll", IF timeout'[t] > 0 THEN "poll" ELSE "stop")
  /\ UNCHANGED <<shared, chan, memory, kernel, req, ret, calls, before>>

PollDone(t) ==
  /\ Goto(t, "poll", "stop")
  /\ ~Busy(t)
  /\ UNCHANGED <<shared, chan, memory, kernel, req, timeout, ret, calls, before>>

Stop_Forgotten(t) ==
  /\ Goto(t, "stop", "unmap")
  /\ UNCHANGED <<shared, chan, memory, kernel, req, timeout, ret, calls, before>>

\* iowrite32(0): posted, neither read back nor followed by a wait for idle.
Stop(t) ==
  /\ Goto(t, "stop", "unmap")
  /\ chan' = [chan EXCEPT ![req[t].direction].stop = TRUE]
  /\ UNCHANGED <<shared, memory, kernel, req, timeout, ret, calls, before>>

\* dma_unmap_sg, kfree(sgl)
Unmap(t) ==
  /\ sgl # << >>
  /\ Goto(t, "unmap", "put")
  /\ maps' = maps - 1 /\ sgl' = << >> /\ sgls' = sgls - 1
  /\ UNCHANGED <<pinned_pages, num_pinned_pages, sgl_nents, desc_ring, chan, memory,
                 pins, dirty, req, timeout, ret, calls, before>>

PutPages_NoDirty(t) ==
  /\ pc[t] = "put"
  /\ UNCHANGED dirty
  /\ Unpin
  /\ Leave(t, IF timeout[t] = 0 THEN "ETIMEDOUT" ELSE "ok")
  /\ UNCHANGED <<pinned_pages, sgl, sgl_nents, desc_ring, chan, memory, maps, sgls>>

PutPages_IgnoresTimeout(t) ==
  /\ pc[t] = "put"
  /\ dirty' = IF req[t].direction = "from_device"
              THEN dirty \cup {pinned_pages[i] : i \in 1 .. num_pinned_pages}
              ELSE dirty
  /\ Unpin
  /\ Leave(t, "ok")
  /\ UNCHANGED <<pinned_pages, sgl, sgl_nents, desc_ring, chan, memory, maps, sgls>>

PutPages(t) ==
  /\ pc[t] = "put"
  /\ dirty' = IF req[t].direction = "from_device"
              THEN dirty \cup {pinned_pages[i] : i \in 1 .. num_pinned_pages}
              ELSE dirty
  /\ Unpin
  /\ Leave(t, IF timeout[t] = 0 THEN "ETIMEDOUT" ELSE "ok")
  /\ UNCHANGED <<pinned_pages, sgl, sgl_nents, desc_ring, chan, memory, maps, sgls>>

-----------------------------------------------------------------------------
(* The engine (external) *)

Copy(to, from, d) ==
  [a \in DOMAIN to |->
     IF a \in d.dst .. d.dst + d.bytes - 1 /\ d.src + (a - d.dst) \in DOMAIN from
     THEN from[d.src + (a - d.dst)] ELSE to[a]]

\* The posted stop reaches the engine between two descriptors.
StopArrives(dir) ==
  /\ chan[dir].stop
  /\ chan' = [chan EXCEPT ![dir] = [run |-> FALSE, at |-> 0, stop |-> FALSE]]
  /\ UNCHANGED <<shared, memory, kernel, caller>>

EngineStep(dir) ==
  LET d == desc_ring[chan[dir].at] IN
  /\ chan[dir].run /\ chan[dir].at # 0
  /\ \/ dir = "to_device"   /\ ddr'  = Copy(ddr, host, d) /\ UNCHANGED host
     \/ dir = "from_device" /\ host' = Copy(host, ddr, d) /\ UNCHANGED ddr
  /\ chan' = [chan EXCEPT ![dir].at = d.next]
  /\ UNCHANGED <<shared, kernel, caller>>

-----------------------------------------------------------------------------
Handler(t) ==
  \/ \E k \in 0 .. MAX_PAGES : PinPages(t, k)
  \/ PinFailed(t) \/ PinnedTooFew(t) \/ AllocFailed(t) \/ BuildSgl(t) \/ MapFailed(t)
  \/ \E s \in Mappings(sgl) : MapSgl(t, s)
  \/ BuildChain(t) \/ Start(t) \/ Poll(t) \/ PollDone(t)
  \/ Stop(t) \/ Unmap(t) \/ PutPages(t)

Next ==
  \/ \E t \in Threads : (\E r \in Requests : Reject(t, r) \/ Accept(t, r)) \/ Handler(t)
  \/ \E dir \in Directions : EngineStep(dir) \/ StopArrives(dir)

Spec == Init /\ [][Next]_vars

\* A thread in the handler keeps running. Nothing is assumed of the engine.
FairSpec == Spec /\ \A t \in Threads : WF_vars(Handler(t))

-----------------------------------------------------------------------------
(* Properties *)

Places == {"user", "pin", "pinned", "map", "chain", "start", "poll", "stop", "unmap", "put"}

\* Bytes a request writes, and for each the byte it must be given.
Target(r) ==
  IF r.direction = "to_device" THEN {r.ddr3_addr + i : i \in 0 .. r.size - 1}
                               ELSE {Phys(r.host_vaddr + i) : i \in 0 .. r.size - 1}

\* Every variable stays in its domain; no reference is dropped twice.
TypeOK ==
  /\ num_pinned_pages \in -1 .. MAX_PAGES
  /\ Len(sgl) <= MAX_PAGES /\ sgl_nents \in 0 .. MAX_PAGES
  /\ DOMAIN desc_ring = 1 .. MAX_PAGES
  /\ \A d \in Directions : chan[d].at \in 0 .. MAX_PAGES
  /\ pins \in [Frames -> Nat] /\ dirty \subseteq Frames
  /\ maps \in Nat /\ sgls \in Nat
  /\ pc \in [Threads -> Places] /\ timeout \in [Threads -> 0 .. Polls]

\* A transfer that returns 0 has moved exactly the bytes of the buffer, from
\* its page offset on and in order, to or from consecutive device addresses.
TransferDelivered ==
  [][\A t \in Threads :
       pc[t] = "put" /\ ret'[t] = "ok" =>
         \A i \in 0 .. req[t].size - 1 :
           LET a == Phys(req[t].host_vaddr + i)
               b == req[t].ddr3_addr + i
           IN  IF req[t].direction = "to_device" THEN ddr[b] = before[t].host[a]
                                                 ELSE host[a] = before[t].ddr[b]]_vars

\* Whatever the outcome, nothing is written outside the transfer: no byte of
\* the last page beyond the size, no neighbouring device address. After the
\* call only an engine whose stop is still on its way writes, and there.
WritesConfined ==
  [][LET writers(d) == {t \in Threads : req[t].direction = d /\ (pc[t] # "user" \/ chan[d].stop)}
         open(d) == UNION {Target(req[t]) : t \in writers(d)}
     IN  /\ \A a \in DdrBytes  : ddr'[a]  # ddr[a]  => a \in open("to_device")
         /\ \A a \in HostBytes : host'[a] # host[a] => a \in open("from_device")]_vars

\* A call has given up on a busy engine and released its buffer before the
\* stop it posted has arrived.
Abandoned(d) ==
  /\ chan[d].stop
  /\ \E t \in Threads : req[t].direction = d /\ timeout[t] = 0 /\ pc[t] \in {"put", "user"}

\* While the engine is busy, every page its remaining descriptors name is
\* pinned and the scatterlist is mapped, with one exception that the code does
\* not exclude: a transfer that timed out, until its stop has arrived. After
\* every other return the engine has nothing left to do.
EngineOnPinnedPages ==
  \A d \in Directions :
    chan[d].run /\ chan[d].at # 0 =>
      \/ Abandoned(d)
      \/ /\ maps > 0
         /\ \A i \in chan[d].at .. sgl_nents :
              LET first == IF d = "to_device" THEN desc_ring[i].src ELSE desc_ring[i].dst
              IN  \A a \in first .. first + desc_ring[i].bytes - 1 : pins[a \div PAGE_SIZE] > 0

\* Between calls nothing stays behind, whichever way the last call ended: no
\* pinned page, no mapping, no scatterlist, no engine that was not told to stop.
NothingLeftBehind ==
  (\A t \in Threads : pc[t] = "user") =>
    /\ pins = [f \in Frames |-> 0] /\ maps = 0 /\ sgls = 0 /\ sgl = << >>
    /\ \A d \in Directions : chan[d].run => chan[d].stop

\* A page the device has written is marked dirty before its last reference
\* goes, so that the data is not lost; a timed-out transfer included. (A write
\* back between the put and the last write of an abandoned engine is not
\* modelled: a mark, once set, stays.)
WrittenPagesAreDirty ==
  \A a \in HostBytes :
    host[a] # <<"host", a>> /\ pins[a \div PAGE_SIZE] = 0 => a \div PAGE_SIZE \in dirty

\* Every DMA_TRANSFER returns, even if the engine never finishes.
TransferReturns == \A t \in Threads : pc[t] # "user" ~> pc[t] = "user"

-----------------------------------------------------------------------------
(* One caller's transfers as an implementation of TransferService *)

Cells(hostmem, ddrmem) ==
  [c \in ({"host"} \X HostBytes) \cup ({"ddr"} \X DdrBytes) |->
     IF c[1] = "host" THEN hostmem[c[2]] ELSE ddrmem[c[2]]]

\* The i-th byte of the buffer belongs to the i-th device address.
SourceCell(r) ==
  LET h(i) == <<"host", Phys(r.host_vaddr + i)>>
      d(i) == <<"ddr", r.ddr3_addr + i>>
      index(c) == CHOOSE i \in 0 .. r.size - 1 : c \in {h(i), d(i)}
  IN  IF r.direction = "to_device" THEN [c \in {d(i) : i \in 0 .. r.size - 1} |-> h(index(c))]
                                   ELSE [c \in {h(i) : i \in 0 .. r.size - 1} |-> d(index(c))]

Service == INSTANCE TransferService WITH
  Clients   <- Threads,
  NoRequest <- NoReq,
  Failures  <- {"EINVAL", "EFAULT", "ENOMEM", "ETIMEDOUT"},
  Contents  <- Cells([a \in HostBytes |-> <<"host", a>>], [a \in DdrBytes |-> <<"ddr", a>>]),
  SourceOf  <- SourceCell,
  mem       <- Cells(host, ddr),
  request   <- [t \in Threads |-> IF pc[t] = "user" THEN NoReq ELSE req[t]],
  late      <- [t \in Threads |->
                  IF /\ pc[t] = "user" /\ timeout[t] = 0
                     /\ req[t].direction \in Directions /\ chan[req[t].direction].stop
                  THEN req[t] ELSE NoReq],
  result    <- ret

\* Pinning, mapping, chaining, polling and the engine together move exactly the
\* bytes asked for, report success only when all have arrived, and after that
\* move none; only after a failure may some still move.
ImplementsTransfer == Service!Spec
=============================================================================
