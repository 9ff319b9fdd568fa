------------------------- MODULE DeviceMemoryProofs -------------------------
(***************************************************************************)
(* Proofs about DeviceMemory for a process that creates one context, and   *)
(* for every set of buffers, sizes and data, every page size and every     *)
(* size of the card's memory.                                              *)
(*                                                                         *)
(* The heap pointer only grows once the context exists, and each buffer    *)
(* lies below it: a new buffer, which starts at the pointer, meets none of *)
(* the old ones. A transfer that is accepted stays inside its buffer, so   *)
(* that what is known of the others remains true.                          *)
(***************************************************************************)
EXTENDS DeviceMemory, TLAPS

Known == Data \cup {Unknown}

\* The shape of a buffer.
BufferInv ==
  /\ mem = [m \in Mems |-> mem[m]]
  /\ \A m \in Live :
       /\ mem[m] = [ctx |-> mem[m].ctx, addr |-> mem[m].addr, size |-> mem[m].size,
                    known |-> mem[m].known]
       /\ mem[m].addr \in Nat
       /\ mem[m].known \in [0 .. mem[m].size - 1 -> Known]

\* Where buffers lie: between the user base and the heap pointer, apart.
PlaceInv ==
  /\ \A m \in Live : /\ FPGAGPU_VRAM_USER_BASE <= mem[m].addr
                     /\ mem[m].addr + mem[m].size <= heap
  /\ \A m, n \in Live : m # n =>
       \/ mem[m].addr + mem[m].size <= mem[n].addr
       \/ mem[n].addr + mem[n].size <= mem[m].addr

\* Before the first context there are neither references nor buffers.
FreshInv == created = 0 => Live = {} /\ \A c \in Contexts : refs[c] = 0

IndInv == TypeOK /\ BufferInv /\ PlaceInv /\ FreshInv /\ ContentsIntact

-----------------------------------------------------------------------------
(* The arithmetic of the allocator *)

\* Rounding up is a quotient and a remainder.
LEMMA DivDecompose ==
  ASSUME NEW p \in Nat \ {0}, NEW n \in Nat
  PROVE  /\ n \div p \in Nat /\ n % p \in 0 .. p - 1
         /\ n = p * (n \div p) + (n % p)
OBVIOUS

\* A sum below the modulus is itself.
LEMMA NoWrap ==
  ASSUME NEW p \in Nat \ {0}, NEW n \in Nat, n < p
  PROVE  n % p = n
OBVIOUS

\* The rounded size is at least the size, and less than a page more.
LEMMA AlignUpBounds ==
  ASSUME NEW size \in Sizes
  PROVE  /\ AlignUp(size) \in Nat
         /\ size <= AlignUp(size) /\ AlignUp(size) < size + PAGE_SIZE_4K
<1> DEFINE n == size + PAGE_SIZE_4K - 1
           q == n \div PAGE_SIZE_4K
<1>1. size \in Nat /\ n \in Nat /\ PAGE_SIZE_4K \in Nat \ {0}
  BY MemoryAssumption
<1>2. n % SIZE_MOD = n
  <2>1. n < SIZE_MOD /\ SIZE_MOD \in Nat \ {0} BY MemoryAssumption, SizesFit, <1>1
  <2> QED BY <1>1, <2>1, NoWrap
<1>3. q \in Nat /\ n % PAGE_SIZE_4K \in 0 .. PAGE_SIZE_4K - 1
      /\ n = PAGE_SIZE_4K * q + (n % PAGE_SIZE_4K)
  BY <1>1, DivDecompose
<1>4. AlignUp(size) = q * PAGE_SIZE_4K
  BY <1>2 DEF AlignUp
<1>5. q * PAGE_SIZE_4K = PAGE_SIZE_4K * q /\ PAGE_SIZE_4K * q \in Nat
  BY <1>1, <1>3
<1> HIDE DEF q
<1> QED BY <1>1, <1>3, <1>4, <1>5

\* What fpgagpu_vram_alloc does when it grants a request.
LEMMA AllocGrants ==
  ASSUME TypeOK, NEW size \in Sizes, Alloc(size)
  PROVE  /\ heap' \in FPGAGPU_VRAM_USER_BASE .. FPGAGPU_VRAM_TOTAL_SIZE
         /\ heap + size <= heap'
<1>1. heap \in Nat /\ size \in Nat /\ heap <= FPGAGPU_VRAM_TOTAL_SIZE
      /\ FPGAGPU_VRAM_USER_BASE <= heap /\ SIZE_MOD \in Nat \ {0}
  BY MemoryAssumption DEF TypeOK
<1>2. AlignUp(size) \in Nat /\ size <= AlignUp(size) /\ AlignUp(size) < size + PAGE_SIZE_4K
  BY AlignUpBounds
<1>3. (heap + AlignUp(size)) % SIZE_MOD = heap + AlignUp(size)
  <2>1. heap + AlignUp(size) < SIZE_MOD BY <1>1, <1>2, MemoryAssumption, SizesFit
  <2> QED BY <1>1, <1>2, <2>1, NoWrap
<1> QED BY <1>1, <1>2, <1>3, MemoryAssumption DEF Alloc, Fits

-----------------------------------------------------------------------------
(* Transfers *)

\* The facts about the constants and the buffers that the steps use.
LEMMA Facts ==
  ASSUME IndInv
  PROVE  /\ heap \in Nat /\ FPGAGPU_VRAM_TOTAL_SIZE \in Nat /\ heap <= FPGAGPU_VRAM_TOTAL_SIZE
         /\ FPGAGPU_VRAM_USER_BASE \in Nat \ {0}
         /\ \A m \in Live : /\ mem[m].size \in Nat /\ mem[m].addr \in Nat
                            /\ mem[m].addr + mem[m].size <= FPGAGPU_VRAM_TOTAL_SIZE
<1>1. heap \in Nat /\ FPGAGPU_VRAM_TOTAL_SIZE \in Nat /\ heap <= FPGAGPU_VRAM_TOTAL_SIZE
      /\ FPGAGPU_VRAM_USER_BASE \in Nat \ {0}
  BY MemoryAssumption DEF IndInv, TypeOK
<1>2. ASSUME NEW m \in Live
      PROVE  /\ mem[m].size \in Nat /\ mem[m].addr \in Nat
             /\ mem[m].addr + mem[m].size <= FPGAGPU_VRAM_TOTAL_SIZE
  <2>1. mem[m].size \in Nat BY MemoryAssumption DEF IndInv, TypeOK
  <2>2. mem[m].addr \in Nat BY DEF IndInv, BufferInv
  <2>3. mem[m].addr + mem[m].size <= heap BY DEF IndInv, PlaceInv
  <2>4. ASSUME NEW a \in Nat, NEW z \in Nat, a + z <= heap PROVE a + z <= FPGAGPU_VRAM_TOTAL_SIZE
    BY <1>1, <2>4
  <2> QED BY <2>1, <2>2, <2>3, <2>4
<1> QED BY <1>1, <1>2

\* A transfer leaves memory in its domain.
LEMMA StoredType ==
  ASSUME ddr3 \in [Bytes -> Known], NEW addr \in Nat, NEW n \in Nat, NEW data,
         \A i \in 0 .. n - 1 : data[i] \in Known
  PROVE  Stored(addr, n, data) \in [Bytes -> Known]
<1> SUFFICES ASSUME NEW a \in Bytes
             PROVE  (IF a \in addr .. addr + n - 1 THEN data[a - addr] ELSE ddr3[a]) \in Known
  BY DEF Stored
<1>1. a \in Int BY DEF Bytes
<1>2. CASE a \in addr .. addr + n - 1
  <2>1. a - addr \in 0 .. n - 1 BY <1>1, <1>2
  <2> QED BY <1>2, <2>1
<1> QED BY <1>2

\* Byte i of the buffer at a after n bytes have been stored from its offset o.
LEMMA StoredInside ==
  ASSUME NEW a \in Nat, NEW z \in Nat, NEW i \in 0 .. z - 1, a + z <= FPGAGPU_VRAM_TOTAL_SIZE,
         NEW o \in Nat, NEW n \in Nat, NEW data
  PROVE  /\ i \in o .. o + n - 1 => Stored(a + o, n, data)[a + i] = data[i - o]
         /\ i \notin o .. o + n - 1 => Stored(a + o, n, data)[a + i] = ddr3[a + i]
<1>1. a + i \in Bytes BY MemoryAssumption DEF Bytes
<1>2. a + i \in a + o .. (a + o) + n - 1 <=> i \in o .. o + n - 1 OBVIOUS
<1>3. (a + i) - (a + o) = i - o OBVIOUS
<1>4. Stored(a + o, n, data)[a + i] =
        IF a + i \in a + o .. (a + o) + n - 1 THEN data[(a + i) - (a + o)] ELSE ddr3[a + i]
  BY <1>1 DEF Stored
<1> QED BY <1>2, <1>3, <1>4

\* A byte that is not written keeps its value.
LEMMA StoredOutside ==
  ASSUME NEW p, NEW n, NEW data, NEW a \in Bytes, a \notin p .. p + n - 1
  PROVE  Stored(p, n, data)[a] = ddr3[a]
BY DEF Stored

\* A write into a buffer, of which n bytes arrive and kn is known afterwards.
Transferred(m, off, size, n, data, kn) ==
  /\ m \in Live /\ off \in Nat /\ size \in Nat /\ n \in 0 .. size
  /\ off + size <= mem[m].size
  /\ \A i \in 0 .. n - 1 : data[i] \in Known
  /\ kn \in [0 .. size - 1 -> Known]
  /\ \A i \in 0 .. size - 1 : kn[i] = Unknown \/ (i < n /\ data[i] = kn[i])
  /\ ddr3' = Stored(mem[m].addr + off, n, data)
  /\ mem' = [mem EXCEPT ![m] = Knows(mem[m], off, size, kn)]
  /\ UNCHANGED <<heap, created, refs>>

\* What is then known of the buffer is true, and nothing else is affected.
LEMMA TransferStep ==
  ASSUME IndInv, NEW m, NEW off, NEW size, NEW n, NEW data, NEW kn,
         Transferred(m, off, size, n, data, kn)
  PROVE  IndInv'
<1> USE DEF Transferred
<1> DEFINE b == mem[m]
           k == [i \in 0 .. b.size - 1 |-> IF i \in off .. off + size - 1 THEN kn[i - off] ELSE b.known[i]]
           new == [ctx |-> b.ctx, addr |-> b.addr, size |-> b.size, known |-> k]
<1>1. b.size \in Nat /\ b.addr \in Nat /\ n \in Nat /\ m \in Mems
      /\ b.addr + b.size <= FPGAGPU_VRAM_TOTAL_SIZE
  BY Facts DEF Live
<1>2. b = [ctx |-> b.ctx, addr |-> b.addr, size |-> b.size, known |-> b.known]
      /\ b.known \in [0 .. b.size - 1 -> Known]
  BY DEF IndInv, BufferInv
<1>3. Knows(b, off, size, kn) = new
  <2>1. DOMAIN b.known = 0 .. b.size - 1 BY <1>2
  <2>2. Knows(b, off, size, kn) = [b EXCEPT !.known = k] BY <2>1 DEF Knows
  <2> HIDE DEF k
  <2>3. [b EXCEPT !.known = k] = new BY <1>2
  <2> QED BY <2>2, <2>3
<1>4. k \in [0 .. b.size - 1 -> Known]
  <2> SUFFICES ASSUME NEW i \in 0 .. b.size - 1
               PROVE  (IF i \in off .. off + size - 1 THEN kn[i - off] ELSE b.known[i]) \in Known
    OBVIOUS
  <2>1. CASE i \in off .. off + size - 1
    <3>1. i - off \in 0 .. size - 1 BY <2>1
    <3> QED BY <2>1, <3>1
  <2> QED BY <2>1, <1>2
<1>5. /\ mem' = [x \in Mems |-> mem'[x]]
      /\ mem'[m] = new
      /\ \A x \in Mems : x # m => mem'[x] = mem[x]
  <2>1. mem = [x \in Mems |-> mem[x]] BY DEF IndInv, BufferInv
  <2>2. mem' = [mem EXCEPT ![m] = new] BY <1>3
  <2> HIDE DEF new
  <2> QED BY <2>1, <2>2, <1>1
<1>6. new.ctx = b.ctx /\ new.addr = b.addr /\ new.size = b.size /\ new.known = k
  OBVIOUS
<1> HIDE DEF k, new
<1>7. \A x \in Live' : x \in Live /\ mem'[x].ctx = mem[x].ctx /\ mem'[x].addr = mem[x].addr
                       /\ mem'[x].size = mem[x].size
  <2> SUFFICES ASSUME NEW x \in Live'
               PROVE  x \in Live /\ mem'[x].ctx = mem[x].ctx /\ mem'[x].addr = mem[x].addr
                      /\ mem'[x].size = mem[x].size
    OBVIOUS
  <2>1. CASE x = m BY <2>1, <1>5, <1>6
  <2>2. CASE x # m BY <2>2, <1>5 DEF Live
  <2> QED BY <2>1, <2>2
<1>8. ddr3' \in [Bytes -> Known]
  BY <1>1, StoredType, ddr3 \in [Bytes -> Known], b.addr + off \in Nat DEF IndInv, TypeOK, Known
<1>9. TypeOK'
  BY <1>7, <1>8 DEF IndInv, TypeOK, Known
<1>10. BufferInv'
  <2> SUFFICES ASSUME NEW x \in Live'
               PROVE  /\ mem'[x] = [ctx |-> mem'[x].ctx, addr |-> mem'[x].addr, size |-> mem'[x].size,
                                    known |-> mem'[x].known]
                      /\ mem'[x].addr \in Nat
                      /\ mem'[x].known \in [0 .. mem'[x].size - 1 -> Known]
    BY <1>5 DEF BufferInv
  <2>1. CASE x = m BY <2>1, <1>1, <1>4, <1>5, <1>6 DEF new
  <2>2. CASE x # m BY <2>2, <1>5, <1>7 DEF IndInv, BufferInv, Live
  <2> QED BY <2>1, <2>2
<1>11. PlaceInv'
  BY <1>7 DEF IndInv, PlaceInv
<1>12. FreshInv'
  BY <1>7 DEF IndInv, FreshInv
<1>13. ContentsIntact'
  <2> SUFFICES ASSUME NEW x \in Live', NEW i \in DOMAIN mem'[x].known, mem'[x].known[i] # Unknown
               PROVE  ddr3'[mem'[x].addr + i] = mem'[x].known[i]
    BY DEF ContentsIntact
  <2>1. x \in Live /\ mem'[x].addr = mem[x].addr /\ mem'[x].size = mem[x].size BY <1>7
  <2>2. i \in 0 .. mem[x].size - 1
    BY <1>10, <2>1 DEF BufferInv
  <2>3. mem[x].addr \in Nat /\ mem[x].size \in Nat /\ mem[x].addr + mem[x].size <= FPGAGPU_VRAM_TOTAL_SIZE
    BY <2>1, Facts
  <2>5. CASE x = m
    <3>1. mem'[x].known = k BY <2>5, <1>5, <1>6
    <3>2. /\ i \in off .. off + n - 1 => ddr3'[b.addr + i] = data[i - off]
          /\ i \notin off .. off + n - 1 => ddr3'[b.addr + i] = ddr3[b.addr + i]
      <4>1. /\ i \in off .. off + n - 1 => Stored(b.addr + off, n, data)[b.addr + i] = data[i - off]
            /\ i \notin off .. off + n - 1 => Stored(b.addr + off, n, data)[b.addr + i] = ddr3[b.addr + i]
        <5> DEFINE a == b.addr
                   z == b.size
        <5>1. a \in Nat /\ z \in Nat /\ i \in 0 .. z - 1 /\ a + z <= FPGAGPU_VRAM_TOTAL_SIZE
          BY <1>1, <2>2, <2>5
        <5> HIDE DEF a, z
        <5>2. /\ i \in off .. off + n - 1 => Stored(a + off, n, data)[a + i] = data[i - off]
              /\ i \notin off .. off + n - 1 => Stored(a + off, n, data)[a + i] = ddr3[a + i]
          BY <5>1, <1>1, StoredInside
        <5> QED BY <5>2 DEF a
      <4> QED BY <4>1
    <3>3. CASE i \in off .. off + size - 1
      <4>1. k[i] = kn[i - off] /\ i - off \in 0 .. size - 1 BY <3>3, <2>2, <2>5 DEF k
      <4>2. i - off < n /\ data[i - off] = kn[i - off] BY <4>1, <3>1
      <4>3. i \in off .. off + n - 1 BY <3>3, <4>2, <1>1
      <4> QED BY <4>1, <4>2, <4>3, <3>1, <3>2, <2>1, <2>5
    <3>4. CASE i \notin off .. off + size - 1
      <4>1. k[i] = b.known[i] BY <3>4, <2>2, <2>5 DEF k
      <4>2. i \notin off .. off + n - 1 BY <3>4, <1>1
      <4>3. i \in DOMAIN b.known BY <2>2, <2>5, <1>2
      <4> QED BY <4>1, <4>2, <4>3, <3>1, <3>2, <2>1, <2>5 DEF IndInv, ContentsIntact
    <3> QED BY <3>3, <3>4
  <2>6. CASE x # m
    <3>1. mem'[x] = mem[x] BY <2>6, <1>5, <2>1 DEF Live
    <3>2. mem[x].addr + mem[x].size <= b.addr \/ b.addr + b.size <= mem[x].addr
      BY <2>1, <2>6 DEF IndInv, PlaceInv
    <3>4. ddr3'[mem[x].addr + i] = ddr3[mem[x].addr + i]
      <4> DEFINE a == mem[x].addr
                 z == mem[x].size
                 d == b.addr
                 y == b.size
      <4>1. /\ a \in Nat /\ z \in Nat /\ i \in 0 .. z - 1 /\ a + z <= FPGAGPU_VRAM_TOTAL_SIZE
            /\ d \in Nat /\ y \in Nat /\ off + size <= y /\ (a + z <= d \/ d + y <= a)
        BY <3>2, <2>2, <2>3, <1>1
      <4>2. ddr3' = Stored(d + off, n, data) OBVIOUS
      <4> HIDE DEF a, z, d, y
      <4>3. a + i \in Bytes /\ a + i \notin d + off .. (d + off) + n - 1
        BY <4>1, <1>1, MemoryAssumption DEF Bytes
      <4>4. Stored(d + off, n, data)[a + i] = ddr3[a + i] BY <4>3, StoredOutside
      <4> QED BY <4>2, <4>4 DEF a
    <3> QED BY <3>1, <3>4, <2>1 DEF IndInv, ContentsIntact
  <2> QED BY <2>5, <2>6
<1> QED BY <1>9, <1>10, <1>11, <1>12, <1>13 DEF IndInv

\* A transfer of no byte changes nothing.
LEMMA StoredNothing ==
  ASSUME ddr3 \in [Bytes -> Known], NEW addr \in Nat, NEW data
  PROVE  Stored(addr, 0, data) = ddr3
<1>1. addr .. addr + 0 - 1 = {} OBVIOUS
<1> QED BY <1>1 DEF Stored

\* A transfer to where the heap pointer was touches no buffer.
LEMMA AboveHeap ==
  ASSUME IndInv, NEW n \in Nat, NEW data, NEW x \in Live, NEW i \in DOMAIN mem[x].known
  PROVE  Stored(heap, n, data)[mem[x].addr + i] = ddr3[mem[x].addr + i]
<1> DEFINE a == mem[x].addr
           z == mem[x].size
<1>1. a \in Nat /\ z \in Nat /\ a + z <= FPGAGPU_VRAM_TOTAL_SIZE /\ heap \in Nat /\ FPGAGPU_VRAM_TOTAL_SIZE \in Nat
  BY Facts
<1>2. i \in 0 .. z - 1 /\ a + z <= heap
  BY DEF IndInv, BufferInv, PlaceInv
<1> HIDE DEF a, z
<1>3. a + i \in Bytes /\ a + i \notin heap .. heap + n - 1
  BY <1>1, <1>2 DEF Bytes
<1>4. Stored(heap, n, data)[a + i] = ddr3[a + i] BY <1>3, StoredOutside
<1> QED BY <1>4 DEF a

\* An allocation whose buffer is not made, or not kept: the heap pointer moves
\* and memory above it may have been written.
LEMMA LostAllocation ==
  ASSUME IndInv, NEW size \in Sizes, Alloc(size), NEW n \in Nat, NEW data,
         \A i \in 0 .. n - 1 : data[i] \in Known,
         ddr3' = Stored(heap, n, data), UNCHANGED <<mem, created, refs>>
  PROVE  IndInv'
<1>1. heap' \in FPGAGPU_VRAM_USER_BASE .. FPGAGPU_VRAM_TOTAL_SIZE /\ heap + size <= heap'
  BY AllocGrants DEF IndInv
<1>2. heap \in Nat /\ size \in Nat /\ heap' \in Nat /\ heap <= heap'
  BY <1>1, Facts, MemoryAssumption
<1>3. ddr3' \in [Bytes -> Known]
  BY <1>2, StoredType DEF IndInv, TypeOK, Known
<1>4. TypeOK' BY <1>1, <1>3 DEF IndInv, TypeOK, Live, Known
<1>5. BufferInv' BY DEF IndInv, BufferInv, Live
<1>6. PlaceInv'
  <2>1. ASSUME NEW m \in Live PROVE mem[m].addr + mem[m].size <= heap'
    <3>1. ASSUME NEW a \in Nat, NEW z \in Nat, a + z <= heap PROVE a + z <= heap' BY <3>1, <1>2
    <3>2. mem[m].addr + mem[m].size <= heap BY DEF IndInv, PlaceInv
    <3> QED BY <3>1, <3>2, Facts
  <2> QED BY <2>1 DEF IndInv, PlaceInv, Live
<1>7. FreshInv' BY DEF IndInv, FreshInv, Live
<1>8. ContentsIntact' BY AboveHeap DEF IndInv, ContentsIntact, Live
<1> QED BY <1>4, <1>5, <1>6, <1>7, <1>8 DEF IndInv

\* clCreateBuffer succeeds: the new buffer lies between the old and the new
\* heap pointer.
LEMMA NewBufferStep ==
  ASSUME IndInv, NEW c \in Contexts, NEW m \in Mems, NEW size \in Sizes, NEW n \in {0, size},
         refs[c] > 0, mem[m] = NoMem, Alloc(size),
         NEW data, NEW kn \in [0 .. size - 1 -> Known],
         \A i \in 0 .. n - 1 : data[i] \in Known,
         \A i \in 0 .. size - 1 : kn[i] = Unknown \/ (n = size /\ data[i] = kn[i]),
         ddr3' = Stored(heap, n, data),
         mem' = [mem EXCEPT ![m] = NewBuffer(c, size, kn)],
         UNCHANGED <<created, refs>>
  PROVE  IndInv'
<1> DEFINE new == NewBuffer(c, size, kn)
<1>1. heap' \in FPGAGPU_VRAM_USER_BASE .. FPGAGPU_VRAM_TOTAL_SIZE /\ heap + size <= heap'
  BY AllocGrants DEF IndInv
<1>2. heap \in Nat /\ size \in Nat /\ heap' \in Nat /\ heap <= heap' /\ n \in Nat
      /\ FPGAGPU_VRAM_TOTAL_SIZE \in Nat /\ FPGAGPU_VRAM_USER_BASE <= heap
  BY <1>1, Facts, MemoryAssumption DEF IndInv, TypeOK
<1>3. new = [ctx |-> c, addr |-> heap, size |-> size, known |-> kn]
      /\ new.ctx = c /\ new.addr = heap /\ new.size = size /\ new.known = kn
  BY DEF NewBuffer
<1> HIDE DEF new
<1>4. /\ mem' = [x \in Mems |-> mem'[x]]
      /\ mem'[m] = new
      /\ \A x \in Mems : x # m => mem'[x] = mem[x]
  <2>1. mem = [x \in Mems |-> mem[x]] BY DEF IndInv, BufferInv
  <2>2. mem' = [mem EXCEPT ![m] = new] BY DEF new
  <2> QED BY <2>1, <2>2
<1>5. \A x \in Live' : x \in Mems /\ (x # m => x \in Live /\ mem'[x] = mem[x])
  BY <1>4 DEF Live
<1>6. ddr3' \in [Bytes -> Known]
  BY <1>2, StoredType DEF IndInv, TypeOK, Known
<1>7. TypeOK'
  <2>1. ASSUME NEW x \in Live' PROVE mem'[x].ctx \in Contexts /\ mem'[x].size \in Sizes
    <3>1. CASE x = m BY <3>1, <1>3, <1>4
    <3>2. CASE x # m BY <3>2, <1>5 DEF IndInv, TypeOK
    <3> QED BY <3>1, <3>2
  <2> QED BY <2>1, <1>1, <1>6 DEF IndInv, TypeOK, Known
<1>8. BufferInv'
  <2> SUFFICES ASSUME NEW x \in Live'
               PROVE  /\ mem'[x] = [ctx |-> mem'[x].ctx, addr |-> mem'[x].addr, size |-> mem'[x].size,
                                    known |-> mem'[x].known]
                      /\ mem'[x].addr \in Nat
                      /\ mem'[x].known \in [0 .. mem'[x].size - 1 -> Known]
    BY <1>4 DEF BufferInv
  <2>1. CASE x = m BY <2>1, <1>2, <1>3, <1>4
  <2>2. CASE x # m BY <2>2, <1>5 DEF IndInv, BufferInv
  <2> QED BY <2>1, <2>2
<1>9. PlaceInv'
  <2>1. ASSUME NEW x \in Live
        PROVE  mem[x].addr + mem[x].size <= heap /\ mem[x].addr + mem[x].size <= heap'
    <3>1. ASSUME NEW a \in Nat, NEW z \in Nat, a + z <= heap PROVE a + z <= heap' BY <3>1, <1>2
    <3>2. mem[x].addr + mem[x].size <= heap BY DEF IndInv, PlaceInv
    <3> QED BY <3>1, <3>2, Facts
  <2>2. ASSUME NEW x \in Live'
        PROVE  FPGAGPU_VRAM_USER_BASE <= mem'[x].addr /\ mem'[x].addr + mem'[x].size <= heap'
    <3>1. CASE x = m BY <3>1, <1>1, <1>2, <1>3, <1>4
    <3>2. CASE x # m BY <3>2, <2>1, <1>5 DEF IndInv, PlaceInv
    <3> QED BY <3>1, <3>2
  <2>3. ASSUME NEW x \in Live', NEW y \in Live', x # y
        PROVE  \/ mem'[x].addr + mem'[x].size <= mem'[y].addr
               \/ mem'[y].addr + mem'[y].size <= mem'[x].addr
    <3>1. CASE x = m
      <4>1. mem'[y] = mem[y] /\ y \in Live /\ mem'[x].addr = heap BY <2>3, <3>1, <1>3, <1>4, <1>5
      <4> QED BY <4>1, <2>1
    <3>2. CASE y = m
      <4>1. mem'[x] = mem[x] /\ x \in Live /\ mem'[y].addr = heap BY <2>3, <3>2, <1>3, <1>4, <1>5
      <4> QED BY <4>1, <2>1
    <3>3. CASE x # m /\ y # m BY <2>3, <3>3, <1>5 DEF IndInv, PlaceInv
    <3> QED BY <3>1, <3>2, <3>3
  <2> QED BY <2>2, <2>3 DEF PlaceInv
<1>10. FreshInv'
  <2>1. created # 0 BY MemoryAssumption DEF IndInv, FreshInv
  <2> QED BY <2>1 DEF FreshInv
<1>11. ContentsIntact'
  <2> SUFFICES ASSUME NEW x \in Live', NEW i \in DOMAIN mem'[x].known, mem'[x].known[i] # Unknown
               PROVE  ddr3'[mem'[x].addr + i] = mem'[x].known[i]
    BY DEF ContentsIntact
  <2>1. CASE x = m
    <3>1. i \in 0 .. size - 1 /\ mem'[x].addr = heap /\ mem'[x].known[i] = kn[i] BY <2>1, <1>3, <1>4
    <3>2. n = size /\ data[i] = kn[i] BY <3>1
    <3>3. heap + i \in Bytes /\ heap + i \in heap .. heap + n - 1 /\ (heap + i) - heap = i
      BY <3>1, <3>2, <1>1, <1>2 DEF Bytes
    <3>4. ddr3'[heap + i] = data[i] BY <3>3 DEF Stored
    <3> QED BY <3>1, <3>2, <3>4
  <2>2. CASE x # m
    <3>1. x \in Live /\ mem'[x] = mem[x] BY <2>2, <1>5
    <3> QED BY <3>1, <1>2, AboveHeap DEF IndInv, ContentsIntact
  <2> QED BY <2>1, <2>2
<1> QED BY <1>7, <1>8, <1>9, <1>10, <1>11 DEF IndInv

-----------------------------------------------------------------------------
(* The calls *)

\* An offset and a size that pass the test of the transfer calls.
LEMMA AcceptedRange ==
  ASSUME IndInv, NEW m \in Live, NEW off \in Bytes, NEW size \in Sizes,
         InBuffer(mem[m], off, size)
  PROVE  /\ off \in Nat /\ size \in Nat /\ off + size <= mem[m].size
         /\ At(mem[m], off) = mem[m].addr + off
         /\ size % UINT32_MOD = size
<1> DEFINE a == mem[m].addr
           z == mem[m].size
<1>1. /\ a \in Nat /\ z \in Nat /\ a + z <= FPGAGPU_VRAM_TOTAL_SIZE
      /\ FPGAGPU_VRAM_TOTAL_SIZE \in Nat
  BY Facts
<1>2. off \in Nat /\ off < FPGAGPU_VRAM_TOTAL_SIZE /\ size \in Nat
  BY <1>1, MemoryAssumption DEF Bytes
<1>3. SIZE_MOD \in Nat \ {0} /\ UINT32_MOD \in Nat \ {0} /\ FPGAGPU_VRAM_TOTAL_SIZE < UINT32_MOD
      /\ off + size < SIZE_MOD /\ UINT32_MOD <= SIZE_MOD
  <2>1. PAGE_SIZE_4K \in Nat /\ SIZE_MOD \in Nat /\ UINT32_MOD \in Nat
        /\ size + 2 * PAGE_SIZE_4K + FPGAGPU_VRAM_TOTAL_SIZE < SIZE_MOD
        /\ FPGAGPU_VRAM_TOTAL_SIZE < UINT32_MOD /\ UINT32_MOD <= SIZE_MOD
    BY MemoryAssumption, SizesFit
  <2> QED BY <2>1, <1>1, <1>2
<1>4. (off + size) % SIZE_MOD = off + size BY <1>2, <1>3, NoWrap
<1>5. off + size <= z BY <1>4 DEF InBuffer
<1> HIDE DEF a, z
<1>6. (a + off) % SIZE_MOD = a + off
  <2>1. a + off \in Nat /\ a + off < SIZE_MOD BY <1>1, <1>2, <1>3, <1>5
  <2> QED BY <2>1, <1>3, NoWrap
<1>7. size % UINT32_MOD = size
  <2>1. size < UINT32_MOD BY <1>1, <1>2, <1>3, <1>5
  <2> QED BY <2>1, <1>2, <1>3, NoWrap
<1> QED BY <1>2, <1>5, <1>6, <1>7 DEF At, a, z

\* The first and only clCreateContext finds an empty heap.
LEMMA CreateContextStep ==
  ASSUME MaxCreated = 1, IndInv, NEW c \in Contexts, CreateContext(c)
  PROVE  IndInv'
<1>1. created = 0 /\ Live = {} /\ Live' = {}
  BY DEF IndInv, TypeOK, FreshInv, CreateContext, Live
<1>2. TypeOK'
  BY <1>1, MemoryAssumption DEF IndInv, TypeOK, CreateContext
<1> QED BY <1>1, <1>2 DEF IndInv, BufferInv, PlaceInv, FreshInv, ContentsIntact, CreateContext

\* A reference more or less changes no buffer.
LEMMA ReferenceStep ==
  ASSUME IndInv, NEW c \in Contexts, RetainContext(c) \/ ReleaseContext(c)
  PROVE  IndInv'
<1>1. created # 0
  <2>1. refs[c] > 0 BY DEF RetainContext, ReleaseContext, IndInv, TypeOK
  <2> QED BY <2>1 DEF IndInv, FreshInv
<1>2. refs' \in [Contexts -> 0 .. MaxRefs]
  <2>1. refs \in [Contexts -> 0 .. MaxRefs] /\ MaxRefs \in Nat BY MemoryAssumption DEF IndInv, TypeOK
  <2>2. CASE RetainContext(c) BY <2>1, <2>2 DEF RetainContext
  <2>3. CASE ReleaseContext(c) BY <2>1, <2>3 DEF ReleaseContext
  <2> QED BY <2>2, <2>3
<1>3. UNCHANGED <<heap, created, mem, ddr3>> BY DEF RetainContext, ReleaseContext
<1> QED BY <1>1, <1>2, <1>3
    DEF IndInv, TypeOK, BufferInv, PlaceInv, FreshInv, ContentsIntact, Live

\* clCreateBuffer, with and without initial data.
LEMMA CreateBufferStep ==
  ASSUME IndInv, NEW c \in Contexts, NEW m \in Mems, NEW size \in Sizes, CreateBuffer(c, m, size)
  PROVE  IndInv'
<1>1. /\ refs[c] > 0 /\ mem[m] = NoMem /\ Alloc(size) /\ UNCHANGED <<created, refs>>
      /\ size \in Nat /\ heap \in Nat /\ ddr3 \in [Bytes -> Known]
  BY MemoryAssumption, Facts DEF CreateBuffer, IndInv, TypeOK, Known
<1>2. CASE mem' = [mem EXCEPT ![m] = NewBuffer(c, size, Nothing(size))] /\ UNCHANGED ddr3
  <2>1. Nothing(size) \in [0 .. size - 1 -> Known] /\ \A i \in 0 .. size - 1 : Nothing(size)[i] = Unknown
    BY DEF Nothing, Known
  <2>2. ddr3' = Stored(heap, 0, << >>) BY <1>1, <1>2, StoredNothing
  <2>3. \A i \in 0 .. 0 - 1 : << >>[i] \in Known OBVIOUS
  <2> QED BY <1>1, <1>2, <2>1, <2>2, <2>3, NewBufferStep
<1>3. ASSUME NEW d \in Data,
             mem' = [mem EXCEPT ![m] = NewBuffer(c, size, [i \in 0 .. size - 1 |-> d])],
             Upload(heap, size, [i \in 0 .. size - 1 |-> d])
      PROVE  IndInv'
  <2> DEFINE data == [i \in 0 .. size - 1 |-> d]
  <2>1. data \in [0 .. size - 1 -> Known] /\ \A i \in 0 .. size - 1 : data[i] \in Known
    BY DEF Known
  <2>2. size % UINT32_MOD = size
    <3>1. heap' \in FPGAGPU_VRAM_USER_BASE .. FPGAGPU_VRAM_TOTAL_SIZE /\ heap + size <= heap'
      BY <1>1, AllocGrants DEF IndInv
    <3>2. size < UINT32_MOD /\ UINT32_MOD \in Nat \ {0} BY <1>1, <3>1, MemoryAssumption
    <3> QED BY <1>1, <3>2, NoWrap
  <2>3. ddr3' = Stored(heap, size, data) BY <1>3, <2>2 DEF Upload
  <2>4. mem' = [mem EXCEPT ![m] = NewBuffer(c, size, data)] BY <1>3
  <2> HIDE DEF data
  <2> QED BY <1>1, <2>1, <2>3, <2>4, NewBufferStep
<1> QED BY <1>2, <1>3 DEF CreateBuffer

\* clCreateBuffer fails after it has allocated.
LEMMA CreateBufferFailsStep ==
  ASSUME IndInv, NEW c \in Contexts, NEW size \in Sizes, CreateBufferFails(c, size)
  PROVE  IndInv'
<1>1. /\ Alloc(size) /\ UNCHANGED <<mem, created, refs>>
      /\ size \in Nat /\ heap \in Nat /\ ddr3 \in [Bytes -> Known]
  BY MemoryAssumption, Facts DEF CreateBufferFails, IndInv, TypeOK, Known
<1>2. CASE UNCHANGED ddr3
  <2>1. ddr3' = Stored(heap, 0, << >>) BY <1>1, <1>2, StoredNothing
  <2>2. \A i \in 0 .. 0 - 1 : << >>[i] \in Known OBVIOUS
  <2> QED BY <1>1, <2>1, <2>2, LostAllocation
<1>3. ASSUME NEW d \in Data, UploadFails(heap, size, [i \in 0 .. size - 1 |-> d])
      PROVE  IndInv'
  <2> DEFINE data == [i \in 0 .. size - 1 |-> d]
  <2>1. UINT32_MOD \in Nat \ {0} BY MemoryAssumption
  <2>2. size % UINT32_MOD \in Nat /\ size % UINT32_MOD <= size
    <3>1. PICK q \in Nat, r \in 0 .. UINT32_MOD - 1 :
            r = size % UINT32_MOD /\ size = UINT32_MOD * q + r
      <4>1. /\ size \div UINT32_MOD \in Nat /\ size % UINT32_MOD \in 0 .. UINT32_MOD - 1
            /\ size = UINT32_MOD * (size \div UINT32_MOD) + (size % UINT32_MOD)
        BY <1>1, <2>1, DivDecompose
      <4> QED BY <4>1
    <3>2. UINT32_MOD * q \in Nat BY <2>1
    <3> QED BY <3>1, <3>2
  <2>3. PICK n \in 0 .. size % UINT32_MOD : ddr3' = Stored(heap, n, data)
    BY <1>3 DEF UploadFails
  <2>4. n \in Nat /\ n <= size BY <2>2, <2>3, <1>1
  <2>5. \A i \in 0 .. n - 1 : data[i] \in Known BY <2>4, <1>1 DEF Known
  <2> HIDE DEF data
  <2> QED BY <1>1, <2>3, <2>4, <2>5, LostAllocation
<1> QED BY <1>2, <1>3 DEF CreateBufferFails

\* clReleaseMemObject forgets a buffer and its memory.
LEMMA ReleaseMemObjectStep ==
  ASSUME IndInv, NEW m \in Mems, ReleaseMemObject(m)
  PROVE  IndInv'
<1>1. mem = [x \in Mems |-> mem[x]] BY DEF IndInv, BufferInv
<1>2. mem' = [x \in Mems |-> mem'[x]] /\ mem'[m] = NoMem /\ \A x \in Mems : x # m => mem'[x] = mem[x]
  BY <1>1 DEF ReleaseMemObject
<1>3. \A x \in Live' : x \in Live /\ mem'[x] = mem[x]
  BY <1>2 DEF Live
<1>4. UNCHANGED <<heap, created, refs, ddr3>> BY DEF ReleaseMemObject
<1>5. TypeOK' BY <1>3, <1>4 DEF IndInv, TypeOK
<1>6. BufferInv' BY <1>2, <1>3 DEF IndInv, BufferInv
<1>7. PlaceInv' BY <1>3, <1>4 DEF IndInv, PlaceInv
<1>8. FreshInv' BY <1>3, <1>4 DEF IndInv, FreshInv
<1>9. ContentsIntact' BY <1>3, <1>4 DEF IndInv, ContentsIntact
<1> QED BY <1>5, <1>6, <1>7, <1>8, <1>9 DEF IndInv

\* clEnqueueWriteBuffer, complete or cut short.
LEMMA EnqueueWriteStep ==
  ASSUME IndInv, NEW m \in Mems, NEW size \in Sizes, NEW off \in Bytes, NEW d \in Data,
         EnqueueWrite(m, off, size, d)
  PROVE  IndInv'
<1> DEFINE data == [i \in 0 .. size - 1 |-> d]
<1>1. m \in Live /\ InBuffer(mem[m], off, size) /\ UNCHANGED <<heap, created, refs>>
  BY DEF EnqueueWrite
<1>2. /\ off \in Nat /\ size \in Nat /\ off + size <= mem[m].size
      /\ At(mem[m], off) = mem[m].addr + off /\ size % UINT32_MOD = size
  BY <1>1, AcceptedRange
<1>3. data \in [0 .. size - 1 -> Known] /\ \A i \in 0 .. size - 1 : data[i] \in Known
  BY DEF Known
<1>4. Nothing(size) \in [0 .. size - 1 -> Known] /\ \A i \in 0 .. size - 1 : Nothing(size)[i] = Unknown
  BY DEF Nothing, Known
<1>5. \/ /\ Upload(At(mem[m], off), size, data)
         /\ mem' = [mem EXCEPT ![m] = Knows(mem[m], off, size, data)]
      \/ /\ UploadFails(At(mem[m], off), size, data)
         /\ mem' = [mem EXCEPT ![m] = Knows(mem[m], off, size, Nothing(size))]
  BY DEF EnqueueWrite
<1> HIDE DEF data
<1>6. CASE /\ Upload(At(mem[m], off), size, data)
           /\ mem' = [mem EXCEPT ![m] = Knows(mem[m], off, size, data)]
  <2>1. ddr3' = Stored(mem[m].addr + off, size, data) BY <1>2, <1>6 DEF Upload
  <2>2. size \in 0 .. size BY <1>2
  <2>3. \A i \in 0 .. size - 1 : data[i] = Unknown \/ (i < size /\ data[i] = data[i]) BY <1>2
  <2>4. Transferred(m, off, size, size, data, data)
    BY <1>1, <1>2, <1>3, <1>6, <2>1, <2>2, <2>3 DEF Transferred
  <2> QED BY <2>4, TransferStep
<1>7. CASE /\ UploadFails(At(mem[m], off), size, data)
           /\ mem' = [mem EXCEPT ![m] = Knows(mem[m], off, size, Nothing(size))]
  <2>1. PICK n \in 0 .. size : ddr3' = Stored(mem[m].addr + off, n, data)
    BY <1>2, <1>7 DEF UploadFails
  <2>2. \A i \in 0 .. n - 1 : data[i] \in Known BY <1>2, <1>3, <2>1
  <2> DEFINE kn == Nothing(size)
  <2>3. /\ kn \in [0 .. size - 1 -> Known]
        /\ mem' = [mem EXCEPT ![m] = Knows(mem[m], off, size, kn)]
    BY <1>4, <1>7
  <2>4. \A i \in 0 .. size - 1 : kn[i] = Unknown \/ (i < n /\ data[i] = kn[i]) BY <1>4
  <2> HIDE DEF kn
  <2>5. Transferred(m, off, size, n, data, kn)
    BY <1>1, <1>2, <2>1, <2>2, <2>3, <2>4 DEF Transferred
  <2> QED BY <2>5, TransferStep
<1> QED BY <1>5, <1>6, <1>7

\* clEnqueueCopyBuffer: what is read from a buffer is what is known of it.
LEMMA EnqueueCopyStep ==
  ASSUME IndInv, NEW m \in Mems, NEW n \in Mems, NEW size \in Sizes, NEW off \in Bytes, NEW to \in Bytes,
         EnqueueCopy(m, n, off, to, size)
  PROVE  IndInv'
<1> DEFINE bounce == Download(At(mem[m], off), size)
           known  == [i \in 0 .. size - 1 |-> mem[m].known[off + i]]
<1>1. /\ m \in Live /\ n \in Live /\ UNCHANGED <<heap, created, refs>>
      /\ InBuffer(mem[m], off, size) /\ InBuffer(mem[n], to, size)
  BY DEF EnqueueCopy
<1>2. /\ off \in Nat /\ size \in Nat /\ off + size <= mem[m].size
      /\ At(mem[m], off) = mem[m].addr + off /\ size % UINT32_MOD = size
  BY <1>1, AcceptedRange
<1>3. /\ to \in Nat /\ to + size <= mem[n].size /\ At(mem[n], to) = mem[n].addr + to
  BY <1>1, AcceptedRange
<1>4. Nothing(size) \in [0 .. size - 1 -> Known] /\ \A i \in 0 .. size - 1 : Nothing(size)[i] = Unknown
  BY DEF Nothing, Known
<1>5. ASSUME NEW i \in 0 .. size - 1
      PROVE  /\ known[i] \in Known /\ bounce[i] \in Known
             /\ known[i] = Unknown \/ bounce[i] = known[i]
  <2> DEFINE a == mem[m].addr
             z == mem[m].size
  <2>1. /\ a \in Nat /\ z \in Nat /\ a + z <= FPGAGPU_VRAM_TOTAL_SIZE
        /\ FPGAGPU_VRAM_TOTAL_SIZE \in Nat /\ off + size <= z
    BY <1>1, <1>2, Facts
  <2>2. mem[m].known \in [0 .. z - 1 -> Known] /\ ddr3 \in [Bytes -> Known]
    BY <1>1 DEF IndInv, BufferInv, TypeOK, Known
  <2>3. bounce[i] = ddr3[(a + off) + i] BY <1>2 DEF Download
  <2>4. known[i] = mem[m].known[off + i] OBVIOUS
  <2>5. mem[m].known[off + i] = Unknown \/ ddr3[a + (off + i)] = mem[m].known[off + i]
    <3>1. off + i \in DOMAIN mem[m].known BY <2>1, <2>2, <1>2
    <3> QED BY <3>1, <1>1 DEF IndInv, ContentsIntact
  <2> HIDE DEF a, z, bounce, known
  <2>6. off + i \in 0 .. z - 1 /\ (a + off) + i \in Bytes /\ (a + off) + i = a + (off + i)
    BY <2>1, <1>2 DEF Bytes
  <2> QED BY <2>2, <2>3, <2>4, <2>5, <2>6
<1>6. known \in [0 .. size - 1 -> Known] BY <1>5
<1>7. \/ /\ Upload(At(mem[n], to), size, bounce)
         /\ mem' = [mem EXCEPT ![n] = Knows(mem[n], to, size, known)]
      \/ /\ UploadFails(At(mem[n], to), size, bounce)
         /\ mem' = [mem EXCEPT ![n] = Knows(mem[n], to, size, Nothing(size))]
  BY DEF EnqueueCopy
<1> HIDE DEF bounce, known
<1>8. CASE /\ Upload(At(mem[n], to), size, bounce)
           /\ mem' = [mem EXCEPT ![n] = Knows(mem[n], to, size, known)]
  <2>1. ddr3' = Stored(mem[n].addr + to, size, bounce) BY <1>2, <1>3, <1>8 DEF Upload
  <2>2. size \in 0 .. size BY <1>2
  <2>3. \A i \in 0 .. size - 1 : bounce[i] \in Known BY <1>5
  <2>4. \A i \in 0 .. size - 1 : known[i] = Unknown \/ (i < size /\ bounce[i] = known[i])
    BY <1>2, <1>5
  <2>5. size \in Nat BY <1>2
  <2>6. Transferred(n, to, size, size, bounce, known)
    BY <1>1, <1>3, <1>6, <1>8, <2>1, <2>2, <2>3, <2>4, <2>5 DEF Transferred
  <2> QED BY <2>6, TransferStep
<1>9. CASE /\ UploadFails(At(mem[n], to), size, bounce)
           /\ mem' = [mem EXCEPT ![n] = Knows(mem[n], to, size, Nothing(size))]
  <2>1. PICK k \in 0 .. size : ddr3' = Stored(mem[n].addr + to, k, bounce)
    BY <1>2, <1>3, <1>9 DEF UploadFails
  <2>2. \A i \in 0 .. k - 1 : bounce[i] \in Known BY <1>2, <1>5, <2>1
  <2> DEFINE kn == Nothing(size)
  <2>3. /\ kn \in [0 .. size - 1 -> Known]
        /\ mem' = [mem EXCEPT ![n] = Knows(mem[n], to, size, kn)]
    BY <1>4, <1>9
  <2>4. \A i \in 0 .. size - 1 : kn[i] = Unknown \/ (i < k /\ bounce[i] = kn[i]) BY <1>4
  <2>5. size \in Nat BY <1>2
  <2> HIDE DEF kn
  <2>6. Transferred(n, to, size, k, bounce, kn)
    BY <1>1, <1>3, <2>1, <2>2, <2>3, <2>4, <2>5 DEF Transferred
  <2> QED BY <2>6, TransferStep
<1> QED BY <1>7, <1>8, <1>9

-----------------------------------------------------------------------------
\* The process starts with an empty heap.
LEMMA InitInv == Init => IndInv
<1> SUFFICES ASSUME Init PROVE IndInv OBVIOUS
<1>1. Live = {} BY DEF Init, Live
<1>2. TypeOK BY <1>1, MemoryAssumption DEF Init, TypeOK
<1> QED BY <1>1, <1>2 DEF Init, IndInv, BufferInv, PlaceInv, FreshInv, ContentsIntact

\* Every call preserves the invariant.
LEMMA NextInv ==
  ASSUME MaxCreated = 1, IndInv, [Next]_vars
  PROVE  IndInv'
<1>1. CASE UNCHANGED vars
  BY <1>1 DEF vars, IndInv, TypeOK, BufferInv, PlaceInv, FreshInv, ContentsIntact, Live
<1>2. ASSUME NEW c \in Contexts, CreateContext(c) \/ RetainContext(c) \/ ReleaseContext(c)
      PROVE  IndInv'
  BY <1>2, CreateContextStep, ReferenceStep
<1>3. ASSUME NEW c \in Contexts, NEW m \in Mems, NEW size \in Sizes, CreateBuffer(c, m, size)
      PROVE  IndInv'
  BY <1>3, CreateBufferStep
<1>4. ASSUME NEW c \in Contexts, NEW size \in Sizes, CreateBufferFails(c, size)
      PROVE  IndInv'
  BY <1>4, CreateBufferFailsStep
<1>5. ASSUME NEW m \in Mems, ReleaseMemObject(m)
      PROVE  IndInv'
  BY <1>5, ReleaseMemObjectStep
<1>6. ASSUME NEW m \in Mems, NEW size \in Sizes, NEW off \in Bytes, NEW d \in Data,
             EnqueueWrite(m, off, size, d)
      PROVE  IndInv'
  BY <1>6, EnqueueWriteStep
<1>7. ASSUME NEW m \in Mems, NEW n \in Mems, NEW size \in Sizes, NEW off \in Bytes, NEW to \in Bytes,
             EnqueueCopy(m, n, off, to, size)
      PROVE  IndInv'
  BY <1>7, EnqueueCopyStep
<1> QED BY <1>1, <1>2, <1>3, <1>4, <1>5, <1>6, <1>7 DEF Next

\* The inductive invariant holds throughout the life of a process that creates
\* one context.
THEOREM Invariance ==
  ASSUME MaxCreated = 1
  PROVE  Spec => []IndInv
<1>1. Init => IndInv BY InitInv
<1>2. IndInv /\ [Next]_vars => IndInv' BY NextInv
<1> QED BY <1>1, <1>2, PTL DEF Spec

\* Every variable stays in its domain: no reference count wraps, and no
\* allocation moves the heap pointer beyond the card.
THEOREM TypeCorrect ==
  ASSUME MaxCreated = 1
  PROVE  Spec => []TypeOK
<1>1. IndInv => TypeOK BY DEF IndInv
<1> QED BY <1>1, Invariance, PTL

\* Disjoint places make disjoint sets of bytes.
LEMMA PlacesAreDisjoint == IndInv => BuffersDisjoint
<1> SUFFICES ASSUME IndInv, NEW m \in Live, NEW n \in Live
             PROVE  /\ Range(mem[m]) \subseteq FPGAGPU_VRAM_USER_BASE .. FPGAGPU_VRAM_TOTAL_SIZE - 1
                    /\ m # n => Range(mem[m]) \cap Range(mem[n]) = {}
  BY DEF BuffersDisjoint
<1> DEFINE a == mem[m].addr
           z == mem[m].size
           b == mem[n].addr
           y == mem[n].size
<1>1. /\ a \in Nat /\ z \in Nat /\ a + z <= FPGAGPU_VRAM_TOTAL_SIZE
      /\ b \in Nat /\ y \in Nat /\ FPGAGPU_VRAM_TOTAL_SIZE \in Nat /\ FPGAGPU_VRAM_USER_BASE \in Nat
  BY Facts
<1>2. FPGAGPU_VRAM_USER_BASE <= a /\ (m # n => a + z <= b \/ b + y <= a)
  BY DEF IndInv, PlaceInv
<1>3. Range(mem[m]) = a .. a + z - 1 /\ Range(mem[n]) = b .. b + y - 1
  BY DEF Range
<1> HIDE DEF a, z, b, y
<1>4. a .. a + z - 1 \subseteq FPGAGPU_VRAM_USER_BASE .. FPGAGPU_VRAM_TOTAL_SIZE - 1
  BY <1>1, <1>2
<1>5. m # n => (a .. a + z - 1) \cap (b .. b + y - 1) = {}
  BY <1>1, <1>2
<1> QED BY <1>3, <1>4, <1>5

\* Whatever is allocated, released and refused, and however allocations are
\* rounded, no byte of the card belongs to two buffers of fpgagpu_vram_alloc.
THEOREM BuffersNeverMeet ==
  ASSUME MaxCreated = 1
  PROVE  Spec => []BuffersDisjoint
BY Invariance, PlacesAreDisjoint, PTL

\* What the application has put into a buffer by a write, a copy or at its
\* creation stays there, also when later transfers fail part of the way.
THEOREM ContentsKept ==
  ASSUME MaxCreated = 1
  PROVE  Spec => []ContentsIntact
<1>1. IndInv => ContentsIntact BY DEF IndInv
<1> QED BY <1>1, Invariance, PTL
=============================================================================
