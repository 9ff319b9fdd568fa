---------------------------- MODULE DeviceMemory ----------------------------
(***************************************************************************)
(* The card's DDR3 as the OpenCL library hands it out and fills it         *)
(* (umd/src/vram_alloc.c, cl_context.c, cl_mem.c): a bump allocator shared *)
(* by the process, contexts with a reference count, buffers, and the       *)
(* transfers of clCreateBuffer and clEnqueueWrite/Read/CopyBuffer. A       *)
(* transfer is one DMA_TRANSFER ioctl, which may fail part of the way      *)
(* (DmaTransfer models it step by step). Addresses and sizes are size_t:   *)
(* sums are taken modulo SIZE_MOD. The application uses only handles it    *)
(* has not released.                                                       *)
(***************************************************************************)
EXTENDS Integers, FiniteSets

CONSTANTS
  Contexts,   \* cl_context handles
  Mems,       \* cl_mem handles
  Sizes,      \* sizes the application asks for
  Data,       \* values of a byte the application writes
  Unknown,    \* a byte the application has not determined
  NoMem,      \* a handle that is not in use
  SIZE_MOD,   \* 2^64
  UINT32_MOD, \* 2^32
  PAGE_SIZE_4K, FPGAGPU_VRAM_USER_BASE, FPGAGPU_VRAM_TOTAL_SIZE,
  MaxRefs,    \* bound: references to a context
  MaxCreated  \* bound: contexts created in the life of the process

ASSUME MemoryAssumption ==
  /\ PAGE_SIZE_4K \in Nat \ {0} /\ Sizes \subseteq Nat \ {0}
  /\ FPGAGPU_VRAM_USER_BASE \in Nat \ {0} /\ FPGAGPU_VRAM_TOTAL_SIZE \in Nat
  /\ SIZE_MOD \in Nat /\ UINT32_MOD \in Nat /\ MaxRefs \in Nat \ {0} /\ MaxCreated \in Nat
  /\ FPGAGPU_VRAM_USER_BASE <= FPGAGPU_VRAM_TOTAL_SIZE
  /\ FPGAGPU_VRAM_TOTAL_SIZE < UINT32_MOD /\ UINT32_MOD <= SIZE_MOD
  /\ Unknown \notin Data

\* The sizes for which no sum of the allocator wraps. Beyond them the rounding
\* in fpgagpu_vram_alloc yields a small number and the request is granted.
ASSUME SizesFit ==
  \A s \in Sizes : s + 2 * PAGE_SIZE_4K + FPGAGPU_VRAM_TOTAL_SIZE < SIZE_MOD

VARIABLES
  heap,     \* current_heap_ptr
  created,  \* contexts created so far
  refs,     \* context->ref_count, 0 when there is no context
  mem,      \* the buffers: context, address, size and, for the properties,
            \* what the application knows of the contents
  ddr3      \* the card's memory
vars == <<heap, created, refs, mem, ddr3>>

Live  == {m \in Mems : mem[m] # NoMem}
Bytes == 0 .. FPGAGPU_VRAM_TOTAL_SIZE - 1

\* The bytes of a buffer, as an application counts them.
Range(b) == b.addr .. b.addr + b.size - 1

-----------------------------------------------------------------------------
(* fpgagpu_vram_alloc *)

AlignUp_Down(size) == (size \div PAGE_SIZE_4K) * PAGE_SIZE_4K

AlignUp(size) ==
  (((size + PAGE_SIZE_4K - 1) % SIZE_MOD) \div PAGE_SIZE_4K) * PAGE_SIZE_4K

Fits(size) == (heap + AlignUp(size)) % SIZE_MOD <= FPGAGPU_VRAM_TOTAL_SIZE

\* It returns the old heap pointer, and 0 when the size does not fit.
Alloc(size) ==
  /\ Fits(size)
  /\ heap' = (heap + AlignUp(size)) % SIZE_MOD

-----------------------------------------------------------------------------
(* A DMA_TRANSFER to the device: dma.size is a uint32_t *)

\* The first n bytes of data reach the card's memory at addr.
Stored(addr, n, data) ==
  [a \in Bytes |-> IF a \in addr .. addr + n - 1 THEN data[a - addr] ELSE ddr3[a]]

Upload(addr, size, data) == ddr3' = Stored(addr, size % UINT32_MOD, data)

\* The ioctl fails before, during or after the transfer.
UploadFails(addr, size, data) ==
  \E n \in 0 .. size % UINT32_MOD : ddr3' = Stored(addr, n, data)

\* A transfer from the device (clEnqueueReadBuffer is this and nothing else).
Download(addr, size) == [i \in 0 .. (size % UINT32_MOD) - 1 |-> ddr3[addr + i]]

\* What the application knows of a buffer once data is at off.
Knows(b, off, size, data) ==
  [b EXCEPT !.known = [i \in DOMAIN @ |->
     IF i \in off .. off + size - 1 THEN data[i - off] ELSE @[i]]]

Nothing(size) == [i \in 0 .. size - 1 |-> Unknown]

At_NoOffset(b, off) == b.addr

At(b, off) == (b.addr + off) % SIZE_MOD

InBuffer(b, off, size) == (off + size) % SIZE_MOD <= b.size

-----------------------------------------------------------------------------
\* The heap pointer starts at the user base, statically and again on the first
\* allocation when no context has set vram_initialized.
Init ==
  /\ heap = FPGAGPU_VRAM_USER_BASE /\ created = 0
  /\ refs = [c \in Contexts |-> 0]
  /\ mem = [m \in Mems |-> NoMem]
  /\ ddr3 = [a \in Bytes |-> Unknown]

\* clCreateContext, once the device is open: fpgagpu_vram_init follows.
CreateContext(c) ==
  /\ refs[c] = 0 /\ created < MaxCreated
  /\ created' = created + 1
  /\ refs' = [refs EXCEPT ![c] = 1]
  /\ heap' = FPGAGPU_VRAM_USER_BASE
  /\ UNCHANGED <<mem, ddr3>>

RetainContext(c) ==
  /\ refs[c] \in 1 .. MaxRefs - 1
  /\ refs' = [refs EXCEPT ![c] = @ + 1]
  /\ UNCHANGED <<heap, created, mem, ddr3>>

\* Neither the heap nor the buffers of the context are touched.
ReleaseContext_Twice(c) ==
  /\ refs[c] > 0
  /\ refs' = [refs EXCEPT ![c] = @ - 2]
  /\ UNCHANGED <<heap, created, mem, ddr3>>

ReleaseContext(c) ==
  /\ refs[c] > 0
  /\ refs' = [refs EXCEPT ![c] = @ - 1]
  /\ UNCHANGED <<heap, created, mem, ddr3>>

\* clCreateBuffer, with CL_MEM_COPY_HOST_PTR when data is given.
NewBuffer(c, size, known) == [ctx |-> c, addr |-> heap, size |-> size, known |-> known]

CreateBuffer(c, m, size) ==
  /\ refs[c] > 0 /\ mem[m] = NoMem /\ Alloc(size)
  /\ \/ /\ mem' = [mem EXCEPT ![m] = NewBuffer(c, size, Nothing(size))]
        /\ UNCHANGED ddr3
     \/ \E d \in Data : LET data == [i \in 0 .. size - 1 |-> d] IN
          /\ mem' = [mem EXCEPT ![m] = NewBuffer(c, size, data)]
          /\ Upload(heap, size, data)
  /\ UNCHANGED <<created, refs>>

\* malloc or the initial transfer fails: what was allocated is not given back.
CreateBufferFails(c, size) ==
  /\ refs[c] > 0 /\ Alloc(size)
  /\ \/ UNCHANGED ddr3
     \/ \E d \in Data : UploadFails(heap, size, [i \in 0 .. size - 1 |-> d])
  /\ UNCHANGED <<created, refs, mem>>

\* clReleaseMemObject; fpgagpu_vram_free does nothing.
ReleaseMemObject(m) ==
  /\ m \in Live
  /\ mem' = [mem EXCEPT ![m] = NoMem]
  /\ UNCHANGED <<heap, created, refs, ddr3>>

\* clEnqueueWriteBuffer
EnqueueWrite(m, off, size, d) ==
  LET b == mem[m] data == [i \in 0 .. size - 1 |-> d] IN
  /\ m \in Live /\ refs[b.ctx] > 0 /\ InBuffer(b, off, size)
  /\ \/ /\ Upload(At(b, off), size, data)
        /\ mem' = [mem EXCEPT ![m] = Knows(b, off, size, data)]
     \/ /\ UploadFails(At(b, off), size, data)
        /\ mem' = [mem EXCEPT ![m] = Knows(b, off, size, Nothing(size))]
  /\ UNCHANGED <<heap, created, refs>>

\* clEnqueueCopyBuffer: a read into a bounce buffer, then a write of it. When
\* the read fails nothing has changed.
EnqueueCopy(m, n, off, to, size) ==
  LET s == mem[m]
      t == mem[n]
      bounce == Download(At(s, off), size)
      known  == [i \in 0 .. size - 1 |-> s.known[off + i]]
  IN
  /\ m \in Live /\ n \in Live /\ refs[s.ctx] > 0
  /\ InBuffer(s, off, size) /\ InBuffer(t, to, size)
  /\ \/ /\ Upload(At(t, to), size, bounce)
        /\ mem' = [mem EXCEPT ![n] = Knows(t, to, size, known)]
     \/ /\ UploadFails(At(t, to), size, bounce)
        /\ mem' = [mem EXCEPT ![n] = Knows(t, to, size, Nothing(size))]
  /\ UNCHANGED <<heap, created, refs>>

Next ==
  \/ \E c \in Contexts : CreateContext(c) \/ RetainContext(c) \/ ReleaseContext(c)
  \/ \E c \in Contexts, m \in Mems, size \in Sizes : CreateBuffer(c, m, size)
  \/ \E c \in Contexts, size \in Sizes : CreateBufferFails(c, size)
  \/ \E m \in Mems : ReleaseMemObject(m)
  \/ \E m \in Mems, size \in Sizes : \E off \in Bytes, d \in Data : EnqueueWrite(m, off, size, d)
  \/ \E m, n \in Mems, size \in Sizes : \E off, to \in Bytes : EnqueueCopy(m, n, off, to, size)

Spec == Init /\ [][Next]_vars

-----------------------------------------------------------------------------
(* Properties *)

\* Every variable stays in its domain; in particular no reference count goes
\* below zero.
TypeOK ==
  /\ heap \in FPGAGPU_VRAM_USER_BASE .. FPGAGPU_VRAM_TOTAL_SIZE
  /\ created \in 0 .. MaxCreated /\ refs \in [Contexts -> 0 .. MaxRefs]
  /\ \A m \in Live : mem[m].ctx \in Contexts /\ mem[m].size \in Sizes
  /\ ddr3 \in [Bytes -> Data \cup {Unknown}]

\* No byte belongs to two buffers, whatever was allocated, released and
\* refused before, and every byte of a buffer is user memory of the card: the
\* kernel arguments below FPGAGPU_VRAM_USER_BASE are in none.
BuffersDisjoint ==
  \A m, n \in Live :
    /\ Range(mem[m]) \subseteq FPGAGPU_VRAM_USER_BASE .. FPGAGPU_VRAM_TOTAL_SIZE - 1
    /\ m # n => Range(mem[m]) \cap Range(mem[n]) = {}

\* What an application has put into a buffer, by any call, at any offset, is
\* still there, as long as it has not put something else there itself.
ContentsIntact ==
  \A m \in Live : \A i \in DOMAIN mem[m].known :
    mem[m].known[i] # Unknown => ddr3[mem[m].addr + i] = mem[m].known[i]
=============================================================================
