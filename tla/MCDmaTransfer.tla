--------------------------- MODULE MCDmaTransfer ---------------------------
(* Instances of DmaTransfer for TLC: pages of two bytes, and a page table *)
(* in which the first two pages are swapped and the others in order.      *)
EXTENDS DmaTransfer

SwappedFrames == [p \in 1 .. 4 |-> CASE p = 1 -> 2 [] p = 2 -> 1 [] OTHER -> p]

Request(d, v, n, a) == [direction |-> d, host_vaddr |-> v, size |-> n, ddr3_addr |-> a]

\* Both alignments and several lengths, over swapped and over contiguous pages, and
\* requests that are refused.
AllRequests ==
  {Request(d, v, n, 1) : d \in Directions, v \in {2, 3, 6}, n \in {0, 3, 4}}
  \cup {Request(d, v, 6, 1) : d \in Directions, v \in {3, 4}}
  \cup {Request("sideways", 2, 1, 0), Request("to_device", 0, 1, 0),
        Request("to_device", 9, 2, 0)}

\* Two callers whose buffers and device ranges are disjoint.
DisjointRequests == {Request("to_device", 2, 2, 0), Request("to_device", 6, 2, 2),
                     Request("to_device", 2, 0, 0)}
=============================================================================
