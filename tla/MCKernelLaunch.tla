--------------------------- MODULE MCKernelLaunch ---------------------------
(* Instances of KernelLaunch for TLC. *)
EXTENDS KernelLaunch, TLC

Range(dim, global, local) == [work_dim |-> dim, global |-> global, local |-> local]

\* Two dimensions: an uneven one, and one whose local size is left to the runtime.
UnevenRange == {Range(2, <<3, 5>>, <<2, 0>>)}

\* Two applications that run undisturbed: children go before their parents, and
\* write() takes sources whole.
Undisturbed ==
  \A t \in Threads :
    /\ queue[t] \/ HasProgram(t) => context[t] > 0
    /\ HasKernel(t) => HasProgram(t)
    /\ program[t].written # Torn

Symmetry == Permutations(Sources) \cup Permutations(Threads)
=============================================================================
