--------------------------- MODULE MCCommandRing ---------------------------
(* Instances of CommandRing for TLC. *)
EXTENDS CommandRing, TLC

OneCmd == {[opcode |-> "launch", grid_dim |-> 0]}

Symmetry == Permutations(Threads)
=============================================================================
