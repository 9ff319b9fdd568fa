--------------------------- MODULE MCDeviceMemory ---------------------------
(* Instances of DeviceMemory for TLC. *)
EXTENDS DeviceMemory, TLC

Symmetry == Permutations(Mems) \cup Permutations(Data)
=============================================================================
