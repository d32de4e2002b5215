------------------------------ MODULE MCDevice ------------------------------
(* DeviceState for TLC. *)
EXTENDS DeviceState, TLC
CONSTANTS t1, t2, a, b
Symmetry == Permutations(Components)
=============================================================================
