-------------------------- MODULE LinkManagementMC --------------------------
(* LinkManagement for TLC: operations and clock readings are interchangeable. *)
EXTENDS LinkManagement, TLC

Symmetry == Permutations(Ops) \cup Permutations(Readings)
=============================================================================
