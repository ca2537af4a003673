--------------------------- MODULE ManagementAPIMC ---------------------------
(* ManagementAPI for TLC: requests are interchangeable. *)
EXTENDS ManagementAPI, TLC

Symmetry == Permutations(Ops)
=============================================================================
