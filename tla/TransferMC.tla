------------------------------ MODULE TransferMC ------------------------------
(* Transfer for TLC: callers are interchangeable. *)
EXTENDS Transfer, TLC

Symmetry == Permutations(Callers)
=============================================================================
