------------------------------- MODULE ServerMC -------------------------------
(* Server for TLC: callers are interchangeable. *)
EXTENDS Server, TLC

Symmetry == Permutations(Callers)
=============================================================================
