------------------------------ MODULE SessionMC ------------------------------
(* Session for TLC: callers are interchangeable. *)
EXTENDS Session, TLC

Symmetry == Permutations(Callers)
=============================================================================
