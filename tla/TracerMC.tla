------------------------------ MODULE TracerMC ------------------------------
(* Tracer for TLC. *)
EXTENDS Tracer, TLC

Symmetry == Permutations(Spans) \cup Permutations(Callers)
=============================================================================
