------------------------ MODULE BufferPersistenceMC ------------------------
(* BufferPersistence for TLC. *)
EXTENDS BufferPersistence, TLC

Symmetry == Permutations(Spans) \cup Permutations(Persisters)
=============================================================================
