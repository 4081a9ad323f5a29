--------------------------- MODULE FileStorageMC ---------------------------
(* FileStorage for TLC. *)
EXTENDS FileStorage, TLC

Symmetry == Permutations(Writers) \cup Permutations(Traces)
=============================================================================
