----------------------------- MODULE CallTreeMC ------------------------------
(* CallTree for TLC. *)
EXTENDS CallTree, TLC

Symmetry == Permutations(Spans \ Unlucky)
=============================================================================
