---------------------------- MODULE CollectorMC ----------------------------
(* Collector for TLC: a root and its child in trace t1, a span of t2. *)
EXTENDS Collector, TLC

CONSTANTS h1, h2, t1, t2, root, child, other

TraceOfDef == root :> t1 @@ child :> t1 @@ other :> t2
EndOfDef   == root :> 3 @@ child :> 2 @@ other :> 1
BatchesDef == {<<child, other>>, <<child, root>>}

Symmetry == Permutations(Handlers)
=============================================================================
