------------------------- MODULE CollectorProcessMC --------------------------
(* CollectorProcess for TLC: a root, its child and the child's child. *)
EXTENDS CollectorProcess, TLC

CONSTANTS server, processor, t1, root, child, leaf

TraceOfDef  == [s \in Spans |-> t1]
EndOfDef    == root :> 3 @@ child :> 2 @@ leaf :> 1
ParentOfDef == root :> root @@ child :> root @@ leaf :> child
BatchesDef  == {<<leaf, child>>, <<child, root>>, <<leaf, leaf>>}
=============================================================================
