--------------------------- MODULE ReplicationMC ---------------------------
(* Replication for TLC: four collectors, of which c and d have one id. *)
EXTENDS Replication, TLC

CONSTANTS a, b, c, d

IdOfDef == a :> 1 @@ b :> 2 @@ c :> 3 @@ d :> 3

\* A chain, a diamond, and a collector that lists itself; d has c's id.
Loopless ==
  { a :> {b} @@ b :> {c} @@ c :> {d} @@ d :> {},
    a :> {b, c} @@ b :> {c, d} @@ c :> {} @@ d :> {},
    a :> {a, b} @@ b :> {c, d} @@ c :> {c, d} @@ d :> {} }

\* Each the replica of the other.
Mutual == { a :> {b} @@ b :> {a} @@ c :> {} @@ d :> {} }
=============================================================================
