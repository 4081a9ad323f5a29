---------------------------- MODULE VectorClock ----------------------------
(***************************************************************************)
(* The operations of pkg/clock.go on vector clocks (lines 17-135).         *)
(*                                                                         *)
(* The code keeps a map from node ids to uint64.  NewVectorClock and       *)
(* Increment put in no entry below 1, so a node without an entry is 0      *)
(* here, and the test for a missing entry in Compare and Merge is one more *)
(* comparison of numbers.  No clock lives for 2^64 increments.             *)
(***************************************************************************)
EXTENDS Integers

CONSTANT Nodes

Clock == [Nodes -> Nat]

\* Copy of a nil clock (lines 106-110).
Empty == [m \in Nodes |-> 0]

Increment(vc, n) == [vc EXCEPT ![n] = @ + 1]

NewVectorClock(n) == Increment(Empty, n)

Merge(vc, other) == [n \in Nodes |-> IF other[n] > vc[n] THEN other[n] ELSE vc[n]]

\* The two loops of Compare, one for each direction.
Leq(vc, other) == \A n \in Nodes : vc[n] <= other[n]

Compare(vc, other) ==
  IF Leq(vc, other) /\ ~Leq(other, vc) THEN -1
  ELSE IF ~Leq(vc, other) /\ Leq(other, vc) THEN 1
  ELSE 0
=============================================================================
