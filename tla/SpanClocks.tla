----------------------------- MODULE SpanClocks -----------------------------
(***************************************************************************)
(* The vector clocks of the spans of a distributed call.  A span's clock   *)
(* is set when it is started and never again: a root starts with a new     *)
(* clock (StartSpan, tracer.go:326-359), a child with a copy of its        *)
(* parent's (WithParentSpan, tracer.go:64-79), which comes from the same   *)
(* process or from the metadata of an RPC (interceptor.go:229-309).  A     *)
(* server that finds span ids without a clock has no parent clock to copy. *)
(* Nothing is merged when a call returns.                                  *)
(*                                                                         *)
(* Spans of all nodes start in any order.                                  *)
(***************************************************************************)
EXTENDS VectorClock, FiniteSets

CONSTANTS Spans, NoSpan

ASSUME NoSpanAssumption == NoSpan \notin Spans \cup Nodes

VARIABLES node,    \* NodeID of a span; NoSpan before it is started
          parent,  \* ParentSpanID; NoSpan for a root
          clock,   \* VectorClock
          above,   \* the ancestors whose clocks have come down to the span
          virtual  \* spans started from StartSpanFromContext's virtual parent

vars == <<node, parent, clock, above, virtual>>

Started == {s \in Spans : node[s] # NoSpan}

TypeOK ==
  /\ node \in [Spans -> Nodes \cup {NoSpan}]
  /\ parent \in [Spans -> Started \cup {NoSpan}]
  /\ clock \in [Spans -> Clock]
  /\ above \in [Spans -> SUBSET Started]
  /\ virtual \subseteq Started
  /\ \A s \in Spans : IF s \in Started THEN clock[s][node[s]] >= 2 ELSE above[s] = {}

Init ==
  /\ node = [s \in Spans |-> NoSpan] /\ parent = [s \in Spans |-> NoSpan]
  /\ clock = [s \in Spans |-> Empty]
  /\ above = [s \in Spans |-> {}] /\ virtual = {}
-----------------------------------------------------------------------------
\* Mutant of WithParentSpan: the copy is not incremented.
WithParentSpan_NoIncrement(vc, n) == vc

\* Lines 71 and 74 of tracer.go.
WithParentSpan(vc, n) == Increment(vc, n)

\* StartSpan on node n, vc being the clock once the options are applied.
StartSpan(s, n, p, vc, ancestors) ==
  /\ node[s] = NoSpan
  /\ node' = [node EXCEPT ![s] = n]
  /\ parent' = [parent EXCEPT ![s] = p]
  /\ clock' = [clock EXCEPT ![s] = Increment(vc, n)]
  /\ above' = [above EXCEPT ![s] = ancestors]

\* Without a parent (tracer.go:334; interceptor.go:34, 91, 95).
StartRoot(s, n) ==
  /\ StartSpan(s, n, NoSpan, NewVectorClock(n), {})
  /\ UNCHANGED virtual

\* Mutant of StartChild: the copy of the clock is the parent's own map.
StartChild_Shared(s, n, p) ==
  LET vc == Increment(WithParentSpan(clock[p], n), n) IN
  /\ p \in Started /\ node[s] = NoSpan
  /\ node' = [node EXCEPT ![s] = n]
  /\ parent' = [parent EXCEPT ![s] = p]
  /\ clock' = [clock EXCEPT ![s] = vc, ![p] = vc]
  /\ above' = [above EXCEPT ![s] = above[p] \cup {p}]
  /\ UNCHANGED virtual

\* With a parent in the process, or one whose clock came with the request.
StartChild(s, n, p) ==
  /\ p \in Started
  /\ StartSpan(s, n, p, WithParentSpan(clock[p], n), above[p] \cup {p})
  /\ UNCHANGED virtual

\* The request has the ids of the parent but no clock that can be read
\* (interceptor.go:286-293): Copy of nil is an empty clock.
StartWithoutClock(s, n, p) ==
  /\ p \in Started
  /\ StartSpan(s, n, p, WithParentSpan(Empty, n), {})
  /\ UNCHANGED virtual

\* The metadata branch of StartSpanFromContext (tracer.go:369-387): the
\* virtual parent has a new clock of this node, which nothing replaces.
StartSpanFromContext(s, n, p) ==
  /\ p \in Started
  /\ StartSpan(s, n, p, WithParentSpan(NewVectorClock(n), n), {})
  /\ virtual' = virtual \cup {s}

Next ==
  \E s \in Spans, n \in Nodes :
    \/ StartRoot(s, n)
    \/ \E p \in Spans : \/ StartChild(s, n, p) \/ StartWithoutClock(s, n, p)
                        \/ StartSpanFromContext(s, n, p)

Spec == Init /\ [][Next]_vars
-----------------------------------------------------------------------------
(* clock.go:65 "-1: vc happens before other": the clock of a span is       *)
(* before that of all its descendants, however deep and on whatever nodes, *)
(* as far down as clocks are passed on.                                    *)
AncestorsPrecede ==
  \A s \in Spans : \A a \in above[s] : Compare(clock[a], clock[s]) = -1

(* Two children of one span never compare as one before the other, also    *)
(* where one was started after the other had ended: clocks do not come     *)
(* back with a reply.  Consumers must not read more than that into 0.      *)
SiblingsUnordered ==
  \A r, s \in Started :
    \A p \in above[r] \cap above[s] :
      parent[r] = p /\ parent[s] = p => Compare(clock[r], clock[s]) = 0

(* What a clock really counts: for every node, twice the spans from the    *)
(* first clock down to this one that ran there - not the events of the     *)
(* node.  Spans with the same nodes above them have equal clocks.          *)
ClocksCountAncestors ==
  \A s \in Started : (above[s] \cup {s}) \cap virtual = {} =>
    \A n \in Nodes : clock[s][n] = 2 * Cardinality({a \in above[s] \cup {s} : node[a] = n})
=============================================================================
