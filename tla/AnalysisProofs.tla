--------------------------- MODULE AnalysisProofs ---------------------------
(***************************************************************************)
(* What can be relied on in the analysis of traces, for any set of nodes,  *)
(* any forest of spans and traces of any length.                           *)
(*                                                                         *)
(* First the laws of vector clocks, and what the clocks of spans say about *)
(* the spans: that they order ancestors and leave siblings alone, and how  *)
(* many spans they count.  Then loops over sequences, which the models     *)
(* write as folds, and with them the groups of concurrent spans and what   *)
(* an index of traces can find.  Then the depth-first search that orders   *)
(* the spans of a trace.  Last what the reports on traces say: sums over   *)
(* finite sets and recursive functions, and with them the critical path,   *)
(* the samples of a listing and the statistics and fractions accumulated   *)
(* from them, the view of one trace and the performance report.            *)
(***************************************************************************)
EXTENDS Reports, FiniteSetTheorems, SequenceTheorems, WellFoundedInduction, TLAPS

Less(a, b) == Leq(a, b) /\ ~Leq(b, a)

\* Compare is antisymmetric, and -1 is a strict order.
LEMMA CompareLaws ==
  ASSUME NEW a \in Clock, NEW b \in Clock
  PROVE  /\ Compare(a, b) = -1 <=> Less(a, b)
         /\ Compare(a, b) = -1 <=> Compare(b, a) = 1
         /\ Compare(a, a) = 0
BY DEF Compare, Less

\* Less is transitive.
LEMMA BeforeTransitive ==
  ASSUME NEW a \in Clock, NEW b \in Clock, NEW c \in Clock, Less(a, b), Less(b, c)
  PROVE  Less(a, c)
<1>1. Leq(a, c)
  <2> SUFFICES ASSUME NEW n \in Nodes PROVE a[n] <= c[n]
    BY DEF Leq
  <2>1. a[n] \in Nat /\ b[n] \in Nat /\ c[n] \in Nat /\ a[n] <= b[n] /\ b[n] <= c[n]
    BY DEF Less, Leq, Clock
  <2> QED BY <2>1
<1>2. PICK n \in Nodes : ~(b[n] <= a[n])
  BY DEF Less, Leq
<1>3. b[n] <= c[n] /\ a[n] \in Nat /\ b[n] \in Nat /\ c[n] \in Nat
  BY DEF Less, Leq, Clock
<1>4. ~(c[n] <= a[n])
  BY <1>2, <1>3
<1> QED BY <1>1, <1>4 DEF Less, Leq

\* An incremented clock is a clock, and the old one is before it.
LEMMA IncrementLater ==
  ASSUME NEW vc \in Clock, NEW n \in Nodes
  PROVE  /\ Increment(vc, n) \in Clock
         /\ Increment(vc, n)[n] = vc[n] + 1
         /\ \A m \in Nodes \ {n} : Increment(vc, n)[m] = vc[m]
         /\ Less(vc, Increment(vc, n))
<1>1. /\ Increment(vc, n) \in Clock
      /\ Increment(vc, n)[n] = vc[n] + 1
      /\ \A m \in Nodes \ {n} : Increment(vc, n)[m] = vc[m]
  BY DEF Increment, Clock
<1>2. \A m \in Nodes : vc[m] \in Nat
  BY DEF Clock
<1>3. Leq(vc, Increment(vc, n))
  <2> SUFFICES ASSUME NEW m \in Nodes PROVE vc[m] <= Increment(vc, n)[m]
    BY DEF Leq
  <2>1. CASE m = n
    BY <1>1, <1>2, <2>1
  <2>2. CASE m # n
    BY <1>1, <1>2, <2>2
  <2> QED BY <2>1, <2>2
<1>4. ~(Increment(vc, n)[n] <= vc[n])
  BY <1>1, <1>2
<1> QED BY <1>1, <1>3, <1>4 DEF Less, Leq

\* Merge is the least clock that is not below either.
LEMMA MergeIsLeastUpperBound ==
  ASSUME NEW a \in Clock, NEW b \in Clock
  PROVE  /\ Merge(a, b) \in Clock
         /\ Leq(a, Merge(a, b)) /\ Leq(b, Merge(a, b))
         /\ \A c \in Clock : Leq(a, c) /\ Leq(b, c) => Leq(Merge(a, b), c)
BY DEF Merge, Leq, Clock

\* The clock of a child is its parent's, two higher at the child's node.
ChildClocks ==
  \A s \in Started : \A p \in above[s] : parent[s] = p =>
    /\ clock[s][node[s]] = clock[p][node[s]] + 2
    /\ \A m \in Nodes \ {node[s]} : clock[s][m] = clock[p][m]

IInv == TypeOK /\ AncestorsPrecede /\ ChildClocks

\* The clocks StartSpan gives are clocks whose own component is at least 2.
LEMMA StartClocks ==
  /\ Empty \in Clock
  /\ \A n \in Nodes : NewVectorClock(n) \in Clock /\ NewVectorClock(n)[n] = 1
  /\ \A vc \in Clock, n \in Nodes :
       /\ WithParentSpan(vc, n) \in Clock /\ WithParentSpan(vc, n)[n] >= 1
       /\ Less(vc, WithParentSpan(vc, n))
<1>1. Empty \in Clock /\ \A n \in Nodes : Empty[n] = 0
  BY DEF Empty, Clock
<1>2. ASSUME NEW n \in Nodes
      PROVE  NewVectorClock(n) \in Clock /\ NewVectorClock(n)[n] = 1
  BY <1>1, IncrementLater DEF NewVectorClock
<1>3. ASSUME NEW vc \in Clock, NEW n \in Nodes
      PROVE  /\ WithParentSpan(vc, n) \in Clock /\ WithParentSpan(vc, n)[n] >= 1
             /\ Less(vc, WithParentSpan(vc, n))
  <2>1. vc[n] \in Nat
    BY DEF Clock
  <2> QED BY <2>1, IncrementLater DEF WithParentSpan
<1> QED BY <1>1, <1>2, <1>3

\* StartSpan with a clock of its kind keeps the types, leaves all other
\* spans and their clocks alone, and starts s.
LEMMA StartSpanTypes ==
  ASSUME TypeOK, NEW s \in Spans, NEW n \in Nodes, NEW p \in Started \cup {NoSpan},
         NEW vc \in Clock, vc[n] >= 1, NEW ancestors \in SUBSET Started,
         StartSpan(s, n, p, vc, ancestors), virtual' \in SUBSET (virtual \cup {s})
  PROVE  /\ TypeOK'
         /\ Started' = Started \cup {s} /\ s \notin Started
         /\ \A r \in Spans \ {s} :
              clock'[r] = clock[r] /\ above'[r] = above[r] /\ node'[r] = node[r] /\ parent'[r] = parent[r]
         /\ clock'[s] = Increment(vc, n) /\ above'[s] = ancestors
         /\ node'[s] = n /\ parent'[s] = p
<1> USE DEF TypeOK
<1>1. /\ node' = [node EXCEPT ![s] = n] /\ parent' = [parent EXCEPT ![s] = p]
      /\ clock' = [clock EXCEPT ![s] = Increment(vc, n)]
      /\ above' = [above EXCEPT ![s] = ancestors] /\ node[s] = NoSpan
  BY DEF StartSpan
<1>2. Started' = Started \cup {s} /\ s \notin Started
  BY <1>1, NoSpanAssumption DEF Started
<1>3. Increment(vc, n) \in Clock /\ Increment(vc, n)[n] >= 2
  <2>1. vc[n] \in Nat
    BY DEF Clock
  <2> QED BY <2>1, IncrementLater
<1>4. clock' \in [Spans -> Clock]
  BY <1>1, <1>3
<1>5. /\ node' \in [Spans -> Nodes \cup {NoSpan}] /\ parent' \in [Spans -> Started' \cup {NoSpan}]
      /\ above' \in [Spans -> SUBSET Started'] /\ virtual' \subseteq Started'
  BY <1>1, <1>2
<1>6. \A r \in Spans : IF r \in Started' THEN clock'[r][node'[r]] >= 2 ELSE above'[r] = {}
  BY <1>1, <1>2, <1>3
<1> QED BY <1>1, <1>2, <1>4, <1>5, <1>6

\* Starting a span without an inherited clock preserves the invariant.
LEMMA StartWithoutAncestors ==
  ASSUME IInv, NEW s \in Spans, NEW n \in Nodes, NEW p \in Started \cup {NoSpan},
         NEW vc \in Clock, vc[n] >= 1, StartSpan(s, n, p, vc, {}),
         virtual' \in SUBSET (virtual \cup {s})
  PROVE  IInv'
<1>1. /\ TypeOK'
      /\ Started' = Started \cup {s} /\ s \notin Started
      /\ \A r \in Spans \ {s} :
           clock'[r] = clock[r] /\ above'[r] = above[r] /\ node'[r] = node[r] /\ parent'[r] = parent[r]
      /\ above'[s] = {}
  <2>1. {} \in SUBSET Started /\ TypeOK
    BY DEF IInv
  <2> QED BY <2>1, StartSpanTypes
<1>2. \A r \in Spans : above[r] \subseteq Started
  BY DEF IInv, TypeOK
<1>3. \A r \in Spans \ {s} : s \notin above[r]
  BY <1>1, <1>2
<1>4. AncestorsPrecede'
  BY <1>1, <1>2, <1>3 DEF IInv, AncestorsPrecede, Started
<1>5. ChildClocks'
  BY <1>1, <1>2, <1>3 DEF IInv, ChildClocks, Started
<1> QED BY <1>1, <1>4, <1>5 DEF IInv

\* Starting a child with its parent's clock preserves the invariant.
LEMMA StartChildInductive ==
  ASSUME IInv, NEW s \in Spans, NEW n \in Nodes, NEW p \in Spans, StartChild(s, n, p)
  PROVE  IInv'
<1> DEFINE vc == WithParentSpan(clock[p], n)
           ancestors == above[p] \cup {p}
<1>1. /\ TypeOK /\ p \in Started /\ StartSpan(s, n, p, vc, ancestors) /\ virtual' = virtual
      /\ clock[p] \in Clock /\ ancestors \in SUBSET Started
  BY DEF StartChild, IInv, TypeOK
<1>2. vc \in Clock /\ vc[n] >= 1 /\ Less(clock[p], vc)
  BY <1>1, StartClocks
<1>3. Increment(vc, n) \in Clock /\ Less(vc, Increment(vc, n))
  BY <1>2, IncrementLater
<1>4. Less(clock[p], Increment(vc, n))
  BY <1>1, <1>2, <1>3, BeforeTransitive
<1>5. /\ Increment(vc, n)[n] = clock[p][n] + 2
      /\ \A m \in Nodes \ {n} : Increment(vc, n)[m] = clock[p][m]
  <2>1. /\ vc[n] = clock[p][n] + 1
        /\ \A m \in Nodes \ {n} : vc[m] = clock[p][m]
    BY <1>1, IncrementLater DEF WithParentSpan
  <2>2. clock[p][n] \in Nat
    BY <1>1 DEF Clock
  <2> QED BY <1>2, <2>1, <2>2, IncrementLater
<1>6. /\ TypeOK'
      /\ Started' = Started \cup {s} /\ s \notin Started
      /\ \A r \in Spans \ {s} :
           clock'[r] = clock[r] /\ above'[r] = above[r] /\ node'[r] = node[r] /\ parent'[r] = parent[r]
      /\ clock'[s] = Increment(vc, n) /\ above'[s] = ancestors
      /\ node'[s] = n /\ parent'[s] = p
  <2>1. virtual' \in SUBSET (virtual \cup {s}) /\ p \in Started \cup {NoSpan}
    BY <1>1
  <2> HIDE DEF vc, ancestors
  <2> QED BY <1>1, <1>2, <2>1, StartSpanTypes
<1> HIDE DEF vc
<1>7. \A r \in Spans : above[r] \subseteq Started /\ clock[r] \in Clock
  BY <1>1 DEF TypeOK
<1>8. AncestorsPrecede'
  <2> SUFFICES ASSUME NEW r \in Spans, NEW a \in above'[r]
               PROVE  Compare(clock'[a], clock'[r]) = -1
    BY DEF AncestorsPrecede
  <2>1. CASE r # s
    <3>1. a \in above[r] /\ a # s /\ a \in Spans
      BY <1>6, <1>7, <2>1 DEF Started
    <3> QED BY <1>6, <2>1, <3>1 DEF IInv, AncestorsPrecede
  <2>2. CASE r = s
    <3>1. a \in ancestors /\ a # s /\ a \in Spans
      BY <1>1, <1>6, <2>2 DEF Started
    <3>2. Less(clock[a], Increment(vc, n))
      <4>1. CASE a = p
        BY <1>4, <4>1
      <4>2. CASE a \in above[p]
        <5>1. Less(clock[a], clock[p])
          BY <1>7, <3>1, <4>2, CompareLaws DEF IInv, AncestorsPrecede
        <5> QED BY <1>3, <1>4, <1>7, <3>1, <5>1, BeforeTransitive
      <4> QED BY <3>1, <4>1, <4>2
    <3>3. clock'[a] = clock[a] /\ clock'[r] = Increment(vc, n)
      BY <1>6, <2>2, <3>1
    <3> QED BY <1>3, <1>7, <3>1, <3>2, <3>3, CompareLaws
  <2> QED BY <2>1, <2>2
<1>9. ChildClocks'
  <2> SUFFICES ASSUME NEW r \in Started', NEW q \in above'[r], parent'[r] = q
               PROVE  /\ clock'[r][node'[r]] = clock'[q][node'[r]] + 2
                      /\ \A m \in Nodes \ {node'[r]} : clock'[r][m] = clock'[q][m]
    BY DEF ChildClocks
  <2>1. CASE r # s
    <3>1. /\ r \in Started /\ r \in Spans /\ q \in above[r] /\ parent[r] = q
          /\ q # s /\ q \in Spans
      BY <1>6, <1>7, <2>1 DEF Started
    <3> QED BY <1>6, <2>1, <3>1 DEF IInv, ChildClocks
  <2>2. CASE r = s
    <3>1. q = p /\ p # s
      BY <1>1, <1>6, <2>2
    <3> QED BY <1>5, <1>6, <2>2, <3>1
  <2> QED BY <2>1, <2>2
<1> QED BY <1>6, <1>8, <1>9 DEF IInv

\* Every start of a span preserves the invariant.
LEMMA Inductive == IInv /\ [Next]_vars => IInv'
<1> SUFFICES ASSUME IInv, [Next]_vars PROVE IInv'
  OBVIOUS
<1>1. ASSUME NEW s \in Spans, NEW n \in Nodes, StartRoot(s, n) PROVE IInv'
  <2>1. NewVectorClock(n) \in Clock /\ NewVectorClock(n)[n] >= 1
    BY StartClocks
  <2> QED BY <1>1, <2>1, StartWithoutAncestors DEF StartRoot
<1>2. ASSUME NEW s \in Spans, NEW n \in Nodes, NEW p \in Spans, StartChild(s, n, p) PROVE IInv'
  BY <1>2, StartChildInductive
<1>3. ASSUME NEW s \in Spans, NEW n \in Nodes, NEW p \in Spans, StartWithoutClock(s, n, p)
      PROVE  IInv'
  <2>1. WithParentSpan(Empty, n) \in Clock /\ WithParentSpan(Empty, n)[n] >= 1
    BY StartClocks
  <2> QED BY <1>3, <2>1, StartWithoutAncestors DEF StartWithoutClock
<1>4. ASSUME NEW s \in Spans, NEW n \in Nodes, NEW p \in Spans, StartSpanFromContext(s, n, p)
      PROVE  IInv'
  <2>1. /\ WithParentSpan(NewVectorClock(n), n) \in Clock
        /\ WithParentSpan(NewVectorClock(n), n)[n] >= 1
    BY StartClocks
  <2> QED BY <1>4, <2>1, StartWithoutAncestors DEF StartSpanFromContext
<1>5. CASE UNCHANGED vars
  BY <1>5 DEF vars, IInv, TypeOK, AncestorsPrecede, ChildClocks, Started
<1> QED BY <1>1, <1>2, <1>3, <1>4, <1>5 DEF Next

\* Less the first span the invariant holds.
LEMMA InitIInv == Init => IInv
<1> SUFFICES ASSUME Init PROVE IInv
  OBVIOUS
<1>1. Started = {}
  BY DEF Init, Started
<1> QED BY <1>1, StartClocks DEF Init, IInv, TypeOK, AncestorsPrecede, ChildClocks

(* The types of module SpanClocks: every started span has a clock, in      *)
(* which its own node has counted, and ancestors that have been started.   *)
THEOREM TypeCorrect == Spec => []TypeOK
<1>1. IInv => TypeOK
  BY DEF IInv
<1> QED BY InitIInv, Inductive, <1>1, PTL DEF Spec

\* A span's clock is before the clocks of all its descendants to which it
\* has been passed on, for any nodes and any forest of spans.
THEOREM AncestorsComeFirst == Spec => []AncestorsPrecede
<1>1. IInv => AncestorsPrecede
  BY DEF IInv
<1> QED BY InitIInv, Inductive, <1>1, PTL DEF Spec

\* Spans with one parent never compare as ordered, whatever the order in
\* which they were started.
THEOREM SiblingsAreUnordered == Spec => []SiblingsUnordered
<1>1. ASSUME IInv PROVE SiblingsUnordered
  <2> SUFFICES ASSUME NEW r \in Started, NEW s \in Started, NEW p \in above[r] \cap above[s],
                      parent[r] = p, parent[s] = p
               PROVE  Compare(clock[r], clock[s]) = 0
    BY DEF SiblingsUnordered
  <2>1. /\ clock[r] \in Clock /\ clock[s] \in Clock /\ clock[p] \in Clock
        /\ node[r] \in Nodes /\ node[s] \in Nodes
    BY <1>1 DEF IInv, TypeOK, Started
  <2>2. /\ clock[r][node[r]] = clock[p][node[r]] + 2
        /\ \A m \in Nodes \ {node[r]} : clock[r][m] = clock[p][m]
        /\ clock[s][node[s]] = clock[p][node[s]] + 2
        /\ \A m \in Nodes \ {node[s]} : clock[s][m] = clock[p][m]
    BY <1>1 DEF IInv, ChildClocks
  <2>3. CASE node[r] = node[s]
    <3>1. \A m \in Nodes : clock[r][m] = clock[s][m]
      BY <2>1, <2>2, <2>3
    <3>2. clock[r] = clock[s]
      BY <2>1, <3>1 DEF Clock
    <3> QED BY <2>1, <3>2, CompareLaws
  <2>4. CASE node[r] # node[s]
    <3>1. \A m \in Nodes : clock[p][m] \in Nat
      BY <2>1 DEF Clock
    <3>2. ~(clock[r][node[r]] <= clock[s][node[r]])
      BY <2>1, <2>2, <2>4, <3>1
    <3>3. ~(clock[s][node[s]] <= clock[r][node[s]])
      BY <2>1, <2>2, <2>4, <3>1
    <3> QED BY <2>1, <3>2, <3>3 DEF Compare, Leq
  <2> QED BY <2>3, <2>4
<1> QED BY InitIInv, Inductive, <1>1, PTL DEF Spec
-----------------------------------------------------------------------------
\* The spans from the first clock down to s that ran on n.
Line(s, n) == {a \in above[s] \cup {s} : node[a] = n}

FiniteLines == \A s \in Spans : IsFiniteSet(above[s])

\* One more span in a line, or the first.
LEMMA LineGrows ==
  ASSUME NEW S, IsFiniteSet(S), NEW s, s \notin S
  PROVE  /\ IsFiniteSet(S \cup {s}) /\ Cardinality(S) \in Nat
         /\ Cardinality(S \cup {s}) = Cardinality(S) + 1
BY FS_AddElement, FS_CardinalityType

\* A span that is not the one that starts keeps its line.
LEMMA LineStays ==
  ASSUME TypeOK, NEW s \in Spans, s \notin Started, NEW r \in Started, NEW n \in Nodes,
         \A q \in Spans \ {s} : above'[q] = above[q] /\ node'[q] = node[q]
  PROVE  Line(r, n)' = Line(r, n) /\ r # s
<1>1. above[r] \cup {r} \subseteq Spans \ {s} /\ r # s
  BY DEF TypeOK, Started
<1>2. above'[r] = above[r] /\ \A a \in above[r] \cup {r} : node'[a] = node[a]
  BY <1>1 DEF Started
<1>3. QED
  BY <1>1, <1>2 DEF Line

\* A span that inherits no clock counts itself, or is virtual.
LEMMA FirstCounts ==
  ASSUME IInv, FiniteLines, ClocksCountAncestors,
         NEW s \in Spans, NEW n \in Nodes, NEW p \in Started \cup {NoSpan}, NEW vc \in Clock,
         \/ vc[n] = 1 /\ (\A m \in Nodes \ {n} : vc[m] = 0)
         \/ vc[n] >= 1 /\ s \in virtual',
         StartSpan(s, n, p, vc, {}), virtual' \in SUBSET (virtual \cup {s}),
         virtual \subseteq virtual'
  PROVE  FiniteLines' /\ ClocksCountAncestors'
<1>1. /\ Started' = Started \cup {s} /\ s \notin Started
      /\ \A r \in Spans \ {s} :
           clock'[r] = clock[r] /\ above'[r] = above[r] /\ node'[r] = node[r]
      /\ clock'[s] = Increment(vc, n) /\ above'[s] = {} /\ node'[s] = n
  <2>1. {} \in SUBSET Started /\ TypeOK /\ vc[n] >= 1
    BY DEF IInv
  <2>2. QED
    BY <2>1, StartSpanTypes
<1>2. FiniteLines'
  BY <1>1, FS_EmptySet DEF FiniteLines
<1>3. ASSUME NEW r \in Started, (above'[r] \cup {r}) \cap virtual' = {}, NEW m \in Nodes
      PROVE  clock'[r][m] = 2 * Cardinality(Line(r, m)')
  <2>1. Line(r, m)' = Line(r, m) /\ r # s /\ r \in Spans
    BY <1>1, LineStays DEF IInv, Started
  <2>2. clock'[r] = clock[r] /\ (above[r] \cup {r}) \cap virtual = {}
    BY <1>1, <1>3, <2>1
  <2>3. QED
    BY <2>1, <2>2 DEF ClocksCountAncestors, Line
<1>4. ASSUME s \notin virtual', NEW m \in Nodes
      PROVE  clock'[s][m] = 2 * Cardinality(Line(s, m)')
  <2>1. /\ Increment(vc, n)[n] = 2 /\ \A k \in Nodes \ {n} : Increment(vc, n)[k] = 0
    BY <1>4, IncrementLater
  <2>2. Line(s, m)' = IF m = n THEN {s} ELSE {}
    BY <1>1 DEF Line
  <2>3. Cardinality({s}) = 1 /\ Cardinality({}) = 0
    BY FS_Singleton, FS_EmptySet
  <2>4. QED
    BY <1>1, <2>1, <2>2, <2>3
<1>5. ClocksCountAncestors'
  BY <1>1, <1>3, <1>4 DEF ClocksCountAncestors, Line
<1>6. QED
  BY <1>2, <1>5

\* A child counts what its parent does, and itself.
LEMMA ChildCounts ==
  ASSUME IInv, FiniteLines, ClocksCountAncestors,
         NEW s \in Spans, NEW n \in Nodes, NEW p \in Spans, StartChild(s, n, p)
  PROVE  FiniteLines' /\ ClocksCountAncestors'
<1> DEFINE vc == WithParentSpan(clock[p], n)
<1>1. /\ TypeOK /\ p \in Started /\ StartSpan(s, n, p, vc, above[p] \cup {p})
      /\ virtual' = virtual /\ clock[p] \in Clock /\ above[p] \cup {p} \in SUBSET Started
  BY DEF StartChild, IInv, TypeOK
<1>2. vc \in Clock /\ vc[n] >= 1
  BY <1>1, StartClocks
<1>3. /\ Increment(vc, n)[n] = clock[p][n] + 2
      /\ \A m \in Nodes \ {n} : Increment(vc, n)[m] = clock[p][m]
  <2>1. /\ vc[n] = clock[p][n] + 1
        /\ \A m \in Nodes \ {n} : vc[m] = clock[p][m]
    BY <1>1, IncrementLater DEF WithParentSpan
  <2>2. clock[p][n] \in Nat
    BY <1>1 DEF Clock
  <2>3. QED
    BY <1>2, <2>1, <2>2, IncrementLater
<1>4. /\ Started' = Started \cup {s} /\ s \notin Started
      /\ \A r \in Spans \ {s} :
           clock'[r] = clock[r] /\ above'[r] = above[r] /\ node'[r] = node[r]
      /\ clock'[s] = Increment(vc, n) /\ above'[s] = above[p] \cup {p} /\ node'[s] = n
  <2>1. virtual' \in SUBSET (virtual \cup {s}) /\ p \in Started \cup {NoSpan}
    BY <1>1
  <2> HIDE DEF vc
  <2>2. QED
    BY <1>1, <1>2, <2>1, StartSpanTypes
<1> HIDE DEF vc
<1>5. FiniteLines'
  <2>1. IsFiniteSet(above[p] \cup {p})
    BY FS_AddElement DEF FiniteLines
  <2>2. QED
    BY <1>4, <2>1 DEF FiniteLines
<1>6. ASSUME NEW r \in Started, (above'[r] \cup {r}) \cap virtual' = {}, NEW m \in Nodes
      PROVE  clock'[r][m] = 2 * Cardinality(Line(r, m)')
  <2>1. Line(r, m)' = Line(r, m) /\ r # s /\ r \in Spans
    BY <1>1, <1>4, LineStays DEF Started
  <2>2. clock'[r] = clock[r] /\ (above[r] \cup {r}) \cap virtual = {}
    BY <1>1, <1>4, <1>6, <2>1
  <2>3. QED
    BY <2>1, <2>2 DEF ClocksCountAncestors, Line
<1>7. ASSUME (above'[s] \cup {s}) \cap virtual' = {}, NEW m \in Nodes
      PROVE  clock'[s][m] = 2 * Cardinality(Line(s, m)')
  <2>1. (above[p] \cup {p}) \cap virtual = {}
    BY <1>1, <1>4, <1>7
  <2>2. clock[p][m] = 2 * Cardinality(Line(p, m))
    BY <1>1, <2>1 DEF ClocksCountAncestors, Line
  <2>3. Line(p, m)' = Line(p, m) /\ p # s /\ above'[p] = above[p]
    BY <1>1, <1>4, LineStays
  <2>4. Line(s, m)' = IF m = n THEN Line(p, m) \cup {s} ELSE Line(p, m)
    <3>1. Line(s, m)' = {a \in (above[p] \cup {p}) \cup {s} : node'[a] = m}
      BY <1>4 DEF Line
    <3>2. Line(p, m) = {a \in above[p] \cup {p} : node'[a] = m}
      BY <2>3 DEF Line
    <3>3. QED
      BY <1>4, <3>1, <3>2
  <2>5. IsFiniteSet(Line(p, m)) /\ s \notin Line(p, m)
    <3>1. IsFiniteSet(above[p] \cup {p})
      BY FS_AddElement DEF FiniteLines
    <3>2. Line(p, m) \subseteq above[p] \cup {p}
      BY DEF Line
    <3>3. QED
      BY <1>1, <1>4, <3>1, <3>2, FS_Subset
  <2>6. /\ Cardinality(Line(p, m)) \in Nat
        /\ Cardinality(Line(p, m) \cup {s}) = Cardinality(Line(p, m)) + 1
    BY <2>5, LineGrows
  <2>7. clock'[s][m] = IF m = n THEN clock[p][m] + 2 ELSE clock[p][m]
    BY <1>3, <1>4
  <2>8. QED
    BY <2>2, <2>4, <2>6, <2>7
<1>8. ClocksCountAncestors'
  BY <1>4, <1>6, <1>7 DEF ClocksCountAncestors, Line
<1>9. QED
  BY <1>5, <1>8

\* Every start of a span keeps the counts.
LEMMA CountsInductive ==
  IInv /\ FiniteLines /\ ClocksCountAncestors /\ [Next]_vars =>
    FiniteLines' /\ ClocksCountAncestors'
<1> SUFFICES ASSUME IInv, FiniteLines, ClocksCountAncestors, [Next]_vars
             PROVE  FiniteLines' /\ ClocksCountAncestors'
  OBVIOUS
<1>1. Empty \in Clock /\ \A m \in Nodes : Empty[m] = 0
  BY DEF Empty, Clock
<1>2. ASSUME NEW n \in Nodes
      PROVE  /\ NewVectorClock(n) \in Clock
             /\ NewVectorClock(n)[n] = 1 /\ \A m \in Nodes \ {n} : NewVectorClock(n)[m] = 0
  BY <1>1, IncrementLater DEF NewVectorClock
<1>3. ASSUME NEW s \in Spans, NEW n \in Nodes, StartRoot(s, n)
      PROVE  FiniteLines' /\ ClocksCountAncestors'
  BY <1>2, <1>3, FirstCounts DEF StartRoot
<1>4. ASSUME NEW s \in Spans, NEW n \in Nodes, NEW p \in Spans, StartChild(s, n, p)
      PROVE  FiniteLines' /\ ClocksCountAncestors'
  BY <1>4, ChildCounts
<1>5. ASSUME NEW s \in Spans, NEW n \in Nodes, NEW p \in Spans, StartWithoutClock(s, n, p)
      PROVE  FiniteLines' /\ ClocksCountAncestors'
  <2>1. /\ WithParentSpan(Empty, n) \in Clock /\ WithParentSpan(Empty, n)[n] = 1
        /\ \A m \in Nodes \ {n} : WithParentSpan(Empty, n)[m] = 0
    BY <1>1, IncrementLater DEF WithParentSpan
  <2>2. QED
    BY <1>5, <2>1, FirstCounts DEF StartWithoutClock
<1>6. ASSUME NEW s \in Spans, NEW n \in Nodes, NEW p \in Spans, StartSpanFromContext(s, n, p)
      PROVE  FiniteLines' /\ ClocksCountAncestors'
  <2>1. /\ WithParentSpan(NewVectorClock(n), n) \in Clock
        /\ WithParentSpan(NewVectorClock(n), n)[n] >= 1
    BY <1>2, StartClocks
  <2>2. QED
    BY <1>6, <2>1, FirstCounts DEF StartSpanFromContext
<1>7. CASE UNCHANGED vars
  BY <1>7 DEF vars, FiniteLines, ClocksCountAncestors, Started
<1>8. QED
  BY <1>3, <1>4, <1>5, <1>6, <1>7 DEF Next

(* What a clock counts (clock.go:17-135, tracer.go:64-79 and 326-359), for *)
(* any nodes and any forest of spans: twice the spans on each node from    *)
(* the first clock down to this one, and nothing else that happens there.  *)
THEOREM ClocksCountOnlyAncestors == Spec => []ClocksCountAncestors
<1>1. Init => FiniteLines /\ ClocksCountAncestors
  BY FS_EmptySet DEF Init, FiniteLines, ClocksCountAncestors, Started
<1>2. QED
  BY <1>1, InitIInv, Inductive, CountsInductive, PTL DEF Spec
-----------------------------------------------------------------------------
\* Induction over the natural numbers, for a set of them.
LEMMA NatSetInduction ==
  ASSUME NEW S, 0 \in S, \A n \in Nat : n \in S => n + 1 \in S
  PROVE  Nat \subseteq S
<1> SUFFICES ASSUME Nat \ S # {} PROVE FALSE
  OBVIOUS
<1> DEFINE R == OpToRel(<, Nat)
<1>1. PICK x \in Nat \ S : \A y \in Nat \ S : ~(<<y, x>> \in R)
  <2>1. IsWellFoundedOn(R, Nat)
    BY NatLessThanWellFounded
  <2>2. Nat \ S \subseteq Nat
    OBVIOUS
  <2> HIDE DEF R
  <2>3. QED
    BY <2>1, <2>2, WFMin
<1>2. x # 0 /\ x - 1 \in Nat /\ x - 1 < x /\ (x - 1) + 1 = x
  OBVIOUS
<1>3. x - 1 \notin S
  BY <1>2
<1>4. <<x - 1, x>> \in R
  BY <1>2 DEF OpToRel
<1>5. QED
  BY <1>1, <1>2, <1>3, <1>4

\* A set of numbers up to n has a largest one.
LEMMA MaxIn ==
  ASSUME NEW n \in Nat, NEW T \in SUBSET (1..n), T # {}
  PROVE  Max(T) \in T /\ \A y \in T : y <= Max(T)
<1> DEFINE Good(k) == \A U \in SUBSET (1..k) : U # {} => \E x \in U : \A y \in U : x >= y
<1> DEFINE S == {k \in Nat : Good(k)}
<1> HIDE DEF Good
<1>1. 0 \in S
  <2>1. 1..0 = {}
    OBVIOUS
  <2>2. Good(0)
    BY <2>1 DEF Good
  <2>3. QED
    BY <2>2
<1>2. ASSUME NEW k \in Nat, k \in S PROVE k + 1 \in S
  <2> SUFFICES ASSUME NEW U \in SUBSET (1..(k + 1)), U # {}
               PROVE  \E x \in U : \A y \in U : x >= y
    <3>1. Good(k + 1) => k + 1 \in S
      OBVIOUS
    <3>2. QED
      BY <3>1 DEF Good
  <2>0. Good(k)
    BY <1>2
  <2>1. CASE k + 1 \in U
    <3>1. \A y \in U : k + 1 >= y
      OBVIOUS
    <3>2. QED
      BY <2>1, <3>1
  <2>2. CASE k + 1 \notin U
    <3>1. U \in SUBSET (1..k)
      BY <2>2
    <3>2. QED
      BY <2>0, <3>1 DEF Good
  <2>3. QED
    BY <2>1, <2>2
<1>3. n \in S
  <2> HIDE DEF S
  <2>1. QED
    BY <1>1, <1>2, NatSetInduction
<1>4. \E x \in T : \A y \in T : x >= y
  <2>1. Good(n)
    BY <1>3
  <2>2. QED
    BY <2>1 DEF Good
<1>5. Max(T) \in T /\ \A y \in T : Max(T) >= y
  BY <1>4 DEF Max
<1>6. QED
  BY <1>5

\* The first k of n numbers, as a fold takes them off.
LEMMA MaxOfPrefix ==
  ASSUME NEW n \in Nat, NEW k \in 1..n
  PROVE  /\ 1..k \in SUBSET (1..n) /\ 1..k # {} /\ Max(1..k) = k
         /\ (1..k) \ {Max(1..k)} = 1..(k - 1)
<1>1. 1..k \in SUBSET (1..n) /\ k \in 1..k
  OBVIOUS
<1>2. Max(1..k) \in 1..k /\ \A y \in 1..k : y <= Max(1..k)
  BY <1>1, MaxIn
<1>3. Max(1..k) = k
  BY <1>1, <1>2
<1>4. (1..k) \ {k} = 1..(k - 1)
  OBVIOUS
<1>5. QED
  BY <1>1, <1>3, <1>4

\* A loop over the first n elements of seq, as FoldLeft takes it: f makes what
\* is accumulated of it and the next element.
Loop(f, base, seq, n, g) ==
  \A T \in SUBSET (1..n) :
    g[T] = IF T = {} THEN base ELSE f[<<g[T \ {Max(T)}], seq[Max(T)]>>]

\* There is such a loop.
LEMMA LoopExists ==
  ASSUME NEW A, NEW X, NEW f \in [A \X X -> A], NEW base \in A, NEW seq \in Seq(X)
  PROVE  \E g \in [SUBSET (1..Len(seq)) -> A] : Loop(f, base, seq, Len(seq), g)
<1> DEFINE Good(n) == n <= Len(seq) => \E g \in [SUBSET (1..n) -> A] : Loop(f, base, seq, n, g)
<1> DEFINE S == {n \in Nat : Good(n)}
<1> HIDE DEF Good
<1>0. Len(seq) \in Nat /\ \A i \in 1..Len(seq) : seq[i] \in X
  OBVIOUS
<1>1. 0 \in S
  <2> DEFINE g == [T \in SUBSET (1..0) |-> base]
  <2>1. g \in [SUBSET (1..0) -> A]
    OBVIOUS
  <2>2. \A T \in SUBSET (1..0) : T = {} /\ g[T] = base
    OBVIOUS
  <2> HIDE DEF g
  <2>3. Loop(f, base, seq, 0, g)
    BY <2>2 DEF Loop
  <2>4. Good(0)
    BY <2>1, <2>3 DEF Good
  <2>5. QED
    BY <2>4
<1>2. ASSUME NEW n \in Nat, n \in S PROVE n + 1 \in S
  <2> SUFFICES ASSUME n + 1 <= Len(seq)
               PROVE  \E g \in [SUBSET (1..(n + 1)) -> A] : Loop(f, base, seq, n + 1, g)
    <3>1. Good(n + 1) => n + 1 \in S
      OBVIOUS
    <3>2. QED
      BY <3>1 DEF Good
  <2>0. Good(n) /\ n <= Len(seq)
    BY <1>0, <1>2
  <2>1. PICK g \in [SUBSET (1..n) -> A] : Loop(f, base, seq, n, g)
    BY <2>0 DEF Good
  <2> DEFINE h == [T \in SUBSET (1..(n + 1)) |->
                     IF n + 1 \in T THEN f[<<g[T \ {n + 1}], seq[n + 1]>>] ELSE g[T]]
  <2>2. \A T \in SUBSET (1..n) : T \in SUBSET (1..(n + 1)) /\ n + 1 \notin T /\ h[T] = g[T]
    OBVIOUS
  <2>3. ASSUME NEW T \in SUBSET (1..(n + 1)), n + 1 \in T
        PROVE  /\ T \ {n + 1} \in SUBSET (1..n) /\ h[T] = f[<<h[T \ {n + 1}], seq[n + 1]>>]
               /\ h[T] \in A
    <3>1. T \ {n + 1} \in SUBSET (1..n)
      OBVIOUS
    <3>2. h[T] = f[<<g[T \ {n + 1}], seq[n + 1]>>]
      BY <2>3
    <3>3. seq[n + 1] \in X /\ g[T \ {n + 1}] \in A
      BY <1>0, <3>1
    <3>4. h[T \ {n + 1}] = g[T \ {n + 1}]
      BY <2>2, <3>1
    <3> HIDE DEF h
    <3>5. QED
      BY <3>1, <3>2, <3>3, <3>4
  <2>4. ASSUME NEW T \in SUBSET (1..(n + 1)), n + 1 \notin T
        PROVE  T \in SUBSET (1..n) /\ h[T] = g[T]
    <3>1. T \in SUBSET (1..n)
      BY <2>4
    <3>2. QED
      BY <2>2, <3>1
  <2>5. h \in [SUBSET (1..(n + 1)) -> A]
    <3>1. h = [T \in SUBSET (1..(n + 1)) |-> h[T]]
      OBVIOUS
    <3> HIDE DEF h
    <3>2. \A T \in SUBSET (1..(n + 1)) : h[T] \in A
      BY <2>3, <2>4
    <3>3. QED
      BY <3>1, <3>2
  <2> HIDE DEF h
  <2>6. ASSUME NEW T \in SUBSET (1..(n + 1))
        PROVE  h[T] = IF T = {} THEN base ELSE f[<<h[T \ {Max(T)}], seq[Max(T)]>>]
    <3>1. CASE n + 1 \in T
      <4>1. n + 1 \in Nat /\ T # {}
        BY <3>1
      <4>2. Max(T) \in T /\ \A y \in T : y <= Max(T)
        BY <4>1, MaxIn
      <4>3. Max(T) \in 1..(n + 1) /\ n + 1 <= Max(T)
        BY <3>1, <4>2
      <4>4. Max(T) = n + 1
        BY <4>3
      <4>5. QED
        BY <2>3, <3>1, <4>4
    <3>2. CASE n + 1 \notin T
      <4>1. h[T] = g[T] /\ T \in SUBSET (1..n)
        BY <2>4, <3>2
      <4>2. h[T \ {Max(T)}] = g[T \ {Max(T)}]
        BY <2>2, <4>1
      <4>3. QED
        BY <2>1, <4>1, <4>2 DEF Loop
    <3>3. QED
      BY <3>1, <3>2
  <2>7. Loop(f, base, seq, n + 1, h)
    BY <2>6 DEF Loop
  <2>8. QED
    BY <2>5, <2>7
<1>3. Len(seq) \in S
  <2> HIDE DEF S
  <2>1. QED
    BY <1>0, <1>1, <1>2, NatSetInduction
<1>4. Good(Len(seq))
  BY <1>3
<1>5. Len(seq) <= Len(seq)
  BY <1>0
<1>6. QED
  BY <1>4, <1>5, Zenon DEF Good

\* What a span adds to the group of s.
Joined(processed, s, group, r) ==
  IF r \notin processed \cup Range(group) /\ Concurrent(s, r) THEN Append(group, r) ELSE group

\* The loop that makes the group of s.
Joins(spans, processed, s, g) ==
  g = [T \in SUBSET DOMAIN spans |->
         IF T = {} THEN <<s>> ELSE Joined(processed, s, g[T \ {Max(T)}], spans[Max(T)])]

\* The group of s is made span by span.
LEMMA GroupLoop ==
  ASSUME NEW spans \in Seq(Spans), NEW processed, NEW s \in Spans
  PROVE  \E h : /\ h[0] = <<s>>
                /\ \A k \in 1..Len(spans) : h[k] = Joined(processed, s, h[k - 1], spans[k])
                /\ Group(spans, processed, s) = h[Len(spans)]
<1> DEFINE A == Seq(Spans)
<1> DEFINE f == [p \in A \X Spans |-> Joined(processed, s, p[1], p[2])]
<1> DEFINE g == CHOOSE g : Joins(spans, processed, s, g)
<1>0. Len(spans) \in Nat /\ DOMAIN spans = 1..Len(spans)
  OBVIOUS
<1>1. Group(spans, processed, s) = g[DOMAIN spans]
  BY DEF Group, FoldLeft, MapThenFoldSet, Joins, Joined
<1>2. Joins(spans, processed, s, g)
  <2>1. \A group \in A, r \in Spans : Joined(processed, s, group, r) \in A
    BY DEF Joined
  <2>2. f \in [A \X Spans -> A] /\ <<s>> \in A
    BY <2>1
  <2>3. \A group \in A, r \in Spans : f[<<group, r>>] = Joined(processed, s, group, r)
    OBVIOUS
  <2> HIDE DEF f, A
  <2>4. PICK k \in [SUBSET (1..Len(spans)) -> A] : Loop(f, <<s>>, spans, Len(spans), k)
    BY <2>2, LoopExists DEF A
  <2>5. ASSUME NEW T \in SUBSET (1..Len(spans)), T # {}
        PROVE  k[T] = Joined(processed, s, k[T \ {Max(T)}], spans[Max(T)])
    <3>1. Max(T) \in 1..Len(spans) /\ spans[Max(T)] \in Spans
      <4>1. Max(T) \in T
        BY <1>0, <2>5, MaxIn
      <4>2. Max(T) \in 1..Len(spans)
        BY <4>1
      <4>3. QED
        BY <4>2
    <3>2. k[T \ {Max(T)}] \in A
      BY <2>4
    <3>3. QED
      BY <2>3, <2>4, <2>5, <3>1, <3>2 DEF Loop
  <2>6. k[{}] = <<s>>
    BY <2>4 DEF Loop
  <2>7. Joins(spans, processed, s, k)
    BY <1>0, <2>4, <2>5, <2>6 DEF Joins
  <2>8. QED
    BY <2>7, Zenon
<1> HIDE DEF g
<1> DEFINE h == [k \in 0..Len(spans) |-> g[1..k]]
<1>3. h[0] = <<s>> /\ h[Len(spans)] = g[DOMAIN spans]
  <2>1. 1..0 = {} /\ 0 \in 0..Len(spans) /\ Len(spans) \in 0..Len(spans)
    BY <1>0
  <2>2. g[{}] = <<s>>
    BY <1>2 DEF Joins
  <2>3. QED
    BY <1>0, <2>1, <2>2
<1>4. ASSUME NEW k \in 1..Len(spans)
      PROVE  h[k] = Joined(processed, s, h[k - 1], spans[k])
  <2>1. /\ 1..k \in SUBSET (1..Len(spans)) /\ 1..k # {} /\ Max(1..k) = k
        /\ (1..k) \ {Max(1..k)} = 1..(k - 1)
    BY <1>0, MaxOfPrefix
  <2>2. g[1..k] = Joined(processed, s, g[1..(k - 1)], spans[k])
    BY <1>0, <1>2, <2>1 DEF Joins
  <2>3. k \in 0..Len(spans) /\ k - 1 \in 0..Len(spans)
    BY <1>0
  <2>4. QED
    BY <2>2, <2>3
<1>5. QED
  <2> HIDE DEF h
  <2>1. QED
    BY <1>1, <1>3, <1>4

\* One element more at the end.
LEMMA Appended ==
  ASSUME NEW X, NEW t \in Seq(X), NEW x \in X
  PROVE  /\ Append(t, x) \in Seq(X) /\ Len(Append(t, x)) = Len(t) + 1
         /\ Append(t, x)[Len(t) + 1] = x /\ \A i \in 1..Len(t) : Append(t, x)[i] = t[i]
         /\ Range(Append(t, x)) = Range(t) \cup {x}
         /\ IsInjective(t) /\ x \notin Range(t) => IsInjective(Append(t, x))
<1> DEFINE u == Append(t, x)
<1> DEFINE n == Len(t)
<1>1. /\ u \in Seq(X) /\ Len(u) = n + 1 /\ n \in Nat /\ u[n + 1] = x
      /\ \A i \in 1..n : u[i] = t[i]
      /\ DOMAIN u = 1..(n + 1) /\ DOMAIN t = 1..n
  BY AppendProperties
<1> HIDE DEF u, n
<1>2. \A i \in 1..(n + 1) : i \in 1..n \/ i = n + 1
  BY <1>1
<1>3. n + 1 \in 1..(n + 1) /\ 1..n \subseteq 1..(n + 1)
  BY <1>1
<1>4. Range(u) = Range(t) \cup {x}
  BY <1>1, <1>2, <1>3 DEF Range
<1>5. IsInjective(t) /\ x \notin Range(t) => IsInjective(u)
  BY <1>1, <1>2 DEF Range, IsInjective
<1>6. QED
  BY <1>1, <1>4, <1>5 DEF u, n

\* The clocks of spans are clocks, so that being concurrent is mutual.
LEMMA ConcurrentMutual ==
  ASSUME \A s \in Spans : clock[s] \in Clock
  PROVE  /\ \A s \in Spans : Concurrent(s, s)
         /\ \A r, s \in Spans : Concurrent(r, s) <=> Concurrent(s, r)
  BY DEF Concurrent, Compare

\* What has become of the group of s after k spans.
Grouped(spans, processed, s, k, group) ==
  /\ group \in Seq(Spans) /\ Len(group) >= 1 /\ group[1] = s
  /\ IsInjective(group)
  /\ Range(group) \subseteq Range(spans) \cup {s}
  /\ Range(group) \cap processed = {}
  /\ \A j \in 2..Len(group) : Concurrent(s, group[j])
  /\ \A i \in 1..k : spans[i] \notin processed /\ Concurrent(s, spans[i]) => spans[i] \in Range(group)

\* The group of s has every span that is concurrent with it and in no group
\* yet, and each once.
LEMMA GroupIs ==
  ASSUME NEW spans \in Seq(Spans), NEW processed, NEW s \in Spans, s \notin processed
  PROVE  Grouped(spans, processed, s, Len(spans), Group(spans, processed, s))
<1> DEFINE N == Len(spans)
<1>1. PICK h : /\ h[0] = <<s>>
               /\ \A k \in 1..N : h[k] = Joined(processed, s, h[k - 1], spans[k])
               /\ Group(spans, processed, s) = h[N]
  BY GroupLoop
<1>2. N \in Nat /\ \A i \in 1..N : spans[i] \in Spans /\ spans[i] \in Range(spans)
  BY DEF Range
<1> DEFINE Good(k) == k <= N => Grouped(spans, processed, s, k, h[k])
<1> DEFINE S == {k \in Nat : Good(k)}
<1> HIDE DEF Good, N
<1>3. 0 \in S
  <2>1. /\ <<s>> \in Seq(Spans) /\ Len(<<s>>) = 1 /\ <<s>>[1] = s /\ DOMAIN <<s>> = 1..1
        /\ 2..1 = {} /\ 1..0 = {}
    OBVIOUS
  <2>2. Range(<<s>>) = {s}
    BY <2>1 DEF Range
  <2>3. IsInjective(<<s>>)
    BY <2>1 DEF IsInjective
  <2>4. Good(0)
    BY <1>1, <2>1, <2>2, <2>3 DEF Good, Grouped
  <2>5. QED
    BY <2>4
<1>4. ASSUME NEW k \in Nat, k \in S PROVE k + 1 \in S
  <2> SUFFICES ASSUME k + 1 <= N PROVE Grouped(spans, processed, s, k + 1, h[k + 1])
    <3>1. Good(k + 1) => k + 1 \in S
      OBVIOUS
    <3>2. QED
      BY <3>1 DEF Good
  <2> DEFINE group == h[k]
  <2> DEFINE r == spans[k + 1]
  <2>1. Grouped(spans, processed, s, k, group)
    <3>1. Good(k) /\ k <= N
      BY <1>2, <1>4
    <3>2. QED
      BY <3>1 DEF Good
  <2>2. h[k + 1] = Joined(processed, s, group, r)
    <3>1. k + 1 \in 1..N /\ (k + 1) - 1 = k
      BY <1>2
    <3>2. QED
      BY <1>1, <3>1
  <2>3. r \in Spans /\ r \in Range(spans)
    BY <1>2
  <2>4. \A i \in 1..(k + 1) : i \in 1..k \/ i = k + 1
    OBVIOUS
  <2>5. CASE r \notin processed \cup Range(group) /\ Concurrent(s, r)
    <3> DEFINE more == Append(group, r)
    <3>1. h[k + 1] = more
      BY <2>2, <2>5 DEF Joined
    <3>2. group \in Seq(Spans) /\ Len(group) \in Nat
      BY <2>1 DEF Grouped
    <3> HIDE DEF group, r
    <3>3. /\ more \in Seq(Spans) /\ Len(more) = Len(group) + 1 /\ more[Len(group) + 1] = r
          /\ \A i \in 1..Len(group) : more[i] = group[i]
          /\ Range(more) = Range(group) \cup {r}
          /\ IsInjective(group) /\ r \notin Range(group) => IsInjective(more)
      BY <2>3, <3>2, Appended
    <3> HIDE DEF more
    <3>4. Len(more) >= 1 /\ more[1] = s /\ IsInjective(more)
      BY <2>1, <2>5, <3>2, <3>3 DEF Grouped
    <3>5. Range(more) \subseteq Range(spans) \cup {s} /\ Range(more) \cap processed = {}
      BY <2>1, <2>3, <2>5, <3>3 DEF Grouped
    <3>6. ASSUME NEW j \in 2..Len(more) PROVE Concurrent(s, more[j])
      <4>1. j \in 2..Len(group) \/ j = Len(group) + 1
        BY <3>2, <3>3
      <4>2. CASE j = Len(group) + 1
        BY <2>5, <3>3, <4>2
      <4>3. CASE j \in 2..Len(group)
        <5>1. j \in 1..Len(group)
          BY <4>3
        <5>2. QED
          BY <2>1, <3>3, <4>3, <5>1 DEF Grouped
      <4>4. QED
        BY <4>1, <4>2, <4>3
    <3>7. \A i \in 1..(k + 1) :
            spans[i] \notin processed /\ Concurrent(s, spans[i]) => spans[i] \in Range(more)
      BY <2>1, <2>4, <3>3 DEF Grouped, r
    <3>8. QED
      BY <3>1, <3>3, <3>4, <3>5, <3>6, <3>7 DEF Grouped
  <2>6. CASE ~(r \notin processed \cup Range(group) /\ Concurrent(s, r))
    <3>1. h[k + 1] = group
      BY <2>2, <2>6 DEF Joined
    <3>2. \A i \in 1..(k + 1) :
            spans[i] \notin processed /\ Concurrent(s, spans[i]) => spans[i] \in Range(group)
      BY <2>1, <2>4, <2>6 DEF Grouped
    <3> HIDE DEF group, r
    <3>3. QED
      BY <2>1, <3>1, <3>2 DEF Grouped
  <2>7. QED
    BY <2>5, <2>6
<1>5. Good(N)
  <2>1. N \in S
    <3> HIDE DEF S
    <3>1. QED
      BY <1>2, <1>3, <1>4, NatSetInduction
  <2>2. QED
    BY <2>1
<1>6. Grouped(spans, processed, s, N, h[N])
  <2>1. N <= N
    BY <1>2
  <2>2. QED
    BY <1>5, <2>1 DEF Good
<1>7. QED
  BY <1>1, <1>6 DEF N

\* What one sequence after another has in it.
LEMMA Concatenated ==
  ASSUME NEW X, NEW s \in Seq(X), NEW t \in Seq(X)
  PROVE  /\ s \o t \in Seq(X) /\ Range(s \o t) = Range(s) \cup Range(t)
         /\ IsInjective(s) /\ IsInjective(t) /\ Range(s) \cap Range(t) = {} => IsInjective(s \o t)
<1> DEFINE u == s \o t
<1> DEFINE m == Len(s)
<1> DEFINE n == Len(t)
<1>1. /\ m \in Nat /\ n \in Nat /\ DOMAIN s = 1..m /\ DOMAIN t = 1..n
      /\ u \in Seq(X) /\ Len(u) = m + n
  BY ConcatProperties
<1>2. DOMAIN u = 1..(m + n)
  BY <1>1
<1>3. \A i \in 1..(m + n) : u[i] = IF i <= m THEN s[i] ELSE t[i - m]
  BY ConcatProperties
<1> HIDE DEF u, m, n
<1>4. \A i \in 1..m : i \in 1..(m + n) /\ u[i] = s[i]
  BY <1>1, <1>3
<1>5. \A i \in 1..n : i + m \in 1..(m + n) /\ u[i + m] = t[i]
  BY <1>1, <1>3
<1>6. \A i \in 1..(m + n) : i \in 1..m \/ (i - m \in 1..n /\ (i - m) + m = i)
  BY <1>1
<1>7. \A i \in 1..(m + n) : i \in 1..m \/ (i - m \in 1..n /\ u[i] = t[i - m])
  BY <1>5, <1>6
<1>8. Range(u) = Range(s) \cup Range(t)
  <2>1. Range(u) \subseteq Range(s) \cup Range(t)
    BY <1>1, <1>2, <1>4, <1>7 DEF Range
  <2>2. Range(s) \cup Range(t) \subseteq Range(u)
    BY <1>1, <1>2, <1>4, <1>5 DEF Range
  <2>3. QED
    BY <2>1, <2>2
<1>9. ASSUME IsInjective(s), IsInjective(t), Range(s) \cap Range(t) = {} PROVE IsInjective(u)
  <2> SUFFICES ASSUME NEW i \in 1..(m + n), NEW j \in 1..(m + n), u[i] = u[j] PROVE i = j
    BY <1>2 DEF IsInjective
  <2>1. CASE i \in 1..m /\ j \in 1..m
    BY <1>1, <1>4, <1>9, <2>1 DEF IsInjective
  <2>2. CASE i \notin 1..m /\ j \notin 1..m
    <3>1. i - m \in 1..n /\ j - m \in 1..n /\ t[i - m] = t[j - m]
      BY <1>7, <2>2
    <3>2. i - m = j - m
      BY <1>1, <1>9, <3>1 DEF IsInjective
    <3>3. QED
      BY <1>1, <3>2
  <2>3. CASE i \in 1..m /\ j \notin 1..m
    <3>1. u[i] \in Range(s) /\ u[j] \in Range(t)
      BY <1>1, <1>4, <1>7, <2>3 DEF Range
    <3>2. QED
      BY <1>9, <3>1
  <2>4. CASE i \notin 1..m /\ j \in 1..m
    <3>1. u[j] \in Range(s) /\ u[i] \in Range(t)
      BY <1>1, <1>4, <1>7, <2>4 DEF Range
    <3>2. QED
      BY <1>9, <3>1
  <2>5. QED
    BY <2>1, <2>2, <2>3, <2>4
<1>10. QED
  BY <1>1, <1>8, <1>9 DEF u

\* The loop of FlattenSeq.
Flattens(seqs, flat) ==
  flat = [i \in 1..Len(seqs) |-> IF i = 1 THEN seqs[i] ELSE flat[i - 1] \o seqs[i]]

\* FlattenSeq goes through its sequences one by one.
LEMMA FlattenLoop ==
  ASSUME NEW X, NEW seqs \in Seq(Seq(X)), seqs # <<>>
  PROVE  \E flat : /\ FlattenSeq(seqs) = flat[Len(seqs)] /\ flat[1] = seqs[1]
                   /\ \A i \in 2..Len(seqs) : flat[i] = flat[i - 1] \o seqs[i]
<1> DEFINE A == Seq(X)
<1> DEFINE f == [p \in A \X A |-> p[1] \o p[2]]
<1> DEFINE flat == CHOOSE flat : Flattens(seqs, flat)
<1> DEFINE N == Len(seqs)
<1>0. N \in Nat /\ N >= 1 /\ N # 0
  BY EmptySeq
<1>1. FlattenSeq(seqs) = flat[N]
  BY <1>0 DEF FlattenSeq, Flattens
<1>2. Flattens(seqs, flat)
  <2>1. f \in [A \X A -> A] /\ <<>> \in A
    BY ConcatProperties
  <2>2. \A s \in A, t \in A : f[<<s, t>>] = s \o t
    OBVIOUS
  <2>3. \A s \in A : <<>> \o s = s
    BY ConcatEmptySeq
  <2>4. \A i \in 1..N : seqs[i] \in A
    OBVIOUS
  <2> HIDE DEF f
  <2>5. PICK g \in [SUBSET (1..N) -> A] : Loop(f, <<>>, seqs, N, g)
    <3> HIDE DEF A
    <3>1. seqs \in Seq(A)
      BY DEF A
    <3>2. QED
      BY <2>1, <3>1, LoopExists
  <2> HIDE DEF A, N
  <2> DEFINE h == [i \in 1..N |-> g[1..i]]
  <2>6. \A i \in 1..N : g[1..i] = f[<<g[1..(i - 1)], seqs[i]>>] /\ g[1..(i - 1)] \in A
    <3> TAKE i \in 1..N
    <3>1. 1..i \in SUBSET (1..N) /\ 1..i # {} /\ Max(1..i) = i /\ (1..i) \ {Max(1..i)} = 1..(i - 1)
      BY <1>0, MaxOfPrefix
    <3>2. 1..(i - 1) \in SUBSET (1..N)
      BY <1>0
    <3>3. QED
      BY <2>5, <3>1, <3>2 DEF Loop
  <2>7. \A i \in 1..N : g[1..i] = g[1..(i - 1)] \o seqs[i]
    BY <2>2, <2>4, <2>6
  <2>8. g[1..1] = seqs[1]
    <3>1. 1..0 = {} /\ {} \in SUBSET (1..N) /\ 1 \in 1..N /\ 1 - 1 = 0
      BY <1>0
    <3>2. g[1..0] = <<>>
      BY <2>5, <3>1 DEF Loop
    <3>3. QED
      BY <2>3, <2>4, <2>7, <3>1, <3>2
  <2>9. \A i \in 1..N : h[i] = IF i = 1 THEN seqs[i] ELSE h[i - 1] \o seqs[i]
    <3> TAKE i \in 1..N
    <3>1. CASE i = 1
      BY <2>8, <3>1
    <3>2. CASE i # 1
      <4>1. i - 1 \in 1..N
        BY <1>0, <3>2
      <4>2. h[i] = g[1..i] /\ h[i - 1] = g[1..(i - 1)]
        BY <4>1
      <4> HIDE DEF h
      <4>3. QED
        BY <2>7, <3>2, <4>2
    <3>3. QED
      BY <3>1, <3>2
  <2>10. h = [i \in 1..N |-> h[i]]
    OBVIOUS
  <2> HIDE DEF h
  <2>11. Flattens(seqs, h)
    BY <2>9, <2>10 DEF Flattens, N
  <2>12. QED
    BY <2>11, Zenon
<1> HIDE DEF flat, N
<1>3. /\ flat[1] = seqs[1]
      /\ \A i \in 2..N : flat[i] = flat[i - 1] \o seqs[i]
  <2>1. 1 \in 1..N /\ \A i \in 2..N : i \in 1..N /\ i # 1
    BY <1>0
  <2>2. \A i \in 1..N : flat[i] = IF i = 1 THEN seqs[i] ELSE flat[i - 1] \o seqs[i]
    BY <1>2 DEF Flattens, N
  <2>3. QED
    BY <2>1, <2>2
<1>4. QED
  BY <1>1, <1>3 DEF N

\* Sequences without repetitions and with nothing in common make one without
\* repetitions.
LEMMA FlattenInjective ==
  ASSUME NEW X, NEW seqs \in Seq(Seq(X)),
         \A i \in 1..Len(seqs) : IsInjective(seqs[i]),
         \A i, j \in 1..Len(seqs) : i # j => Range(seqs[i]) \cap Range(seqs[j]) = {}
  PROVE  IsInjective(FlattenSeq(seqs))
<1>1. CASE seqs = <<>>
  <2>1. FlattenSeq(seqs) = <<>>
    BY <1>1 DEF FlattenSeq
  <2>2. QED
    BY <2>1 DEF IsInjective
<1>2. CASE seqs # <<>>
  <2> DEFINE N == Len(seqs)
  <2>0. N \in Nat /\ N >= 1 /\ \A i \in 1..N : seqs[i] \in Seq(X)
    BY <1>2, EmptySeq
  <2>1. PICK flat : /\ FlattenSeq(seqs) = flat[N] /\ flat[1] = seqs[1]
                    /\ \A i \in 2..N : flat[i] = flat[i - 1] \o seqs[i]
    BY <1>2, FlattenLoop
  <2>2. /\ \A i \in 1..N : IsInjective(seqs[i])
        /\ \A i, j \in 1..N : i # j => Range(seqs[i]) \cap Range(seqs[j]) = {}
    OBVIOUS
  <2> DEFINE Good(k) == 1 <= k /\ k <= N =>
               /\ flat[k] \in Seq(X) /\ IsInjective(flat[k])
               /\ \A j \in (k + 1)..N : Range(flat[k]) \cap Range(seqs[j]) = {}
  <2> DEFINE S == {k \in Nat : Good(k)}
  <2> HIDE DEF Good, N
  <2>3. 0 \in S
    BY DEF Good
  <2>4. ASSUME NEW k \in Nat, k \in S PROVE k + 1 \in S
    <3> SUFFICES ASSUME k + 1 <= N
                 PROVE  /\ flat[k + 1] \in Seq(X) /\ IsInjective(flat[k + 1])
                        /\ \A j \in ((k + 1) + 1)..N : Range(flat[k + 1]) \cap Range(seqs[j]) = {}
      <4>1. Good(k + 1) => k + 1 \in S
        OBVIOUS
      <4>2. QED
        BY <4>1 DEF Good
    <3>1. CASE k = 0
      <4>1. flat[k + 1] = seqs[1] /\ 1 \in 1..N
        BY <2>0, <2>1, <3>1
      <4>2. \A j \in ((k + 1) + 1)..N : j \in 1..N /\ j # 1
        BY <2>0, <3>1
      <4>3. QED
        BY <2>0, <2>2, <4>1, <4>2
    <3>2. CASE k # 0
      <4>1. Good(k) /\ 1 <= k /\ k <= N
        BY <2>0, <2>4, <3>2
      <4>2. /\ flat[k] \in Seq(X) /\ IsInjective(flat[k])
            /\ \A j \in (k + 1)..N : Range(flat[k]) \cap Range(seqs[j]) = {}
        BY <4>1 DEF Good
      <4>3. k + 1 \in 2..N /\ (k + 1) - 1 = k /\ k + 1 \in 1..N /\ k + 1 \in (k + 1)..N
        BY <2>0, <4>1
      <4>4. flat[k + 1] = flat[k] \o seqs[k + 1]
        BY <2>1, <4>3
      <4>5. seqs[k + 1] \in Seq(X) /\ IsInjective(seqs[k + 1])
        BY <2>0, <2>2, <4>3
      <4>6. Range(flat[k]) \cap Range(seqs[k + 1]) = {}
        BY <4>2, <4>3
      <4>7. /\ flat[k + 1] \in Seq(X) /\ IsInjective(flat[k + 1])
            /\ Range(flat[k + 1]) = Range(flat[k]) \cup Range(seqs[k + 1])
        BY <4>2, <4>4, <4>5, <4>6, Concatenated
      <4>8. \A j \in ((k + 1) + 1)..N : j \in 1..N /\ j # k + 1 /\ j \in (k + 1)..N
        BY <2>0
      <4>9. \A j \in ((k + 1) + 1)..N : Range(flat[k + 1]) \cap Range(seqs[j]) = {}
        BY <2>2, <4>2, <4>3, <4>7, <4>8
      <4>10. QED
        BY <4>7, <4>9
    <3>3. QED
      BY <3>1, <3>2
  <2>5. Good(N)
    <3>1. N \in S
      <4> HIDE DEF S
      <4>1. QED
        BY <2>0, <2>3, <2>4, NatSetInduction
    <3>2. QED
      BY <3>1
  <2>6. IsInjective(flat[N])
    <3>1. 1 <= N /\ N <= N
      BY <2>0
    <3>2. QED
      BY <2>5, <3>1 DEF Good
  <2>7. QED
    BY <2>1, <2>6 DEF N
<1>3. QED
  BY <1>1, <1>2

\* What a span adds to the groups.
Detected(spans, acc, s) ==
  LET group == Group(spans, acc.processed, s) IN
  IF s \in acc.processed THEN acc
  ELSE [processed |-> acc.processed \cup Range(group),
        groups |-> IF Len(group) > 1 THEN Append(acc.groups, group) ELSE acc.groups]

\* The loop that detects groups.
Detects(spans, g) ==
  g = [T \in SUBSET DOMAIN spans |->
         IF T = {} THEN [processed |-> {}, groups |-> <<>>]
         ELSE Detected(spans, g[T \ {Max(T)}], spans[Max(T)])]

\* What the loop accumulates.
Detections == [processed : SUBSET Spans, groups : Seq(Seq(Spans))]

\* A step of the loop gives spans and sequences of spans.
LEMMA DetectedTypes ==
  ASSUME NEW spans \in Seq(Spans), NEW acc \in Detections, NEW s \in Spans
  PROVE  Detected(spans, acc, s) \in Detections
<1>1. CASE s \in acc.processed
  BY <1>1 DEF Detected
<1>2. CASE s \notin acc.processed
  <2> DEFINE group == Group(spans, acc.processed, s)
  <2>1. group \in Seq(Spans)
    BY <1>2, GroupIs DEF Grouped
  <2> HIDE DEF group
  <2>2. Range(group) \subseteq Spans
    BY <2>1 DEF Range
  <2>3. acc.processed \in SUBSET Spans /\ acc.groups \in Seq(Seq(Spans))
    BY DEF Detections
  <2>4. Append(acc.groups, group) \in Seq(Seq(Spans))
    BY <2>1, <2>3
  <2>5. [processed |-> acc.processed \cup Range(group),
         groups |-> IF Len(group) > 1 THEN Append(acc.groups, group) ELSE acc.groups] \in Detections
    BY <2>2, <2>3, <2>4 DEF Detections
  <2>6. QED
    BY <1>2, <2>5 DEF Detected, group
<1>3. QED
  BY <1>1, <1>2

\* Groups are detected span by span.
LEMMA DetectLoop ==
  ASSUME NEW spans \in Seq(Spans)
  PROVE  \E h : /\ h[0] = [processed |-> {}, groups |-> <<>>]
                /\ \A k \in 1..Len(spans) : h[k] = Detected(spans, h[k - 1], spans[k])
                /\ DetectConcurrentEvents(spans) = h[Len(spans)].groups
<1> DEFINE base == [processed |-> {}, groups |-> <<>>]
<1> DEFINE f == [p \in Detections \X Spans |-> Detected(spans, p[1], p[2])]
<1> DEFINE g == CHOOSE g : Detects(spans, g)
<1>0. Len(spans) \in Nat /\ DOMAIN spans = 1..Len(spans)
  OBVIOUS
<1>1. DetectConcurrentEvents(spans) = g[DOMAIN spans].groups
  BY DEF DetectConcurrentEvents, FoldLeft, MapThenFoldSet, Detects, Detected
<1>2. Detects(spans, g)
  <2>1. base \in Detections
    BY EmptySeq DEF Detections
  <2>2. f \in [Detections \X Spans -> Detections]
    BY DetectedTypes
  <2>3. \A acc \in Detections, r \in Spans : f[<<acc, r>>] = Detected(spans, acc, r)
    OBVIOUS
  <2> HIDE DEF f, base
  <2>4. PICK k \in [SUBSET (1..Len(spans)) -> Detections] : Loop(f, base, spans, Len(spans), k)
    BY <2>1, <2>2, LoopExists
  <2>5. ASSUME NEW T \in SUBSET (1..Len(spans)), T # {}
        PROVE  k[T] = Detected(spans, k[T \ {Max(T)}], spans[Max(T)])
    <3>1. Max(T) \in 1..Len(spans) /\ spans[Max(T)] \in Spans
      <4>1. Max(T) \in T
        BY <1>0, <2>5, MaxIn
      <4>2. Max(T) \in 1..Len(spans)
        BY <4>1
      <4>3. QED
        BY <4>2
    <3>2. k[T \ {Max(T)}] \in Detections
      BY <2>4
    <3>3. QED
      BY <2>3, <2>4, <2>5, <3>1, <3>2 DEF Loop
  <2>6. k[{}] = base
    BY <2>4 DEF Loop
  <2>7. Detects(spans, k)
    BY <1>0, <2>4, <2>5, <2>6 DEF Detects, base
  <2>8. QED
    BY <2>7, Zenon
<1> HIDE DEF g
<1> DEFINE h == [k \in 0..Len(spans) |-> g[1..k]]
<1>3. h[0] = base /\ h[Len(spans)] = g[DOMAIN spans]
  <2>1. 1..0 = {} /\ 0 \in 0..Len(spans) /\ Len(spans) \in 0..Len(spans)
    BY <1>0
  <2>2. g[{}] = base
    BY <1>2 DEF Detects
  <2>3. QED
    BY <1>0, <2>1, <2>2
<1>4. ASSUME NEW k \in 1..Len(spans)
      PROVE  h[k] = Detected(spans, h[k - 1], spans[k])
  <2>1. /\ 1..k \in SUBSET (1..Len(spans)) /\ 1..k # {} /\ Max(1..k) = k
        /\ (1..k) \ {Max(1..k)} = 1..(k - 1)
    BY <1>0, MaxOfPrefix
  <2>2. g[1..k] = Detected(spans, g[1..(k - 1)], spans[k])
    BY <1>0, <1>2, <2>1 DEF Detects
  <2>3. k \in 0..Len(spans) /\ k - 1 \in 0..Len(spans)
    BY <1>0
  <2>4. QED
    BY <2>2, <2>3
<1>5. QED
  <2> HIDE DEF h
  <2>1. QED
    BY <1>1, <1>3, <1>4

\* What has been detected after k spans.
Detecting(spans, k, acc) ==
  /\ acc \in Detections
  /\ \A i \in 1..k : spans[i] \in acc.processed
  /\ acc.processed \subseteq Range(spans)
  /\ \A i \in 1..Len(acc.groups) :
       /\ Len(acc.groups[i]) > 1 /\ IsInjective(acc.groups[i])
       /\ Range(acc.groups[i]) \subseteq acc.processed
       /\ \A j \in 2..Len(acc.groups[i]) : Concurrent(acc.groups[i][1], acc.groups[i][j])
  /\ \A i, j \in 1..Len(acc.groups) :
       i # j => Range(acc.groups[i]) \cap Range(acc.groups[j]) = {}
  /\ acc.groups = <<>> =>
       \A r \in acc.processed, s \in Range(spans) : r # s => ~Concurrent(r, s)

\* A span that is in no group yet makes one of its own, which is kept if
\* another span is in it.
LEMMA DetectStep ==
  ASSUME \A s \in Spans : clock[s] \in Clock,
         NEW spans \in Seq(Spans), NEW k \in Nat, k + 1 <= Len(spans), NEW acc,
         Detecting(spans, k, acc)
  PROVE  Detecting(spans, k + 1, Detected(spans, acc, spans[k + 1]))
<1> DEFINE s == spans[k + 1]
<1> DEFINE P == acc.processed
<1> DEFINE G == acc.groups
<1>1. /\ s \in Spans /\ s \in Range(spans) /\ Range(spans) \subseteq Spans
      /\ \A i \in 1..(k + 1) : i \in 1..k \/ i = k + 1
  BY DEF Range
<1>2. acc \in Detections /\ P \in SUBSET Spans /\ G \in Seq(Seq(Spans)) /\ Len(G) \in Nat
  BY DEF Detecting, Detections
<1>3. CASE s \in P
  <2>1. Detected(spans, acc, s) = acc
    BY <1>3 DEF Detected
  <2>2. \A i \in 1..(k + 1) : spans[i] \in acc.processed
    BY <1>1, <1>3 DEF Detecting
  <2> HIDE DEF s
  <2>3. QED
    BY <2>1, <2>2 DEF Detecting, s
<1>4. CASE s \notin P
  <2> DEFINE group == Group(spans, P, s)
  <2> DEFINE after == Detected(spans, acc, s)
  <2>1. Grouped(spans, P, s, Len(spans), group)
    BY <1>1, <1>4, GroupIs
  <2>2. after = [processed |-> P \cup Range(group),
                 groups |-> IF Len(group) > 1 THEN Append(G, group) ELSE G]
    BY <1>4 DEF Detected
  <2>3. after \in Detections
    BY <1>1, <1>2, DetectedTypes
  <2>4. after.processed = P \cup Range(group)
        /\ after.groups = IF Len(group) > 1 THEN Append(G, group) ELSE G
    BY <2>2
  <2> HIDE DEF group, after, s
  <2>5. /\ group \in Seq(Spans) /\ Len(group) \in Nat /\ Len(group) >= 1 /\ group[1] = s
        /\ IsInjective(group)
        /\ Range(group) \subseteq Range(spans) /\ Range(group) \cap P = {}
        /\ \A j \in 2..Len(group) : Concurrent(s, group[j])
        /\ \A r \in Range(spans) : r \notin P /\ Concurrent(s, r) => r \in Range(group)
    <3>1. \A r \in Range(spans) : \E i \in 1..Len(spans) : r = spans[i]
      BY DEF Range
    <3>2. \A i \in 1..Len(spans) :
            spans[i] \notin P /\ Concurrent(s, spans[i]) => spans[i] \in Range(group)
      BY <2>1 DEF Grouped
    <3>3. \A r \in Range(spans) : r \notin P /\ Concurrent(s, r) => r \in Range(group)
      BY <3>1, <3>2
    <3> HIDE DEF P
    <3>4. QED
      BY <1>1, <2>1, <3>3 DEF Grouped
  <2>6. s \in Range(group)
    BY <2>5 DEF Range
  <2>7. \A i \in 1..(k + 1) : spans[i] \in after.processed
    BY <1>1, <2>4, <2>6 DEF Detecting, s
  <2>8. after.processed \subseteq Range(spans)
    BY <2>4, <2>5 DEF Detecting
  <2>9. /\ \A i \in 1..Len(G) :
             /\ Len(G[i]) > 1 /\ IsInjective(G[i]) /\ Range(G[i]) \subseteq P
             /\ \A j \in 2..Len(G[i]) : Concurrent(G[i][1], G[i][j])
        /\ \A i, j \in 1..Len(G) : i # j => Range(G[i]) \cap Range(G[j]) = {}
        /\ G = <<>> => \A r \in P, t \in Range(spans) : r # t => ~Concurrent(r, t)
    BY DEF Detecting
  <2>10. CASE Len(group) > 1
    <3> DEFINE more == Append(G, group)
    <3>1. after.groups = more
      BY <2>4, <2>10
    <3>2. /\ Len(more) = Len(G) + 1 /\ more[Len(G) + 1] = group
          /\ \A i \in 1..Len(G) : more[i] = G[i]
      BY <1>2, <2>5, Appended
    <3> HIDE DEF more, G, P
    <3>3. more # <<>>
      BY <1>2, <3>2
    <3>4. \A i \in 1..Len(more) : i \in 1..Len(G) \/ i = Len(G) + 1
      BY <1>2, <3>2
    <3>5. ASSUME NEW i \in 1..Len(more)
          PROVE  /\ Len(more[i]) > 1 /\ IsInjective(more[i])
                 /\ Range(more[i]) \subseteq P \cup Range(group)
                 /\ \A j \in 2..Len(more[i]) : Concurrent(more[i][1], more[i][j])
      <4>1. CASE i \in 1..Len(G)
        BY <2>9, <3>2, <4>1
      <4>2. CASE i = Len(G) + 1
        BY <2>5, <2>10, <3>2, <4>2
      <4>3. QED
        BY <3>4, <4>1, <4>2
    <3>6. ASSUME NEW i \in 1..Len(more), NEW j \in 1..Len(more), i # j
          PROVE  Range(more[i]) \cap Range(more[j]) = {}
      <4>1. CASE i \in 1..Len(G) /\ j \in 1..Len(G)
        BY <2>9, <3>2, <3>6, <4>1
      <4>2. CASE i \in 1..Len(G) /\ j = Len(G) + 1
        BY <2>5, <2>9, <3>2, <4>2
      <4>3. CASE i = Len(G) + 1 /\ j \in 1..Len(G)
        BY <2>5, <2>9, <3>2, <4>3
      <4>4. QED
        BY <3>4, <3>6, <4>1, <4>2, <4>3
    <3>7. QED
      BY <2>3, <2>4, <2>7, <2>8, <3>1, <3>3, <3>5, <3>6 DEF Detecting, s, after
  <2>11. CASE ~(Len(group) > 1)
    <3>1. Len(group) = 1
      <4>1. Len(group) \in Nat /\ Len(group) >= 1
        BY <2>5
      <4>2. \A m \in Nat : m >= 1 /\ ~(m > 1) => m = 1
        OBVIOUS
      <4>3. QED
        BY <2>11, <4>1, <4>2, Zenon
    <3>2. Range(group) = {s}
      <4>1. DOMAIN group = 1..1 /\ \A i \in 1..1 : i = 1
        BY <2>5, <3>1
      <4>2. QED
        BY <2>5, <4>1 DEF Range
    <3>3. after.groups = G
      BY <2>4, <2>11
    <3>4. ASSUME G = <<>>, NEW r \in P \cup {s}, NEW t \in Range(spans), r # t
          PROVE  ~Concurrent(r, t)
      <4>1. CASE r \in P
        BY <2>9, <3>4, <4>1
      <4>2. CASE r = s /\ t \in P
        <5>1. ~Concurrent(t, s)
          BY <1>1, <2>9, <3>4, <4>2
        <5>2. s \in Spans /\ t \in Spans
          BY <1>1
        <5>3. QED
          BY <4>2, <5>1, <5>2, ConcurrentMutual
      <4>3. CASE r = s /\ t \notin P
        BY <2>5, <3>2, <3>4, <4>3
      <4>4. QED
        BY <4>1, <4>2, <4>3
    <3>5. QED
      BY <2>3, <2>4, <2>7, <2>8, <2>9, <3>2, <3>3, <3>4 DEF Detecting, s, after
  <2>12. QED
    BY <2>10, <2>11
<1>5. QED
  BY <1>3, <1>4

\* The spans of a trace that has clocks are grouped as the property says.
LEMMA FindsConcurrency ==
  ASSUME \A s \in Spans : clock[s] \in Clock, NEW spans \in Seq(Spans)
  PROVE  LET groups == DetectConcurrentEvents(spans) IN
         /\ groups # <<>> <=> \E r, s \in Range(spans) : r # s /\ Concurrent(r, s)
         /\ IsInjective(FlattenSeq(groups))
         /\ \A i \in 1..Len(groups) : \A j \in 2..Len(groups[i]) : Concurrent(groups[i][1], groups[i][j])
<1> DEFINE N == Len(spans)
<1>1. PICK h : /\ h[0] = [processed |-> {}, groups |-> <<>>]
               /\ \A k \in 1..N : h[k] = Detected(spans, h[k - 1], spans[k])
               /\ DetectConcurrentEvents(spans) = h[N].groups
  BY DetectLoop
<1>2. N \in Nat /\ DOMAIN spans = 1..N /\ Range(spans) \subseteq Spans
  BY DEF Range
<1> DEFINE Good(k) == k <= N => Detecting(spans, k, h[k])
<1> DEFINE S == {k \in Nat : Good(k)}
<1> HIDE DEF Good, N
<1>3. 0 \in S
  <2>1. /\ h[0] \in Detections /\ h[0].processed = {} /\ h[0].groups = <<>>
        /\ Len(<<>>) = 0 /\ 1..0 = {}
    BY <1>1, EmptySeq DEF Detections
  <2>2. Good(0)
    BY <2>1 DEF Good, Detecting
  <2>3. QED
    BY <2>2
<1>4. ASSUME NEW k \in Nat, k \in S PROVE k + 1 \in S
  <2> SUFFICES ASSUME k + 1 <= N PROVE Detecting(spans, k + 1, h[k + 1])
    <3>1. Good(k + 1) => k + 1 \in S
      OBVIOUS
    <3>2. QED
      BY <3>1 DEF Good
  <2>1. Detecting(spans, k, h[k])
    <3>1. Good(k) /\ k <= N
      BY <1>2, <1>4
    <3>2. QED
      BY <3>1 DEF Good
  <2>2. k + 1 \in 1..N /\ (k + 1) - 1 = k /\ k + 1 <= Len(spans)
    BY <1>2 DEF N
  <2>3. h[k + 1] = Detected(spans, h[k], spans[k + 1])
    BY <1>1, <2>2
  <2>4. QED
    BY <2>1, <2>2, <2>3, DetectStep
<1>5. Detecting(spans, N, h[N])
  <2>1. N \in S
    <3> HIDE DEF S
    <3>1. QED
      BY <1>2, <1>3, <1>4, NatSetInduction
  <2>2. Good(N) /\ N <= N
    BY <1>2, <2>1
  <2>3. QED
    BY <2>2 DEF Good
<1> DEFINE G == h[N].groups
<1> DEFINE P == h[N].processed
<1>6. P = Range(spans) /\ G \in Seq(Seq(Spans)) /\ Len(G) \in Nat
  BY <1>2, <1>5 DEF Detecting, Detections, Range
<1>7. /\ \A i \in 1..Len(G) :
           /\ Len(G[i]) > 1 /\ IsInjective(G[i]) /\ Range(G[i]) \subseteq P
           /\ \A j \in 2..Len(G[i]) : Concurrent(G[i][1], G[i][j])
      /\ \A i, j \in 1..Len(G) : i # j => Range(G[i]) \cap Range(G[j]) = {}
      /\ G = <<>> => \A r \in P, s \in Range(spans) : r # s => ~Concurrent(r, s)
  BY <1>5 DEF Detecting
<1> HIDE DEF G, P
<1>8. IsInjective(FlattenSeq(G))
  BY <1>6, <1>7, FlattenInjective
<1>9. ASSUME G # <<>> PROVE \E r, s \in Range(spans) : r # s /\ Concurrent(r, s)
  <2> DEFINE first == G[1]
  <2>1. 1 \in 1..Len(G)
    BY <1>6, <1>9, EmptySeq
  <2>2. /\ first \in Seq(Spans) /\ Len(first) > 1 /\ IsInjective(first)
        /\ Range(first) \subseteq P /\ \A j \in 2..Len(first) : Concurrent(first[1], first[j])
    BY <1>6, <1>7, <2>1
  <2> HIDE DEF first
  <2>3. /\ Len(first) \in Nat /\ DOMAIN first = 1..Len(first)
        /\ 1 \in 1..Len(first) /\ 2 \in 1..Len(first) /\ 2 \in 2..Len(first)
    BY <2>2
  <2>4. first[1] \in Range(first) /\ first[2] \in Range(first)
    BY <2>3 DEF Range
  <2>5. first[1] # first[2]
    BY <2>2, <2>3 DEF IsInjective
  <2>6. QED
    BY <1>6, <2>2, <2>3, <2>4, <2>5
<1>10. QED
  BY <1>1, <1>6, <1>7, <1>8, <1>9 DEF G

\* A trace holds spans, and starting and storing them is all that happens.
LEMMA TracesHoldSpans == OrderSpec => []IInv /\ [](trace \in Seq(Spans))
<1>1. OrderInit => Init /\ trace \in Seq(Spans)
  BY DEF OrderInit
<1>2. [OrderNext]_orderVars => [Next]_vars
  BY DEF OrderNext, Start, StoreSpan, Next, orderVars, vars
<1>3. trace \in Seq(Spans) /\ [OrderNext]_orderVars => (trace \in Seq(Spans))'
  <2> SUFFICES ASSUME trace \in Seq(Spans), [OrderNext]_orderVars PROVE trace' \in Seq(Spans)
    OBVIOUS
  <2>1. CASE Start \/ UNCHANGED orderVars
    BY <2>1 DEF Start, orderVars
  <2>2. ASSUME NEW s \in Spans, StoreSpan(s) PROVE trace' \in Seq(Spans)
    BY <2>2 DEF StoreSpan
  <2>3. QED
    BY <2>1, <2>2 DEF OrderNext
<1>4. QED
  BY <1>1, <1>2, <1>3, InitIInv, Inductive, PTL DEF OrderSpec

\* DetectConcurrentEvents reports something if and only if two spans of the
\* trace are unordered, puts no span into two groups and none twice into one,
\* and every group is around its first span: for traces of any length and
\* with any spans, repeated ones included.
THEOREM ConcurrencyIsFound == OrderSpec => []ConcurrencyFound
<1>1. ASSUME IInv, trace \in Seq(Spans) PROVE ConcurrencyFound
  <2>1. \A s \in Spans : clock[s] \in Clock
    BY <1>1 DEF IInv, TypeOK
  <2>2. QED
    BY <1>1, <2>1, FindsConcurrency DEF ConcurrencyFound
<1>2. QED
  BY <1>1, TracesHoldSpans, PTL

\* What a filter finds in the index of FileStorage it finds in the spans that
\* MemoryStorage looks at, for every trace, all states and every filter.
THEOREM IndexFindsNoMore == OrderSpec => []ListingsAgree
<1>1. ASSUME trace \in Seq(Spans) PROVE ListingsAgree
  <2> SUFFICES ASSUME trace # <<>>, NEW status \in [Range(trace) -> Statuses],
                      NEW filter \in [services : SUBSET Nodes, status : 0..3],
                      MatchesFilterEntry(IndexEntry(trace, status), filter)
               PROVE  MatchesFilter(trace, status, filter)
    BY DEF ListingsAgree
  <2> DEFINE T == {1} \cup {status[s] : s \in Range(trace)}
  <2>1. trace[1] \in Range(trace)
    <3>1. 1 \in 1..Len(trace)
      BY <1>1, EmptySeq
    <3>2. QED
      BY <1>1, <3>1 DEF Range
  <2>2. /\ filter.services = {} \/ RootService(trace) \in filter.services
        /\ filter.status \in {0, Max(T)}
        /\ filter.services \in SUBSET Nodes
    BY DEF MatchesFilterEntry, IndexEntry
  <2>3. filter.services = {} \/ \E s \in Range(trace) : node[s] \in filter.services
    <3>1. CASE filter.services # {}
      <4>1. RootService(trace) \in Nodes /\ RootService(trace) # NoSpan
        BY <2>2, <3>1, NoSpanAssumption
      <4>2. RootService(trace) = node[trace[1]]
        BY <4>1 DEF RootService
      <4>3. QED
        BY <2>1, <2>2, <4>2
    <3>2. QED
      BY <3>1
  <2>4. filter.status = 0 \/ \E s \in Range(trace) : status[s] = filter.status
    <3>1. T \in SUBSET (1..3) /\ T # {}
      <4>1. \A s \in Range(trace) : status[s] \in 1..3
        BY StatusesAssumption
      <4>2. 1 \in 1..3
        OBVIOUS
      <4>3. T \subseteq 1..3
        BY <4>1, <4>2, Zenon
      <4>4. 1 \in T
        OBVIOUS
      <4>5. QED
        BY <4>3, <4>4
    <3>2. Max(T) \in T /\ \A y \in T : y <= Max(T)
      <4> HIDE DEF T
      <4>1. 3 \in Nat
        OBVIOUS
      <4>2. QED
        BY <3>1, <4>1, MaxIn
    <3>3. status[trace[1]] \in T /\ status[trace[1]] \in 1..3
      BY <2>1, StatusesAssumption
    <3>4. CASE Max(T) = 1
      <4>1. status[trace[1]] = 1
        <5>1. status[trace[1]] <= 1
          BY <3>2, <3>3, <3>4
        <5>2. QED
          BY <3>3, <5>1
      <4>2. QED
        BY <2>1, <2>2, <3>4, <4>1
    <3>5. CASE Max(T) # 1
      BY <2>2, <3>2, <3>5
    <3>6. QED
      BY <3>4, <3>5
  <2>5. QED
    BY <2>3, <2>4 DEF MatchesFilter
<1>2. QED
  BY <1>1, TracesHoldSpans, PTL
-----------------------------------------------------------------------------
\* A fold with a function.
Walk(f, base, seq) == FoldLeft(LAMBDA acc, x : f[<<acc, x>>], base, seq)

\* The loop of such a fold.
Walks(f, base, seq, g) ==
  g = [T \in SUBSET DOMAIN seq |->
         IF T = {} THEN base ELSE f[<<g[T \ {Max(T)}], seq[Max(T)]>>]]

\* h is what such a fold has after every element.
WalkedBy(f, base, seq, A, h) ==
  /\ h[0] = base
  /\ \A k \in 1..Len(seq) : h[k] = f[<<h[k - 1], seq[k]>>]
  /\ \A k \in 0..Len(seq) : h[k] \in A
  /\ Walk(f, base, seq) = h[Len(seq)]

\* A fold with a function goes through its sequence element by element.
LEMMA WalkLoop ==
  ASSUME NEW A, NEW X, NEW f \in [A \X X -> A], NEW base \in A, NEW seq \in Seq(X)
  PROVE  \E h : WalkedBy(f, base, seq, A, h)
<1> DEFINE g == CHOOSE g : Walks(f, base, seq, g)
<1> DEFINE N == Len(seq)
<1>0. N \in Nat /\ DOMAIN seq = 1..N
  OBVIOUS
<1>1. Walk(f, base, seq) = g[DOMAIN seq]
  BY DEF Walk, FoldLeft, MapThenFoldSet, Walks
<1> HIDE DEF N
<1>2. g \in [SUBSET (1..N) -> A] /\ Walks(f, base, seq, g)
  <2>1. PICK k \in [SUBSET (1..N) -> A] : Loop(f, base, seq, N, k)
    BY LoopExists DEF N
  <2>2. Walks(f, base, seq, k)
    BY <1>0, <2>1 DEF Walks, Loop
  <2>3. Walks(f, base, seq, g)
    BY <2>2, Zenon
  <2> HIDE DEF g
  <2>4. g = [T \in SUBSET (1..N) |-> IF T = {} THEN base ELSE f[<<g[T \ {Max(T)}], seq[Max(T)]>>]]
    BY <1>0, <2>3, Zenon DEF Walks
  <2>5. \A T \in SUBSET (1..N) :
          g[T] = IF T = {} THEN base ELSE f[<<g[T \ {Max(T)}], seq[Max(T)]>>]
    BY <2>4
  <2> DEFINE Good(n) == n <= N => \A T \in SUBSET (1..n) : g[T] \in A
  <2> DEFINE S == {n \in Nat : Good(n)}
  <2> HIDE DEF Good
  <2>6. 0 \in S
    <3>1. \A T \in SUBSET (1..0) : T = {} /\ {} \in SUBSET (1..N)
      OBVIOUS
    <3>2. Good(0)
      BY <2>5, <3>1 DEF Good
    <3>3. QED
      BY <3>2
  <2>7. ASSUME NEW n \in Nat, n \in S PROVE n + 1 \in S
    <3> SUFFICES ASSUME n + 1 <= N, NEW T \in SUBSET (1..(n + 1)), T # {} PROVE g[T] \in A
      <4>1. \A T \in SUBSET (1..(n + 1)) : T = {} => T \in SUBSET (1..N) /\ g[T] \in A
        BY <2>5
      <4>2. Good(n + 1) => n + 1 \in S
        OBVIOUS
      <4>3. QED
        BY <4>1, <4>2 DEF Good
    <3>1. Max(T) \in T /\ \A y \in T : y <= Max(T)
      <4>1. n + 1 \in Nat
        OBVIOUS
      <4>2. QED
        BY <4>1, MaxIn
    <3>2. T \ {Max(T)} \in SUBSET (1..n)
      <4>1. Max(T) \in 1..(n + 1)
        BY <3>1
      <4>2. ASSUME NEW y \in T, y # Max(T) PROVE y \in 1..n
        BY <3>1, <4>1, <4>2
      <4>3. QED
        BY <4>2
    <3>3. g[T \ {Max(T)}] \in A
      <4>1. Good(n) /\ n <= N
        BY <1>0, <2>7
      <4>2. QED
        BY <3>2, <4>1 DEF Good
    <3>4. Max(T) \in 1..N /\ T \in SUBSET (1..N)
      <4>1. 1..(n + 1) \subseteq 1..N
        BY <1>0
      <4>2. QED
        BY <3>1, <4>1
    <3>5. seq[Max(T)] \in X
      BY <3>4 DEF N
    <3>6. g[T] = f[<<g[T \ {Max(T)}], seq[Max(T)]>>]
      BY <2>5, <3>4
    <3>7. QED
      BY <3>3, <3>5, <3>6
  <2>8. N \in S
    <3> HIDE DEF S
    <3>1. QED
      BY <1>0, <2>6, <2>7, NatSetInduction
  <2>9. \A T \in SUBSET (1..N) : g[T] \in A
    <3>1. Good(N) /\ N <= N
      BY <1>0, <2>8
    <3>2. QED
      BY <3>1 DEF Good
  <2>10. QED
    BY <2>3, <2>4, <2>9
<1> HIDE DEF g
<1> DEFINE h == [k \in 0..N |-> g[1..k]]
<1>3. h[0] = base /\ h[N] = g[DOMAIN seq]
  <2>1. 1..0 = {} /\ 0 \in 0..N /\ N \in 0..N
    BY <1>0
  <2>2. g[{}] = base
    BY <1>2 DEF Walks
  <2>3. QED
    BY <1>0, <2>1, <2>2
<1>4. ASSUME NEW k \in 1..N PROVE h[k] = f[<<h[k - 1], seq[k]>>]
  <2>1. /\ 1..k \in SUBSET (1..N) /\ 1..k # {} /\ Max(1..k) = k
        /\ (1..k) \ {Max(1..k)} = 1..(k - 1)
    BY <1>0, MaxOfPrefix
  <2>2. g[1..k] = f[<<g[1..(k - 1)], seq[k]>>]
    BY <1>0, <1>2, <2>1 DEF Walks
  <2>3. k \in 0..N /\ k - 1 \in 0..N
    BY <1>0
  <2>4. QED
    BY <2>2, <2>3
<1>5. ASSUME NEW k \in 0..N PROVE h[k] \in A
  <2>1. 1..k \in SUBSET (1..N)
    BY <1>0
  <2>2. QED
    BY <1>2, <2>1
<1>6. QED
  <2> HIDE DEF h
  <2>1. QED
    BY <1>1, <1>3, <1>4, <1>5 DEF N, WalkedBy

\* It ends among what it accumulates.
LEMMA WalkIn ==
  ASSUME NEW A, NEW X, NEW f \in [A \X X -> A], NEW base \in A, NEW seq \in Seq(X)
  PROVE  Walk(f, base, seq) \in A
<1>1. PICK h : WalkedBy(f, base, seq, A, h)
  BY WalkLoop, Zenon
<1>2. Len(seq) \in 0..Len(seq)
  OBVIOUS
<1>3. QED
  BY <1>1, <1>2 DEF WalkedBy

\* What a visit of id does, with visit for the visits of its neighbours.
Visited(graph, visit, temp, st, id) ==
  LET down == Walk(visit[temp \cup {id}], st, graph[id])
  IN IF id \in temp \cup st.visited THEN st
     ELSE [visited |-> down.visited \cup {id}, ordered |-> Append(down.ordered, id)]

\* All visits while temp are being visited.
VisitIn(graph, visit, temp) ==
  [p \in Search(graph) \X DOMAIN graph |-> Visited(graph, visit, temp, p[1], p[2])]

\* visit is the search of Visit.
Visits(graph, visit) == visit = [temp \in SUBSET DOMAIN graph |-> VisitIn(graph, visit, temp)]

\* A graph whose edges lead to its own ids.
IsGraph(graph) == graph \in [DOMAIN graph -> Seq(DOMAIN graph)]

\* A visit finds ids of the graph, if those it makes do.
LEMMA VisitTypes ==
  ASSUME NEW graph, IsGraph(graph), NEW temp \in SUBSET DOMAIN graph, NEW visit,
         \A id \in DOMAIN graph \ temp :
           visit[temp \cup {id}] \in [Search(graph) \X DOMAIN graph -> Search(graph)]
  PROVE  VisitIn(graph, visit, temp) \in [Search(graph) \X DOMAIN graph -> Search(graph)]
<1> SUFFICES ASSUME NEW st \in Search(graph), NEW id \in DOMAIN graph
             PROVE  Visited(graph, visit, temp, st, id) \in Search(graph)
  BY DEF VisitIn
<1>1. CASE id \in temp \cup st.visited
  BY <1>1 DEF Visited
<1>2. CASE id \notin temp \cup st.visited
  <2> DEFINE f == visit[temp \cup {id}]
  <2> DEFINE down == Walk(f, st, graph[id])
  <2>1. f \in [Search(graph) \X DOMAIN graph -> Search(graph)] /\ graph[id] \in Seq(DOMAIN graph)
    BY <1>2 DEF IsGraph
  <2> HIDE DEF f
  <2>2. down \in Search(graph)
    <3> HIDE DEF down
    <3>0. st \in Search(graph)
      OBVIOUS
    <3>1. QED
      BY <2>1, <3>0, WalkIn DEF down
  <2>3. Visited(graph, visit, temp, st, id) =
          [visited |-> down.visited \cup {id}, ordered |-> Append(down.ordered, id)]
    BY <1>2 DEF Visited, f
  <2> HIDE DEF down
  <2>4. down.visited \cup {id} \in SUBSET DOMAIN graph /\ Append(down.ordered, id) \in Seq(DOMAIN graph)
    BY <2>2 DEF Search
  <2>5. QED
    BY <2>3, <2>4 DEF Search
<1>3. QED
  BY <1>1, <1>2

\* What is left of a finite set gets less with each element that goes.
LEMMA FewerLeft ==
  ASSUME NEW Ids, IsFiniteSet(Ids)
  PROVE  /\ \A T \in SUBSET Ids : /\ Cardinality(Ids \ T) \in Nat
                                   /\ Cardinality(Ids \ T) <= Cardinality(Ids)
         /\ \A T \in SUBSET Ids : \A id \in Ids \ T :
              Cardinality(Ids \ (T \cup {id})) < Cardinality(Ids \ T)
         /\ Cardinality(Ids) \in Nat
<1>1. ASSUME NEW T \in SUBSET Ids
      PROVE  Cardinality(Ids \ T) \in Nat /\ Cardinality(Ids \ T) <= Cardinality(Ids)
  <2>1. Ids \ T \in SUBSET Ids
    OBVIOUS
  <2>2. QED
    BY <2>1, FS_Subset, FS_CardinalityType
<1>2. ASSUME NEW T \in SUBSET Ids, NEW id \in Ids \ T
      PROVE  Cardinality(Ids \ (T \cup {id})) < Cardinality(Ids \ T)
  <2>1. IsFiniteSet(Ids \ T) /\ Ids \ (T \cup {id}) = (Ids \ T) \ {id}
    BY FS_Subset
  <2>2. Cardinality((Ids \ T) \ {id}) = Cardinality(Ids \ T) - 1
    BY <2>1, FS_RemoveElement
  <2>3. Cardinality(Ids \ T) \in Nat
    BY <2>1, FS_CardinalityType
  <2>4. Cardinality(Ids \ (T \cup {id})) = Cardinality(Ids \ T) - 1
    BY <2>1, <2>2, Zenon
  <2>5. QED
    BY <2>3, <2>4
<1>3. QED
  BY <1>1, <1>2, FS_CardinalityType

\* There is such a search, as visits go to ever larger sets of ids being visited.
LEMMA VisitExists ==
  ASSUME NEW graph, IsGraph(graph), IsFiniteSet(DOMAIN graph)
  PROVE  \E visit \in [SUBSET DOMAIN graph -> [Search(graph) \X DOMAIN graph -> Search(graph)]] :
           Visits(graph, visit)
<1> DEFINE Ids == DOMAIN graph
<1> DEFINE F == [Search(graph) \X Ids -> Search(graph)]
<1> DEFINE Left(T) == Cardinality(Ids \ T)
<1> DEFINE Good(n) == \E v \in [SUBSET Ids -> F] :
                        \A T \in SUBSET Ids : Left(T) < n => v[T] = VisitIn(graph, v, T)
<1> DEFINE S == {n \in Nat : Good(n)}
<1>0. /\ \A T \in SUBSET Ids : Left(T) \in Nat /\ Left(T) <= Cardinality(Ids)
      /\ \A T \in SUBSET Ids : \A id \in Ids \ T : Left(T \cup {id}) < Left(T)
      /\ Cardinality(Ids) \in Nat
  BY FewerLeft
<1> HIDE DEF Left, Good
<1>1. 0 \in S
  <2> DEFINE v == [T \in SUBSET Ids |-> [p \in Search(graph) \X Ids |-> p[1]]]
  <2>1. v \in [SUBSET Ids -> F]
    OBVIOUS
  <2>2. \A T \in SUBSET Ids : ~(Left(T) < 0)
    BY <1>0
  <2> HIDE DEF v, F
  <2>3. Good(0)
    BY <2>1, <2>2 DEF Good
  <2>4. QED
    BY <2>3
<1>2. ASSUME NEW n \in Nat, n \in S PROVE n + 1 \in S
  <2>1. PICK v \in [SUBSET Ids -> F] : \A T \in SUBSET Ids : Left(T) < n => v[T] = VisitIn(graph, v, T)
    BY <1>2 DEF Good
  <2> DEFINE w == [T \in SUBSET Ids |-> IF Left(T) < n THEN v[T] ELSE VisitIn(graph, v, T)]
  <2>2. ASSUME NEW T \in SUBSET Ids PROVE VisitIn(graph, v, T) \in F
    <3>1. \A id \in Ids \ T : v[T \cup {id}] \in F
      OBVIOUS
    <3>2. QED
      BY <3>1, VisitTypes
  <2> HIDE DEF F
  <2>3. w \in [SUBSET Ids -> F]
    BY <2>2
  <2>4. \A T \in SUBSET Ids : w[T] = IF Left(T) < n THEN v[T] ELSE VisitIn(graph, v, T)
    OBVIOUS
  <2> HIDE DEF w
  <2>5. ASSUME NEW T \in SUBSET Ids, Left(T) < n + 1 PROVE w[T] = VisitIn(graph, w, T)
    <3>1. w[T] = VisitIn(graph, v, T)
      BY <2>1, <2>4
    <3>2. ASSUME NEW p \in Search(graph) \X Ids
          PROVE  Visited(graph, v, T, p[1], p[2]) = Visited(graph, w, T, p[1], p[2])
      <4>1. CASE p[2] \in T
        BY <4>1 DEF Visited
      <4>2. CASE p[2] \notin T
        <5>1. p[2] \in Ids \ T
          BY <4>2
        <5>2. T \cup {p[2]} \in SUBSET Ids
          BY <5>1
        <5>3. Left(T \cup {p[2]}) < n
          <6>1. /\ Left(T \cup {p[2]}) < Left(T)
                /\ Left(T \cup {p[2]}) \in Nat /\ Left(T) \in Nat
            BY <1>0, <5>1, <5>2
          <6>2. QED
            BY <2>5, <6>1
        <5>4. w[T \cup {p[2]}] = v[T \cup {p[2]}]
          BY <2>4, <5>2, <5>3
        <5>5. QED
          BY <5>4 DEF Visited
      <4>3. QED
        BY <4>1, <4>2
    <3>3. VisitIn(graph, v, T) = VisitIn(graph, w, T)
      BY <3>2, Zenon DEF VisitIn
    <3>4. QED
      BY <3>1, <3>3
  <2>6. Good(n + 1)
    BY <2>3, <2>5 DEF Good
  <2>7. QED
    BY <2>6
<1>3. Good(Cardinality(Ids) + 1)
  <2>1. Cardinality(Ids) \in S
    <3> HIDE DEF S, Ids
    <3>1. QED
      BY <1>0, <1>1, <1>2, NatSetInduction
  <2>2. QED
    BY <1>0, <1>2, <2>1
<1>4. PICK v \in [SUBSET Ids -> F] :
        \A T \in SUBSET Ids : Left(T) < Cardinality(Ids) + 1 => v[T] = VisitIn(graph, v, T)
  BY <1>3 DEF Good
<1>5. \A T \in SUBSET Ids : v[T] = VisitIn(graph, v, T)
  <2>1. \A T \in SUBSET Ids : Left(T) < Cardinality(Ids) + 1
    BY <1>0
  <2>2. QED
    BY <1>4, <2>1
<1>6. v = [T \in SUBSET Ids |-> v[T]]
  BY <1>4
<1>7. Visits(graph, v)
  BY <1>5, <1>6, Zenon DEF Visits
<1>8. QED
  BY <1>4, <1>7

\* What has been found is found once, and not while it is being visited.
Sound(temp, st) ==
  IsInjective(st.ordered) /\ Range(st.ordered) = st.visited /\ st.visited \cap temp = {}

\* Where an edge leads has been found before where it comes from.
Closed(graph, ordered) ==
  \A j \in 1..Len(ordered) : \A m \in Range(graph[ordered[j]]) :
    \E i \in 1..(j - 1) : ordered[i] = m

\* Edges go forward in a strict order.
Forward(graph) ==
  /\ \A u \in DOMAIN graph : \A m \in Range(graph[u]) : Before(u, m)
  /\ \A u \in DOMAIN graph : ~Before(u, u)
  /\ \A u, v, w \in DOMAIN graph : Before(u, v) /\ Before(v, w) => Before(u, w)

\* r is st with all that was to be found from ids.
Finds(graph, temp, st, ids, r) ==
  /\ r \in Search(graph) /\ Sound(temp, r)
  /\ st.visited \subseteq r.visited
  /\ ids \subseteq r.visited \cup temp
  /\ Forward(graph) /\ Closed(graph, st.ordered) /\ (\A t \in temp, m \in ids : Before(t, m))
       => Closed(graph, r.ordered)

\* If every visit finds what it is to find, visits one after the other do.
LEMMA DownFinds ==
  ASSUME NEW graph, IsGraph(graph), NEW temp \in SUBSET DOMAIN graph,
         NEW f \in [Search(graph) \X DOMAIN graph -> Search(graph)],
         \A st \in Search(graph), id \in DOMAIN graph :
           Sound(temp, st) => Finds(graph, temp, st, {id}, f[<<st, id>>]),
         NEW st \in Search(graph), Sound(temp, st), NEW seq \in Seq(DOMAIN graph)
  PROVE  Finds(graph, temp, st, Range(seq), Walk(f, st, seq))
<1> DEFINE N == Len(seq)
<1> DEFINE Ids(k) == {seq[i] : i \in 1..k}
<1>1. PICK h : WalkedBy(f, st, seq, Search(graph), h)
  BY WalkLoop, Zenon
<1>2. /\ N \in Nat /\ \A i \in 1..N : seq[i] \in DOMAIN graph
      /\ h[0] = st /\ (\A k \in 1..N : h[k] = f[<<h[k - 1], seq[k]>>])
      /\ (\A k \in 0..N : h[k] \in Search(graph)) /\ Walk(f, st, seq) = h[N]
  BY <1>1 DEF WalkedBy
<1> DEFINE Good(k) == k <= N => Finds(graph, temp, st, Ids(k), h[k])
<1> DEFINE S == {k \in Nat : Good(k)}
<1>3. Range(seq) = Ids(N)
  BY DEF Range
<1> HIDE DEF Good, N
<1>4. 0 \in S
  <2>1. Ids(0) = {}
    OBVIOUS
  <2> HIDE DEF Ids
  <2>2. Good(0)
    BY <1>2, <2>1 DEF Good, Finds
  <2>3. QED
    BY <2>2
<1>5. ASSUME NEW k \in Nat, k \in S PROVE k + 1 \in S
  <2> SUFFICES ASSUME k + 1 <= N PROVE Finds(graph, temp, st, Ids(k + 1), h[k + 1])
    <3>1. Good(k + 1) => k + 1 \in S
      OBVIOUS
    <3>2. QED
      BY <3>1 DEF Good
  <2> DEFINE id == seq[k + 1]
  <2>1. Finds(graph, temp, st, Ids(k), h[k])
    <3>1. Good(k) /\ k <= N
      BY <1>2, <1>5
    <3>2. QED
      BY <3>1 DEF Good
  <2>2. h[k + 1] = f[<<h[k], id>>] /\ id \in DOMAIN graph
    <3>1. k + 1 \in 1..N /\ (k + 1) - 1 = k
      BY <1>2
    <3>2. QED
      BY <1>2, <3>1
  <2>3. Ids(k + 1) = Ids(k) \cup {id}
    <3>1. 1..(k + 1) = 1..k \cup {k + 1}
      OBVIOUS
    <3>2. QED
      BY <3>1
  <2> HIDE DEF Ids, id
  <2>4. h[k] \in Search(graph) /\ Sound(temp, h[k])
    BY <2>1 DEF Finds
  <2>5. Finds(graph, temp, h[k], {id}, h[k + 1])
    BY <2>2, <2>4
  <2>6. /\ h[k + 1] \in Search(graph) /\ Sound(temp, h[k + 1])
        /\ st.visited \subseteq h[k + 1].visited
        /\ Ids(k + 1) \subseteq h[k + 1].visited \cup temp
    BY <2>1, <2>3, <2>5 DEF Finds
  <2>7. Forward(graph) /\ Closed(graph, st.ordered) /\ (\A t \in temp, m \in Ids(k + 1) : Before(t, m))
          => Closed(graph, h[k + 1].ordered)
    <3>1. Ids(k) \subseteq Ids(k + 1) /\ {id} \subseteq Ids(k + 1)
      BY <2>3
    <3>2. QED
      BY <2>1, <2>5, <3>1 DEF Finds
  <2>8. QED
    BY <2>6, <2>7 DEF Finds
<1>6. Good(N)
  <2>1. N \in S
    <3> HIDE DEF S
    <3>1. QED
      BY <1>2, <1>4, <1>5, NatSetInduction
  <2>2. QED
    BY <2>1
<1>7. Finds(graph, temp, st, Ids(N), h[N])
  <2>1. N <= N
    BY <1>2
  <2>2. QED
    BY <1>6, <2>1 DEF Good
<1>8. QED
  BY <1>2, <1>3, <1>7

\* Every visit finds what it is to find.
LEMMA VisitFinds ==
  ASSUME NEW graph, IsGraph(graph), IsFiniteSet(DOMAIN graph),
         NEW visit \in [SUBSET DOMAIN graph -> [Search(graph) \X DOMAIN graph -> Search(graph)]],
         Visits(graph, visit)
  PROVE  \A temp \in SUBSET DOMAIN graph, st \in Search(graph), id \in DOMAIN graph :
           Sound(temp, st) => Finds(graph, temp, st, {id}, visit[temp][<<st, id>>])
<1> DEFINE Ids == DOMAIN graph
<1> DEFINE Left(T) == Cardinality(Ids \ T)
<1> DEFINE FindsAll(T) == \A st \in Search(graph), id \in Ids :
                            Sound(T, st) => Finds(graph, T, st, {id}, visit[T][<<st, id>>])
<1> DEFINE Good(n) == \A T \in SUBSET Ids : Left(T) < n => FindsAll(T)
<1> DEFINE S == {n \in Nat : Good(n)}
<1>0. /\ \A T \in SUBSET Ids : Left(T) \in Nat
      /\ \A T \in SUBSET Ids : \A id \in Ids \ T : Left(T \cup {id}) < Left(T)
  BY FewerLeft
<1>1. \A T \in SUBSET Ids, st \in Search(graph), id \in Ids :
        visit[T][<<st, id>>] = Visited(graph, visit, T, st, id)
  <2>1. \A T \in SUBSET Ids : visit[T] = VisitIn(graph, visit, T)
    BY Zenon DEF Visits
  <2>2. QED
    BY <2>1 DEF VisitIn
<1> HIDE DEF Left, Good, FindsAll
<1>2. 0 \in S
  <2>1. Good(0)
    BY <1>0 DEF Good
  <2>2. QED
    BY <2>1
<1>3. ASSUME NEW n \in Nat, n \in S PROVE n + 1 \in S
  <2> SUFFICES ASSUME NEW T \in SUBSET Ids, Left(T) < n + 1,
                      NEW st \in Search(graph), NEW id \in Ids, Sound(T, st)
               PROVE  Finds(graph, T, st, {id}, Visited(graph, visit, T, st, id))
    <3>1. Good(n + 1) => n + 1 \in S
      OBVIOUS
    <3>2. Good(n + 1)
      BY <1>1 DEF Good, FindsAll
    <3>3. QED
      BY <3>1, <3>2
  <2>1. CASE id \in T \cup st.visited
    <3>1. Visited(graph, visit, T, st, id) = st
      BY <2>1 DEF Visited
    <3>2. QED
      BY <2>1, <3>1 DEF Finds
  <2>2. CASE id \notin T \cup st.visited
    <3> DEFINE U == T \cup {id}
    <3> DEFINE f == visit[U]
    <3> DEFINE seq == graph[id]
    <3> DEFINE down == Walk(f, st, seq)
    <3> DEFINE r == Visited(graph, visit, T, st, id)
    <3>1. U \in SUBSET Ids /\ seq \in Seq(Ids)
      BY DEF IsGraph
    <3>2. FindsAll(U)
      <4>1. id \in Ids \ T
        BY <2>2
      <4>2. Left(U) < Left(T) /\ Left(U) \in Nat /\ Left(T) \in Nat
        BY <1>0, <3>1, <4>1
      <4>3. Left(U) < n
        BY <4>2
      <4>4. QED
        BY <1>3, <3>1, <4>3 DEF Good
    <3>3. f \in [Search(graph) \X Ids -> Search(graph)]
      BY <3>1
    <3>4. r = [visited |-> down.visited \cup {id}, ordered |-> Append(down.ordered, id)]
      BY <2>2 DEF Visited
    <3>5. Sound(U, st)
      BY <2>2 DEF Sound
    <3>6. \A t \in Search(graph), i \in Ids : Sound(U, t) => Finds(graph, U, t, {i}, f[<<t, i>>])
      BY <3>2 DEF FindsAll
    <3> HIDE DEF f, seq, U
    <3>7. Finds(graph, U, st, Range(seq), down)
      BY <3>1, <3>3, <3>5, <3>6, DownFinds
    <3> HIDE DEF down, r
    <3>8. /\ down \in Search(graph) /\ Sound(U, down) /\ st.visited \subseteq down.visited
          /\ Range(seq) \subseteq down.visited \cup U
          /\ down.ordered \in Seq(Ids) /\ down.visited \in SUBSET Ids
      BY <3>7 DEF Finds, Search
    <3> DEFINE ordered == down.ordered
    <3>9. /\ r.visited = down.visited \cup {id} /\ r.ordered = Append(ordered, id)
          /\ r \in Search(graph)
      <4>1. Append(ordered, id) \in Seq(Ids) /\ down.visited \cup {id} \in SUBSET Ids
        BY <3>8
      <4>2. QED
        BY <3>4, <4>1 DEF Search
    <3> HIDE DEF ordered
    <3>10. ordered \in Seq(Ids) /\ Range(ordered) = down.visited /\ IsInjective(ordered)
           /\ down.visited \cap U = {} /\ id \notin Range(ordered)
      BY <3>8 DEF ordered, Sound, U
    <3>11. /\ Len(r.ordered) = Len(ordered) + 1 /\ r.ordered[Len(ordered) + 1] = id
           /\ \A i \in 1..Len(ordered) : r.ordered[i] = ordered[i]
           /\ Range(r.ordered) = Range(ordered) \cup {id} /\ IsInjective(r.ordered)
      BY <3>9, <3>10, Appended
    <3>12. Sound(T, r)
      BY <2>2, <3>9, <3>10, <3>11 DEF Sound, U
    <3>13. ASSUME Forward(graph), Closed(graph, st.ordered), \A t \in T : Before(t, id)
           PROVE  Closed(graph, r.ordered)
      <4>1. \A m \in Range(seq) : m \in Ids /\ Before(id, m)
        <5>1. Range(seq) \subseteq Ids
          BY <3>1 DEF Range
        <5>2. QED
          BY <3>13, <5>1 DEF Forward, seq
      <4>2. \A t \in U, m \in Range(seq) : Before(t, m)
        BY <3>13, <4>1 DEF Forward, U
      <4>3. Closed(graph, ordered)
        BY <3>7, <3>13, <4>2 DEF Finds, ordered
      <4>4. Range(seq) \subseteq Range(ordered)
        <5>1. ASSUME NEW m \in Range(seq) PROVE m \notin U
          BY <3>13, <4>1, <4>2 DEF Forward
        <5>2. QED
          BY <3>8, <3>10, <5>1
      <4>5. Len(ordered) \in Nat
        BY <3>10
      <4> SUFFICES ASSUME NEW j \in 1..Len(r.ordered), NEW m \in Range(graph[r.ordered[j]])
                   PROVE  \E i \in 1..(j - 1) : r.ordered[i] = m
        BY DEF Closed
      <4>6. j \in 1..Len(ordered) \/ j = Len(ordered) + 1
        BY <3>11, <4>5
      <4>7. CASE j \in 1..Len(ordered)
        <5>1. PICK i \in 1..(j - 1) : ordered[i] = m
          BY <3>11, <4>3, <4>7 DEF Closed
        <5>2. i \in 1..Len(ordered)
          BY <4>5, <4>7
        <5>3. QED
          BY <3>11, <5>1, <5>2
      <4>8. CASE j = Len(ordered) + 1
        <5>1. m \in Range(ordered)
          BY <3>11, <4>4, <4>8 DEF seq
        <5>2. PICK i \in 1..Len(ordered) : ordered[i] = m
          BY <3>10, <5>1 DEF Range
        <5>3. i \in 1..(j - 1)
          BY <4>5, <4>8
        <5>4. QED
          BY <3>11, <5>2, <5>3
      <4>9. QED
        BY <4>6, <4>7, <4>8
    <3>14. QED
      BY <3>8, <3>9, <3>12, <3>13 DEF Finds, r
  <2>3. QED
    BY <2>1, <2>2
<1>4. \A T \in SUBSET Ids : FindsAll(T)
  <2>1. Nat \subseteq S
    <3> HIDE DEF S
    <3>1. QED
      BY <1>2, <1>3, NatSetInduction
  <2>2. SUFFICES ASSUME NEW T \in SUBSET Ids PROVE FindsAll(T)
    OBVIOUS
  <2>3. Left(T) \in Nat
    BY <1>0
  <2>4. Left(T) + 1 \in S /\ Left(T) < Left(T) + 1
    BY <2>1, <2>3
  <2>5. Good(Left(T) + 1)
    BY <2>4
  <2>6. QED
    BY <2>4, <2>5 DEF Good
<1>5. QED
  BY <1>4 DEF FindsAll

\* All visits find ids of the graph.
LEMMA VisitIsTyped ==
  ASSUME NEW graph, IsGraph(graph), IsFiniteSet(DOMAIN graph), NEW visit, Visits(graph, visit)
  PROVE  visit \in [SUBSET DOMAIN graph -> [Search(graph) \X DOMAIN graph -> Search(graph)]]
<1> DEFINE Ids == DOMAIN graph
<1> DEFINE F == [Search(graph) \X Ids -> Search(graph)]
<1> DEFINE Left(T) == Cardinality(Ids \ T)
<1> DEFINE Good(n) == \A T \in SUBSET Ids : Left(T) < n => visit[T] \in F
<1> DEFINE S == {n \in Nat : Good(n)}
<1>0. /\ \A T \in SUBSET Ids : Left(T) \in Nat
      /\ \A T \in SUBSET Ids : \A id \in Ids \ T : Left(T \cup {id}) < Left(T)
  BY FewerLeft
<1>1. \A T \in SUBSET Ids : visit[T] = VisitIn(graph, visit, T)
  BY Zenon DEF Visits
<1>2. visit = [T \in SUBSET Ids |-> visit[T]]
  BY <1>1, Zenon DEF Visits
<1> HIDE DEF Left, Good
<1>3. 0 \in S
  <2>1. Good(0)
    BY <1>0 DEF Good
  <2>2. QED
    BY <2>1
<1>4. ASSUME NEW n \in Nat, n \in S PROVE n + 1 \in S
  <2>1. ASSUME NEW T \in SUBSET Ids, Left(T) < n + 1 PROVE visit[T] \in F
    <3>1. ASSUME NEW id \in Ids \ T PROVE visit[T \cup {id}] \in F
      <4>1. T \cup {id} \in SUBSET Ids
        OBVIOUS
      <4>2. Left(T \cup {id}) < Left(T) /\ Left(T \cup {id}) \in Nat /\ Left(T) \in Nat
        BY <1>0, <4>1
      <4>3. Left(T \cup {id}) < n
        BY <2>1, <4>2
      <4>4. QED
        BY <1>4, <4>1, <4>3 DEF Good
    <3>2. VisitIn(graph, visit, T) \in F
      BY <3>1, VisitTypes
    <3>3. QED
      BY <1>1, <3>2
  <2>2. Good(n + 1)
    BY <2>1 DEF Good
  <2>3. QED
    BY <2>2
<1>5. ASSUME NEW T \in SUBSET Ids PROVE visit[T] \in F
  <2>1. Left(T) + 1 \in Nat /\ Left(T) < Left(T) + 1
    BY <1>0
  <2>2. Nat \subseteq S
    <3> HIDE DEF S
    <3>1. QED
      BY <1>3, <1>4, NatSetInduction
  <2>3. Good(Left(T) + 1)
    BY <2>1, <2>2
  <2>4. QED
    BY <2>1, <2>3 DEF Good
<1>6. visit \in [SUBSET Ids -> F]
  <2> HIDE DEF F, Ids
  <2>1. QED
    BY <1>2, <1>5
<1>7. QED
  BY <1>6

\* What the search finds when it starts from the ids in the order of keys.
Found(graph, keys) ==
  LET start == [visited |-> {}, ordered |-> <<>>]
  IN FoldLeft(LAMBDA acc, id : Visit(graph, acc, id), start, keys).ordered

\* The search finds every id once, whatever order it starts from them in, and
\* where no edge leads backward it finds ids after those that they lead to.
LEMMA SearchFinds ==
  ASSUME NEW graph, IsGraph(graph), IsFiniteSet(DOMAIN graph), NEW keys \in Seq(DOMAIN graph),
         Range(keys) = DOMAIN graph
  PROVE  /\ Found(graph, keys) \in Seq(DOMAIN graph) /\ IsInjective(Found(graph, keys))
         /\ Range(Found(graph, keys)) = DOMAIN graph
         /\ Forward(graph) => Closed(graph, Found(graph, keys))
<1> DEFINE start == [visited |-> {}, ordered |-> <<>>]
<1> DEFINE visit == CHOOSE visit : Visits(graph, visit)
<1> DEFINE F == [Search(graph) \X DOMAIN graph -> Search(graph)]
<1> DEFINE f == visit[{}]
<1> DEFINE r == Walk(f, start, keys)
<1>1. Found(graph, keys) = r.ordered
  BY DEF Found, Visit, Visits, VisitIn, Visited, Walk
<1>2. Visits(graph, visit) /\ visit \in [SUBSET DOMAIN graph -> F]
  <2>1. \E v \in [SUBSET DOMAIN graph -> F] : Visits(graph, v)
    BY VisitExists
  <2>2. Visits(graph, visit)
    BY <2>1, Zenon
  <2> HIDE DEF visit
  <2>3. QED
    BY <2>2, VisitIsTyped
<1> HIDE DEF visit
<1>3. {} \in SUBSET DOMAIN graph /\ f \in F
  BY <1>2
<1>4. \A st \in Search(graph), id \in DOMAIN graph :
        Sound({}, st) => Finds(graph, {}, st, {id}, f[<<st, id>>])
  BY <1>2, <1>3, VisitFinds
<1>5. start \in Search(graph) /\ Sound({}, start) /\ start.ordered = <<>>
  <2>1. Range(<<>>) = {} /\ IsInjective(<<>>)
    BY DEF Range, IsInjective
  <2>2. QED
    BY <2>1 DEF Search, Sound
<1> HIDE DEF f, start
<1>6. Finds(graph, {}, start, Range(keys), r)
  BY <1>3, <1>4, <1>5, DownFinds
<1> HIDE DEF r
<1>7. r.ordered \in Seq(DOMAIN graph) /\ IsInjective(r.ordered) /\ Range(r.ordered) = DOMAIN graph
  BY <1>6 DEF Finds, Search, Sound
<1>8. Forward(graph) => Closed(graph, r.ordered)
  <2>1. Closed(graph, start.ordered)
    BY <1>5 DEF Closed
  <2>2. QED
    BY <1>6, <2>1 DEF Finds
<1>9. QED
  BY <1>1, <1>7, <1>8 DEF start

\* What is in sequences is in their concatenation, and nothing else.
LEMMA FlattenHas ==
  ASSUME NEW X, NEW seqs \in Seq(Seq(X))
  PROVE  /\ FlattenSeq(seqs) \in Seq(X)
         /\ \A x : x \in Range(FlattenSeq(seqs)) <=> \E i \in 1..Len(seqs) : x \in Range(seqs[i])
<1>1. CASE seqs = <<>>
  <2>1. FlattenSeq(seqs) = <<>>
    BY <1>1 DEF FlattenSeq
  <2>2. Range(<<>>) = {} /\ <<>> \in Seq(X) /\ Len(<<>>) = 0 /\ 1..0 = {}
    BY DEF Range
  <2>3. QED
    BY <1>1, <2>1, <2>2
<1>2. CASE seqs # <<>>
  <2> DEFINE N == Len(seqs)
  <2>0. N \in Nat /\ N >= 1 /\ \A i \in 1..N : seqs[i] \in Seq(X)
    BY <1>2, EmptySeq
  <2>1. PICK flat : /\ FlattenSeq(seqs) = flat[N] /\ flat[1] = seqs[1]
                    /\ \A i \in 2..N : flat[i] = flat[i - 1] \o seqs[i]
    BY <1>2, FlattenLoop
  <2> DEFINE Good(k) == k + 1 <= N =>
               /\ flat[k + 1] \in Seq(X)
               /\ \A x : x \in Range(flat[k + 1]) <=> \E i \in 1..(k + 1) : x \in Range(seqs[i])
  <2> DEFINE S == {k \in Nat : Good(k)}
  <2> HIDE DEF Good, N
  <2>2. 0 \in S
    <3>1. 0 + 1 = 1 /\ 1 \in 1..N /\ \A i \in 1..1 : i = 1
      BY <2>0
    <3>2. flat[1] \in Seq(X) /\ \A x : x \in Range(flat[1]) <=> \E i \in 1..1 : x \in Range(seqs[i])
      BY <2>0, <2>1, <3>1
    <3>3. Good(0)
      BY <3>1, <3>2 DEF Good
    <3>4. QED
      BY <3>3
  <2>3. ASSUME NEW k \in Nat, k \in S PROVE k + 1 \in S
    <3> DEFINE n == k + 1
    <3> SUFFICES ASSUME n + 1 <= N
                 PROVE  /\ flat[n + 1] \in Seq(X)
                        /\ \A x : x \in Range(flat[n + 1]) <=> \E i \in 1..(n + 1) : x \in Range(seqs[i])
      <4>1. Good(k + 1) => k + 1 \in S
        OBVIOUS
      <4>2. QED
        BY <4>1 DEF Good
    <3>1. n \in Nat /\ n + 1 \in 2..N /\ (n + 1) - 1 = n /\ n <= N /\ n + 1 \in 1..N
      BY <2>0
    <3>2. /\ flat[n] \in Seq(X)
          /\ \A x : x \in Range(flat[n]) <=> \E i \in 1..n : x \in Range(seqs[i])
      <4>1. Good(k)
        BY <2>3
      <4>2. QED
        BY <3>1, <4>1 DEF Good
    <3> HIDE DEF n
    <3>3. flat[n + 1] = flat[n] \o seqs[n + 1] /\ seqs[n + 1] \in Seq(X)
      BY <2>0, <2>1, <3>1
    <3>4. flat[n + 1] \in Seq(X) /\ Range(flat[n + 1]) = Range(flat[n]) \cup Range(seqs[n + 1])
      BY <3>2, <3>3, Concatenated
    <3>5. \A i \in 1..(n + 1) : i \in 1..n \/ i = n + 1
      BY <3>1
    <3>6. n + 1 \in 1..(n + 1) /\ 1..n \subseteq 1..(n + 1)
      BY <3>1
    <3>7. \A x : (\E i \in 1..(n + 1) : x \in Range(seqs[i]))
                 <=> (\E i \in 1..n : x \in Range(seqs[i])) \/ x \in Range(seqs[n + 1])
      BY <3>5, <3>6
    <3>8. QED
      BY <3>2, <3>4, <3>7
  <2>4. Good(N - 1)
    <3>1. N - 1 \in S
      <4>1. N - 1 \in Nat
        BY <2>0
      <4>2. Nat \subseteq S
        <5> HIDE DEF S
        <5>1. QED
          BY <2>2, <2>3, NatSetInduction
      <4>3. QED
        BY <4>1, <4>2
    <3>2. QED
      BY <3>1
  <2>5. (N - 1) + 1 = N /\ N <= N
    BY <2>0
  <2>6. flat[N] \in Seq(X) /\ \A x : x \in Range(flat[N]) <=> \E i \in 1..N : x \in Range(seqs[i])
    BY <2>4, <2>5 DEF Good
  <2>7. QED
    BY <2>1, <2>6 DEF N
<1>3. QED
  BY <1>1, <1>2

\* The loop of Those.
Selects(seq, S, those) ==
  those = [i \in 0..Len(seq) |->
             IF i = 0 THEN <<>>
             ELSE IF seq[i] \in S THEN Append(those[i - 1], seq[i]) ELSE those[i - 1]]

\* h[k] is what is selected of the first k elements.
Selecting(seq, S, X, h) ==
  /\ h[0] = <<>> /\ Those(seq, S) = h[Len(seq)]
  /\ \A k \in 1..Len(seq) : h[k] = IF seq[k] \in S THEN Append(h[k - 1], seq[k]) ELSE h[k - 1]
  /\ \A k \in 0..Len(seq) : h[k] \in Seq(X)

\* What is selected grows element by element.
LEMMA ThoseLoop ==
  ASSUME NEW X, NEW seq \in Seq(X), NEW S
  PROVE  \E h : Selecting(seq, S, X, h)
<1> DEFINE N == Len(seq)
<1> DEFINE those == CHOOSE those : Selects(seq, S, those)
<1> DEFINE f == [p \in Seq(X) \X X |-> IF p[2] \in S THEN Append(p[1], p[2]) ELSE p[1]]
<1>0. N \in Nat /\ \A i \in 1..N : seq[i] \in X
  OBVIOUS
<1>1. Those(seq, S) = those[N]
  BY DEF Those, Selects
<1>2. f \in [Seq(X) \X X -> Seq(X)] /\ <<>> \in Seq(X)
  OBVIOUS
<1>3. \A t \in Seq(X), x \in X : f[<<t, x>>] = IF x \in S THEN Append(t, x) ELSE t
  OBVIOUS
<1> HIDE DEF f
<1>4. PICK h : WalkedBy(f, <<>>, seq, Seq(X), h)
  BY <1>2, WalkLoop, Zenon
<1> HIDE DEF N
<1>5. /\ h[0] = <<>> /\ \A k \in 1..N : h[k] = f[<<h[k - 1], seq[k]>>]
      /\ \A k \in 0..N : h[k] \in Seq(X)
  BY <1>4 DEF WalkedBy, N
<1>6. Selects(seq, S, those)
  <2> DEFINE g == [k \in 0..N |-> h[k]]
  <2>1. \A i \in 0..N :
          g[i] = IF i = 0 THEN <<>>
                 ELSE IF seq[i] \in S THEN Append(g[i - 1], seq[i]) ELSE g[i - 1]
    <3> TAKE i \in 0..N
    <3>1. CASE i = 0
      BY <1>5, <3>1
    <3>2. CASE i # 0
      <4>1. i \in 1..N /\ i - 1 \in 0..N
        BY <1>0, <3>2
      <4>2. g[i] = h[i] /\ g[i - 1] = h[i - 1] /\ h[i - 1] \in Seq(X) /\ seq[i] \in X
        BY <1>0, <1>5, <4>1
      <4> HIDE DEF g
      <4>3. QED
        BY <1>3, <1>5, <3>2, <4>1, <4>2
    <3>3. QED
      BY <3>1, <3>2
  <2>2. g = [i \in 0..N |-> g[i]]
    OBVIOUS
  <2> HIDE DEF g
  <2>3. Selects(seq, S, g)
    BY <2>1, <2>2 DEF Selects, N
  <2>4. QED
    BY <2>3, Zenon
<1> HIDE DEF those
<1>7. \A i \in 0..N :
        those[i] = IF i = 0 THEN <<>>
                   ELSE IF seq[i] \in S THEN Append(those[i - 1], seq[i]) ELSE those[i - 1]
  <2>1. those = [i \in 0..N |->
             IF i = 0 THEN <<>>
             ELSE IF seq[i] \in S THEN Append(those[i - 1], seq[i]) ELSE those[i - 1]]
    BY <1>6, Zenon DEF Selects, N
  <2>2. QED
    BY <2>1
<1> DEFINE Good(k) == k <= N => those[k] \in Seq(X)
<1> DEFINE G == {k \in Nat : Good(k)}
<1> HIDE DEF Good
<1>8. 0 \in G
  <2>1. those[0] = <<>>
    BY <1>0, <1>7
  <2>2. Good(0)
    BY <2>1 DEF Good
  <2>3. QED
    BY <2>2
<1>9. ASSUME NEW k \in Nat, k \in G PROVE k + 1 \in G
  <2>1. Good(k + 1)
    <3> SUFFICES ASSUME k + 1 <= N PROVE those[k + 1] \in Seq(X)
      BY DEF Good
    <3>1. those[k] \in Seq(X)
      <4>1. Good(k) /\ k <= N
        BY <1>0, <1>9
      <4>2. QED
        BY <4>1 DEF Good
    <3>2. k + 1 \in 1..N /\ k + 1 \in 0..N /\ k + 1 # 0 /\ (k + 1) - 1 = k /\ seq[k + 1] \in X
      BY <1>0
    <3>3. those[k + 1] = IF seq[k + 1] \in S THEN Append(those[k], seq[k + 1]) ELSE those[k]
      BY <1>7, <3>2
    <3>4. QED
      BY <3>1, <3>2, <3>3
  <2>2. QED
    BY <2>1
<1>10. ASSUME NEW k \in 0..N PROVE those[k] \in Seq(X)
  <2>1. k \in G
    <3> HIDE DEF G
    <3>1. QED
      BY <1>0, <1>8, <1>9, NatSetInduction
  <2>2. QED
    BY <1>0, <2>1 DEF Good
<1>11. ASSUME NEW k \in 1..N
       PROVE  those[k] = IF seq[k] \in S THEN Append(those[k - 1], seq[k]) ELSE those[k - 1]
  <2>1. k \in 0..N /\ k # 0
    BY <1>0
  <2>2. QED
    BY <1>7, <2>1
<1>12. those[0] = <<>>
  BY <1>0, <1>7
<1>13. Selecting(seq, S, X, those)
  BY <1>1, <1>10, <1>11, <1>12 DEF N, Selecting
<1>14. QED
  BY <1>13

\* Selected are the elements of the sequence that are in the set.
LEMMA ThoseHas ==
  ASSUME NEW X, NEW seq \in Seq(X), NEW S
  PROVE  /\ Those(seq, S) \in Seq(X)
         /\ \A r : r \in Range(Those(seq, S)) <=> r \in Range(seq) /\ r \in S
<1> DEFINE N == Len(seq)
<1>1. N \in Nat /\ \A i \in 1..N : seq[i] \in X
  OBVIOUS
<1>2. PICK h : Selecting(seq, S, X, h)
  BY ThoseLoop, Zenon
<1>3. /\ h[0] = <<>> /\ Those(seq, S) = h[N]
      /\ \A k \in 1..N : h[k] = IF seq[k] \in S THEN Append(h[k - 1], seq[k]) ELSE h[k - 1]
      /\ \A k \in 0..N : h[k] \in Seq(X)
  BY <1>2 DEF Selecting
<1> HIDE DEF N
<1> DEFINE Good(k) == k <= N =>
             \A r : r \in Range(h[k]) <=> \E i \in 1..k : seq[i] = r /\ r \in S
<1> DEFINE G == {k \in Nat : Good(k)}
<1> HIDE DEF Good
<1>4. 0 \in G
  <2>1. h[0] = <<>> /\ 1..0 = {} /\ Range(<<>>) = {}
    BY <1>3 DEF Range
  <2>2. Good(0)
    BY <2>1 DEF Good
  <2>3. QED
    BY <2>2
<1>5. ASSUME NEW k \in Nat, k \in G PROVE k + 1 \in G
  <2> SUFFICES ASSUME k + 1 <= N
               PROVE  \A r : r \in Range(h[k + 1]) <=> \E i \in 1..(k + 1) : seq[i] = r /\ r \in S
    <3>1. Good(k + 1) => k + 1 \in G
      OBVIOUS
    <3>2. QED
      BY <3>1 DEF Good
  <2>1. \A r : r \in Range(h[k]) <=> \E i \in 1..k : seq[i] = r /\ r \in S
    <3>1. Good(k) /\ k <= N
      BY <1>1, <1>5
    <3>2. QED
      BY <3>1 DEF Good
  <2> DEFINE x == seq[k + 1]
  <2>2. x \in X /\ h[k] \in Seq(X) /\ h[k + 1] = IF x \in S THEN Append(h[k], x) ELSE h[k]
    <3>1. k + 1 \in 1..N /\ k \in 0..N /\ (k + 1) - 1 = k
      BY <1>1
    <3>2. QED
      BY <1>1, <1>3, <3>1
  <2>3. \A i \in 1..(k + 1) : i \in 1..k \/ i = k + 1
    OBVIOUS
  <2>4. k + 1 \in 1..(k + 1) /\ 1..k \subseteq 1..(k + 1)
    OBVIOUS
  <2>5. \A r : (\E i \in 1..(k + 1) : seq[i] = r /\ r \in S)
               <=> (\E i \in 1..k : seq[i] = r /\ r \in S) \/ (x = r /\ r \in S)
    BY <2>3, <2>4
  <2> HIDE DEF x
  <2>6. Range(Append(h[k], x)) = Range(h[k]) \cup {x}
    BY <2>2, Appended
  <2>7. QED
    BY <2>1, <2>2, <2>5, <2>6
<1>6. Good(N)
  <2>1. N \in G
    <3> HIDE DEF G
    <3>1. QED
      BY <1>1, <1>4, <1>5, NatSetInduction
  <2>2. QED
    BY <2>1
<1>7. \A r : r \in Range(h[N]) <=> \E i \in 1..N : seq[i] = r /\ r \in S
  <2>1. N <= N
    BY <1>1
  <2>2. QED
    BY <1>6, <2>1 DEF Good
<1>8. \A r : r \in Range(seq) <=> \E i \in 1..N : seq[i] = r
  BY DEF Range, N
<1>9. h[N] \in Seq(X)
  BY <1>1, <1>3
<1>10. QED
  BY <1>3, <1>7, <1>8, <1>9

\* Later are the spans of the trace that s is before.
LEMMA LaterHas ==
  ASSUME NEW X, NEW spans \in Seq(X), NEW s
  PROVE  /\ Later(spans, s) \in Seq(X)
         /\ \A r : r \in Range(Later(spans, s)) <=> r \in Range(spans) /\ Before(s, r)
<1> DEFINE S == {r \in Range(spans) : Before(s, r)}
<1>1. Later(spans, s) = Those(spans, S)
  BY DEF Later
<1>2. \A r \in Range(spans) : r \in S <=> Before(s, r)
  OBVIOUS
<1> HIDE DEF S
<1>3. QED
  BY <1>1, <1>2, ThoseHas

\* An edge leads from a span to its children and to the spans it is before.
LEMMA GraphHas ==
  ASSUME NEW spans \in Seq(Spans), parent \in [Spans -> Spans \cup {NoSpan}]
  PROVE  /\ DOMAIN Graph(spans) = Keys(spans) /\ Keys(spans) \subseteq Spans
         /\ Range(spans) \subseteq Keys(spans)
         /\ IsGraph(Graph(spans)) /\ IsFiniteSet(DOMAIN Graph(spans))
         /\ \A id \in Keys(spans) : \A m :
              m \in Range(Graph(spans)[id]) <=>
                m \in Range(spans) /\ (parent[m] = id \/ (id \in Range(spans) /\ Before(id, m)))
<1> DEFINE N == Len(spans)
<1> DEFINE X == Range(spans)
<1> DEFINE children(id, i) == IF parent[spans[i]] = id THEN <<spans[i]>> ELSE <<>>
<1> DEFINE after(id, i) == IF spans[i] = id THEN Later(spans, id) ELSE <<>>
<1> DEFINE edges(id) == [i \in 1..N |-> children(id, i) \o after(id, i)]
<1>1. /\ N \in Nat /\ DOMAIN spans = 1..N /\ X \subseteq Spans /\ NoSpan \notin Spans
      /\ \A m : m \in X <=> \E i \in 1..N : spans[i] = m
  BY NoSpanAssumption DEF Range
<1>2. Keys(spans) \subseteq Spans /\ X \subseteq Keys(spans)
  BY <1>1 DEF Keys
<1>3. spans \in Seq(X)
  BY <1>1
<1>4. Graph(spans) = [id \in Keys(spans) |-> FlattenSeq(edges(id))]
  BY DEF Graph
<1> HIDE DEF N, X
<1>5. ASSUME NEW id \in Keys(spans), NEW i \in 1..N
      PROVE  /\ children(id, i) \o after(id, i) \in Seq(X)
             /\ \A m : m \in Range(children(id, i) \o after(id, i)) <=>
                         \/ spans[i] = m /\ parent[m] = id
                         \/ spans[i] = id /\ m \in X /\ Before(id, m)
  <2>1. spans[i] \in X
    BY <1>1
  <2>2. children(id, i) \in Seq(X) /\ \A m : m \in Range(children(id, i)) <=> spans[i] = m /\ parent[m] = id
    <3>1. <<spans[i]>> \in Seq(X) /\ Range(<<spans[i]>>) = {spans[i]} /\ <<>> \in Seq(X) /\ Range(<<>>) = {}
      BY <2>1 DEF Range
    <3>2. QED
      BY <3>1
  <2>3. after(id, i) \in Seq(X) /\ \A m : m \in Range(after(id, i)) <=> spans[i] = id /\ m \in X /\ Before(id, m)
    <3>1. Later(spans, id) \in Seq(X) /\ \A m : m \in Range(Later(spans, id)) <=> m \in X /\ Before(id, m)
      BY <1>3, LaterHas DEF X
    <3>2. <<>> \in Seq(X) /\ Range(<<>>) = {}
      BY DEF Range
    <3>3. QED
      BY <3>1, <3>2
  <2> HIDE DEF children, after
  <2>4. /\ children(id, i) \o after(id, i) \in Seq(X)
        /\ Range(children(id, i) \o after(id, i)) = Range(children(id, i)) \cup Range(after(id, i))
    BY <2>2, <2>3, Concatenated
  <2>5. QED
    BY <2>2, <2>3, <2>4
<1> HIDE DEF children, after
<1>6. ASSUME NEW id \in Keys(spans)
      PROVE  /\ Graph(spans)[id] \in Seq(X)
             /\ \A m : m \in Range(Graph(spans)[id]) <=>
                         m \in X /\ (parent[m] = id \/ (id \in X /\ Before(id, m)))
  <2>1. /\ edges(id) \in Seq(Seq(X)) /\ Len(edges(id)) = N
        /\ \A i \in 1..N : edges(id)[i] = children(id, i) \o after(id, i)
    <3> DEFINE edge(i) == children(id, i) \o after(id, i)
    <3>1. \A i \in 1..N : edge(i) \in Seq(X)
      BY <1>5
    <3> HIDE DEF edge
    <3>2. [i \in 1..N |-> edge(i)] \in [1..N -> Seq(X)]
      BY <3>1
    <3>3. /\ [i \in 1..N |-> edge(i)] \in Seq(Seq(X)) /\ Len([i \in 1..N |-> edge(i)]) = N
          /\ \A i \in 1..N : [j \in 1..N |-> edge(j)][i] = edge(i)
      BY <1>1, <3>2
    <3>4. QED
      BY <3>3 DEF edge
  <2> HIDE DEF edges
  <2>2. /\ FlattenSeq(edges(id)) \in Seq(X)
        /\ \A m : m \in Range(FlattenSeq(edges(id))) <=> \E i \in 1..N : m \in Range(edges(id)[i])
    BY <2>1, FlattenHas
  <2>3. Graph(spans)[id] = FlattenSeq(edges(id))
    BY <1>4
  <2>4. \A m : m \in Range(Graph(spans)[id]) <=> \E i \in 1..N : m \in Range(children(id, i) \o after(id, i))
    BY <2>1, <2>2, <2>3
  <2>5. \A m : (\E i \in 1..N : m \in Range(children(id, i) \o after(id, i))) <=>
               \/ (\E i \in 1..N : spans[i] = m) /\ parent[m] = id
               \/ (\E i \in 1..N : spans[i] = id) /\ m \in X /\ Before(id, m)
    BY <1>5
  <2>6. QED
    BY <1>1, <2>2, <2>3, <2>4, <2>5
<1>7. DOMAIN Graph(spans) = Keys(spans)
  BY <1>4
<1>8. IsGraph(Graph(spans))
  <2>1. Seq(X) \subseteq Seq(Keys(spans))
    BY <1>2
  <2>2. Graph(spans) = [id \in Keys(spans) |-> Graph(spans)[id]]
    BY <1>4
  <2>3. \A id \in Keys(spans) : Graph(spans)[id] \in Seq(Keys(spans))
    BY <1>6, <2>1
  <2>4. QED
    BY <1>7, <2>2, <2>3 DEF IsGraph
<1>9. IsFiniteSet(Keys(spans))
  <2> DEFINE P == {parent[s] : s \in X}
  <2>1. IsFiniteSet(X)
    <3>1. spans \in Surjection(1..N, X)
      BY <1>1, <1>3 DEF Surjection
    <3>2. QED
      BY <1>1, <3>1, FS_NatSurjection DEF ExistsSurjection
  <2>2. IsFiniteSet(P)
    <3> DEFINE g == [i \in 1..N |-> parent[spans[i]]]
    <3>1. g \in Surjection(1..N, P)
      BY <1>1 DEF Surjection
    <3> HIDE DEF g, P
    <3>2. QED
      BY <1>1, <3>1, FS_NatSurjection DEF ExistsSurjection
  <2> HIDE DEF P
  <2>3. IsFiniteSet(X \cup P)
    BY <2>1, <2>2, FS_Union
  <2>4. Keys(spans) \subseteq X \cup P
    BY DEF Keys, P, X
  <2>5. QED
    BY <2>3, <2>4, FS_Subset
<1>10. QED
  BY <1>2, <1>6, <1>7, <1>8, <1>9 DEF X

\* The keys of a map, in any order.
LEMMA KeysInOrder ==
  ASSUME NEW K, IsFiniteSet(K), NEW keys \in SetToSeqs(K)
  PROVE  keys \in Seq(K) /\ Range(keys) = K
<1> DEFINE n == Cardinality(K)
<1>1. /\ n \in Nat /\ keys \in [1..n -> K]
      /\ \A i, j \in 1..n : i # j => keys[i] # keys[j]
  BY FS_CardinalityType DEF SetToSeqs
<1>2. IsFiniteSet(1..n) /\ Cardinality(1..n) = n
  <2>1. Cardinality(1..n) = IF 1 > n THEN 0 ELSE n - 1 + 1
    BY <1>1, FS_Interval
  <2>2. IsFiniteSet(1..n)
    BY <1>1, FS_Interval
  <2>3. QED
    BY <1>1, <2>1, <2>2
<1>3. keys \in Injection(1..n, K)
  BY <1>1 DEF Injection, IsInjective
<1>4. keys \in Surjection(1..n, K)
  BY <1>2, <1>3, FS_Injection
<1>5. QED
  BY <1>1, <1>4 DEF Surjection, Range

\* Where the edges of a trace that has passed clocks on go.
LEMMA EdgesGoForward ==
  ASSUME IInv, trace \in Seq(Spans), ClocksPassed(trace)
  PROVE  Forward(Graph(trace))
<1>1. /\ parent \in [Spans -> Spans \cup {NoSpan}] /\ \A s \in Spans : clock[s] \in Clock
      /\ Range(trace) \subseteq Spans
  BY DEF IInv, TypeOK, Started, Range
<1>2. /\ DOMAIN Graph(trace) = Keys(trace) /\ Keys(trace) \subseteq Spans
      /\ \A id \in Keys(trace) : \A m :
           m \in Range(Graph(trace)[id]) <=>
             m \in Range(trace) /\ (parent[m] = id \/ (id \in Range(trace) /\ Before(id, m)))
  BY <1>1, GraphHas
<1>3. ASSUME NEW u \in DOMAIN Graph(trace), NEW m \in Range(Graph(trace)[u]) PROVE Before(u, m)
  <2>1. m \in Range(trace) /\ (parent[m] = u \/ Before(u, m)) /\ u \in Spans
    BY <1>2
  <2>2. CASE parent[m] = u
    <3>1. u # NoSpan /\ m \in Spans
      BY <1>1, <2>1, NoSpanAssumption
    <3>2. u \in above[m]
      BY <2>1, <2>2, <3>1 DEF ClocksPassed
    <3>3. QED
      BY <3>1, <3>2 DEF IInv, AncestorsPrecede, Before
  <2>3. QED
    BY <2>1, <2>2
<1>4. \A u \in Spans : ~Before(u, u)
  BY <1>1, CompareLaws DEF Before
<1>5. ASSUME NEW u \in Spans, NEW v \in Spans, NEW w \in Spans, Before(u, v), Before(v, w)
      PROVE  Before(u, w)
  <2>1. clock[u] \in Clock /\ clock[v] \in Clock /\ clock[w] \in Clock
    BY <1>1
  <2>2. Less(clock[u], clock[v]) /\ Less(clock[v], clock[w])
    BY <1>5, <2>1, CompareLaws DEF Before
  <2>3. Less(clock[u], clock[w])
    BY <2>1, <2>2, BeforeTransitive
  <2>4. QED
    BY <2>1, <2>3, CompareLaws DEF Before
<1>6. QED
  BY <1>2, <1>3, <1>4, <1>5 DEF Forward

\* What OrderSpans returns: the spans found, in reverse, and a nil for each
\* parent that is not there.
LEMMA OrderIs ==
  ASSUME IInv, trace \in Seq(Spans), Len(trace) > 1, NEW keys \in SetToSeqs(Keys(trace))
  PROVE  \E ordered \in Seq(Keys(trace)) :
           /\ IsInjective(ordered) /\ Range(ordered) = Keys(trace)
           /\ ClocksPassed(trace) => Closed(Graph(trace), ordered)
           /\ OrderSpans(trace, keys) \in Seq(Spans \cup {NoSpan})
           /\ Len(OrderSpans(trace, keys)) = Len(ordered)
           /\ \A i \in 1..Len(ordered) : OrderSpans(trace, keys)[i] =
                IF ordered[Len(ordered) - i + 1] \in Range(trace)
                THEN ordered[Len(ordered) - i + 1] ELSE NoSpan
<1> DEFINE graph == Graph(trace)
<1> DEFINE ordered == Found(graph, keys)
<1> DEFINE n == Len(ordered)
<1> DEFINE found == [i \in 1..Len(ordered) |->
                       IF ordered[i] \in Range(trace) THEN ordered[i] ELSE NoSpan]
<1>1. OrderSpans(trace, keys) = Reverse(found)
  <2>1. ~(Len(trace) <= 1)
    BY SMT
  <2>2. QED
    BY <2>1, Zenon DEF OrderSpans, Found
<1>2. parent \in [Spans -> Spans \cup {NoSpan}]
  BY DEF IInv, TypeOK, Started
<1>3. /\ DOMAIN graph = Keys(trace) /\ IsGraph(graph) /\ IsFiniteSet(DOMAIN graph)
      /\ Keys(trace) \subseteq Spans
  BY <1>2, GraphHas
<1>4. keys \in Seq(DOMAIN graph) /\ Range(keys) = DOMAIN graph
  BY <1>3, KeysInOrder
<1>5. /\ ordered \in Seq(DOMAIN graph) /\ IsInjective(ordered) /\ Range(ordered) = DOMAIN graph
      /\ Forward(graph) => Closed(graph, ordered)
  <2> HIDE DEF graph
  <2>1. QED
    BY <1>3, <1>4, SearchFinds
<1>6. ClocksPassed(trace) => Forward(graph)
  BY EdgesGoForward
<1> HIDE DEF ordered, graph
<1>7. n \in Nat
  BY <1>5
<1>8. Len(found) = n /\ \A i \in 1..n : found[i] = IF ordered[i] \in Range(trace) THEN ordered[i] ELSE NoSpan
  BY <1>7
<1>9. \A i \in 1..n : found[i] \in Spans \cup {NoSpan}
  <2>1. \A i \in 1..n : ordered[i] \in Spans
    BY <1>3, <1>5
  <2>2. QED
    BY <1>8, <2>1
<1> HIDE DEF found
<1>10. \A i \in 1..n : n - i + 1 \in 1..n
  BY <1>7
<1>11. Reverse(found) = [i \in 1..n |-> found[n - i + 1]]
  BY <1>8, Zenon DEF Reverse
<1>12. Reverse(found) \in Seq(Spans \cup {NoSpan})
  BY <1>7, <1>9, <1>10, <1>11
<1>13. /\ Len(Reverse(found)) = n
       /\ \A i \in 1..n : Reverse(found)[i] = found[n - i + 1] /\ n - i + 1 \in 1..n
  BY <1>7, <1>10, <1>11
<1>14. QED
  BY <1>1, <1>3, <1>5, <1>6, <1>8, <1>12, <1>13 DEF graph

\* OrderSpans orders causes before effects and returns everything once.
LEMMA OrdersCauses ==
  ASSUME IInv, trace \in Seq(Spans) PROVE OrderIsCausal
<1> SUFFICES ASSUME NEW keys \in SetToSeqs(Keys(trace))
    PROVE LET spans == OrderSpans(trace, keys)
        Times(s) == Cardinality({i \in 1..Len(spans) : spans[i] = s})
    IN /\ ClocksPassed(trace) =>
            \A i, j \in 1..Len(spans) :
              i < j /\ {spans[i], spans[j]} \subseteq Range(trace) =>
                ~Before(spans[j], spans[i]) /\ parent[spans[i]] # spans[j]
       /\ Len(trace) > 1 =>
            /\ \A s \in Range(trace) : Times(s) = 1
            /\ Times(NoSpan) = Cardinality({parent[s] : s \in Range(trace)}
                                             \ (Range(trace) \cup {NoSpan}))
  BY DEF OrderIsCausal
<1> DEFINE spans == OrderSpans(trace, keys)
<1> DEFINE At(s) == {i \in 1..Len(spans) : spans[i] = s}
<1>0. Len(trace) \in Nat
  OBVIOUS
<1>1. CASE ~(Len(trace) > 1)
  <2>1. spans = trace
    <3>1. Len(trace) <= 1
      BY <1>0, <1>1
    <3>2. QED
      BY <3>1, Zenon DEF OrderSpans
  <2>2. \A i, j \in 1..Len(trace) : ~(i < j)
    BY <1>0, <1>1
  <2>3. QED
    BY <1>1, <2>1, <2>2
<1>2. CASE Len(trace) > 1
  <2>1. PICK ordered \in Seq(Keys(trace)) :
           /\ IsInjective(ordered) /\ Range(ordered) = Keys(trace)
           /\ ClocksPassed(trace) => Closed(Graph(trace), ordered)
           /\ Len(spans) = Len(ordered)
           /\ \A i \in 1..Len(ordered) : spans[i] =
                IF ordered[Len(ordered) - i + 1] \in Range(trace)
                THEN ordered[Len(ordered) - i + 1] ELSE NoSpan
    BY <1>2, OrderIs
  <2> DEFINE n == Len(ordered)
  <2> DEFINE at(i) == ordered[n - i + 1]
  <2>2. parent \in [Spans -> Spans \cup {NoSpan}]
    BY DEF IInv, TypeOK, Started
  <2>3. /\ DOMAIN Graph(trace) = Keys(trace) /\ Keys(trace) \subseteq Spans
        /\ Range(trace) \subseteq Keys(trace) /\ NoSpan \notin Range(trace)
        /\ \A id \in Keys(trace) : \A m :
             m \in Range(Graph(trace)[id]) <=>
               m \in Range(trace) /\ (parent[m] = id \/ (id \in Range(trace) /\ Before(id, m)))
    BY <2>2, GraphHas, NoSpanAssumption
  <2>4. n \in Nat /\ DOMAIN ordered = 1..n
    BY <2>1
  <2> HIDE DEF n, spans
  <2>5. Len(spans) = n /\ \A i \in 1..n : /\ n - i + 1 \in 1..n /\ at(i) \in Keys(trace)
                                          /\ spans[i] = IF at(i) \in Range(trace) THEN at(i) ELSE NoSpan
    <3>1. \A i \in 1..n : n - i + 1 \in 1..n
      BY <2>4
    <3>2. \A i \in 1..n : ordered[i] \in Keys(trace)
      BY <2>1, <2>4 DEF Range
    <3>3. QED
      BY <2>1, <3>1, <3>2 DEF n
  <2>6. \A k \in Keys(trace) : \E i \in 1..n : at(i) = k
    <3> SUFFICES ASSUME NEW k \in Keys(trace) PROVE \E i \in 1..n : at(i) = k
      OBVIOUS
    <3>1. PICK j \in 1..n : ordered[j] = k
      BY <2>1, <2>4 DEF Range
    <3>2. n - j + 1 \in 1..n /\ n - (n - j + 1) + 1 = j
      BY <2>4
    <3>3. QED
      BY <3>1, <3>2
  <2>7. \A i, j \in 1..n : at(i) = at(j) => i = j
    <3> SUFFICES ASSUME NEW i \in 1..n, NEW j \in 1..n, at(i) = at(j) PROVE i = j
      OBVIOUS
    <3>1. n - i + 1 = n - j + 1
      BY <2>1, <2>4, <2>5 DEF IsInjective
    <3>2. QED
      BY <2>4, <3>1
  <2>8. ASSUME ClocksPassed(trace), NEW i \in 1..n, NEW j \in 1..n, i < j,
               spans[i] \in Range(trace), spans[j] \in Range(trace)
        PROVE  ~Before(spans[j], spans[i]) /\ parent[spans[i]] # spans[j]
    <3>1. spans[i] = at(i) /\ spans[j] = at(j)
      BY <2>3, <2>5, <2>8
    <3>2. SUFFICES ASSUME Before(at(j), at(i)) \/ parent[at(i)] = at(j) PROVE FALSE
      BY <3>1
    <3>3. at(i) \in Range(trace) /\ at(j) \in Range(trace) /\ at(j) \in Keys(trace)
      BY <2>3, <2>8, <3>1
    <3>4. at(i) \in Range(Graph(trace)[at(j)])
      BY <2>3, <3>2, <3>3
    <3>5. n - j + 1 \in 1..n /\ n - i + 1 \in 1..n
      BY <2>5
    <3>6. PICK k \in 1..((n - j + 1) - 1) : ordered[k] = at(i)
      <4>1. Closed(Graph(trace), ordered)
        BY <2>1, <2>8
      <4>2. QED
        BY <3>4, <3>5, <4>1 DEF Closed, n
    <3>7. k \in 1..n /\ k # n - i + 1
      BY <2>4, <2>8
    <3>8. QED
      BY <2>1, <2>4, <3>5, <3>6, <3>7 DEF IsInjective
  <2>9. ASSUME NEW s \in Range(trace) PROVE Cardinality(At(s)) = 1
    <3>1. PICK i \in 1..n : at(i) = s
      BY <2>3, <2>6
    <3>2. \A j \in 1..n : spans[j] = s <=> j = i
      BY <2>3, <2>5, <2>7, <3>1
    <3>3. At(s) = {i}
      BY <2>5, <3>2
    <3>4. QED
      BY <3>3, FS_Singleton
  <2>10. Cardinality(At(NoSpan)) =
           Cardinality({parent[s] : s \in Range(trace)} \ (Range(trace) \cup {NoSpan}))
    <3> DEFINE Missing == {parent[s] : s \in Range(trace)} \ (Range(trace) \cup {NoSpan})
    <3> DEFINE f == [i \in At(NoSpan) |-> at(i)]
    <3>1. Missing = Keys(trace) \ Range(trace)
      BY <2>3 DEF Keys
    <3>2. \A i : i \in At(NoSpan) <=> i \in 1..n /\ at(i) \in Missing
      <4>1. \A i : i \in At(NoSpan) <=> i \in 1..n /\ spans[i] = NoSpan
        BY <2>5
      <4>2. \A k \in Keys(trace) : k \in Missing <=> k \notin Range(trace)
        BY <3>1
      <4> HIDE DEF Places, Missing
      <4>3. \A i \in 1..n : spans[i] = NoSpan <=> at(i) \in Missing
        BY <2>3, <2>5, <4>2
      <4>4. QED
        BY <4>1, <4>3
    <3>3. IsFiniteSet(At(NoSpan))
      <4>1. IsFiniteSet(1..n)
        BY <2>4, FS_Interval
      <4>2. At(NoSpan) \subseteq 1..n
        BY <3>2
      <4>3. QED
        BY <4>1, <4>2, FS_Subset
    <3> HIDE DEF Missing, Places
    <3>4. f \in Injection(At(NoSpan), Missing)
      BY <2>7, <3>2 DEF Injection, IsInjective
    <3>5. f \in Surjection(At(NoSpan), Missing)
      <4>1. f \in [At(NoSpan) -> Missing]
        BY <3>2
      <4>2. ASSUME NEW t \in Missing PROVE \E i \in At(NoSpan) : f[i] = t
        <5>1. PICK i \in 1..n : at(i) = t
          BY <2>6, <3>1
        <5>2. i \in At(NoSpan)
          BY <3>2, <5>1
        <5>3. QED
          BY <5>1, <5>2
      <4> HIDE DEF f
      <4>3. QED
        BY <4>1, <4>2 DEF Surjection
    <3>6. ExistsBijection(At(NoSpan), Missing)
      BY <3>4, <3>5 DEF ExistsBijection, Bijection
    <3>7. Cardinality(Missing) = Cardinality(At(NoSpan))
      BY <3>3, <3>6, FS_Bijection
    <3>8. QED
      BY <3>7 DEF Missing
  <2>11. QED
    BY <2>5, <2>8, <2>9, <2>10 DEF spans
<1>3. QED
  BY <1>1, <1>2

\* No span comes before one that has caused it, if clocks were passed on, and
\* every span comes once, with a nil for every missing parent: for traces of
\* any length and any order in which the map is ranged over.
THEOREM CausesComeFirst == OrderSpec => []OrderIsCausal
BY TracesHoldSpans, OrdersCauses, PTL

-----------------------------------------------------------------------------
(* Sums over finite sets: how they add, split and are renamed.             *)

\* The subsets of a finite set are well-founded.
LEMMA SubsetsWellFounded ==
  ASSUME NEW S, IsFiniteSet(S)
  PROVE  IsWellFoundedOn(StrictSubsetOrdering(S), SUBSET S)
<1>1. IsWellFoundedOn(StrictSubsetOrdering(S), FiniteSubsetsOf(S))
  BY FS_StrictSubsetOrderingWellFounded
<1>2. FiniteSubsetsOf(S) = SUBSET S
  BY FS_FiniteSubsetsOfFinite
<1>3. QED
  BY <1>1, <1>2

\* Induction over the subsets of a finite set, for a set of them.
LEMMA SubsetInduction ==
  ASSUME NEW S, IsFiniteSet(S), NEW Good,
         \A T \in SUBSET S : (\A U \in SUBSET T : U # T => U \in Good) => T \in Good
  PROVE  SUBSET S \subseteq Good
<1> DEFINE Bad == (SUBSET S) \ Good
<1> SUFFICES ASSUME Bad # {} PROVE FALSE
  OBVIOUS
<1>1. PICK T \in Bad : \A U \in Bad : ~(<<U, T>> \in StrictSubsetOrdering(S))
  <2>1. Bad \subseteq SUBSET S
    OBVIOUS
  <2>2. IsWellFoundedOn(StrictSubsetOrdering(S), SUBSET S)
    BY SubsetsWellFounded
  <2> HIDE DEF Bad
  <2>3. QED
    BY <2>1, <2>2, WFMin
<1>2. ASSUME NEW U \in SUBSET T, U # T PROVE U \in Good
  <2>1. <<U, T>> \in StrictSubsetOrdering(S)
    BY <1>2 DEF StrictSubsetOrdering
  <2>2. U \in SUBSET S
    OBVIOUS
  <2>3. QED
    BY <1>1, <2>1, <2>2
<1>3. QED
  BY <1>2

\* The sum of f over a set, as the fold of the library takes it.
Pick(S) == CHOOSE x \in S : TRUE
OneMore(f, T, g) == IF T = {} THEN 0 ELSE f[Pick(T)] + g[T \ {Pick(T)}]
Folds(f, S, g) == g = [T \in SUBSET S |-> OneMore(f, T, g)]
SumOf(f, S) == (CHOOSE g : Folds(f, S, g))[S]

\* The library's sum of a function is SumOf.
LEMMA SumIsSum ==
  /\ \A f : SumFunction(f) = SumOf(f, DOMAIN f)
  /\ \A f, S : SumFunctionOnSet(f, S) = SumOf(f, S)
  BY DEF SumFunction, SumFunctionOnSet, FoldFunctionOnSet, MapThenFoldSet, SumOf, Folds, OneMore, Pick

\* What is picked from a set is in it.
LEMMA PickIn == \A S : S # {} => Pick(S) \in S
  BY DEF Pick

\* A fold over a set and one over its superset agree on the smaller set.
LEMMA FoldsAgree ==
  ASSUME NEW f, NEW S, NEW T \in SUBSET S, IsFiniteSet(T), NEW g, NEW h,
         Folds(f, S, g), Folds(f, T, h)
  PROVE  \A U \in SUBSET T : g[U] = h[U]
<1> DEFINE Good == {U \in SUBSET T : g[U] = h[U]}
<1>1. ASSUME NEW U \in SUBSET T, \A V \in SUBSET U : V # U => V \in Good
      PROVE  U \in Good
  <2>1. g[U] = OneMore(f, U, g) /\ h[U] = OneMore(f, U, h)
    <3>1. U \in SUBSET S
      OBVIOUS
    <3>2. QED
      BY <3>1 DEF Folds
  <2>2. CASE U = {}
    BY <2>1, <2>2 DEF OneMore
  <2>3. CASE U # {}
    <3>1. U \ {Pick(U)} \in Good
      BY <1>1, <2>3, PickIn
    <3>2. QED
      BY <2>1, <2>3, <3>1 DEF OneMore
  <2>4. QED
    BY <2>2, <2>3
<1>2. SUBSET T \subseteq Good
  <2> HIDE DEF Good
  <2>1. QED
    BY <1>1, SubsetInduction
<1>3. QED
  BY <1>2

\* There is a fold over every finite set.
LEMMA FoldExists ==
  ASSUME NEW f, NEW S, IsFiniteSet(S)
  PROVE  \E g : Folds(f, S, g)
<1> DEFINE Good == {T \in SUBSET S : \E g : Folds(f, T, g)}
<1>1. ASSUME NEW T \in SUBSET S, \A U \in SUBSET T : U # T => U \in Good
      PROVE  T \in Good
  <2> DEFINE h == [U \in SUBSET T |-> IF U = T THEN OneMore(f, T, [V \in SUBSET T |-> SumOf(f, V)])
                                               ELSE SumOf(f, U)]
  <2>1. ASSUME NEW U \in SUBSET T, U # T
        PROVE  SumOf(f, U) = OneMore(f, U, [V \in SUBSET T |-> SumOf(f, V)])
    <3> DEFINE g == CHOOSE g : Folds(f, U, g)
    <3>1. Folds(f, U, g)
      <4>1. \E k : Folds(f, U, k)
        BY <1>1, <2>1
      <4>2. QED
        BY <4>1, Zenon
    <3>2. SumOf(f, U) = OneMore(f, U, g)
      <4>1. SumOf(f, U) = g[U]
        BY DEF SumOf
      <4> HIDE DEF g
      <4>2. QED
        BY <3>1, <4>1 DEF Folds
    <3> HIDE DEF g
    <3>3. CASE U = {}
      BY <3>2, <3>3 DEF OneMore
    <3>4. CASE U # {}
      <4> DEFINE V == U \ {Pick(U)}
      <4>1. V \in SUBSET U /\ V \in SUBSET T /\ V # T /\ IsFiniteSet(V)
        BY <3>4, PickIn, FS_Subset
      <4>2. \E k : Folds(f, V, k)
        BY <1>1, <4>1
      <4> DEFINE k == CHOOSE k : Folds(f, V, k)
      <4>3. Folds(f, V, k)
        BY <4>2, Zenon
      <4>4. SumOf(f, V) = k[V]
        BY DEF SumOf
      <4> HIDE DEF k, V
      <4>5. g[V] = k[V]
        BY <3>1, <4>1, <4>3, FoldsAgree
      <4>6. V = U \ {Pick(U)}
        BY DEF V
      <4>7. QED
        BY <3>2, <3>4, <4>1, <4>4, <4>5, <4>6 DEF OneMore
    <3>5. QED
      BY <3>3, <3>4
  <2>2. ASSUME NEW U \in SUBSET T
        PROVE  OneMore(f, U, h) = OneMore(f, U, [V \in SUBSET T |-> SumOf(f, V)])
    <3>1. CASE U = {}
      BY <3>1 DEF OneMore
    <3>2. CASE U # {}
      <4>1. U \ {Pick(U)} \in SUBSET T /\ U \ {Pick(U)} # T
        BY <3>2, PickIn
      <4>2. QED
        BY <3>2, <4>1 DEF OneMore
    <3>3. QED
      BY <3>1, <3>2
  <2>3. \A U \in SUBSET T : h[U] = OneMore(f, U, h)
    BY <2>1, <2>2
  <2>4. h = [U \in SUBSET T |-> h[U]]
    OBVIOUS
  <2> HIDE DEF h
  <2>5. Folds(f, T, h)
    BY <2>3, <2>4 DEF Folds
  <2>6. QED
    BY <2>5
<1>2. S \in Good
  <2>1. S \in SUBSET S
    OBVIOUS
  <2> HIDE DEF Good
  <2>2. QED
    BY <1>1, <2>1, SubsetInduction
<1>3. QED
  BY <1>2

\* So SumOf satisfies the equation that defines a fold.
LEMMA SumIsFold ==
  ASSUME NEW f, NEW S, IsFiniteSet(S)
  PROVE  SumOf(f, S) = IF S = {} THEN 0 ELSE f[Pick(S)] + SumOf(f, S \ {Pick(S)})
<1> DEFINE g == CHOOSE g : Folds(f, S, g)
<1> DEFINE T == S \ {Pick(S)}
<1> DEFINE h == CHOOSE h : Folds(f, T, h)
<1>1. T \in SUBSET S /\ IsFiniteSet(T)
  BY FS_Subset
<1>2. SumOf(f, S) = g[S] /\ SumOf(f, T) = h[T]
  BY DEF SumOf
<1>3. Folds(f, S, g)
  <2>1. \E k : Folds(f, S, k)
    BY FoldExists
  <2>2. QED
    BY <2>1, Zenon
<1>4. Folds(f, T, h)
  <2> HIDE DEF T
  <2>1. \E k : Folds(f, T, k)
    BY <1>1, FoldExists
  <2>2. QED
    BY <2>1, Zenon
<1> HIDE DEF g, h
<1>5. g[T] = h[T]
  <2> HIDE DEF T
  <2>1. QED
    BY <1>1, <1>3, <1>4, FoldsAgree
<1>6. g[S] = OneMore(f, S, g)
  BY <1>3 DEF Folds
<1>7. QED
  BY <1>2, <1>5, <1>6 DEF OneMore

Adds(f, S) == \A x \in S : f[x] \in Int

\* Any element may be taken first.
LEMMA SumStep ==
  ASSUME NEW f, NEW S, IsFiniteSet(S), Adds(f, S)
  PROVE  SumOf(f, S) \in Int /\ \A x \in S : SumOf(f, S) = f[x] + SumOf(f, S \ {x})
<1> DEFINE Good == {T \in SUBSET S : SumOf(f, T) \in Int /\ \A x \in T : SumOf(f, T) = f[x] + SumOf(f, T \ {x})}
<1>1. ASSUME NEW T \in SUBSET S, \A U \in SUBSET T : U # T => U \in Good
      PROVE  T \in Good
  <2> DEFINE p == Pick(T)
  <2>1. CASE T = {}
    <3>1. SumOf(f, T) = 0
      BY <2>1, SumIsFold, FS_EmptySet
    <3>2. QED
      BY <2>1, <3>1
  <2>2. CASE T # {}
    <3>1. p \in T /\ IsFiniteSet(T)
      BY <2>2, PickIn, FS_Subset
    <3>2. SumOf(f, T) = f[p] + SumOf(f, T \ {p})
      BY <2>2, <3>1, SumIsFold
    <3>3. T \ {p} \in Good /\ f[p] \in Int
      BY <1>1, <3>1 DEF Adds
    <3> HIDE DEF p
    <3>4. ASSUME NEW x \in T PROVE SumOf(f, T) = f[x] + SumOf(f, T \ {x})
      <4>1. CASE x = p
        BY <3>2, <4>1
      <4>2. CASE x # p
        <5> DEFINE U == (T \ {p}) \ {x}
        <5>1. T \ {x} \in Good /\ f[x] \in Int
          BY <1>1 DEF Adds
        <5>2. SumOf(f, T \ {p}) = f[x] + SumOf(f, U)
          BY <3>3, <4>2
        <5>3. SumOf(f, T \ {x}) = f[p] + SumOf(f, U)
          <6>1. (T \ {x}) \ {p} = U
            OBVIOUS
          <6>2. QED
            BY <3>1, <4>2, <5>1, <6>1
        <5>4. SumOf(f, U) \in Int
          <6>1. U \in SUBSET T /\ U # T
            BY <3>1
          <6>2. QED
            BY <1>1, <6>1
        <5> HIDE DEF U
        <5>5. QED
          BY <3>2, <3>3, <5>1, <5>2, <5>3, <5>4
      <4>3. QED
        BY <4>1, <4>2
    <3>5. SumOf(f, T) \in Int
      BY <3>2, <3>3
    <3>6. QED
      BY <3>4, <3>5
  <2>3. QED
    BY <2>1, <2>2
<1>2. S \in Good
  <2>1. S \in SUBSET S
    OBVIOUS
  <2> HIDE DEF Good
  <2>2. QED
    BY <1>1, <2>1, SubsetInduction
<1>3. QED
  BY <1>2

\* Induction over the subsets of a finite set, by one more element.
LEMMA ElementInduction ==
  ASSUME NEW S, IsFiniteSet(S), NEW Good, {} \in Good,
         \A T \in SUBSET S : \A x \in S \ T : T \in Good => T \cup {x} \in Good
  PROVE  S \in Good
<1>1. ASSUME NEW T \in SUBSET S, \A U \in SUBSET T : U # T => U \in Good
      PROVE  T \in Good
  <2>1. CASE T # {}
    <3>1. PICK x \in T : TRUE
      BY <2>1
    <3>2. T \ {x} \in Good /\ T \ {x} \in SUBSET S /\ x \in S \ (T \ {x}) /\ (T \ {x}) \cup {x} = T
      BY <1>1
    <3>3. QED
      BY <3>2
  <2>2. QED
    BY <2>1
<1>2. QED
  BY <1>1, SubsetInduction

\* A sum of nothing.
LEMMA SumOfNothing == \A f : SumOf(f, {}) = 0
<1> SUFFICES ASSUME NEW f PROVE SumOf(f, {}) = 0
  OBVIOUS
<1>1. QED
  BY FS_EmptySet, SumIsFold

\* A sum of nothing, and one element more.
LEMMA SumAdd ==
  ASSUME NEW f, NEW S, IsFiniteSet(S), Adds(f, S)
  PROVE  /\ SumOf(f, {}) = 0 /\ SumOf(f, S) \in Int
         /\ \A x : x \notin S /\ f[x] \in Int => SumOf(f, S \cup {x}) = SumOf(f, S) + f[x]
<1>1. SumOf(f, {}) = 0
  BY SumOfNothing
<1>2. SumOf(f, S) \in Int
  BY SumStep
<1>3. ASSUME NEW x, x \notin S, f[x] \in Int PROVE SumOf(f, S \cup {x}) = SumOf(f, S) + f[x]
  <2> DEFINE T == S \cup {x}
  <2>1. IsFiniteSet(T)
    BY FS_AddElement
  <2>2. Adds(f, T) /\ x \in T /\ T \ {x} = S
    BY <1>3 DEF Adds
  <2> HIDE DEF T
  <2>3. SumOf(f, T) = f[x] + SumOf(f, T \ {x})
    BY <2>1, <2>2, SumStep
  <2>4. SumOf(f, T) = f[x] + SumOf(f, S)
    BY <2>2, <2>3, Zenon
  <2>5. SumOf(f, T) = SumOf(f, S) + f[x]
    BY <1>2, <1>3, <2>4
  <2>6. QED
    BY <2>5 DEF T
<1>4. QED
  BY <1>1, <1>2, <1>3

\* Where functions agree, so do their sums.
LEMMA SumSame ==
  ASSUME NEW f, NEW g, NEW S, IsFiniteSet(S), Adds(f, S), \A x \in S : f[x] = g[x]
  PROVE  SumOf(f, S) = SumOf(g, S)
<1> DEFINE Good == {T \in SUBSET S : SumOf(f, T) = SumOf(g, T)}
<1>1. {} \in Good
  BY SumOfNothing
<1>2. ASSUME NEW T \in SUBSET S, NEW x \in S \ T, T \in Good PROVE T \cup {x} \in Good
  <2>0. IsFiniteSet(T)
    BY FS_Subset
  <2>1. IsFiniteSet(T) /\ Adds(f, T) /\ Adds(g, T) /\ f[x] \in Int /\ g[x] \in Int /\ x \notin T
    BY <2>0 DEF Adds
  <2>2. SumOf(f, T \cup {x}) = SumOf(f, T) + f[x] /\ SumOf(g, T \cup {x}) = SumOf(g, T) + g[x]
    BY <2>1, SumAdd
  <2>3. QED
    BY <1>2, <2>2
<1>3. S \in Good
  <2> HIDE DEF Good
  <2>1. QED
    BY <1>1, <1>2, ElementInduction
<1>4. QED
  BY <1>3

\* The sum of sums.
LEMMA SumPlus ==
  ASSUME NEW f, NEW g, NEW h, NEW S, IsFiniteSet(S), Adds(f, S), Adds(g, S),
         \A x \in S : h[x] = f[x] + g[x]
  PROVE  SumOf(h, S) = SumOf(f, S) + SumOf(g, S)
<1> DEFINE Good == {T \in SUBSET S : SumOf(h, T) = SumOf(f, T) + SumOf(g, T)}
<1>1. {} \in Good
  BY SumOfNothing
<1>2. ASSUME NEW T \in SUBSET S, NEW x \in S \ T, T \in Good PROVE T \cup {x} \in Good
  <2>0. IsFiniteSet(T)
    BY FS_Subset
  <2>1. /\ IsFiniteSet(T) /\ Adds(f, T) /\ Adds(g, T) /\ Adds(h, T) /\ x \notin T
        /\ f[x] \in Int /\ g[x] \in Int /\ h[x] \in Int /\ h[x] = f[x] + g[x]
    BY <2>0 DEF Adds
  <2>2. /\ SumOf(f, T \cup {x}) = SumOf(f, T) + f[x] /\ SumOf(f, T) \in Int
        /\ SumOf(g, T \cup {x}) = SumOf(g, T) + g[x] /\ SumOf(g, T) \in Int
        /\ SumOf(h, T \cup {x}) = SumOf(h, T) + h[x]
    BY <2>1, SumAdd
  <2>3. SumOf(h, T) = SumOf(f, T) + SumOf(g, T)
    BY <1>2
  <2>4. SumOf(h, T \cup {x}) = SumOf(f, T \cup {x}) + SumOf(g, T \cup {x})
    BY <2>1, <2>2, <2>3
  <2>5. QED
    BY <2>4
<1>3. S \in Good
  <2> HIDE DEF Good
  <2>1. QED
    BY <1>1, <1>2, ElementInduction
<1>4. QED
  BY <1>3

\* The sum over two sets that have nothing in common.
LEMMA SumSplit ==
  ASSUME NEW f, NEW A, IsFiniteSet(A), NEW B, IsFiniteSet(B), A \cap B = {},
         Adds(f, A), Adds(f, B)
  PROVE  SumOf(f, A \cup B) = SumOf(f, A) + SumOf(f, B)
<1> DEFINE Good == {T \in SUBSET B : SumOf(f, A \cup T) = SumOf(f, A) + SumOf(f, T)}
<1>1. {} \in Good
  <2>1. A \cup {} = A /\ SumOf(f, {}) = 0 /\ SumOf(f, A) \in Int
    BY SumAdd
  <2>2. SumOf(f, A \cup {}) = SumOf(f, A) + SumOf(f, {})
    BY <2>1
  <2>3. QED
    BY <2>2
<1>2. ASSUME NEW T \in SUBSET B, NEW x \in B \ T, T \in Good PROVE T \cup {x} \in Good
  <2> DEFINE U == A \cup T
  <2>1. IsFiniteSet(T)
    BY FS_Subset
  <2>2. IsFiniteSet(T) /\ Adds(f, T) /\ f[x] \in Int /\ x \notin T /\ x \notin U
    BY <2>1 DEF Adds
  <2>3. IsFiniteSet(U) /\ Adds(f, U)
    BY <2>2, FS_Union DEF Adds
  <2>4. A \cup (T \cup {x}) = U \cup {x}
    OBVIOUS
  <2>5. SumOf(f, U) = SumOf(f, A) + SumOf(f, T)
    BY <1>2
  <2> HIDE DEF U
  <2>6. /\ SumOf(f, U \cup {x}) = SumOf(f, U) + f[x]
        /\ SumOf(f, T \cup {x}) = SumOf(f, T) + f[x] /\ SumOf(f, T) \in Int /\ SumOf(f, A) \in Int
    BY <2>2, <2>3, SumAdd
  <2>7. SumOf(f, A \cup (T \cup {x})) = SumOf(f, U \cup {x})
    BY <2>4, Zenon
  <2>8. SumOf(f, A \cup (T \cup {x})) = SumOf(f, A) + SumOf(f, T \cup {x})
    BY <2>2, <2>5, <2>6, <2>7
  <2>9. QED
    BY <2>8
<1>3. B \in Good
  <2> HIDE DEF Good
  <2>1. QED
    BY <1>1, <1>2, ElementInduction
<1>4. QED
  BY <1>3

\* Equal terms, and terms with a common bound.
LEMMA SumBounds ==
  ASSUME NEW f, NEW S, IsFiniteSet(S), Adds(f, S), NEW n \in Int, NEW c \in Int
  PROVE  /\ Cardinality(S) \in Nat
         /\ (\A x \in S : f[x] = c) => SumOf(f, S) = c * Cardinality(S)
         /\ (\A x \in S : n * f[x] >= c) => n * SumOf(f, S) >= c * Cardinality(S)
         /\ (\A x \in S : n * f[x] <= c) => n * SumOf(f, S) <= c * Cardinality(S)
<1> DEFINE Good ==
      {T \in SUBSET S :
         /\ Cardinality(T) \in Nat
         /\ (\A x \in S : f[x] = c) => SumOf(f, T) = c * Cardinality(T)
         /\ (\A x \in S : n * f[x] >= c) => n * SumOf(f, T) >= c * Cardinality(T)
         /\ (\A x \in S : n * f[x] <= c) => n * SumOf(f, T) <= c * Cardinality(T)}
<1>1. {} \in Good
  <2>1. SumOf(f, {}) = 0 /\ Cardinality({}) = 0
    BY SumAdd, FS_EmptySet
  <2>2. c * 0 = 0 /\ n * 0 = 0 /\ 0 \in Nat
    OBVIOUS
  <2>3. QED
    BY <2>1, <2>2
<1>2. ASSUME NEW T \in SUBSET S, NEW x \in S \ T, T \in Good PROVE T \cup {x} \in Good
  <2> DEFINE U == T \cup {x}
  <2>0. IsFiniteSet(T)
    BY FS_Subset
  <2>1. IsFiniteSet(T) /\ Adds(f, T) /\ f[x] \in Int /\ x \notin T
    BY <2>0 DEF Adds
  <2>2. SumOf(f, U) = SumOf(f, T) + f[x] /\ SumOf(f, T) \in Int
    BY <2>1, SumAdd
  <2>3. Cardinality(U) = Cardinality(T) + 1 /\ Cardinality(T) \in Nat
    BY <1>2, <2>1, FS_AddElement
  <2>4. /\ c * (Cardinality(T) + 1) = c * Cardinality(T) + c /\ c * Cardinality(T) \in Int
        /\ n * (SumOf(f, T) + f[x]) = n * SumOf(f, T) + n * f[x]
        /\ n * SumOf(f, T) \in Int /\ n * f[x] \in Int
    <3> DEFINE k == Cardinality(T)
               m == SumOf(f, T)
               y == f[x]
    <3>1. k \in Int /\ m \in Int /\ y \in Int
      BY <2>1, <2>2, <2>3
    <3> HIDE DEF U, Good, k, m, y
    <3>2. /\ c * (k + 1) = c * k + c /\ c * k \in Int
          /\ n * (m + y) = n * m + n * y /\ n * m \in Int /\ n * y \in Int
      BY <3>1
    <3>3. QED
      BY <3>2 DEF k, m, y
  <2>5. ASSUME \A y \in S : f[y] = c PROVE SumOf(f, U) = c * Cardinality(U)
    <3>1. SumOf(f, T) = c * Cardinality(T) /\ f[x] = c
      BY <1>2, <2>5
    <3>2. QED
      BY <2>2, <2>3, <2>4, <3>1
  <2>6. ASSUME \A y \in S : n * f[y] >= c PROVE n * SumOf(f, U) >= c * Cardinality(U)
    <3>1. n * SumOf(f, T) >= c * Cardinality(T) /\ n * f[x] >= c
      BY <1>2, <2>6
    <3>2. QED
      BY <2>2, <2>3, <2>4, <3>1
  <2>7. ASSUME \A y \in S : n * f[y] <= c PROVE n * SumOf(f, U) <= c * Cardinality(U)
    <3>1. n * SumOf(f, T) <= c * Cardinality(T) /\ n * f[x] <= c
      BY <1>2, <2>7
    <3>2. QED
      BY <2>2, <2>3, <2>4, <3>1
  <2>8. U \in SUBSET S /\ Cardinality(U) \in Nat
    BY <2>3
  <2> HIDE DEF U
  <2>9. U \in Good
    BY <2>5, <2>6, <2>7, <2>8
  <2>10. QED
    BY <2>9 DEF U
<1>3. S \in Good
  <2> HIDE DEF Good
  <2>1. QED
    BY <1>1, <1>2, ElementInduction
<1>4. QED
  BY <1>3

\* A sum of natural numbers, over a set and over a part of it.
LEMMA SumPart ==
  ASSUME NEW f, NEW S, IsFiniteSet(S), NEW T \in SUBSET S, \A x \in S : f[x] \in Nat
  PROVE  SumOf(f, S) \in Nat /\ SumOf(f, T) \in Nat /\ SumOf(f, T) <= SumOf(f, S)
<1> DEFINE U == S \ T
<1>1. IsFiniteSet(T) /\ IsFiniteSet(U) /\ T \cap U = {} /\ T \cup U = S
  BY FS_Subset, FS_Difference
<1>2. Adds(f, T) /\ Adds(f, U) /\ Adds(f, S)
  BY DEF Adds
<1>3. /\ \A x \in T : 1 * f[x] >= 0
      /\ \A x \in U : 1 * f[x] >= 0
  OBVIOUS
<1> HIDE DEF U
<1>4. 0 \in Int /\ 1 \in Int
  OBVIOUS
<1>5. SumOf(f, T) >= 0 /\ SumOf(f, T) \in Int
  <2>1. 1 * SumOf(f, T) >= 0 * Cardinality(T) /\ Cardinality(T) \in Nat
    BY <1>1, <1>2, <1>3, <1>4, SumBounds, Zenon
  <2>2. SumOf(f, T) \in Int
    BY <1>1, <1>2, SumAdd
  <2>3. QED
    BY <2>1, <2>2
<1>6. SumOf(f, U) >= 0 /\ SumOf(f, U) \in Int
  <2>1. 1 * SumOf(f, U) >= 0 * Cardinality(U) /\ Cardinality(U) \in Nat
    BY <1>1, <1>2, <1>3, <1>4, SumBounds, Zenon
  <2>2. SumOf(f, U) \in Int
    BY <1>1, <1>2, SumAdd
  <2>3. QED
    BY <2>1, <2>2
<1>7. SumOf(f, S) = SumOf(f, T) + SumOf(f, U)
  BY <1>1, <1>2, SumSplit
<1>8. QED
  BY <1>5, <1>6, <1>7

\* The same terms under other names.
LEMMA SumRenamed ==
  ASSUME NEW f, NEW g, NEW S, IsFiniteSet(S), NEW T, NEW b \in Bijection(S, T), Adds(f, S),
         \A x \in S : f[x] = g[b[x]]
  PROVE  SumOf(f, S) = SumOf(g, T)
<1> DEFINE Image(U) == {b[x] : x \in U}
<1> DEFINE Good == {U \in SUBSET S : IsFiniteSet(Image(U)) /\ SumOf(f, U) = SumOf(g, Image(U))}
<1>1. /\ b \in [S -> T] /\ \A x, y \in S : b[x] = b[y] => x = y
      /\ \A t \in T : \E x \in S : b[x] = t
  BY DEF Bijection, Injection, Surjection, IsInjective
<1>2. {} \in Good
  <2>1. Image({}) = {}
    OBVIOUS
  <2>2. QED
    BY <2>1, SumIsFold, FS_EmptySet
<1>3. ASSUME NEW U \in SUBSET S, NEW x \in S \ U, U \in Good PROVE U \cup {x} \in Good
  <2>1. IsFiniteSet(U)
    BY FS_Subset
  <2>2. IsFiniteSet(U) /\ Adds(f, U) /\ f[x] \in Int /\ x \notin U
    BY <2>1 DEF Adds
  <2>3. Image(U \cup {x}) = Image(U) \cup {b[x]} /\ b[x] \notin Image(U)
    BY <1>1
  <2>4. IsFiniteSet(Image(U))
    BY <1>3
  <2>5. Adds(g, Image(U)) /\ g[b[x]] = f[x]
    BY DEF Adds
  <2>6. SumOf(f, U) = SumOf(g, Image(U))
    BY <1>3
  <2> HIDE DEF Image
  <2>7. /\ SumOf(f, U \cup {x}) = SumOf(f, U) + f[x]
        /\ SumOf(g, Image(U) \cup {b[x]}) = SumOf(g, Image(U)) + g[b[x]]
    BY <2>2, <2>3, <2>4, <2>5, SumAdd
  <2>8. IsFiniteSet(Image(U) \cup {b[x]})
    BY <2>4, FS_AddElement
  <2>9. SumOf(f, U \cup {x}) = SumOf(g, Image(U) \cup {b[x]})
    BY <2>5, <2>6, <2>7, Zenon
  <2>10. IsFiniteSet(Image(U \cup {x})) /\ SumOf(f, U \cup {x}) = SumOf(g, Image(U \cup {x}))
    BY <2>3, <2>8, <2>9, Zenon
  <2>11. QED
    BY <2>10
<1>4. S \in Good
  <2> HIDE DEF Good
  <2>1. QED
    BY <1>2, <1>3, ElementInduction
<1>5. Image(S) = T
  BY <1>1
<1>6. QED
  BY <1>4, <1>5

-----------------------------------------------------------------------------
(* Recursive functions over a set whose elements have ranks, and the largest *)
(* element of a finite set.                                                *)

\* Induction over the elements of a set by their ranks.
LEMMA RankInduction ==
  ASSUME NEW S, NEW rank \in [S -> Nat], NEW Good,
         \A x \in S : (\A y \in S : rank[y] < rank[x] => y \in Good) => x \in Good
  PROVE  S \subseteq Good
<1> DEFINE T == {n \in Nat : \A x \in S : rank[x] < n => x \in Good}
<1>1. 0 \in T
  OBVIOUS
<1>2. ASSUME NEW n \in Nat, n \in T PROVE n + 1 \in T
  <2>1. ASSUME NEW x \in S, rank[x] < n + 1 PROVE x \in Good
    <3>1. ASSUME NEW y \in S, rank[y] < rank[x] PROVE y \in Good
      <4>1. rank[y] < n
        BY <2>1, <3>1
      <4>2. QED
        BY <1>2, <4>1
    <3>2. QED
      BY <3>1
  <2>2. QED
    BY <2>1
<1>3. Nat \subseteq T
  <2> HIDE DEF T
  <2>1. QED
    BY <1>1, <1>2, NatSetInduction
<1>4. ASSUME NEW x \in S PROVE x \in Good
  <2>1. rank[x] + 1 \in T /\ rank[x] < rank[x] + 1
    BY <1>3
  <2>2. QED
    BY <2>1
<1>5. QED
  BY <1>4

\* F says what a function has for an element, from elements of lower rank.
Recursion(F, S, A, rank) ==
  /\ rank \in [S -> Nat] /\ F \in [[S -> A] -> [S -> A]]
  /\ \A g, h \in [S -> A] : \A x \in S :
       (\A y \in S : rank[y] < rank[x] => g[y] = h[y]) => F[g][x] = F[h][x]

\* There is a function that is as F says.
LEMMA RecursionExists ==
  ASSUME NEW S, NEW A, A # {}, NEW rank, NEW F, Recursion(F, S, A, rank)
  PROVE  \E g \in [S -> A] : g = F[g]
<1>0. /\ rank \in [S -> Nat] /\ F \in [[S -> A] -> [S -> A]]
      /\ \A g, h \in [S -> A] : \A x \in S :
           (\A y \in S : rank[y] < rank[x] => g[y] = h[y]) => F[g][x] = F[h][x]
  BY DEF Recursion
<1> DEFINE Upto(n, g) == g \in [S -> A] /\ \A x \in S : rank[x] < n => g[x] = F[g][x]
<1> DEFINE Good == {n \in Nat : \E g : Upto(n, g)}
<1>1. 0 \in Good
  <2>1. PICK a \in A : TRUE
    OBVIOUS
  <2>2. [x \in S |-> a] \in [S -> A]
    OBVIOUS
  <2>3. Upto(0, [x \in S |-> a])
    BY <1>0, <2>2
  <2>4. QED
    BY <2>3
<1>2. ASSUME NEW n \in Nat, n \in Good PROVE n + 1 \in Good
  <2>1. PICK g : Upto(n, g)
    BY <1>2
  <2> DEFINE h == F[g]
  <2>2. h \in [S -> A] /\ g \in [S -> A]
    BY <1>0, <2>1
  <2>3. ASSUME NEW x \in S, rank[x] < n + 1 PROVE h[x] = F[h][x]
    <3>1. ASSUME NEW y \in S, rank[y] < rank[x] PROVE g[y] = h[y]
      <4>1. rank[y] < n
        BY <1>0, <2>3, <3>1
      <4>2. QED
        BY <2>1, <4>1
    <3> HIDE DEF h
    <3>2. F[g][x] = F[h][x]
      BY <1>0, <2>2, <3>1
    <3>3. QED
      BY <3>2 DEF h
  <2> HIDE DEF h
  <2>4. Upto(n + 1, h)
    BY <2>2, <2>3
  <2>5. QED
    BY <2>4
<1>3. Nat \subseteq Good
  <2> HIDE DEF Good
  <2>1. QED
    BY <1>1, <1>2, NatSetInduction
<1>4. ASSUME NEW m \in Nat, NEW n \in Nat, NEW g, NEW h, Upto(m, g), Upto(n, h)
      PROVE  \A x \in S : rank[x] < m /\ rank[x] < n => g[x] = h[x]
  <2> DEFINE Agreed == {x \in S : rank[x] < m /\ rank[x] < n => g[x] = h[x]}
  <2>1. ASSUME NEW x \in S, \A y \in S : rank[y] < rank[x] => y \in Agreed PROVE x \in Agreed
    <3>1. ASSUME rank[x] < m, rank[x] < n PROVE g[x] = h[x]
      <4>1. ASSUME NEW y \in S, rank[y] < rank[x] PROVE g[y] = h[y]
        <5>1. rank[y] < m /\ rank[y] < n
          BY <1>0, <3>1, <4>1
        <5>2. QED
          BY <2>1, <4>1, <5>1
      <4>2. F[g][x] = F[h][x]
        BY <1>0, <1>4, <4>1
      <4>3. QED
        BY <1>4, <3>1, <4>2
    <3>2. QED
      BY <3>1
  <2>2. S \subseteq Agreed
    <3> HIDE DEF Agreed, Upto
    <3>1. QED
      BY <1>0, <2>1, RankInduction
  <2>3. QED
    BY <2>2
<1> DEFINE G(n) == CHOOSE g : Upto(n, g)
<1>5. ASSUME NEW n \in Nat PROVE Upto(n, G(n))
  <2>1. \E g : Upto(n, g)
    BY <1>3
  <2> HIDE DEF Upto
  <2>2. QED
    BY <2>1, Zenon
<1> DEFINE f == [x \in S |-> G(rank[x] + 1)[x]]
<1>6. f \in [S -> A]
  <2>1. ASSUME NEW x \in S PROVE G(rank[x] + 1)[x] \in A
    <3>1. rank[x] + 1 \in Nat
      BY <1>0
    <3>2. Upto(rank[x] + 1, G(rank[x] + 1))
      BY <1>5, <3>1
    <3> HIDE DEF G
    <3>3. QED
      BY <3>2
  <2> HIDE DEF G
  <2>2. QED
    BY <2>1
<1>7. ASSUME NEW x \in S PROVE f[x] = F[f][x]
  <2> DEFINE n == rank[x] + 1
  <2> DEFINE g == G(n)
  <2>1. n \in Nat /\ rank[x] < n
    BY <1>0
  <2>2. Upto(n, g)
    BY <1>5, <2>1
  <2>3. f[x] = g[x]
    OBVIOUS
  <2>4. ASSUME NEW y \in S, rank[y] < rank[x] PROVE f[y] = g[y]
    <3> DEFINE m == rank[y] + 1
    <3> DEFINE h == G(m)
    <3>1. m \in Nat /\ rank[y] < m /\ rank[y] < n
      BY <1>0, <2>4
    <3>2. Upto(m, h)
      BY <1>5, <3>1
    <3>3. f[y] = h[y]
      OBVIOUS
    <3> HIDE DEF f, g, h, m, n, G, Upto
    <3>4. h[y] = g[y]
      BY <1>4, <2>1, <2>2, <3>1, <3>2
    <3>5. QED
      BY <3>3, <3>4
  <2> HIDE DEF f, G, n
  <2>5. F[f][x] = F[g][x]
    <3>1. g \in [S -> A]
      BY <2>2
    <3>2. QED
      BY <1>0, <1>6, <2>4, <3>1
  <2>6. g[x] = F[g][x]
    BY <2>1, <2>2
  <2>7. QED
    BY <2>3, <2>5, <2>6
<1>8. f = F[f]
  <2> HIDE DEF f
  <2>1. F[f] \in [S -> A]
    BY <1>0, <1>6
  <2>2. QED
    BY <1>6, <1>7, <2>1
<1> HIDE DEF f
<1>9. QED
  BY <1>6, <1>8

\* The largest and the smallest of finitely many numbers.
LEMMA FiniteMax ==
  ASSUME NEW S, IsFiniteSet(S), S # {}, S \subseteq Int
  PROVE  /\ Max(S) \in S /\ \A y \in S : y <= Max(S)
         /\ Min(S) \in S /\ \A y \in S : Min(S) <= y
<1> DEFINE Good == {T \in SUBSET S : T # {} => /\ \E x \in T : \A y \in T : x >= y
                                             /\ \E x \in T : \A y \in T : x <= y}
<1>1. {} \in Good
  OBVIOUS
<1>2. ASSUME NEW T \in SUBSET S, NEW z \in S \ T, T \in Good PROVE T \cup {z} \in Good
  <2>1. CASE T = {}
    <3>1. z >= z /\ z <= z
      OBVIOUS
    <3>2. T \cup {z} = {z} /\ T \cup {z} \in SUBSET S
      BY <2>1
    <3>3. QED
      BY <3>1, <3>2
  <2>2. CASE T # {}
    <3>1. PICK a \in T : \A y \in T : a >= y
      BY <1>2, <2>2
    <3>2. PICK b \in T : \A y \in T : b <= y
      BY <1>2, <2>2
    <3>3. T \subseteq Int /\ z \in Int /\ a \in Int /\ b \in Int
      OBVIOUS
    <3>4. \E x \in T \cup {z} : \A y \in T \cup {z} : x >= y
      <4>1. CASE z >= a
        <5>1. \A y \in T \cup {z} : z >= y
          BY <3>1, <3>3, <4>1
        <5>2. QED
          BY <5>1
      <4>2. CASE ~(z >= a)
        <5>1. \A y \in T \cup {z} : a >= y
          BY <3>1, <3>3, <4>2
        <5>2. QED
          BY <5>1
      <4>3. QED
        BY <4>1, <4>2
    <3>5. \E x \in T \cup {z} : \A y \in T \cup {z} : x <= y
      <4>1. CASE z <= b
        <5>1. \A y \in T \cup {z} : z <= y
          BY <3>2, <3>3, <4>1
        <5>2. QED
          BY <5>1
      <4>2. CASE ~(z <= b)
        <5>1. \A y \in T \cup {z} : b <= y
          BY <3>2, <3>3, <4>2
        <5>2. QED
          BY <5>1
      <4>3. QED
        BY <4>1, <4>2
    <3>6. T \cup {z} \in SUBSET S
      OBVIOUS
    <3>7. QED
      BY <3>4, <3>5, <3>6
  <2>3. QED
    BY <2>1, <2>2
<1>3. S \in Good
  <2> HIDE DEF Good
  <2>1. QED
    BY <1>1, <1>2, ElementInduction
<1>4. (\E x \in S : \A y \in S : x >= y) /\ (\E x \in S : \A y \in S : x <= y)
  BY <1>3
<1>5. Max(S) \in S /\ \A y \in S : Max(S) >= y
  BY <1>4, Zenon DEF Max
<1>6. Min(S) \in S /\ \A y \in S : Min(S) <= y
  BY <1>4, Zenon DEF Min
<1>7. \A y \in S : y <= Max(S)
  <2>1. Max(S) \in Int
    BY <1>5
  <2>2. QED
    BY <1>5, <2>1
<1>8. QED
  BY <1>5, <1>6, <1>7

\* Values of a function on a finite set are bounded.
LEMMA FiniteBound ==
  ASSUME NEW S, IsFiniteSet(S), NEW d \in [S -> Nat]
  PROVE  \E n \in Nat : \A x \in S : d[x] <= n
<1> DEFINE Good == {T \in SUBSET S : \E n \in Nat : \A x \in T : d[x] <= n}
<1>1. {} \in Good
  OBVIOUS
<1>2. ASSUME NEW T \in SUBSET S, NEW z \in S \ T, T \in Good PROVE T \cup {z} \in Good
  <2>1. PICK n \in Nat : \A x \in T : d[x] <= n
    BY <1>2
  <2>2. n + d[z] \in Nat /\ \A x \in T \cup {z} : d[x] <= n + d[z]
    BY <2>1
  <2>3. QED
    BY <2>2
<1>3. S \in Good
  <2> HIDE DEF Good
  <2>1. QED
    BY <1>1, <1>2, ElementInduction
<1>4. QED
  BY <1>3

\* The elements of a sequence are finitely many.
LEMMA RangeIsFinite ==
  ASSUME NEW X, NEW seq \in Seq(X)
  PROVE  IsFiniteSet(Range(seq)) /\ Range(seq) \subseteq X
<1>1. IsFiniteSet(1..Len(seq)) /\ DOMAIN seq = 1..Len(seq)
  BY FS_Interval
<1>2. seq \in Surjection(1..Len(seq), Range(seq))
  BY <1>1 DEF Surjection, Range
<1>3. IsFiniteSet(Range(seq))
  BY <1>1, <1>2, FS_Surjection
<1>4. QED
  BY <1>3 DEF Range

-----------------------------------------------------------------------------
(* The critical path: the slowest way down from a span, in a tree whose depths *)
(* the starts of spans keep.  First the tree, then the latency of a path, then *)
(* the path itself.                                                        *)

\* Depths of spans: every span is below its parent.
Depths(d) == d \in [Spans -> Nat] /\ \A s \in Spans : parent[s] # NoSpan => d[parent[s]] < d[s]
Acyclic == \E d : Depths(d)

\* A span that starts is nobody's parent, so parents never make a cycle.
LEMMA StaysAcyclic == IInv /\ Acyclic /\ [Next]_vars => Acyclic'
<1> SUFFICES ASSUME IInv, Acyclic, [Next]_vars PROVE Acyclic'
  OBVIOUS
<1>1. PICK d : Depths(d)
  BY DEF Acyclic
<1>2. ASSUME NEW s \in Spans, NEW p \in Started \cup {NoSpan}, node[s] = NoSpan,
             parent' = [parent EXCEPT ![s] = p]
      PROVE  Acyclic'
  <2>1. /\ parent \in [Spans -> Started \cup {NoSpan}] /\ s \notin Started /\ NoSpan \notin Spans
        /\ Started \subseteq Spans
    BY <1>2, NoSpanAssumption DEF IInv, TypeOK, Started
  <2> DEFINE e == [d EXCEPT ![s] = IF p = NoSpan THEN 0 ELSE d[p] + 1]
  <2>2. d \in [Spans -> Nat] /\ e \in [Spans -> Nat]
    BY <1>1, <2>1 DEF Depths
  <2>3. ASSUME NEW r \in Spans, parent'[r] # NoSpan PROVE e[parent'[r]] < e[r]
    <3>1. CASE r = s
      <4>1. parent'[r] = p /\ p \in Started /\ p # s
        BY <1>2, <2>1, <2>3, <3>1
      <4>2. e[p] = d[p] /\ e[s] = d[p] + 1 /\ d[p] \in Nat
        BY <2>1, <2>2, <2>3, <4>1
      <4>3. QED
        BY <3>1, <4>1, <4>2
    <3>2. CASE r # s
      <4>1. parent'[r] = parent[r] /\ parent[r] \in Started /\ parent[r] # s
        BY <1>2, <2>1, <2>3, <3>2
      <4>2. e[parent[r]] = d[parent[r]] /\ e[r] = d[r] /\ d[parent[r]] < d[r]
        BY <1>1, <2>1, <2>2, <2>3, <3>2, <4>1 DEF Depths
      <4>3. QED
        BY <4>1, <4>2
    <3>3. QED
      BY <3>1, <3>2
  <2> HIDE DEF e
  <2>4. Depths(e)'
    BY <2>2, <2>3 DEF Depths
  <2>5. QED
    BY <2>4 DEF Acyclic
<1>3. CASE UNCHANGED vars
  BY <1>3 DEF vars, Acyclic, Depths
<1>4. CASE Next
  <2>1. PICK s \in Spans, n \in Nodes :
          \/ StartRoot(s, n)
          \/ \E p \in Spans : \/ StartChild(s, n, p) \/ StartWithoutClock(s, n, p)
                              \/ StartSpanFromContext(s, n, p)
    BY <1>4 DEF Next
  <2>2. CASE StartRoot(s, n)
    BY <1>2, <2>2 DEF StartRoot, StartSpan
  <2>3. ASSUME NEW p \in Spans, \/ StartChild(s, n, p) \/ StartWithoutClock(s, n, p)
                                \/ StartSpanFromContext(s, n, p)
        PROVE  Acyclic'
    <3>1. p \in Started /\ node[s] = NoSpan /\ parent' = [parent EXCEPT ![s] = p]
      BY <2>3 DEF StartChild, StartWithoutClock, StartSpanFromContext, StartSpan
    <3>2. QED
      BY <1>2, <3>1
  <2>4. QED
    BY <2>1, <2>2, <2>3
<1>5. QED
  BY <1>3, <1>4

\* No trace has a cycle of parents.
LEMMA TracesAreForests == OrderSpec => []Acyclic
<1>1. OrderInit => Acyclic
  <2> SUFFICES ASSUME OrderInit PROVE Acyclic
    OBVIOUS
  <2>1. Depths([s \in Spans |-> 0])
    BY DEF OrderInit, Init, Depths
  <2>2. QED
    BY <2>1 DEF Acyclic
<1>2. IInv /\ Acyclic /\ [OrderNext]_orderVars => Acyclic'
  <2> SUFFICES ASSUME IInv, Acyclic, [OrderNext]_orderVars PROVE Acyclic'
    OBVIOUS
  <2>1. CASE UNCHANGED vars
    BY <2>1 DEF vars, Acyclic, Depths
  <2>2. CASE Next
    BY <2>2, StaysAcyclic
  <2>3. Next \/ UNCHANGED vars
    BY DEF OrderNext, Start, StoreSpan, Next, orderVars, vars
  <2>4. QED
    BY <2>1, <2>2, <2>3
<1>3. QED
  BY <1>1, <1>2, TracesHoldSpans, PTL DEF OrderSpec

\* The spans of a trace as OrderSpans returns them: S is those that are there.
Lists(spans, S) ==
  /\ spans \in Seq(Spans \cup {NoSpan}) /\ S = Range(spans) \ {NoSpan}
  /\ parent \in [Spans -> Spans \cup {NoSpan}]

\* What OrderSpans returns of a trace.
LEMMA OrderLists ==
  ASSUME IInv, trace \in Seq(Spans), NEW keys \in SetToSeqs(Keys(trace))
  PROVE  LET spans == OrderSpans(trace, keys) IN
         /\ Lists(spans, Range(trace))
         /\ Len(trace) <= 1 => spans = trace
         /\ Len(trace) > 1 => \A s \in Range(trace) :
              parent[s] \notin Range(trace) /\ parent[s] # NoSpan => NoSpan \in Range(spans)
<1> DEFINE spans == OrderSpans(trace, keys)
<1>1. /\ parent \in [Spans -> Spans \cup {NoSpan}] /\ NoSpan \notin Spans
      /\ Range(trace) \subseteq Spans
  BY NoSpanAssumption DEF IInv, TypeOK, Started, Range
<1>2. CASE Len(trace) <= 1
  <2>1. spans = trace
    BY <1>2 DEF OrderSpans
  <2>2. Lists(trace, Range(trace))
    <3>1. trace \in Seq(Spans \cup {NoSpan})
      OBVIOUS
    <3>2. QED
      BY <1>1, <3>1 DEF Lists
  <2>3. Len(trace) \in Nat /\ ~(Len(trace) > 1)
    BY <1>2
  <2> HIDE DEF spans
  <2>4. QED
    BY <2>1, <2>2, <2>3 DEF spans
<1>3. CASE Len(trace) > 1
  <2>1. /\ spans \in Seq(Spans \cup {NoSpan})
        /\ \E ordered \in Seq(Keys(trace)) :
             /\ Range(ordered) = Keys(trace) /\ Len(spans) = Len(ordered)
             /\ \A i \in 1..Len(ordered) : spans[i] =
                  IF ordered[Len(ordered) - i + 1] \in Range(trace)
                  THEN ordered[Len(ordered) - i + 1] ELSE NoSpan
    BY <1>3, OrderIs
  <2> HIDE DEF spans
  <2>2. PICK ordered \in Seq(Keys(trace)) :
             /\ Range(ordered) = Keys(trace) /\ Len(spans) = Len(ordered)
             /\ \A i \in 1..Len(ordered) : spans[i] =
                  IF ordered[Len(ordered) - i + 1] \in Range(trace)
                  THEN ordered[Len(ordered) - i + 1] ELSE NoSpan
    BY <2>1
  <2> DEFINE n == Len(ordered)
  <2>3. n \in Nat /\ DOMAIN spans = 1..n /\ DOMAIN ordered = 1..n
    BY <2>1, <2>2
  <2>4. ASSUME NEW s \in Keys(trace)
        PROVE  \E i \in 1..n : spans[i] = IF s \in Range(trace) THEN s ELSE NoSpan
    <3>1. PICK j \in 1..n : ordered[j] = s
      BY <2>2, <2>3 DEF Range
    <3>2. n - j + 1 \in 1..n /\ n - (n - j + 1) + 1 = j
      BY <2>3
    <3>3. QED
      BY <2>2, <3>1, <3>2
  <2>5. Range(spans) \ {NoSpan} = Range(trace)
    <3>1. ASSUME NEW s \in Range(trace) PROVE s \in Range(spans) /\ s # NoSpan
      <4>1. s \in Keys(trace) /\ s # NoSpan
        BY <1>1 DEF Keys
      <4>2. QED
        BY <2>3, <2>4, <4>1 DEF Range
    <3>2. ASSUME NEW s \in Range(spans), s # NoSpan PROVE s \in Range(trace)
      <4>1. PICK i \in 1..n : spans[i] = s
        BY <2>3 DEF Range
      <4>2. QED
        BY <2>2, <3>2, <4>1
    <3>3. QED
      BY <3>1, <3>2
  <2>6. ASSUME NEW s \in Range(trace), parent[s] \notin Range(trace), parent[s] # NoSpan
        PROVE  NoSpan \in Range(spans)
    <3>1. parent[s] \in Keys(trace)
      BY <2>6 DEF Keys
    <3>2. QED
      BY <2>3, <2>4, <2>6, <3>1 DEF Range
  <2>7. ~(Len(trace) <= 1)
    BY <1>3
  <2>8. Lists(spans, Range(trace))
    BY <1>1, <2>1, <2>5 DEF Lists
  <2>9. QED
    BY <2>6, <2>7, <2>8 DEF spans
<1>4. QED
  <2>1. Len(trace) \in Nat
    OBVIOUS
  <2>2. Len(trace) <= 1 \/ Len(trace) > 1
    BY <2>1
  <2>3. QED
    BY <1>2, <1>3, <2>2

\* Children of a span are those of the spans that have it as their parent.
LEMMA ChildrenAre ==
  ASSUME NEW spans, NEW S, Lists(spans, S), NEW s \in S
  PROVE  Children(spans, s) = {c \in S : parent[c] = s} /\ IsFiniteSet(Children(spans, s))
<1>1. Children(spans, s) = {c \in S : parent[c] = s}
  BY DEF Children, ParentOf, Lists
<1>2. IsFiniteSet(Range(spans))
  BY RangeIsFinite DEF Lists
<1>3. Children(spans, s) \in SUBSET Range(spans)
  BY DEF Children
<1>4. QED
  BY <1>1, <1>2, <1>3, FS_Subset

\* The spans of a trace in the order of their heights.
LEMMA HeightsExist ==
  ASSUME NEW spans, NEW S, Lists(spans, S), Acyclic, NoSpan \notin Spans
  PROVE  /\ IsFiniteSet(S) /\ S \subseteq Spans
         /\ \E d : Depths(d)
         /\ \E rank \in [S -> Nat] : \A s \in S : \A c \in Children(spans, s) : rank[c] < rank[s]
<1>1. PICK d : Depths(d)
  BY DEF Acyclic
<1>2. IsFiniteSet(S) /\ S \subseteq Spans
  <2>1. IsFiniteSet(Range(spans)) /\ Range(spans) \subseteq Spans \cup {NoSpan}
    BY RangeIsFinite DEF Lists
  <2>2. S \in SUBSET Range(spans) /\ NoSpan \notin S
    BY DEF Lists
  <2>3. IsFiniteSet(S)
    BY <2>1, <2>2, FS_Subset
  <2>4. QED
    BY <2>1, <2>2, <2>3
<1>3. d \in [Spans -> Nat]
  BY <1>1 DEF Depths
<1>4. PICK n \in Nat : \A s \in S : d[s] <= n
  <2> DEFINE e == [s \in S |-> d[s]]
  <2>1. e \in [S -> Nat]
    BY <1>2, <1>3
  <2> HIDE DEF e
  <2>2. \E n \in Nat : \A s \in S : e[s] <= n
    BY <1>2, <2>1, FiniteBound
  <2>3. QED
    BY <2>2 DEF e
<1>5. \A s \in S : n - d[s] \in Nat
  BY <1>2, <1>3, <1>4
<1> DEFINE rank == [s \in S |-> n - d[s]]
<1>6. rank \in [S -> Nat]
  BY <1>5
<1>7. ASSUME NEW s \in S, NEW c \in Children(spans, s) PROVE rank[c] < rank[s]
  <2>1. c \in S /\ parent[c] = s /\ s # NoSpan
    BY <1>2, ChildrenAre
  <2>2. d[s] < d[c]
    BY <1>1, <1>2, <2>1 DEF Depths
  <2>3. d[s] \in Nat /\ d[c] \in Nat
    BY <1>2, <1>3, <2>1
  <2>4. QED
    BY <2>1, <2>2, <2>3
<1> HIDE DEF rank
<1>8. QED
  BY <1>1, <1>2, <1>6, <1>7

\* The recursive definition inside PathLatency.
Slowing(spans, latency, g, s) == latency[s] + Max({0} \cup {g[c] : c \in Children(spans, s)})
Slows(spans, latency, g) ==
  g = [s \in Range(spans) \ {NoSpan} |-> Slowing(spans, latency, g, s)]

\* What is in a finite set of values, with 0.
LEMMA MaxOfValues ==
  ASSUME NEW C, IsFiniteSet(C), NEW g, \A c \in C : g[c] \in Nat
  PROVE  LET m == Max({0} \cup {g[c] : c \in C}) IN
         /\ m \in Nat /\ \A c \in C : g[c] <= m
         /\ m = 0 \/ \E c \in C : m = g[c]
<1> DEFINE V == {g[c] : c \in C}
<1> DEFINE W == {0} \cup V
<1>1. IsFiniteSet(V)
  <2> DEFINE f == [c \in C |-> g[c]]
  <2>1. f \in Surjection(C, V)
    BY DEF Surjection
  <2> HIDE DEF f, V
  <2>2. QED
    BY <2>1, FS_Surjection
<1>2. IsFiniteSet(W) /\ W # {} /\ W \subseteq Int
  <2>1. V \subseteq Nat
    OBVIOUS
  <2> HIDE DEF V
  <2>2. {0} \cup V = V \cup {0}
    OBVIOUS
  <2>3. IsFiniteSet(V \cup {0})
    BY <1>1, FS_AddElement
  <2>4. QED
    BY <2>1, <2>2, <2>3
<1> HIDE DEF W
<1>3. Max(W) \in W /\ \A y \in W : y <= Max(W)
  BY <1>2, FiniteMax
<1>4. (\A c \in C : g[c] \in W) /\ (\A w \in W : w = 0 \/ \E c \in C : w = g[c])
  BY DEF W
<1>5. Max(W) \in Nat /\ (\A c \in C : g[c] <= Max(W)) /\ (Max(W) = 0 \/ \E c \in C : Max(W) = g[c])
  BY <1>3, <1>4
<1>6. QED
  BY <1>5, Zenon DEF W

\* Latencies of paths are as findCriticalPath says.
LEMMA PathLatencyIs ==
  ASSUME NEW spans, NEW S, Lists(spans, S), Acyclic, NoSpan \notin Spans,
         NEW latency \in [S -> Nat]
  PROVE  \A s \in S :
           /\ PathLatency(spans, latency, s) \in Nat
           /\ \A c \in Children(spans, s) :
                latency[s] + PathLatency(spans, latency, c) <= PathLatency(spans, latency, s)
           /\ \/ PathLatency(spans, latency, s) = latency[s]
              \/ \E c \in Children(spans, s) :
                   PathLatency(spans, latency, s) = latency[s] + PathLatency(spans, latency, c)
<1>1. PICK rank \in [S -> Nat] : \A s \in S : \A c \in Children(spans, s) : rank[c] < rank[s]
  BY HeightsExist
<1>2. S = Range(spans) \ {NoSpan}
  BY DEF Lists
<1>3. \A s \in S : IsFiniteSet(Children(spans, s)) /\ Children(spans, s) \subseteq S
  BY ChildrenAre
<1> DEFINE F == [g \in [S -> Nat] |-> [s \in S |-> Slowing(spans, latency, g, s)]]
<1>4. ASSUME NEW g, NEW s \in S, \A c \in Children(spans, s) : g[c] \in Nat
      PROVE  /\ Slowing(spans, latency, g, s) \in Nat
             /\ \A c \in Children(spans, s) : latency[s] + g[c] <= Slowing(spans, latency, g, s)
             /\ \/ Slowing(spans, latency, g, s) = latency[s]
                \/ \E c \in Children(spans, s) : Slowing(spans, latency, g, s) = latency[s] + g[c]
  <2> DEFINE m == Max({0} \cup {g[c] : c \in Children(spans, s)})
  <2>1. /\ m \in Nat /\ \A c \in Children(spans, s) : g[c] <= m
        /\ m = 0 \/ \E c \in Children(spans, s) : m = g[c]
    BY <1>3, <1>4, MaxOfValues
  <2>2. Slowing(spans, latency, g, s) = latency[s] + m
    BY DEF Slowing
  <2> HIDE DEF m
  <2>3. QED
    BY <1>4, <2>1, <2>2
<1>5. ASSUME NEW g, NEW h, NEW s \in S, \A c \in Children(spans, s) : g[c] = h[c]
      PROVE  Slowing(spans, latency, g, s) = Slowing(spans, latency, h, s)
  <2>1. {g[c] : c \in Children(spans, s)} = {h[c] : c \in Children(spans, s)}
    BY <1>5
  <2>2. QED
    BY <2>1 DEF Slowing
<1>6. \E g : Slows(spans, latency, g)
  <2>1. F \in [[S -> Nat] -> [S -> Nat]]
    <3>1. ASSUME NEW g \in [S -> Nat], NEW s \in S PROVE Slowing(spans, latency, g, s) \in Nat
      BY <1>3, <1>4
    <3>2. QED
      BY <3>1
  <2>2. ASSUME NEW g \in [S -> Nat], NEW h \in [S -> Nat], NEW x \in S,
               \A y \in S : rank[y] < rank[x] => g[y] = h[y]
        PROVE  Slowing(spans, latency, g, x) = Slowing(spans, latency, h, x)
    <3>1. \A c \in Children(spans, x) : g[c] = h[c]
      BY <1>1, <1>3, <2>2
    <3>2. QED
      BY <1>5, <3>1
  <2>3. \A g, h \in [S -> Nat] : \A x \in S :
          (\A y \in S : rank[y] < rank[x] => g[y] = h[y]) => F[g][x] = F[h][x]
    BY <2>2
  <2>4. \A g \in [S -> Nat] : F[g] = [s \in S |-> Slowing(spans, latency, g, s)]
    OBVIOUS
  <2>5. Nat # {}
    OBVIOUS
  <2> HIDE DEF F
  <2>6. PICK g \in [S -> Nat] : g = F[g]
    <3>1. Recursion(F, S, Nat, rank)
      BY <2>1, <2>3 DEF Recursion
    <3>2. QED
      BY <2>5, <3>1, RecursionExists
  <2>7. g = [s \in S |-> Slowing(spans, latency, g, s)]
    BY <2>4, <2>6, Zenon
  <2>8. QED
    BY <1>2, <2>7, Zenon DEF Slows
<1> DEFINE g == CHOOSE g : Slows(spans, latency, g)
<1>7. Slows(spans, latency, g)
  BY <1>6, Zenon
<1>8. \A s : PathLatency(spans, latency, s) = g[s]
  BY Zenon DEF PathLatency, Slows, Slowing
<1> HIDE DEF g, F
<1>9. \A s \in S : g[s] = Slowing(spans, latency, g, s)
  BY <1>2, <1>7 DEF Slows
<1>10. \A s \in S : g[s] \in Nat
  <2> DEFINE Good == {s \in S : g[s] \in Nat}
  <2>1. ASSUME NEW s \in S, \A r \in S : rank[r] < rank[s] => r \in Good PROVE s \in Good
    <3>1. \A c \in Children(spans, s) : g[c] \in Nat
      BY <1>1, <1>3, <2>1
    <3>2. QED
      BY <1>4, <1>9, <3>1
  <2>2. S \subseteq Good
    <3> HIDE DEF Good
    <3>1. QED
      BY <2>1, RankInduction
  <2>3. QED
    BY <2>2
<1>11. ASSUME NEW s \in S
       PROVE  /\ g[s] \in Nat /\ \A c \in Children(spans, s) : latency[s] + g[c] <= g[s]
              /\ g[s] = latency[s] \/ \E c \in Children(spans, s) : g[s] = latency[s] + g[c]
  <2>1. \A c \in Children(spans, s) : g[c] \in Nat
    BY <1>3, <1>10
  <2>2. QED
    BY <1>4, <1>9, <1>10, <2>1
<1>12. QED
  BY <1>8, <1>11
-----------------------------------------------------------------------------
\* The recursive definition inside PathFrom.
Critical(spans, latency, s) ==
  LET ms == [r \in Range(spans) \ {NoSpan} |-> PathLatency(spans, latency, r)]
      Slowest(c) == \A d \in Children(spans, s) : ms[c] >= ms[d]
  IN {i \in DOMAIN spans : /\ spans[i] \in Children(spans, s)
                           /\ Slowest(spans[i]) /\ ms[spans[i]] > 0}
Descending(spans, latency, g, s) ==
  IF Critical(spans, latency, s) = {} THEN <<s>>
  ELSE <<s>> \o g[spans[Min(Critical(spans, latency, s))]]
Descends(spans, latency, g) ==
  g = [s \in Range(spans) \ {NoSpan} |-> Descending(spans, latency, g, s)]

\* Where the path goes on, it goes to a child with the rest of the latency,
\* and where it ends no child has any.
LEMMA CriticalIs ==
  ASSUME NEW spans, NEW S, Lists(spans, S), Acyclic, NoSpan \notin Spans,
         NEW latency \in [S -> Nat], NEW s \in S
  PROVE  LET ms(r) == PathLatency(spans, latency, r)
             c == spans[Min(Critical(spans, latency, s))]
         IN IF Critical(spans, latency, s) = {} THEN ms(s) = latency[s]
            ELSE c \in Children(spans, s) /\ ms(s) = latency[s] + ms(c)
<1> DEFINE ms(r) == PathLatency(spans, latency, r)
<1> DEFINE K == Critical(spans, latency, s)
<1> DEFINE C == Children(spans, s)
<1>1. /\ \A r \in S : ms(r) \in Nat
      /\ \A c \in C : latency[s] + ms(c) <= ms(s)
      /\ ms(s) = latency[s] \/ \E c \in C : ms(s) = latency[s] + ms(c)
  BY PathLatencyIs
<1>2. C \subseteq S /\ S \subseteq Range(spans) /\ S = Range(spans) \ {NoSpan}
  BY ChildrenAre DEF Lists
<1>3. \A i : i \in K <=> /\ i \in DOMAIN spans /\ spans[i] \in C
                         /\ (\A d \in C : ms(spans[i]) >= ms(d)) /\ ms(spans[i]) > 0
  BY <1>2 DEF Critical
<1>4. latency[s] \in Nat /\ \A c \in C : ms(c) \in Nat
  BY <1>1, <1>2
<1> HIDE DEF ms, K, C
<1>5. CASE K = {}
  <2>1. SUFFICES ASSUME NEW c \in C, ms(s) = latency[s] + ms(c), ms(s) # latency[s] PROVE FALSE
    BY <1>1, <1>5 DEF K, ms
  <2>2. PICK i \in DOMAIN spans : spans[i] = c
    BY <1>2 DEF Range
  <2>3. ms(c) > 0
    BY <1>4, <2>1
  <2>4. \A d \in C : ms(c) >= ms(d)
    <3>1. ASSUME NEW d \in C PROVE ms(c) >= ms(d)
      <4>1. latency[s] + ms(d) <= latency[s] + ms(c)
        BY <1>1, <2>1
      <4>2. QED
        BY <1>4, <4>1
    <3>2. QED
      BY <3>1
  <2>5. i \in K
    BY <1>3, <2>2, <2>3, <2>4
  <2>6. QED
    BY <1>5, <2>5
<1>6. CASE K # {}
  <2>1. IsFiniteSet(K) /\ K \subseteq Int
    <3>1. DOMAIN spans = 1..Len(spans) /\ IsFiniteSet(1..Len(spans)) /\ 1..Len(spans) \subseteq Int
      BY FS_Interval DEF Lists
    <3>2. K \in SUBSET (1..Len(spans))
      BY <1>3, <3>1
    <3>3. QED
      BY <3>1, <3>2, FS_Subset
  <2>2. Min(K) \in K
    BY <1>6, <2>1, FiniteMax
  <2> DEFINE c == spans[Min(K)]
  <2>3. c \in C /\ (\A d \in C : ms(c) >= ms(d)) /\ ms(c) > 0
    BY <1>3, <2>2
  <2> HIDE DEF c
  <2>4. ms(s) = latency[s] + ms(c)
    <3>1. ms(s) \in Nat /\ latency[s] + ms(c) <= ms(s)
      BY <1>1, <2>3
    <3>2. CASE ms(s) = latency[s]
      BY <1>4, <2>3, <3>1, <3>2
    <3>3. ASSUME NEW d \in C, ms(s) = latency[s] + ms(d) PROVE ms(s) = latency[s] + ms(c)
      <4>1. ms(c) >= ms(d) /\ ms(c) \in Nat /\ ms(d) \in Nat
        BY <1>4, <2>3
      <4>2. QED
        BY <1>4, <3>1, <3>3, <4>1
    <3>4. QED
      BY <1>1, <3>2, <3>3
  <2>5. QED
    BY <1>6, <2>3, <2>4 DEF c, K, C, ms
<1>7. QED
  BY <1>5, <1>6 DEF K, ms

\* p is a way down from s as slow as the slowest.
WayDown(spans, S, latency, d, s, p) ==
  /\ p \in Seq(S) /\ Len(p) >= 1 /\ p[1] = s /\ IsInjective(p)
  /\ s \in Range(p) /\ \A x \in Range(p) : d[s] <= d[x]
  /\ ChainFrom(s, Range(p))
  /\ SumOf(latency, Range(p)) = PathLatency(spans, latency, s)

\* A sequence of one.
LEMMA Single ==
  ASSUME NEW X, NEW x \in X
  PROVE  /\ <<x>> \in Seq(X) /\ Len(<<x>>) = 1 /\ <<x>>[1] = x
         /\ IsInjective(<<x>>) /\ Range(<<x>>) = {x}
  BY DEF IsInjective, Range

\* One span that goes no further.
LEMMA WayEnds ==
  ASSUME NEW spans, NEW S, NEW latency \in [S -> Nat], NEW d \in [Spans -> Nat], S \subseteq Spans,
         NEW s \in S, PathLatency(spans, latency, s) = latency[s]
  PROVE  WayDown(spans, S, latency, d, s, <<s>>)
<1>1. <<s>> \in Seq(S) /\ Len(<<s>>) = 1 /\ <<s>>[1] = s /\ IsInjective(<<s>>) /\ Range(<<s>>) = {s}
  BY Single
<1>2. d[s] \in Nat /\ d[s] <= d[s]
  OBVIOUS
<1>3. ChainFrom(s, {s})
  BY DEF ChainFrom
<1>4. SumOf(latency, {s}) = latency[s]
  <2>1. Adds(latency, {}) /\ IsFiniteSet({}) /\ latency[s] \in Int /\ s \notin {}
    BY FS_EmptySet DEF Adds
  <2>2. SumOf(latency, {}) = 0 /\ SumOf(latency, {} \cup {s}) = SumOf(latency, {}) + latency[s]
    BY <2>1, SumAdd
  <2>3. {} \cup {s} = {s}
    OBVIOUS
  <2>4. SumOf(latency, {s}) = 0 + latency[s]
    BY <2>2, <2>3, Zenon
  <2>5. QED
    BY <2>4
<1>5. QED
  BY <1>1, <1>2, <1>3, <1>4 DEF WayDown

\* One span before the way down from its child.
LEMMA WayGoesOn ==
  ASSUME NEW spans, NEW S, IsFiniteSet(S), S \subseteq Spans, NoSpan \notin Spans,
         NEW latency \in [S -> Nat], NEW d, Depths(d),
         NEW s \in S, NEW c \in S, parent[c] = s, NEW p, WayDown(spans, S, latency, d, c, p),
         PathLatency(spans, latency, s) = latency[s] + PathLatency(spans, latency, c)
  PROVE  WayDown(spans, S, latency, d, s, <<s>> \o p)
<1> DEFINE q == <<s>> \o p
<1> DEFINE R == Range(p)
<1>1. /\ p \in Seq(S) /\ Len(p) >= 1 /\ p[1] = c /\ IsInjective(p)
      /\ c \in R /\ \A x \in R : d[c] <= d[x]
      /\ ChainFrom(c, R) /\ SumOf(latency, R) = PathLatency(spans, latency, c)
  BY DEF WayDown
<1>2. R \subseteq S /\ IsFiniteSet(R)
  BY <1>1, RangeIsFinite
<1>3. d[s] < d[c] /\ d \in [Spans -> Nat]
  BY DEF Depths
<1>4. s \notin R /\ \A x \in R \cup {s} : d[s] <= d[x]
  <2>1. \A x \in R : d[s] < d[x] /\ d[s] <= d[x]
    BY <1>1, <1>2, <1>3
  <2>2. d[s] \in Nat
    BY <1>3
  <2>3. QED
    BY <2>1, <2>2
<1>5. /\ <<s>> \in Seq(S) /\ IsInjective(<<s>>) /\ Range(<<s>>) = {s}
      /\ Len(<<s>>) = 1 /\ <<s>>[1] = s
  BY Single
<1>6. /\ q \in Seq(S) /\ Range(q) = {s} \cup R /\ IsInjective(q)
  <2>1. Range(<<s>>) \cap Range(p) = {}
    BY <1>4, <1>5
  <2> DEFINE one == <<s>>
  <2>2. one \in Seq(S) /\ IsInjective(one) /\ Range(one) \cap Range(p) = {} /\ q = one \o p
    BY <1>5, <2>1
  <2> HIDE DEF one, q
  <2>3. /\ q \in Seq(S) /\ Range(q) = Range(one) \cup Range(p) /\ IsInjective(q)
    BY <1>1, <2>2, Concatenated
  <2>4. QED
    BY <1>5, <2>3 DEF one
<1>7. Len(q) >= 1 /\ q[1] = s
  BY <1>1, <1>5
<1>8. ChainFrom(s, {s} \cup R)
  <2>1. c \in R /\ (\A x \in R \ {c} : parent[x] \in R)
        /\ \A x, y \in R \ {c} : parent[x] = parent[y] => x = y
    BY <1>1 DEF ChainFrom
  <2>2. ({s} \cup R) \ {s} = R
    BY <1>4
  <2>3. \A x \in R : parent[x] \in {s} \cup R
    BY <2>1
  <2>4. \A x, y \in R : parent[x] = parent[y] => x = y
    BY <1>4, <2>1
  <2>5. QED
    BY <2>2, <2>3, <2>4 DEF ChainFrom
<1>9. SumOf(latency, {s} \cup R) = PathLatency(spans, latency, s)
  <2>1. Adds(latency, R) /\ latency[s] \in Int
    BY <1>2 DEF Adds
  <2>2. SumOf(latency, R \cup {s}) = SumOf(latency, R) + latency[s] /\ SumOf(latency, R) \in Int
    BY <1>2, <1>4, <2>1, SumAdd
  <2>3. R \cup {s} = {s} \cup R
    OBVIOUS
  <2>4. SumOf(latency, {s} \cup R) = SumOf(latency, R) + latency[s]
    BY <2>2, <2>3, Zenon
  <2>5. QED
    BY <1>1, <2>1, <2>2, <2>4
<1> HIDE DEF q, R
<1>10. s \in Range(q) /\ Range(q) = {s} \cup R
  BY <1>6
<1>11. ChainFrom(s, Range(q)) /\ SumOf(latency, Range(q)) = PathLatency(spans, latency, s)
  BY <1>8, <1>9, <1>10
<1>12. \A x \in Range(q) : d[s] <= d[x]
  BY <1>4, <1>10
<1>13. WayDown(spans, S, latency, d, s, q)
  BY <1>6, <1>7, <1>10, <1>11, <1>12 DEF WayDown
<1>14. QED
  BY <1>13 DEF q

\* PathFrom is the function that the recursive definition defines.
LEMMA PathFromDescends ==
  ASSUME NEW spans, NEW latency, NEW s
  PROVE  PathFrom(spans, latency, s) = (CHOOSE g : Descends(spans, latency, g))[s]
  BY SMT DEF PathFrom, Descends, Descending, Critical

\* PathFrom is such a way down.
LEMMA PathFromIs ==
  ASSUME NEW spans, NEW S, Lists(spans, S), NoSpan \notin Spans,
         NEW latency \in [S -> Nat], NEW d, Depths(d)
  PROVE  \A s \in S : WayDown(spans, S, latency, d, s, PathFrom(spans, latency, s))
<1>1. Acyclic
  BY DEF Acyclic
<1>2. PICK rank \in [S -> Nat] : \A s \in S : \A c \in Children(spans, s) : rank[c] < rank[s]
  BY <1>1, HeightsExist
<1>3. S = Range(spans) \ {NoSpan} /\ IsFiniteSet(S) /\ S \subseteq Spans
  BY <1>1, HeightsExist DEF Lists
<1>4. \A s \in S : Children(spans, s) = {c \in S : parent[c] = s}
  BY ChildrenAre
<1> DEFINE A == Seq(S)
<1> DEFINE F == [g \in [S -> A] |-> [s \in S |-> Descending(spans, latency, g, s)]]
<1> DEFINE next(s) == spans[Min(Critical(spans, latency, s))]
<1>5. ASSUME NEW s \in S
      PROVE  IF Critical(spans, latency, s) = {} THEN PathLatency(spans, latency, s) = latency[s]
             ELSE /\ next(s) \in S /\ parent[next(s)] = s /\ rank[next(s)] < rank[s]
                  /\ PathLatency(spans, latency, s)
                       = latency[s] + PathLatency(spans, latency, next(s))
  <2>1. IF Critical(spans, latency, s) = {} THEN PathLatency(spans, latency, s) = latency[s]
        ELSE /\ next(s) \in Children(spans, s)
             /\ PathLatency(spans, latency, s)
                  = latency[s] + PathLatency(spans, latency, next(s))
    BY <1>1, CriticalIs
  <2> HIDE DEF next
  <2>2. QED
    BY <1>2, <1>4, <2>1
<1>6. \A g, s : Descending(spans, latency, g, s) =
        IF Critical(spans, latency, s) = {} THEN <<s>> ELSE <<s>> \o g[next(s)]
  BY DEF Descending
<1> HIDE DEF next
<1>7. \A s \in S : <<s>> \in A /\ \A p \in A : <<s>> \o p \in A
  <2>1. \A s \in S : <<s>> \in Seq(S)
    BY Single
  <2>2. \A s \in S : \A p \in Seq(S) : <<s>> \o p \in Seq(S)
    BY <2>1, Concatenated
  <2>3. QED
    BY <2>1, <2>2
<1> HIDE DEF A
<1>8. \E g : Descends(spans, latency, g)
  <2>1. F \in [[S -> A] -> [S -> A]]
    <3>1. ASSUME NEW g \in [S -> A], NEW s \in S PROVE Descending(spans, latency, g, s) \in A
      <4>1. CASE Critical(spans, latency, s) = {}
        BY <1>6, <1>7, <4>1
      <4>2. CASE Critical(spans, latency, s) # {}
        <5>1. g[next(s)] \in A
          BY <1>5, <4>2
        <5>2. <<s>> \o g[next(s)] \in A
          BY <1>7, <5>1
        <5>3. QED
          BY <1>6, <4>2, <5>2
      <4>3. QED
        BY <4>1, <4>2
    <3>2. QED
      BY <3>1
  <2>2. ASSUME NEW g \in [S -> A], NEW h \in [S -> A], NEW x \in S,
               \A y \in S : rank[y] < rank[x] => g[y] = h[y]
        PROVE  Descending(spans, latency, g, x) = Descending(spans, latency, h, x)
    <3>1. CASE Critical(spans, latency, x) = {}
      BY <1>6, <3>1
    <3>2. CASE Critical(spans, latency, x) # {}
      <4>1. g[next(x)] = h[next(x)]
        BY <1>5, <2>2, <3>2
      <4>2. QED
        BY <1>6, <3>2, <4>1
    <3>3. QED
      BY <3>1, <3>2
  <2>3. \A g, h \in [S -> A] : \A x \in S :
          (\A y \in S : rank[y] < rank[x] => g[y] = h[y]) => F[g][x] = F[h][x]
    BY <2>2
  <2>4. \A g \in [S -> A] : F[g] = [s \in S |-> Descending(spans, latency, g, s)]
    OBVIOUS
  <2>5. A # {}
    <3>1. <<>> \in Seq(S)
      OBVIOUS
    <3>2. QED
      BY <3>1 DEF A
  <2> HIDE DEF F
  <2>6. PICK g \in [S -> A] : g = F[g]
    <3>1. Recursion(F, S, A, rank)
      BY <2>1, <2>3 DEF Recursion
    <3>2. QED
      BY <2>5, <3>1, RecursionExists
  <2>7. g = [s \in S |-> Descending(spans, latency, g, s)]
    BY <2>4, <2>6, Zenon
  <2>8. QED
    BY <1>3, <2>7, Zenon DEF Descends
<1> DEFINE g == CHOOSE g : Descends(spans, latency, g)
<1>9. Descends(spans, latency, g)
  BY <1>8, Zenon
<1>10. \A s : PathFrom(spans, latency, s) = g[s]
  BY PathFromDescends
<1> HIDE DEF g, F
<1>11. \A s \in S : g[s] = Descending(spans, latency, g, s)
  BY <1>3, <1>9 DEF Descends
<1> DEFINE Good == {s \in S : WayDown(spans, S, latency, d, s, g[s])}
<1>12. ASSUME NEW s \in S, \A r \in S : rank[r] < rank[s] => r \in Good PROVE s \in Good
  <2>1. CASE Critical(spans, latency, s) = {}
    <3>1. g[s] = <<s>> /\ PathLatency(spans, latency, s) = latency[s]
      BY <1>5, <1>6, <1>11, <2>1
    <3>2. d \in [Spans -> Nat]
      BY DEF Depths
    <3>3. WayDown(spans, S, latency, d, s, <<s>>)
      BY <1>3, <3>1, <3>2, WayEnds
    <3>4. QED
      BY <3>1, <3>3
  <2>2. CASE Critical(spans, latency, s) # {}
    <3>1. /\ next(s) \in S /\ parent[next(s)] = s /\ rank[next(s)] < rank[s]
          /\ PathLatency(spans, latency, s) = latency[s] + PathLatency(spans, latency, next(s))
      BY <1>5, <2>2
    <3>2. g[s] = <<s>> \o g[next(s)]
      BY <1>6, <1>11, <2>2
    <3>3. WayDown(spans, S, latency, d, next(s), g[next(s)])
      BY <1>12, <3>1
    <3>4. WayDown(spans, S, latency, d, s, <<s>> \o g[next(s)])
      BY <1>3, <3>1, <3>3, WayGoesOn
    <3>5. QED
      BY <3>2, <3>4
  <2>3. QED
    BY <2>1, <2>2
<1>13. S \subseteq Good
  <2> HIDE DEF Good
  <2>1. QED
    BY <1>12, RankInduction
<1>14. QED
  BY <1>10, <1>13

\* In a set of spans that is not empty, one is the highest.
LEMMA HighestExists ==
  ASSUME NEW S, S \subseteq Spans, S # {}, NEW d \in [Spans -> Nat]
  PROVE  \E s \in S : \A r \in S : d[s] <= d[r]
<1> DEFINE Good == {s \in S : FALSE}
<1>1. SUFFICES ASSUME \A s \in S : \E r \in S : d[r] < d[s] PROVE FALSE
  <2>1. \A s, r \in S : d[s] \in Nat /\ d[r] \in Nat
    OBVIOUS
  <2>2. QED
    BY <2>1
<1> DEFINE rank == [s \in S |-> d[s]]
<1>2. rank \in [S -> Nat] /\ \A s \in S : rank[s] = d[s]
  OBVIOUS
<1>3. \A x \in S : (\A y \in S : rank[y] < rank[x] => y \in Good) => x \in Good
  BY <1>1, <1>2
<1> HIDE DEF rank, Good
<1>4. S \subseteq Good
  BY <1>2, <1>3, RankInduction
<1>5. QED
  BY <1>4 DEF Good

\* A way down goes on with a child, or ends.
LEMMA ChainGoesOn ==
  ASSUME NEW C, C \subseteq Spans, NoSpan \notin Spans, NEW d, Depths(d),
         NEW s, ChainFrom(s, C), C # {s}
  PROVE  \E c \in C \ {s} : parent[c] = s /\ ChainFrom(c, C \ {s})
<1>1. /\ s \in C /\ (\A x \in C \ {s} : parent[x] \in C)
      /\ \A x, y \in C \ {s} : parent[x] = parent[y] => x = y
  BY DEF ChainFrom
<1>2. d \in [Spans -> Nat] /\ \A x \in Spans : parent[x] # NoSpan => d[parent[x]] < d[x]
  BY DEF Depths
<1>3. PICK c \in C \ {s} : \A r \in C \ {s} : d[c] <= d[r]
  <2> DEFINE T == C \ {s}
  <2>1. T # {} /\ T \subseteq Spans
    BY <1>1
  <2> HIDE DEF T
  <2>2. \E c \in T : \A r \in T : d[c] <= d[r]
    BY <1>2, <2>1, HighestExists
  <2>3. QED
    BY <2>2 DEF T
<1>4. parent[c] = s
  <2>1. parent[c] \in C /\ d[parent[c]] < d[c]
    BY <1>1, <1>2
  <2>2. d[parent[c]] \in Nat /\ d[c] \in Nat
    BY <1>2, <2>1
  <2>3. QED
    BY <1>3, <2>1, <2>2
<1>5. \A x \in (C \ {s}) \ {c} : parent[x] \in C \ {s}
  BY <1>1, <1>4
<1>6. ChainFrom(c, C \ {s})
  BY <1>1, <1>5 DEF ChainFrom
<1>7. QED
  BY <1>4, <1>6

\* No way down is slower than PathLatency says.
LEMMA ChainsAreFaster ==
  ASSUME NEW spans, NEW S, Lists(spans, S), NoSpan \notin Spans,
         NEW latency \in [S -> Nat], Acyclic
  PROVE  \A s \in S : \A C \in SUBSET S :
           ChainFrom(s, C) => SumOf(latency, C) <= PathLatency(spans, latency, s)
<1>1. PICK d : Depths(d)
  BY DEF Acyclic
<1>2. PICK rank \in [S -> Nat] : \A s \in S : \A c \in Children(spans, s) : rank[c] < rank[s]
  BY HeightsExist
<1>3. IsFiniteSet(S) /\ S \subseteq Spans
  BY HeightsExist
<1>4. /\ \A s \in S : PathLatency(spans, latency, s) \in Nat
      /\ \A s \in S : \A c \in Children(spans, s) :
           latency[s] + PathLatency(spans, latency, c) <= PathLatency(spans, latency, s)
      /\ \A s \in S : latency[s] <= PathLatency(spans, latency, s)
  <2>1. \A s \in S :
           /\ PathLatency(spans, latency, s) \in Nat
           /\ \A c \in Children(spans, s) :
                latency[s] + PathLatency(spans, latency, c) <= PathLatency(spans, latency, s)
           /\ \/ PathLatency(spans, latency, s) = latency[s]
              \/ \E c \in Children(spans, s) :
                   PathLatency(spans, latency, s) = latency[s] + PathLatency(spans, latency, c)
    BY PathLatencyIs
  <2>2. \A s \in S : Children(spans, s) \subseteq S
    BY ChildrenAre
  <2>3. ASSUME NEW s \in S PROVE latency[s] <= PathLatency(spans, latency, s)
    <3>1. CASE PathLatency(spans, latency, s) = latency[s]
      BY <3>1
    <3>2. ASSUME NEW c \in Children(spans, s),
                 PathLatency(spans, latency, s) = latency[s] + PathLatency(spans, latency, c)
          PROVE  latency[s] <= PathLatency(spans, latency, s)
      <4>1. PathLatency(spans, latency, c) \in Nat /\ latency[s] \in Nat
        BY <2>1, <2>2
      <4>2. QED
        BY <3>2, <4>1
    <3>3. QED
      BY <2>1, <3>1, <3>2
  <2>4. QED
    BY <2>1, <2>3
<1> DEFINE Good == {s \in S : \A C \in SUBSET S :
                      ChainFrom(s, C) => SumOf(latency, C) <= PathLatency(spans, latency, s)}
<1>5. ASSUME NEW s \in S, \A r \in S : rank[r] < rank[s] => r \in Good PROVE s \in Good
  <2> SUFFICES ASSUME NEW C \in SUBSET S, ChainFrom(s, C)
               PROVE  SumOf(latency, C) <= PathLatency(spans, latency, s)
    OBVIOUS
  <2> DEFINE T == C \ {s}
  <2>1. s \in C
    BY DEF ChainFrom
  <2>2. SumOf(latency, C) = latency[s] + SumOf(latency, T)
    <3>1. IsFiniteSet(C)
      BY <1>3, FS_Subset
    <3>2. Adds(latency, C)
      BY DEF Adds
    <3>3. QED
      BY <2>1, <3>1, <3>2, SumStep
  <2>3. CASE C = {s}
    <3>1. T = {}
      BY <2>3
    <3>2. SumOf(latency, T) = 0
      BY <3>1, SumIsFold, FS_EmptySet
    <3>3. latency[s] \in Nat
      OBVIOUS
    <3> HIDE DEF T
    <3>4. QED
      BY <1>4, <2>2, <3>2, <3>3
  <2>4. CASE C # {s}
    <3>1. PICK c \in C \ {s} : parent[c] = s /\ ChainFrom(c, C \ {s})
      BY <1>1, <1>3, <2>4, ChainGoesOn
    <3>2. c \in S /\ c \in Children(spans, s)
      BY <3>1, ChildrenAre
    <3>3. c \in Good /\ T \in SUBSET S
      BY <1>2, <1>5, <3>2
    <3>4. SumOf(latency, T) <= PathLatency(spans, latency, c)
      BY <3>1, <3>3
    <3>5. SumOf(latency, T) \in Nat
      BY <1>3, <3>3, SumPart
    <3> HIDE DEF T
    <3>6. latency[s] \in Nat /\ PathLatency(spans, latency, c) \in Nat
          /\ PathLatency(spans, latency, s) \in Nat
      BY <1>4, <3>2
    <3>7. latency[s] + PathLatency(spans, latency, c) <= PathLatency(spans, latency, s)
      BY <1>4, <3>2
    <3>8. QED
      BY <2>2, <3>4, <3>5, <3>6, <3>7
  <2>5. QED
    BY <2>3, <2>4
<1>6. S \subseteq Good
  <2> HIDE DEF Good
  <2>1. QED
    BY <1>2, <1>5, RankInduction
<1>7. QED
  BY <1>6

\* RootSpan is a span without a parent, if there is one and no nil.
LEMMA RootSpanIs ==
  ASSUME NEW spans \in Seq(Spans \cup {NoSpan}), spans # <<>>
  PROVE  LET r == RootSpan(spans) IN
         /\ r \in Range(spans)
         /\ r # NoSpan /\ (\E s \in Range(spans) : ParentOf(s) = NoSpan) => parent[r] = NoSpan
<1> DEFINE roots == {i \in DOMAIN spans : ParentOf(spans[i]) = NoSpan}
<1> DEFINE r == RootSpan(spans)
<1>1. DOMAIN spans = 1..Len(spans) /\ Len(spans) \in Nat /\ 1 \in 1..Len(spans)
  BY EmptySeq
<1>2. CASE roots = {}
  <2>1. r = spans[1]
    BY <1>2 DEF RootSpan
  <2>2. r \in Range(spans)
    BY <1>1, <2>1 DEF Range
  <2>3. ~\E s \in Range(spans) : ParentOf(s) = NoSpan
    BY <1>2 DEF Range
  <2>4. QED
    BY <2>2, <2>3
<1>3. CASE roots # {}
  <2>1. r = spans[Max(roots)]
    BY <1>3 DEF RootSpan
  <2>2. roots \in SUBSET (1..Len(spans))
    BY <1>1
  <2>3. Max(roots) \in roots
    <3> HIDE DEF roots
    <3>1. QED
      BY <1>1, <1>3, <2>2, MaxIn
  <2>4. r \in Range(spans) /\ ParentOf(r) = NoSpan
    BY <2>1, <2>3 DEF Range
  <2> HIDE DEF r
  <2>5. r # NoSpan => parent[r] = NoSpan
    BY <2>4 DEF ParentOf
  <2>6. QED
    BY <2>4, <2>5 DEF r
<1>4. QED
  BY <1>2, <1>3

\* What identifyCriticalPath finds in the spans as OrderSpans returns them.
LEMMA LongestIsFound ==
  ASSUME NEW spans, NEW S, Lists(spans, S), NoSpan \notin Spans, Acyclic,
         NEW latency \in [S -> Latencies],
         Len(spans) # 1 => \A s \in S :
           parent[s] \notin S /\ parent[s] # NoSpan => NoSpan \in Range(spans)
  PROVE  LET path == IdentifyCriticalPath(spans, latency)
             chains == {C \in SUBSET S : ChainFrom(path[1], C)}
         IN IF path = <<>> THEN NoSpan \in Range(spans) \/ spans = <<>>
            ELSE /\ Len(spans) = 1 \/ parent[path[1]] = NoSpan
                 /\ Range(path) \in chains /\ IsInjective(path)
                 /\ \A C \in chains : Total(latency, C) <= Total(latency, Range(path))
<1> DEFINE path == IdentifyCriticalPath(spans, latency)
<1> DEFINE root == RootSpan(spans)
<1>1. /\ latency \in [S -> Nat] /\ spans \in Seq(Spans \cup {NoSpan})
      /\ S = Range(spans) \ {NoSpan}
  BY LatenciesAssumption DEF Lists
<1>2. CASE spans = <<>> \/ root = NoSpan
  <2>1. path = <<>>
    BY <1>2 DEF IdentifyCriticalPath
  <2>2. spans # <<>> => root \in Range(spans)
    BY <1>1, RootSpanIs
  <2> HIDE DEF path, root
  <2>3. path = <<>> /\ (NoSpan \in Range(spans) \/ spans = <<>>)
    BY <1>2, <2>1, <2>2
  <2>4. QED
    BY <2>3 DEF path
<1>3. CASE spans # <<>> /\ root # NoSpan
  <2>1. path = PathFrom(spans, latency, root)
    BY <1>3 DEF IdentifyCriticalPath
  <2>2. /\ root \in Range(spans)
        /\ (\E s \in Range(spans) : ParentOf(s) = NoSpan) => parent[root] = NoSpan
    BY <1>1, <1>3, RootSpanIs
  <2>3. PICK d : Depths(d)
    BY DEF Acyclic
  <2> HIDE DEF path, root
  <2>4. root \in S
    BY <1>1, <1>3, <2>2
  <2>5. WayDown(spans, S, latency, d, root, path)
    BY <1>1, <2>1, <2>3, <2>4, PathFromIs
  <2>6. /\ path \in Seq(S) /\ Len(path) >= 1 /\ path[1] = root /\ IsInjective(path)
        /\ ChainFrom(root, Range(path))
        /\ SumOf(latency, Range(path)) = PathLatency(spans, latency, root)
    BY <2>5 DEF WayDown
  <2>7. path # <<>> /\ Range(path) \in SUBSET S
    <3>1. path # <<>>
      BY <2>6
    <3>2. Range(path) \subseteq S
      BY <2>6, RangeIsFinite
    <3>3. QED
      BY <3>1, <3>2
  <2>8. Len(spans) = 1 \/ parent[root] = NoSpan
    <3> SUFFICES ASSUME Len(spans) # 1, parent[root] # NoSpan PROVE FALSE
      OBVIOUS
    <3>1. \A s \in Range(spans) : ParentOf(s) # NoSpan
      BY <2>2
    <3>2. NoSpan \notin Range(spans)
      BY <3>1 DEF ParentOf
    <3>3. \A s \in S : parent[s] \in S /\ parent[s] # NoSpan
      BY <1>1, <3>1, <3>2 DEF ParentOf
    <3>4. S \subseteq Spans
      BY HeightsExist
    <3>5. d \in [Spans -> Nat] /\ \A s \in S : d[parent[s]] < d[s]
      BY <2>3, <3>3, <3>4 DEF Depths
    <3>6. PICK s \in S : \A r \in S : d[s] <= d[r]
      BY <2>4, <3>4, <3>5, HighestExists
    <3>7. d[s] <= d[parent[s]] /\ d[parent[s]] < d[s] /\ d[s] \in Nat /\ d[parent[s]] \in Nat
      BY <3>3, <3>4, <3>5, <3>6
    <3>8. QED
      BY <3>7
  <2>9. ASSUME NEW C \in SUBSET S, ChainFrom(root, C)
        PROVE  Total(latency, C) <= Total(latency, Range(path))
    <3>1. SumOf(latency, C) <= PathLatency(spans, latency, root)
      BY <1>1, <2>4, <2>9, ChainsAreFaster
    <3>2. Total(latency, C) = SumOf(latency, C)
          /\ Total(latency, Range(path)) = SumOf(latency, Range(path))
      BY SumIsSum DEF Total
    <3>3. QED
      BY <2>6, <3>1, <3>2
  <2>10. /\ Len(spans) = 1 \/ parent[path[1]] = NoSpan
         /\ Range(path) \in {C \in SUBSET S : ChainFrom(path[1], C)} /\ IsInjective(path)
         /\ \A C \in {C \in SUBSET S : ChainFrom(path[1], C)} :
              Total(latency, C) <= Total(latency, Range(path))
    BY <2>6, <2>7, <2>8, <2>9
  <2>11. QED
    BY <2>7, <2>10 DEF path
<1>4. QED
  BY <1>2, <1>3

\* The critical path is a way down from the root, and no way down takes longer:
\* for any trace, in whatever order its spans were stored and come.
THEOREM LongestPath == OrderSpec => []CriticalPathIsLongest
<1>1. ASSUME IInv, Acyclic, trace \in Seq(Spans) PROVE CriticalPathIsLongest
  <2> SUFFICES ASSUME NEW keys \in SetToSeqs(Keys(trace)), NEW latency \in [Range(trace) -> Latencies]
               PROVE  LET spans == OrderSpans(trace, keys)
                          path == IdentifyCriticalPath(spans, latency)
                          chains == {S \in SUBSET Range(trace) : ChainFrom(path[1], S)}
                      IN IF path = <<>> THEN NoSpan \in Range(spans) \/ trace = <<>>
                         ELSE /\ Len(spans) = 1 \/ parent[path[1]] = NoSpan
                              /\ Range(path) \in chains /\ IsInjective(path)
                              /\ \A S \in chains : Total(latency, S) <= Total(latency, Range(path))
    BY DEF CriticalPathIsLongest
  <2> DEFINE spans == OrderSpans(trace, keys)
  <2>1. /\ Lists(spans, Range(trace))
        /\ Len(trace) <= 1 => spans = trace
        /\ Len(trace) > 1 => \A s \in Range(trace) :
             parent[s] \notin Range(trace) /\ parent[s] # NoSpan => NoSpan \in Range(spans)
    BY <1>1, OrderLists
  <2>2. NoSpan \notin Spans
    BY NoSpanAssumption
  <2> HIDE DEF spans
  <2>3. spans = <<>> => trace = <<>>
    <3> SUFFICES ASSUME spans = <<>>, trace # <<>> PROVE FALSE
      OBVIOUS
    <3>1. Range(trace) = {}
      BY <2>1 DEF Lists, Range
    <3>2. trace[1] \in Range(trace)
      BY <1>1, EmptySeq DEF Range
    <3>3. QED
      BY <3>1, <3>2
  <2>4. Len(spans) # 1 => \A s \in Range(trace) :
          parent[s] \notin Range(trace) /\ parent[s] # NoSpan => NoSpan \in Range(spans)
    <3>1. CASE Len(trace) > 1
      BY <2>1, <3>1
    <3>2. CASE Len(trace) = 1
      BY <2>1, <3>2
    <3>3. CASE Len(trace) = 0
      <4>1. Range(trace) = {}
        BY <1>1, <3>3 DEF Range
      <4>2. QED
        BY <4>1
    <3>4. Len(trace) > 1 \/ Len(trace) = 1 \/ Len(trace) = 0
      <4>1. \A n \in Nat : n > 1 \/ n = 1 \/ n = 0
        OBVIOUS
      <4>2. Len(trace) \in Nat
        BY <1>1
      <4>3. QED
        BY <4>1, <4>2, Zenon
    <3>5. QED
      BY <3>1, <3>2, <3>3, <3>4, Zenon
  <2>5. LET path == IdentifyCriticalPath(spans, latency)
            chains == {C \in SUBSET Range(trace) : ChainFrom(path[1], C)}
        IN IF path = <<>> THEN NoSpan \in Range(spans) \/ spans = <<>>
           ELSE /\ Len(spans) = 1 \/ parent[path[1]] = NoSpan
                /\ Range(path) \in chains /\ IsInjective(path)
                /\ \A C \in chains : Total(latency, C) <= Total(latency, Range(path))
    BY <1>1, <2>1, <2>2, <2>4, LongestIsFound
  <2>6. QED
    BY <2>3, <2>5 DEF spans
<1>2. QED
  BY <1>1, TracesHoldSpans, TracesAreForests, PTL

-----------------------------------------------------------------------------
(* The samples that a report takes from a listing: one for every place of a *)
(* span in it that counts, in the order of the listing.                    *)

\* Induction up to a number.
LEMMA PrefixInduction ==
  ASSUME NEW N \in Nat, NEW Good, 0 \in Good,
         \A k \in Nat : k \in Good /\ k + 1 <= N => k + 1 \in Good
  PROVE  \A k \in 0..N : k \in Good
<1> DEFINE S == {k \in Nat : k <= N => k \in Good}
<1>1. 0 \in S
  OBVIOUS
<1>2. ASSUME NEW k \in Nat, k \in S PROVE k + 1 \in S
  <2>1. k + 1 <= N => k <= N
    OBVIOUS
  <2>2. QED
    BY <1>2, <2>1
<1>3. Nat \subseteq S
  <2> HIDE DEF S
  <2>1. QED
    BY <1>1, <1>2, NatSetInduction
<1>4. QED
  BY <1>3

\* b numbers the elements of P from 1 to n.
Numbers(b, n, P) ==
  /\ n \in Nat /\ b \in [1..n -> P]
  /\ \A i, j \in 1..n : b[i] = b[j] => i = j
  /\ \A c \in P : \E i \in 1..n : b[i] = c

\* Numbered elements are finitely many.
LEMMA NumbersCount ==
  ASSUME NEW b, NEW n, NEW P, Numbers(b, n, P)
  PROVE  IsFiniteSet(P) /\ Cardinality(P) = n /\ b \in Bijection(1..n, P)
<1>1. n \in Nat /\ IsFiniteSet(1..n) /\ Cardinality(1..n) = n
  <2>1. n \in Nat
    BY DEF Numbers
  <2>2. QED
    BY <2>1, FS_Interval
<1>2. b \in Bijection(1..n, P)
  BY DEF Numbers, Bijection, Injection, Surjection, IsInjective
<1>3. ExistsBijection(1..n, P)
  BY <1>2 DEF ExistsBijection
<1>4. QED
  BY <1>1, <1>2, <1>3, FS_Bijection

\* One element more.
LEMMA NumbersAppend ==
  ASSUME NEW b, NEW n, NEW P, Numbers(b, n, P), NEW x, x \notin P
  PROVE  Numbers([i \in 1..(n + 1) |-> IF i = n + 1 THEN x ELSE b[i]], n + 1, P \cup {x})
<1> DEFINE c == [i \in 1..(n + 1) |-> IF i = n + 1 THEN x ELSE b[i]]
<1>1. /\ n \in Nat /\ b \in [1..n -> P]
      /\ \A i, j \in 1..n : b[i] = b[j] => i = j
      /\ \A y \in P : \E i \in 1..n : b[i] = y
  BY DEF Numbers
<1>2. n + 1 \in Nat /\ n + 1 \notin 1..n /\ 1..(n + 1) = 1..n \cup {n + 1}
  BY <1>1
<1>3. /\ DOMAIN c = 1..(n + 1) /\ c[n + 1] = x
      /\ \A i \in 1..n : c[i] = b[i] /\ b[i] \in P
  BY <1>1, <1>2
<1>4. c = [i \in 1..(n + 1) |-> c[i]]
  OBVIOUS
<1> HIDE DEF c
<1>5. c \in [1..(n + 1) -> P \cup {x}]
  BY <1>2, <1>3, <1>4
<1>6. \A i, j \in 1..(n + 1) : c[i] = c[j] => i = j
  BY <1>1, <1>2, <1>3
<1>7. \A y \in P \cup {x} : \E i \in 1..(n + 1) : c[i] = y
  BY <1>1, <1>2, <1>3
<1>8. Numbers(c, n + 1, P \cup {x})
  BY <1>2, <1>5, <1>6, <1>7 DEF Numbers
<1>9. QED
  BY <1>8 DEF c

\* Elements of two sets, one after the other.
LEMMA NumbersConcat ==
  ASSUME NEW b, NEW n, NEW P, Numbers(b, n, P), NEW c, NEW m, NEW Q, Numbers(c, m, Q),
         P \cap Q = {}
  PROVE  Numbers([i \in 1..(n + m) |-> IF i <= n THEN b[i] ELSE c[i - n]], n + m, P \cup Q)
<1> DEFINE d == [i \in 1..(n + m) |-> IF i <= n THEN b[i] ELSE c[i - n]]
<1>1. /\ n \in Nat /\ b \in [1..n -> P]
      /\ \A i, j \in 1..n : b[i] = b[j] => i = j
      /\ \A y \in P : \E i \in 1..n : b[i] = y
  BY DEF Numbers
<1>2. /\ m \in Nat /\ c \in [1..m -> Q]
      /\ \A i, j \in 1..m : c[i] = c[j] => i = j
      /\ \A y \in Q : \E i \in 1..m : c[i] = y
  BY DEF Numbers
<1>3. \A i \in 1..(n + m) : i \in 1..n \/ (i - n \in 1..m /\ ~(i <= n))
  BY <1>1, <1>2
<1>4. /\ \A i \in 1..n : i \in 1..(n + m) /\ d[i] = b[i] /\ b[i] \in P
      /\ \A i \in 1..(n + m) : i - n \in 1..m => d[i] = c[i - n] /\ c[i - n] \in Q
      /\ \A i \in 1..m : i + n \in 1..(n + m) /\ (i + n) - n = i
  <2>1. \A i \in 1..n : i \in 1..(n + m) /\ i <= n
    BY <1>1, <1>2
  <2>2. \A i \in 1..(n + m) : i - n \in 1..m => ~(i <= n)
    BY <1>1, <1>2
  <2>3. \A i \in 1..m : i + n \in 1..(n + m) /\ (i + n) - n = i
    BY <1>1, <1>2
  <2>4. \A i \in 1..(n + m) : d[i] = IF i <= n THEN b[i] ELSE c[i - n]
    OBVIOUS
  <2> HIDE DEF d
  <2>5. QED
    BY <1>1, <1>2, <2>1, <2>2, <2>3, <2>4
<1>5. d = [i \in 1..(n + m) |-> d[i]]
  OBVIOUS
<1> HIDE DEF d
<1>6. d \in [1..(n + m) -> P \cup Q]
  BY <1>3, <1>4, <1>5
<1>7. ASSUME NEW i \in 1..(n + m), NEW j \in 1..(n + m), d[i] = d[j] PROVE i = j
  <2>1. i \in 1..n <=> d[i] \in P
    BY <1>3, <1>4
  <2>2. j \in 1..n <=> d[j] \in P
    BY <1>3, <1>4
  <2>3. CASE i \in 1..n
    BY <1>1, <1>4, <1>7, <2>1, <2>2, <2>3
  <2>4. CASE i \notin 1..n
    <3>1. i - n \in 1..m /\ j - n \in 1..m
      BY <1>3, <1>7, <2>1, <2>2, <2>4
    <3>2. i - n = j - n
      BY <1>2, <1>4, <1>7, <3>1
    <3>3. QED
      BY <1>1, <3>2
  <2>5. QED
    BY <2>3, <2>4
<1>8. ASSUME NEW y \in P \cup Q PROVE \E i \in 1..(n + m) : d[i] = y
  <2>1. CASE y \in P
    BY <1>1, <1>4, <2>1
  <2>2. CASE y \in Q
    <3>1. PICK j \in 1..m : c[j] = y
      BY <1>2, <2>2
    <3>2. j + n \in 1..(n + m) /\ (j + n) - n = j
      BY <1>4
    <3>3. d[j + n] = c[j]
      BY <1>4, <3>2
    <3>4. QED
      BY <3>1, <3>2, <3>3
  <2>3. QED
    BY <2>1, <2>2
<1>9. n + m \in Nat
  BY <1>1, <1>2
<1>10. Numbers(d, n + m, P \cup Q)
  BY <1>6, <1>7, <1>8, <1>9 DEF Numbers
<1>11. QED
  BY <1>10 DEF d

\* b says where in seq the selected elements are.
Selected(b, seq, S) ==
  /\ Numbers(b, Len(Those(seq, S)), {k \in 1..Len(seq) : seq[k] \in S})
  /\ \A i \in 1..Len(Those(seq, S)) : Those(seq, S)[i] = seq[b[i]]

\* Every selected element is somewhere in the sequence, and each place of such
\* an element comes once.
LEMMA ThoseWhere ==
  ASSUME NEW X, NEW seq \in Seq(X), NEW S
  PROVE  \E b : Selected(b, seq, S)
<1> DEFINE N == Len(seq)
<1> DEFINE P(k) == {j \in 1..k : seq[j] \in S}
<1>0. N \in Nat /\ \A i \in 1..N : seq[i] \in X
  OBVIOUS
<1>1. PICK h : Selecting(seq, S, X, h)
  BY ThoseLoop, Zenon
<1>2. /\ h[0] = <<>> /\ Those(seq, S) = h[N]
      /\ \A k \in 1..N : h[k] = IF seq[k] \in S THEN Append(h[k - 1], seq[k]) ELSE h[k - 1]
      /\ \A k \in 0..N : h[k] \in Seq(X)
  BY <1>1 DEF Selecting
<1> HIDE DEF N
<1> DEFINE At(k, b) == /\ Numbers(b, Len(h[k]), P(k))
                       /\ \A i \in 1..Len(h[k]) : h[k][i] = seq[b[i]]
<1> DEFINE Good == {k \in Nat : k <= N => \E b : At(k, b)}
<1>3. 0 \in Good
  <2> DEFINE b == [i \in 1..0 |-> 0]
  <2>1. Len(h[0]) = 0 /\ 1..0 = {} /\ P(0) = {}
    BY <1>2
  <2>2. Numbers(b, 0, {})
    BY <2>1 DEF Numbers
  <2> HIDE DEF b, P
  <2>3. At(0, b)
    BY <2>1, <2>2
  <2>4. QED
    BY <2>3
<1>4. ASSUME NEW k \in Nat, k \in Good, k + 1 <= N PROVE k + 1 \in Good
  <2>1. k + 1 \in 1..N /\ (k + 1) - 1 = k /\ k \in 0..N /\ k <= N
    BY <1>0, <1>4
  <2>2. PICK b : At(k, b)
    BY <1>4, <2>1
  <2>3. h[k] \in Seq(X) /\ seq[k + 1] \in X
    BY <1>0, <1>2, <2>1
  <2> DEFINE n == Len(h[k])
  <2>4. n \in Nat /\ Numbers(b, n, P(k)) /\ \A i \in 1..n : h[k][i] = seq[b[i]]
    BY <2>2, <2>3
  <2>5. CASE seq[k + 1] \notin S
    <3>1. h[k + 1] = h[k]
      BY <1>2, <2>1, <2>5
    <3>2. P(k + 1) = P(k)
      BY <2>1, <2>5
    <3> HIDE DEF P
    <3>3. At(k + 1, b)
      BY <2>2, <3>1, <3>2
    <3>4. QED
      BY <3>3
  <2>6. CASE seq[k + 1] \in S
    <3> DEFINE c == [i \in 1..(n + 1) |-> IF i = n + 1 THEN k + 1 ELSE b[i]]
    <3>1. h[k + 1] = Append(h[k], seq[k + 1])
      BY <1>2, <2>1, <2>6
    <3>2. P(k + 1) = P(k) \cup {k + 1} /\ k + 1 \notin P(k)
      BY <2>1, <2>6
    <3> HIDE DEF P
    <3>3. Numbers(c, n + 1, P(k + 1))
      <4> HIDE DEF n
      <4>1. Numbers(b, n, P(k)) /\ k + 1 \notin P(k)
        BY <2>4, <3>2
      <4>2. Numbers(c, n + 1, P(k) \cup {k + 1})
        BY <4>1, NumbersAppend, Zenon
      <4>3. QED
        BY <3>2, <4>2
    <3>4. /\ Len(h[k + 1]) = n + 1 /\ h[k + 1][n + 1] = seq[k + 1]
          /\ \A i \in 1..n : h[k + 1][i] = h[k][i]
      BY <2>3, <3>1, Appended
    <3>5. c[n + 1] = k + 1 /\ \A i \in 1..n : c[i] = b[i]
      BY <2>4
    <3> HIDE DEF c, n
    <3>6. \A i \in 1..(n + 1) : h[k + 1][i] = seq[c[i]]
      <4>1. \A i \in 1..(n + 1) : i \in 1..n \/ i = n + 1
        BY <2>4
      <4>2. QED
        BY <2>4, <3>4, <3>5, <4>1
    <3>7. At(k + 1, c)
      BY <3>3, <3>4, <3>6
    <3>8. QED
      BY <3>7
  <2>7. QED
    BY <2>5, <2>6
<1>5. N \in Good
  <2>1. \A k \in 0..N : k \in Good
    <3> HIDE DEF Good
    <3>1. QED
      BY <1>0, <1>3, <1>4, PrefixInduction
  <2>2. N \in 0..N
    BY <1>0
  <2> HIDE DEF Good
  <2>3. QED
    BY <2>1, <2>2
<1>6. PICK b : At(N, b)
  <2>1. N <= N
    BY <1>0
  <2> HIDE DEF At
  <2>2. QED
    BY <1>5, <2>1
<1>7. Selected(b, seq, S)
  BY <1>2, <1>6 DEF Selected, N
<1>8. QED
  BY <1>7

\* The elements of a concatenation.
LEMMA ConcatElements ==
  ASSUME NEW X, NEW s \in Seq(X), NEW t \in Seq(X)
  PROVE  /\ Len(s \o t) = Len(s) + Len(t)
         /\ \A i \in 1..(Len(s) + Len(t)) :
              (s \o t)[i] = IF i <= Len(s) THEN s[i] ELSE t[i - Len(s)]
<1>1. Len(s) \in Nat /\ Len(t) \in Nat /\ Len(s \o t) = Len(s) + Len(t)
  BY ConcatProperties
<1>2. \A i \in 1..(Len(s) + Len(t)) :
        (s \o t)[i] = IF i <= Len(s) THEN s[i] ELSE t[i - Len(s)]
  BY ConcatProperties
<1>3. QED
  BY <1>1, <1>2

\* h[k] is the concatenation of the first k sequences.
Flattening(seqs, X, h) ==
  /\ h[0] = <<>> /\ FlattenSeq(seqs) = h[Len(seqs)]
  /\ \A k \in 1..Len(seqs) : h[k] = h[k - 1] \o seqs[k]
  /\ \A k \in 0..Len(seqs) : h[k] \in Seq(X)

\* FlattenSeq starts from nothing.
LEMMA FlattenWalk ==
  ASSUME NEW X, NEW seqs \in Seq(Seq(X))
  PROVE  \E h : Flattening(seqs, X, h)
<1> DEFINE N == Len(seqs)
<1>0. N \in Nat /\ \A i \in 1..N : seqs[i] \in Seq(X)
  OBVIOUS
<1>1. CASE seqs = <<>>
  <2> DEFINE h == [k \in 0..0 |-> <<>>]
  <2>1. FlattenSeq(seqs) = <<>>
    BY <1>1 DEF FlattenSeq
  <2>2. Len(seqs) = 0 /\ 1..0 = {} /\ h[0] = <<>> /\ <<>> \in Seq(X)
    BY <1>1
  <2>3. \A k \in 0..0 : h[k] \in Seq(X)
    BY <2>2
  <2> HIDE DEF h
  <2>4. Flattening(seqs, X, h)
    BY <2>1, <2>2, <2>3 DEF Flattening
  <2>5. QED
    BY <2>4
<1>2. CASE seqs # <<>>
  <2>1. PICK flat : /\ FlattenSeq(seqs) = flat[N] /\ flat[1] = seqs[1]
                    /\ \A i \in 2..N : flat[i] = flat[i - 1] \o seqs[i]
    BY <1>2, FlattenLoop
  <2>2. N >= 1
    BY <1>2, EmptySeq
  <2> DEFINE h == [k \in 0..N |-> IF k = 0 THEN <<>> ELSE flat[k]]
  <2>3. h[0] = <<>> /\ (\A k \in 1..N : h[k] = flat[k])
    BY <1>0
  <2> HIDE DEF h, N
  <2>4. ASSUME NEW k \in 1..N PROVE h[k] = h[k - 1] \o seqs[k]
    <3>1. CASE k = 1
      <4>1. <<>> \o seqs[1] = seqs[1]
        <5>1. seqs[1] \in Seq(X)
          BY <1>0, <3>1
        <5>2. QED
          BY <5>1, ConcatEmptySeq
      <4>2. 1 \in 1..N /\ 1 - 1 = 0
        BY <1>0, <3>1
      <4>3. h[1] = seqs[1] /\ h[1 - 1] = <<>>
        BY <2>1, <2>3, <4>2
      <4>4. QED
        BY <3>1, <4>1, <4>3
    <3>2. CASE k # 1
      <4>1. k \in 2..N /\ k - 1 \in 1..N
        BY <1>0, <3>2
      <4>2. QED
        BY <2>1, <2>3, <4>1
    <3>3. QED
      BY <3>1, <3>2
  <2> DEFINE Good == {k \in Nat : k <= N => h[k] \in Seq(X)}
  <2>5. 0 \in Good
    <3>1. <<>> \in Seq(X)
      OBVIOUS
    <3>2. QED
      BY <2>3, <3>1
  <2>6. ASSUME NEW k \in Nat, k \in Good, k + 1 <= N PROVE k + 1 \in Good
    <3>1. k + 1 \in 1..N /\ (k + 1) - 1 = k /\ k <= N
      BY <1>0, <2>6
    <3>2. h[k] \in Seq(X) /\ seqs[k + 1] \in Seq(X)
      BY <1>0, <2>6, <3>1
    <3>3. h[k] \o seqs[k + 1] \in Seq(X)
      BY <3>2, Concatenated
    <3>4. h[k + 1] = h[k] \o seqs[k + 1]
      BY <2>4, <3>1
    <3>5. h[k + 1] \in Seq(X) /\ k + 1 \in Nat
      BY <3>3, <3>4
    <3>6. QED
      BY <3>5
  <2>7. \A k \in 0..N : k \in Good
    <3> HIDE DEF Good
    <3>1. QED
      BY <1>0, <2>5, <2>6, PrefixInduction
  <2>8. \A k \in 0..N : h[k] \in Seq(X)
    BY <1>0, <2>7
  <2>9. FlattenSeq(seqs) = h[N]
    BY <1>0, <2>1, <2>2, <2>3
  <2>10. Flattening(seqs, X, h)
    BY <2>3, <2>4, <2>8, <2>9 DEF Flattening, N
  <2>11. QED
    BY <2>10
<1>3. QED
  BY <1>1, <1>2

\* The places in the first k sequences.
Cells(seqs, k) == UNION {{<<i, j>> : j \in 1..Len(seqs[i])} : i \in 1..k}

\* b says where in seqs the elements of the concatenation are.
Flattened(b, seqs) ==
  /\ Numbers(b, Len(FlattenSeq(seqs)), Cells(seqs, Len(seqs)))
  /\ \A i \in 1..Len(FlattenSeq(seqs)) : FlattenSeq(seqs)[i] = seqs[b[i][1]][b[i][2]]

\* Every element of the concatenation is somewhere in the sequences, and each
\* of their places comes once.
LEMMA FlattenWhere ==
  ASSUME NEW X, NEW seqs \in Seq(Seq(X))
  PROVE  \E b : Flattened(b, seqs)
<1> DEFINE N == Len(seqs)
<1>0. N \in Nat /\ \A i \in 1..N : seqs[i] \in Seq(X) /\ Len(seqs[i]) \in Nat
  OBVIOUS
<1>1. PICK h : Flattening(seqs, X, h)
  BY FlattenWalk, Zenon
<1>2. /\ h[0] = <<>> /\ FlattenSeq(seqs) = h[N]
      /\ \A k \in 1..N : h[k] = h[k - 1] \o seqs[k]
      /\ \A k \in 0..N : h[k] \in Seq(X)
  BY <1>1 DEF Flattening
<1> HIDE DEF N
<1> DEFINE At(k, b) == /\ Numbers(b, Len(h[k]), Cells(seqs, k))
                       /\ \A i \in 1..Len(h[k]) : h[k][i] = seqs[b[i][1]][b[i][2]]
<1> DEFINE Good == {k \in Nat : k <= N => \E b : At(k, b)}
<1>3. 0 \in Good
  <2> DEFINE b == [i \in 1..0 |-> 0]
  <2>1. Len(h[0]) = 0 /\ 1..0 = {}
    BY <1>2
  <2>2. Cells(seqs, 0) = {}
    BY <2>1 DEF Cells
  <2>3. Numbers(b, 0, {})
    BY <2>1 DEF Numbers
  <2> HIDE DEF b
  <2>4. At(0, b)
    BY <2>1, <2>2, <2>3
  <2>5. QED
    BY <2>4
<1>4. ASSUME NEW k \in Nat, k \in Good, k + 1 <= N PROVE k + 1 \in Good
  <2>1. k + 1 \in 1..N /\ (k + 1) - 1 = k /\ k \in 0..N /\ k <= N
    BY <1>0, <1>4
  <2>2. PICK b : At(k, b)
    BY <1>4, <2>1
  <2>3. h[k] \in Seq(X) /\ seqs[k + 1] \in Seq(X)
    BY <1>0, <1>2, <2>1
  <2> DEFINE n == Len(h[k])
             m == Len(seqs[k + 1])
             row == [j \in 1..m |-> <<k + 1, j>>]
             cells == {<<k + 1, j>> : j \in 1..m}
             c == [i \in 1..(n + m) |-> IF i <= n THEN b[i] ELSE row[i - n]]
  <2>4. n \in Nat /\ m \in Nat /\ Numbers(b, n, Cells(seqs, k))
        /\ \A i \in 1..n : h[k][i] = seqs[b[i][1]][b[i][2]]
    BY <2>2, <2>3
  <2>5. Numbers(row, m, cells)
    BY <2>4 DEF Numbers
  <2>6. Cells(seqs, k + 1) = Cells(seqs, k) \cup cells /\ Cells(seqs, k) \cap cells = {}
    <3>1. 1..(k + 1) = 1..k \cup {k + 1} /\ k + 1 \notin 1..k
      OBVIOUS
    <3>2. Cells(seqs, k + 1) = Cells(seqs, k) \cup cells
      BY <3>1 DEF Cells
    <3>3. \A p \in Cells(seqs, k) : p[1] \in 1..k
      BY DEF Cells
    <3>4. \A p \in cells : p[1] = k + 1
      OBVIOUS
    <3>5. QED
      BY <3>1, <3>2, <3>3, <3>4
  <2>7. Numbers(c, n + m, Cells(seqs, k + 1))
    <3> HIDE DEF n, m, row, cells
    <3>1. Numbers(b, n, Cells(seqs, k)) /\ Numbers(row, m, cells)
      BY <2>4, <2>5
    <3>2. Cells(seqs, k) \cap cells = {}
      BY <2>6
    <3>3. Numbers(c, n + m, Cells(seqs, k) \cup cells)
      BY <3>1, <3>2, NumbersConcat, Zenon
    <3>4. QED
      BY <2>6, <3>3
  <2>8. h[k + 1] = h[k] \o seqs[k + 1]
    BY <1>2, <2>1
  <2>9. /\ Len(h[k + 1]) = n + m
        /\ \A i \in 1..(n + m) : h[k + 1][i] = IF i <= n THEN h[k][i] ELSE seqs[k + 1][i - n]
    <3> DEFINE s == h[k]
               u == seqs[k + 1]
    <3>1. s \in Seq(X) /\ u \in Seq(X) /\ h[k + 1] = s \o u
      BY <2>3, <2>8
    <3> HIDE DEF s, u
    <3>2. /\ Len(h[k + 1]) = Len(s) + Len(u)
          /\ \A i \in 1..(Len(s) + Len(u)) : h[k + 1][i] = IF i <= Len(s) THEN s[i] ELSE u[i - Len(s)]
      BY <3>1, ConcatElements
    <3>3. QED
      BY <3>2 DEF s, u
  <2>10. \A i \in 1..(n + m) : c[i] = IF i <= n THEN b[i] ELSE row[i - n]
    OBVIOUS
  <2>11. \A j \in 1..m : row[j][1] = k + 1 /\ row[j][2] = j
    OBVIOUS
  <2> HIDE DEF n, m, row, cells, c
  <2>12. \A i \in 1..(n + m) : h[k + 1][i] = seqs[c[i][1]][c[i][2]]
    <3> TAKE i \in 1..(n + m)
    <3>1. CASE i <= n
      <4>1. i \in 1..n
        BY <2>4, <3>1
      <4>2. QED
        BY <2>4, <2>9, <2>10, <3>1, <4>1
    <3>2. CASE ~(i <= n)
      <4>1. i - n \in 1..m
        BY <2>4, <3>2
      <4>2. h[k + 1][i] = seqs[k + 1][i - n] /\ c[i] = row[i - n]
        BY <2>9, <2>10, <3>2
      <4>3. QED
        BY <2>11, <4>1, <4>2
    <3>3. QED
      BY <3>1, <3>2
  <2>13. At(k + 1, c)
    BY <2>7, <2>9, <2>12
  <2> HIDE DEF At
  <2>14. QED
    BY <2>13
<1>5. N \in Good
  <2>1. \A k \in 0..N : k \in Good
    <3> HIDE DEF Good
    <3>1. QED
      BY <1>0, <1>3, <1>4, PrefixInduction
  <2>2. N \in 0..N
    BY <1>0
  <2> HIDE DEF Good
  <2>3. QED
    BY <2>1, <2>2
<1>6. PICK b : At(N, b)
  <2>1. N <= N
    BY <1>0
  <2> HIDE DEF At
  <2>2. QED
    BY <1>5, <2>1
<1>7. Flattened(b, seqs)
  BY <1>2, <1>6 DEF Flattened, N
<1>8. QED
  BY <1>7
-----------------------------------------------------------------------------
\* A trace with the latencies and states of its spans, and a listing of such.
IsTrace(t) ==
  /\ t.spans \in Seq(Spans)
  /\ t.latency \in [Range(t.spans) -> Nat] /\ t.status \in [Range(t.spans) -> 1..3]
  /\ t.start \in BOOLEAN /\ t.total \in Nat
IsListing(listing) ==
  /\ Len(listing) \in Nat /\ DOMAIN listing = 1..Len(listing)
  /\ listing = [i \in DOMAIN listing |-> listing[i]]
  /\ \A i \in DOMAIN listing : IsTrace(listing[i])

\* The places of the spans of a listing that are in the set of their trace.
Chosen(listing, sets) ==
  UNION {{<<i, j>> : j \in {k \in DOMAIN listing[i].spans : listing[i].spans[k] \in sets[i]}} :
           i \in DOMAIN listing}

\* A sample, and the one of the span at a place.
Sample == [ms : Nat, status : 1..3]
SampleAt(listing, c) == [ms |-> MsAt(listing, c), status |-> StatusAt(listing, c)]

\* The samples of those spans, as the reports go through them.
SamplesIn(listing, sets) ==
  FlattenSeq([i \in DOMAIN listing |-> SamplesOf(listing[i], sets[i])])

\* b says where in the listing the samples come from.
Sampled(b, listing, sets) ==
  /\ SamplesIn(listing, sets) \in Seq(Sample)
  /\ Numbers(b, Len(SamplesIn(listing, sets)), Chosen(listing, sets))
  /\ \A i \in 1..Len(SamplesIn(listing, sets)) :
       SamplesIn(listing, sets)[i] = SampleAt(listing, b[i])

\* One trace: its samples are those of the chosen spans, as often as they are
\* stored.
LEMMA SamplesOfWhere ==
  ASSUME NEW t, IsTrace(t), NEW S
  PROVE  /\ SamplesOf(t, S) \in Seq(Sample)
         /\ Len(SamplesOf(t, S)) = Len(Those(t.spans, S))
         /\ \E b : /\ Selected(b, t.spans, S)
                   /\ \A i \in 1..Len(SamplesOf(t, S)) :
                        SamplesOf(t, S)[i] = [ms |-> t.latency[t.spans[b[i]]],
                                              status |-> t.status[t.spans[b[i]]]]
<1> DEFINE spans == Those(t.spans, S)
<1>1. t.spans \in Seq(Spans)
  BY DEF IsTrace
<1>2. spans \in Seq(Spans) /\ \A r \in Range(spans) : r \in Range(t.spans)
  BY <1>1, ThoseHas
<1>3. PICK b : Selected(b, t.spans, S)
  BY <1>1, ThoseWhere, Zenon
<1> HIDE DEF spans
<1> DEFINE n == Len(spans)
<1>4. n \in Nat /\ DOMAIN spans = 1..n
  BY <1>2
<1>5. SamplesOf(t, S) = [i \in 1..n |-> [ms |-> t.latency[spans[i]], status |-> t.status[spans[i]]]]
  BY <1>4 DEF SamplesOf, spans
<1>6. ASSUME NEW i \in 1..n
      PROVE  [ms |-> t.latency[spans[i]], status |-> t.status[spans[i]]] \in Sample
  <2>1. spans[i] \in Range(t.spans)
    BY <1>2, <1>4 DEF Range
  <2>2. t.latency[spans[i]] \in Nat /\ t.status[spans[i]] \in 1..3
    BY <2>1 DEF IsTrace
  <2>3. QED
    BY <2>2 DEF Sample
<1>7. \A i \in 1..n : spans[i] = t.spans[b[i]]
  BY <1>3 DEF Selected, spans
<1>8. SamplesOf(t, S) \in Seq(Sample) /\ Len(SamplesOf(t, S)) = n
  BY <1>4, <1>5, <1>6
<1>9. \A i \in 1..n : SamplesOf(t, S)[i] = [ms |-> t.latency[t.spans[b[i]]],
                                            status |-> t.status[t.spans[b[i]]]]
  BY <1>5, <1>7
<1>10. QED
  BY <1>3, <1>8, <1>9 DEF spans

\* Samples are those of the chosen spans of all traces, each place once.
LEMMA SamplesWhere ==
  ASSUME NEW listing, IsListing(listing), NEW sets
  PROVE  \E b : Sampled(b, listing, sets)
<1> DEFINE seqs == [i \in DOMAIN listing |-> SamplesOf(listing[i], sets[i])]
<1> DEFINE N == Len(listing)
<1>1. /\ N \in Nat /\ DOMAIN listing = 1..N
      /\ \A i \in 1..N : IsTrace(listing[i])
  BY DEF IsListing
<1>2. \A i \in 1..N : seqs[i] = SamplesOf(listing[i], sets[i])
  BY <1>1
<1>3. seqs \in Seq(Seq(Sample)) /\ Len(seqs) = N
  <2>1. \A i \in 1..N : SamplesOf(listing[i], sets[i]) \in Seq(Sample)
    BY <1>1, SamplesOfWhere
  <2>2. seqs \in [1..N -> Seq(Sample)]
    BY <1>1, <2>1
  <2> HIDE DEF seqs
  <2>3. QED
    BY <1>1, <2>2
<1>4. SamplesIn(listing, sets) = FlattenSeq(seqs)
  BY DEF SamplesIn
<1> HIDE DEF seqs, N
<1>5. PICK f : Flattened(f, seqs)
  BY <1>3, FlattenWhere, Zenon
<1> DEFINE flat == FlattenSeq(seqs)
<1> DEFINE n == Len(flat)
<1>6. flat \in Seq(Sample)
  BY <1>3, FlattenHas
<1>7. Numbers(f, n, Cells(seqs, N)) /\ \A i \in 1..n : flat[i] = seqs[f[i][1]][f[i][2]]
  BY <1>3, <1>5 DEF Flattened
<1> HIDE DEF flat
<1>8. n \in Nat
  BY <1>6
<1> HIDE DEF n
<1> DEFINE Where(i, b) ==
      /\ Selected(b, listing[i].spans, sets[i])
      /\ \A j \in 1..Len(seqs[i]) :
           seqs[i][j] = [ms |-> listing[i].latency[listing[i].spans[b[j]]],
                         status |-> listing[i].status[listing[i].spans[b[j]]]]
<1> DEFINE w(i) == CHOOSE b : Where(i, b)
<1>9. ASSUME NEW i \in 1..N PROVE Where(i, w(i))
  <2>1. seqs[i] = SamplesOf(listing[i], sets[i]) /\ IsTrace(listing[i])
    BY <1>1, <1>2
  <2> DEFINE t == listing[i]
             S == sets[i]
  <2>2. PICK b : /\ Selected(b, t.spans, S)
                 /\ \A j \in 1..Len(SamplesOf(t, S)) :
                      SamplesOf(t, S)[j] = [ms |-> t.latency[t.spans[b[j]]],
                                            status |-> t.status[t.spans[b[j]]]]
    <3> HIDE DEF t, S
    <3>1. IsTrace(t)
      BY <2>1 DEF t
    <3>2. QED
      BY <3>1, SamplesOfWhere
  <2>3. Where(i, b)
    BY <2>1, <2>2
  <2> HIDE DEF Where
  <2>4. QED
    BY <2>3
<1> DEFINE of(i) == {j \in 1..Len(listing[i].spans) : listing[i].spans[j] \in sets[i]}
<1>10. ASSUME NEW i \in 1..N
       PROVE  /\ Numbers(w(i), Len(seqs[i]), of(i))
              /\ \A j \in 1..Len(seqs[i]) :
                   seqs[i][j] = [ms |-> listing[i].latency[listing[i].spans[w(i)[j]]],
                                 status |-> listing[i].status[listing[i].spans[w(i)[j]]]]
  <2>1. Len(seqs[i]) = Len(Those(listing[i].spans, sets[i]))
    BY <1>1, <1>2, SamplesOfWhere
  <2>2. Where(i, w(i))
    BY <1>9
  <2> HIDE DEF w
  <2>3. QED
    BY <2>1, <2>2 DEF Selected
<1>11. \A p : p \in Cells(seqs, N) <=> \E i \in 1..N : \E j \in 1..Len(seqs[i]) : p = <<i, j>>
  BY DEF Cells
<1>12. \A p : p \in Chosen(listing, sets) <=> \E i \in 1..N : \E j \in of(i) : p = <<i, j>>
  <2>1. \A i \in 1..N : DOMAIN listing[i].spans = 1..Len(listing[i].spans)
    BY <1>1 DEF IsTrace
  <2>2. QED
    BY <1>1, <2>1 DEF Chosen
<1> HIDE DEF w, of, Where
<1> DEFINE b == [i \in 1..n |-> <<f[i][1], w(f[i][1])[f[i][2]]>>]
<1>13. /\ f \in [1..n -> Cells(seqs, N)]
       /\ \A i, j \in 1..n : f[i] = f[j] => i = j
       /\ \A c \in Cells(seqs, N) : \E i \in 1..n : f[i] = c
  BY <1>7 DEF Numbers
<1>14. ASSUME NEW i \in 1..n
       PROVE  /\ f[i][1] \in 1..N /\ f[i][2] \in 1..Len(seqs[f[i][1]])
              /\ f[i] = <<f[i][1], f[i][2]>>
  BY <1>11, <1>13
<1>15. ASSUME NEW i \in 1..N
       PROVE  /\ \A j \in 1..Len(seqs[i]) : w(i)[j] \in of(i)
              /\ \A j, k \in 1..Len(seqs[i]) : w(i)[j] = w(i)[k] => j = k
              /\ \A k \in of(i) : \E j \in 1..Len(seqs[i]) : w(i)[j] = k
  BY <1>10 DEF Numbers
<1>16. \A i \in 1..n : b[i] = <<f[i][1], w(f[i][1])[f[i][2]]>>
  OBVIOUS
<1>17. b = [i \in 1..n |-> b[i]]
  OBVIOUS
<1> HIDE DEF b
<1>18. b \in [1..n -> Chosen(listing, sets)]
  <2>1. \A i \in 1..n : b[i] \in Chosen(listing, sets)
    BY <1>12, <1>14, <1>15, <1>16
  <2>2. QED
    BY <1>17, <2>1
<1>19. ASSUME NEW i \in 1..n, NEW j \in 1..n, b[i] = b[j] PROVE i = j
  <2>1. f[i][1] = f[j][1] /\ w(f[i][1])[f[i][2]] = w(f[j][1])[f[j][2]]
    BY <1>16, <1>19
  <2>2. f[i][2] = f[j][2]
    BY <1>14, <1>15, <2>1
  <2>3. f[i] = <<f[i][1], f[i][2]>> /\ f[j] = <<f[j][1], f[j][2]>>
    BY <1>14
  <2>4. f[i] = f[j]
    BY <2>1, <2>2, <2>3, Zenon
  <2>5. QED
    BY <1>13, <2>4
<1>20. ASSUME NEW c \in Chosen(listing, sets) PROVE \E i \in 1..n : b[i] = c
  <2>1. PICK i \in 1..N : \E k \in of(i) : c = <<i, k>>
    BY <1>12
  <2>2. PICK k \in of(i) : c = <<i, k>>
    BY <2>1
  <2>3. PICK j \in 1..Len(seqs[i]) : w(i)[j] = k
    BY <1>15
  <2>4. PICK m \in 1..n : f[m] = <<i, j>>
    BY <1>11, <1>13
  <2>5. b[m] = <<i, w(i)[j]>>
    BY <1>16, <2>4
  <2>6. QED
    BY <2>2, <2>3, <2>5
<1>21. Numbers(b, n, Chosen(listing, sets))
  BY <1>8, <1>18, <1>19, <1>20 DEF Numbers
<1>22. ASSUME NEW i \in 1..n PROVE flat[i] = SampleAt(listing, b[i])
  <2> DEFINE k == f[i][1]
             j == f[i][2]
  <2>1. k \in 1..N /\ j \in 1..Len(seqs[k]) /\ flat[i] = seqs[k][j]
    BY <1>7, <1>14
  <2>2. b[i] = <<k, w(k)[j]>>
    BY <1>16
  <2> HIDE DEF k, j
  <2>3. flat[i] = [ms |-> listing[k].latency[listing[k].spans[w(k)[j]]],
                   status |-> listing[k].status[listing[k].spans[w(k)[j]]]]
    BY <1>10, <2>1
  <2>4. SampleAt(listing, <<k, w(k)[j]>>) =
          [ms |-> listing[k].latency[listing[k].spans[w(k)[j]]],
           status |-> listing[k].status[listing[k].spans[w(k)[j]]]]
    BY DEF SampleAt, MsAt, StatusAt, SpanAt
  <2>5. QED
    BY <2>2, <2>3, <2>4
<1>23. Sampled(b, listing, sets)
  BY <1>4, <1>6, <1>21, <1>22 DEF Sampled, flat, n
<1>24. QED
  BY <1>23

\* Samples and the places that they come from.
Sums(b, listing, samples, places) ==
  /\ samples \in Seq(Sample) /\ DOMAIN samples = 1..Len(samples)
  /\ IsFiniteSet(places) /\ Len(samples) = Cardinality(places)
  /\ \A c \in places : MsAt(listing, c) \in Nat /\ StatusAt(listing, c) \in 1..3
  /\ \A i \in 1..Len(samples) : /\ b[i] \in places
                                /\ samples[i].ms = MsAt(listing, b[i])
                                /\ samples[i].status = StatusAt(listing, b[i])
  /\ \A c \in places : \E i \in 1..Len(samples) : b[i] = c
  /\ SumFunction(LatenciesOf(samples)) = SumOf([c \in places |-> MsAt(listing, c)], places)
  /\ \A s : Count(samples, s) = Cardinality({c \in places : StatusAt(listing, c) = s})

\* Sums over samples are sums over those places.
LEMMA SampleSums ==
  ASSUME NEW listing, IsListing(listing), NEW sets, NEW b, Sampled(b, listing, sets)
  PROVE  Sums(b, listing, SamplesIn(listing, sets), Chosen(listing, sets))
<1> DEFINE samples == SamplesIn(listing, sets)
           places == Chosen(listing, sets)
           n == Len(samples)
<1>1. /\ samples \in Seq(Sample) /\ Numbers(b, n, places)
      /\ \A i \in 1..n : samples[i] = SampleAt(listing, b[i])
  BY DEF Sampled
<1> HIDE DEF samples, places
<1>2. n \in Nat /\ DOMAIN samples = 1..n /\ \A i \in 1..n : samples[i] \in Sample
  BY <1>1
<1>3. IsFiniteSet(places) /\ Cardinality(places) = n /\ b \in Bijection(1..n, places)
  BY <1>1, NumbersCount
<1> HIDE DEF n
<1>4. /\ b \in [1..n -> places] /\ \A i, j \in 1..n : b[i] = b[j] => i = j
      /\ \A c \in places : \E i \in 1..n : b[i] = c
  BY <1>1 DEF Numbers
<1>5. \A i \in 1..n : /\ b[i] \in places
                      /\ samples[i].ms = MsAt(listing, b[i]) /\ samples[i].ms \in Nat
                      /\ samples[i].status = StatusAt(listing, b[i]) /\ samples[i].status \in 1..3
  BY <1>1, <1>2, <1>4 DEF SampleAt, Sample
<1>6. \A c \in places : MsAt(listing, c) \in Nat /\ StatusAt(listing, c) \in 1..3
  BY <1>4, <1>5
<1>7. SumFunction(LatenciesOf(samples)) = SumOf([c \in places |-> MsAt(listing, c)], places)
  <2> DEFINE f == LatenciesOf(samples)
             g == [c \in places |-> MsAt(listing, c)]
  <2>1. f = [i \in 1..n |-> samples[i].ms]
    BY <1>2 DEF LatenciesOf
  <2>2. DOMAIN f = 1..n /\ \A i \in 1..n : f[i] = g[b[i]] /\ f[i] \in Nat
    BY <1>5, <2>1
  <2> HIDE DEF f, g
  <2>3. SumFunction(f) = SumOf(f, 1..n)
    BY <2>2, SumIsSum, Zenon
  <2>4. IsFiniteSet(1..n) /\ Adds(f, 1..n)
    <3>1. IsFiniteSet(1..n)
      BY <1>2, FS_Interval
    <3>2. \A x \in 1..n : f[x] \in Int
      BY <2>2
    <3>3. Adds(f, 1..n)
      BY <3>2 DEF Adds
    <3>4. QED
      BY <3>1, <3>3
  <2>5. \A i \in 1..n : f[i] = g[b[i]]
    BY <2>2
  <2>6. SumOf(f, 1..n) = SumOf(g, places)
    <3> DEFINE S == 1..n
    <3>1. b \in Bijection(S, places)
      BY <1>3
    <3>2. IsFiniteSet(S) /\ Adds(f, S)
      BY <2>4
    <3>3. \A x \in S : f[x] = g[b[x]]
      BY <2>5
    <3> HIDE DEF S
    <3>4. SumOf(f, S) = SumOf(g, places)
      BY <3>1, <3>2, <3>3, SumRenamed
    <3>5. QED
      BY <3>4 DEF S
  <2>7. QED
    BY <2>3, <2>6 DEF f, g
<1>8. ASSUME NEW s PROVE Count(samples, s) = Cardinality({c \in places : StatusAt(listing, c) = s})
  <2> DEFINE A == {i \in 1..n : samples[i].status = s}
             B == {c \in places : StatusAt(listing, c) = s}
             h == [i \in A |-> b[i]]
  <2>1. Count(samples, s) = Cardinality(A)
    BY <1>2 DEF Count
  <2>2. IsFiniteSet(A)
    <3>1. IsFiniteSet(1..n) /\ A \in SUBSET (1..n)
      BY <1>2, FS_Interval
    <3>2. QED
      BY <3>1, FS_Subset
  <2>3. h \in [A -> B] /\ \A i \in A : h[i] = b[i] /\ i \in 1..n
    BY <1>5
  <2>4. \A c \in B : \E i \in A : h[i] = c
    BY <1>4, <1>5
  <2>5. \A i, j \in A : h[i] = h[j] => i = j
    BY <1>4, <2>3
  <2> HIDE DEF A, B, h
  <2>6. h \in Bijection(A, B)
    BY <2>3, <2>4, <2>5 DEF Bijection, Injection, Surjection, IsInjective
  <2>7. ExistsBijection(A, B)
    BY <2>6 DEF ExistsBijection
  <2>8. Cardinality(B) = Cardinality(A)
    BY <2>2, <2>7, FS_Bijection
  <2>9. QED
    BY <2>1, <2>8 DEF B
<1>9. Sums(b, listing, samples, places)
  BY <1>1, <1>2, <1>3, <1>4, <1>5, <1>6, <1>7, <1>8 DEF Sums, n
<1>10. QED
  BY <1>9 DEF samples, places

-----------------------------------------------------------------------------
(* The listings that are reported on, and the traces in them.              *)

\* A trace that has been stored is one.
LEMMA TraceOfIs ==
  ASSUME TypeOK, NEW stored \in Seq(Spans), NEW spans \in Seq(Spans), Range(spans) = Range(stored),
         NEW latency \in [Range(stored) -> Nat], NEW status \in [Range(stored) -> 1..3],
         NEW late \in Nat
  PROVE  IsTrace(TraceOf(stored, spans, latency, status, late))
<1>1. IsFiniteSet(Roots(stored)) /\ Roots(stored) \subseteq Range(stored)
  <2>1. IsFiniteSet(Range(stored)) /\ Roots(stored) \in SUBSET Range(stored)
    BY RangeIsFinite DEF Roots
  <2>2. QED
    BY <2>1, FS_Subset
<1> DEFINE m == Max({0} \cup {latency[s] : s \in Roots(stored)})
<1>2. m \in Nat
  <2>1. \A s \in Roots(stored) : latency[s] \in Nat
    BY <1>1
  <2>2. QED
    BY <1>1, <2>1, MaxOfValues
<1>3. TraceOf(stored, spans, latency, status, late) =
        [spans |-> spans, latency |-> latency, status |-> status,
         start |-> parent[stored[1]] = NoSpan, total |-> late + m]
  BY DEF TraceOf
<1> HIDE DEF m
<1>4. late + m \in Nat
  BY <1>2
<1>5. QED
  BY <1>3, <1>4 DEF IsTrace

\* Reversed, a sequence has the same elements.
LEMMA ReverseHas ==
  ASSUME NEW X, NEW seq \in Seq(X)
  PROVE  Reverse(seq) \in Seq(X) /\ Range(Reverse(seq)) = Range(seq)
         /\ Len(Reverse(seq)) = Len(seq)
<1> DEFINE n == Len(seq)
           r == Reverse(seq)
<1>1. n \in Nat /\ DOMAIN seq = 1..n /\ \A i \in 1..n : seq[i] \in X
  OBVIOUS
<1>2. r = [i \in 1..n |-> seq[(n - i) + 1]]
  BY DEF Reverse
<1> HIDE DEF n, r
<1>3. \A i \in 1..n : (n - i) + 1 \in 1..n /\ (n - ((n - i) + 1)) + 1 = i
  BY <1>1
<1>4. DOMAIN r = 1..n /\ \A i \in 1..n : r[i] = seq[(n - i) + 1]
  BY <1>2
<1>5. r \in Seq(X) /\ Len(r) = n
  <2>1. r \in [1..n -> X]
    BY <1>1, <1>2, <1>3
  <2>2. QED
    BY <1>1, <2>1
<1>6. ASSUME NEW x \in Range(seq) PROVE x \in Range(r)
  <2>1. PICK i \in 1..n : seq[i] = x
    BY <1>1 DEF Range
  <2>2. r[(n - i) + 1] = seq[(n - ((n - i) + 1)) + 1]
    BY <1>3, <1>4
  <2>3. QED
    BY <1>3, <1>4, <2>1, <2>2 DEF Range
<1>7. ASSUME NEW x \in Range(r) PROVE x \in Range(seq)
  <2>1. PICK i \in 1..n : r[i] = x
    BY <1>4 DEF Range
  <2>2. QED
    BY <1>1, <1>3, <1>4, <2>1 DEF Range
<1>8. QED
  BY <1>5, <1>6, <1>7 DEF r, n

\* What the reports are computed from.
LEMMA ListingsAre ==
  ASSUME TypeOK, trace \in Seq(Spans), NEW listing \in Listings
  PROVE  /\ trace # <<>> /\ IsListing(listing)
         /\ \A i \in DOMAIN listing : Range(listing[i].spans) = Range(trace)
<1>0. Outlier \in Nat /\ MaxListing \in Nat /\ Latencies \subseteq Nat /\ Statuses \subseteq 1..3
  BY ReportedAssumption, LatenciesAssumption, StatusesAssumption
<1>1. trace # <<>>
  BY DEF Listings
<1>2. PICK usual \in UsualTraces, odd \in OddTraces, i \in {1, MaxListing} :
        listing = [j \in 1..MaxListing |-> IF j = i THEN odd ELSE usual]
  BY DEF Listings
<1>3. IsTrace(usual) /\ Range(usual.spans) = Range(trace)
  <2>1. PICK latency \in [Range(trace) -> Latencies], status \in Statuses :
          usual = TraceOf(trace, trace, latency, [s \in Range(trace) |-> status], 0)
    BY DEF UsualTraces
  <2> DEFINE all == [s \in Range(trace) |-> status]
  <2>2. latency \in [Range(trace) -> Nat] /\ all \in [Range(trace) -> 1..3] /\ 0 \in Nat
    BY <1>0
  <2>3. usual = TraceOf(trace, trace, latency, all, 0)
    BY <2>1
  <2> HIDE DEF all
  <2>4. IsTrace(TraceOf(trace, trace, latency, all, 0))
    BY <2>2, TraceOfIs
  <2>5. TraceOf(trace, trace, latency, all, 0).spans = trace
    BY DEF TraceOf
  <2>6. QED
    BY <2>3, <2>4, <2>5
<1>4. IsTrace(odd) /\ Range(odd.spans) = Range(trace)
  <2>1. PICK spans \in {trace, Reverse(trace)},
             latency \in [Range(trace) -> Latencies \cup {Outlier}],
             status \in [Range(trace) -> Statuses] :
          odd = TraceOf(spans, spans, latency, status, 0)
    BY DEF OddTraces
  <2>2. spans \in Seq(Spans) /\ Range(spans) = Range(trace)
    BY ReverseHas
  <2>3. latency \in [Range(spans) -> Nat] /\ status \in [Range(spans) -> 1..3] /\ 0 \in Nat
    BY <1>0, <2>2
  <2>4. IsTrace(TraceOf(spans, spans, latency, status, 0))
    BY <2>2, <2>3, TraceOfIs
  <2>5. TraceOf(spans, spans, latency, status, 0).spans = spans
    BY DEF TraceOf
  <2>6. QED
    BY <2>1, <2>2, <2>4, <2>5
<1>5. DOMAIN listing = 1..MaxListing /\ \A j \in 1..MaxListing : listing[j] \in {odd, usual}
  BY <1>2
<1>6. Len(listing) = MaxListing
  <2>1. listing \in [1..MaxListing -> {odd, usual}]
    BY <1>2
  <2>2. listing \in Seq({odd, usual})
    BY <1>0, <2>1
  <2>3. QED
    BY <1>0, <1>5, <2>2
<1>7. \A j \in DOMAIN listing : IsTrace(listing[j]) /\ Range(listing[j].spans) = Range(trace)
  BY <1>3, <1>4, <1>5
<1>8. IsListing(listing)
  <2>1. listing = [j \in DOMAIN listing |-> listing[j]]
    BY <1>2
  <2>2. QED
    BY <1>0, <1>5, <1>6, <1>7, <2>1 DEF IsListing
<1>9. QED
  BY <1>1, <1>7, <1>8

-----------------------------------------------------------------------------
(* Anomalies: of any number of latencies few exceed their mean by a factor. *)

\* Of n values few are more than k times their mean.
LEMMA FewAbove ==
  ASSUME NEW S, IsFiniteSet(S), NEW f, \A x \in S : f[x] \in Nat, NEW k \in Nat,
         NEW H \in SUBSET S,
         \A x \in H : f[x] * Cardinality(S) > k * SumOf(f, S)
  PROVE  Cardinality(H) \in Nat /\ (S # {} => k * Cardinality(H) < Cardinality(S))
<1> DEFINE n == Cardinality(S)
           h == Cardinality(H)
           T == SumOf(f, S)
           U == SumOf(f, H)
<1>1. IsFiniteSet(H)
  BY FS_Subset
<1>2. n \in Nat /\ h \in Nat
  BY <1>1, FS_CardinalityType
<1>3. T \in Nat /\ U \in Nat /\ U <= T
  BY SumPart
<1>4. n * U >= (k * T + 1) * h
  <2>1. \A x \in H : n * f[x] >= k * T + 1
    <3> TAKE x \in H
    <3>1. f[x] \in Nat /\ f[x] * n > k * T
      OBVIOUS
    <3>2. k * T \in Nat /\ f[x] * n \in Nat
      <4>1. \A a, b \in Nat : a * b \in Nat
        OBVIOUS
      <4> HIDE DEF n, T
      <4>2. QED
        BY <1>2, <1>3, <3>1, <4>1
    <3>3. f[x] * n = n * f[x]
      BY <1>2, <3>1
    <3> HIDE DEF n, T
    <3>4. QED
      BY <3>1, <3>2, <3>3
  <2>2. Adds(f, H)
    BY DEF Adds
  <2> DEFINE c == k * T + 1
  <2>3. c \in Int /\ n \in Int
    <3> HIDE DEF n, T
    <3>1. QED
      BY <1>2, <1>3
  <2>4. \A x \in H : n * f[x] >= c
    BY <2>1
  <2> HIDE DEF n, T, c
  <2>5. n * SumOf(f, H) >= c * Cardinality(H)
    BY <1>1, <2>2, <2>3, <2>4, SumBounds, Zenon
  <2>6. QED
    BY <2>5 DEF c
<1>5. S # {} => n > 0
  <2>1. S # {} => n # 0
    BY FS_EmptySet
  <2> HIDE DEF n
  <2>2. QED
    BY <1>2, <2>1
<1> HIDE DEF n, h, T, U
<1>6. ASSUME n > 0, k * h >= n PROVE FALSE
  <2>1. n * T >= n * U
    BY <1>2, <1>3
  <2>2. (k * T + 1) * h = (k * h) * T + h
    BY <1>2, <1>3
  <2>3. (k * h) * T >= n * T
    <3>1. \A a, b, c \in Nat : a >= b => a * c >= b * c
      OBVIOUS
    <3>2. k * h \in Nat
      BY <1>2
    <3> DEFINE a == k * h
    <3> HIDE DEF a
    <3>3. a * T >= n * T
      BY <1>2, <1>3, <1>6, <3>1, <3>2 DEF a
    <3>4. QED
      BY <3>3 DEF a
  <2>4. n * U \in Nat /\ n * T \in Nat /\ (k * h) * T \in Nat
    BY <1>2, <1>3
  <2>5. h <= 0
    BY <1>2, <1>4, <2>1, <2>2, <2>3, <2>4
  <2>6. h = 0 /\ k * h = 0
    BY <1>2, <2>5
  <2>7. QED
    BY <1>2, <1>6, <2>6
<1>7. k * h \in Nat
  BY <1>2
<1>8. S # {} => k * h < n
  BY <1>2, <1>5, <1>6, <1>7
<1>9. QED
  BY <1>2, <1>8 DEF n, h

\* The spans of an operation, and their places.
OfOperation(listing, op) == [i \in DOMAIN listing |-> SpansOf(listing[i], op)]

\* The samples and the places of an operation are those of its spans.
LEMMA OperationSamples ==
  ASSUME NEW listing, IsListing(listing), NEW op
  PROVE  /\ AllSamplesOf(listing, op) = SamplesIn(listing, OfOperation(listing, op))
         /\ Places(listing, op) = Chosen(listing, OfOperation(listing, op))
<1> DEFINE sets == OfOperation(listing, op)
<1>1. \A i \in DOMAIN listing : sets[i] = SpansOf(listing[i], op)
  BY DEF OfOperation
<1> HIDE DEF sets
<1>2. AllSamplesOf(listing, op) = SamplesIn(listing, sets)
  <2>1. [i \in DOMAIN listing |-> SamplesOf(listing[i], SpansOf(listing[i], op))]
          = [i \in DOMAIN listing |-> SamplesOf(listing[i], sets[i])]
    BY <1>1
  <2>2. QED
    BY <2>1 DEF AllSamplesOf, SamplesIn
<1>3. ASSUME NEW i \in DOMAIN listing
      PROVE  {k \in DOMAIN listing[i].spans : node[listing[i].spans[k]] = op}
               = {k \in DOMAIN listing[i].spans : listing[i].spans[k] \in sets[i]}
  <2>1. \A k \in DOMAIN listing[i].spans : listing[i].spans[k] \in Range(listing[i].spans)
    BY DEF Range
  <2>2. QED
    BY <1>1, <2>1 DEF SpansOf
<1>4. Places(listing, op) = Chosen(listing, sets)
  BY <1>3 DEF Places, Chosen
<1>5. QED
  BY <1>2, <1>4 DEF sets

\* An operation of the listing has a span in it.
LEMMA OperationOccurs ==
  ASSUME NEW listing, NEW op \in Operations(listing)
  PROVE  Places(listing, op) # {}
<1>1. PICK i \in DOMAIN listing : op \in Services(listing[i])
  BY DEF Operations
<1>2. PICK s \in Range(listing[i].spans) : op = node[s]
  BY <1>1 DEF Services
<1>3. PICK j \in DOMAIN listing[i].spans : s = listing[i].spans[j]
  BY <1>2 DEF Range
<1>4. <<i, j>> \in Places(listing, op)
  BY <1>1, <1>2, <1>3 DEF Places
<1>5. QED
  BY <1>4

\* The baseline counts and adds up the places of the operation.
LEMMA BaselineIs ==
  ASSUME NEW listing, IsListing(listing), NEW op
  PROVE  LET places == Places(listing, op)
             ms == [c \in places |-> MsAt(listing, c)]
             base == Baseline(listing, op)
         IN /\ IsFiniteSet(places) /\ base.count = Cardinality(places)
            /\ base.ms = SumOf(ms, places) /\ \A c \in places : ms[c] \in Nat
            /\ base.errors = Cardinality({c \in places : StatusAt(listing, c) = 2})
<1> DEFINE sets == OfOperation(listing, op)
           samples == SamplesIn(listing, sets)
           places == Chosen(listing, sets)
<1> HIDE DEF sets
<1>1. PICK b : Sampled(b, listing, sets)
  BY SamplesWhere, Zenon
<1>2. /\ IsFiniteSet(places) /\ Len(samples) = Cardinality(places)
      /\ \A c \in places : MsAt(listing, c) \in Nat
      /\ SumFunction(LatenciesOf(samples)) = SumOf([c \in places |-> MsAt(listing, c)], places)
      /\ Count(samples, 2) = Cardinality({c \in places : StatusAt(listing, c) = 2})
  <2>1. /\ IsFiniteSet(places) /\ Len(samples) = Cardinality(places)
        /\ \A c \in places : MsAt(listing, c) \in Nat /\ StatusAt(listing, c) \in 1..3
        /\ SumFunction(LatenciesOf(samples)) = SumOf([c \in places |-> MsAt(listing, c)], places)
        /\ \A s : Count(samples, s) = Cardinality({c \in places : StatusAt(listing, c) = s})
    BY <1>1, SampleSums DEF Sums
  <2> HIDE DEF samples, places
  <2>2. QED
    BY <2>1
<1> HIDE DEF samples, places
<1>3. AllSamplesOf(listing, op) = samples /\ Places(listing, op) = places
  BY OperationSamples DEF sets, samples, places
<1>4. Baseline(listing, op) =
        [count |-> Len(samples), ms |-> SumFunction(LatenciesOf(samples)), errors |-> Count(samples, 2)]
  BY <1>3 DEF Baseline
<1>5. QED
  BY <1>2, <1>3, <1>4

\* Anomalies of an operation.
LEMMA FewAnomalies ==
  ASSUME NEW listing, IsListing(listing), NEW op \in Operations(listing)
  PROVE  LET found == DetectAnomalies(listing, op)
             base == Baseline(listing, op)
         IN /\ 3 * Cardinality(found.high) < base.count
            /\ 10 * Cardinality(found.severe) < base.count
            /\ 10 * Cardinality(found.errors) < base.count
            /\ base.count >= 6 =>
                 \A c \in Places(listing, op) : 2 * MsAt(listing, c) > base.ms => c \in found.high
<1> DEFINE places == Places(listing, op)
           ms == [c \in places |-> MsAt(listing, c)]
           base == Baseline(listing, op)
           found == DetectAnomalies(listing, op)
           n == base.count
           T == base.ms
<1>1. /\ IsFiniteSet(places) /\ n = Cardinality(places)
      /\ T = SumOf(ms, places) /\ \A c \in places : ms[c] \in Nat
      /\ base.errors = Cardinality({c \in places : StatusAt(listing, c) = 2})
  BY BaselineIs
<1>2. places # {}
  BY OperationOccurs
<1>3. /\ found.high = {c \in places : HighLatency(base, MsAt(listing, c), 3)}
      /\ found.severe = {c \in places : HighLatency(base, MsAt(listing, c), 10)}
      /\ found.errors = {c \in places : RareError(base, StatusAt(listing, c))}
  BY DEF DetectAnomalies
<1>4. \A c \in places : ms[c] = MsAt(listing, c)
  OBVIOUS
<1> HIDE DEF places, ms, base, found
<1>5. n \in Nat /\ n > 0
  <2>1. n \in Nat
    BY <1>1, FS_CardinalityType
  <2>2. n # 0
    BY <1>1, <1>2, FS_EmptySet
  <2> HIDE DEF n
  <2>3. QED
    BY <2>1, <2>2
<1>6. T \in Nat /\ \A c \in places : ms[c] <= T
  <2>1. T \in Nat
    <3>1. places \in SUBSET places
      OBVIOUS
    <3>2. SumOf(ms, places) \in Nat
      BY <1>1, <3>1, SumPart
    <3>3. QED
      BY <1>1, <3>2
  <2>2. ASSUME NEW c \in places PROVE ms[c] <= T
    <3>1. {c} \in SUBSET places /\ ms[c] \in Int
      BY <1>1
    <3>2. SumOf(ms, {c}) <= SumOf(ms, places)
      BY <1>1, <3>1, SumPart
    <3>3. SumOf(ms, {c}) = ms[c]
      <4>1. IsFiniteSet({}) /\ Adds(ms, {}) /\ c \notin {} /\ {} \cup {c} = {c}
        BY FS_EmptySet DEF Adds
      <4>2. SumOf(ms, {}) = 0 /\ SumOf(ms, {} \cup {c}) = SumOf(ms, {}) + ms[c]
        BY <3>1, <4>1, SumAdd
      <4>3. QED
        BY <3>1, <4>1, <4>2
    <3>4. QED
      BY <1>1, <3>2, <3>3
  <2>3. QED
    BY <2>1, <2>2
<1>7. ASSUME NEW k \in Nat, NEW H, H = {c \in places : HighLatency(base, MsAt(listing, c), k)}
      PROVE  k * Cardinality(H) < n
  <2>1. H \in SUBSET places
    BY <1>7
  <2>2. \A c \in H : ms[c] * Cardinality(places) > k * SumOf(ms, places)
    BY <1>1, <1>4, <1>7 DEF HighLatency
  <2>3. k * Cardinality(H) < Cardinality(places)
    BY <1>1, <1>2, <2>1, <2>2, FewAbove
  <2>4. QED
    BY <1>1, <2>3
<1>8. 3 * Cardinality(found.high) < n
  BY <1>3, <1>7
<1>9. 10 * Cardinality(found.severe) < n
  BY <1>3, <1>7
<1>10. 10 * Cardinality(found.errors) < n
  <2>1. CASE found.errors = {}
    <3>1. Cardinality(found.errors) = 0
      BY <2>1, FS_EmptySet
    <3>2. QED
      BY <1>5, <3>1
  <2>2. CASE found.errors # {}
    <3>1. 10 * base.errors < n
      BY <1>3, <2>2 DEF RareError
    <3> DEFINE E == {c \in places : StatusAt(listing, c) = 2}
    <3>2. found.errors \in SUBSET E /\ E \in SUBSET places
      BY <1>3 DEF RareError
    <3> HIDE DEF E
    <3>3. IsFiniteSet(E)
      BY <1>1, <3>2, FS_Subset
    <3>4. Cardinality(found.errors) <= Cardinality(E)
      BY <3>2, <3>3, FS_Subset
    <3>5. IsFiniteSet(found.errors)
      BY <3>2, <3>3, FS_Subset
    <3>6. Cardinality(E) \in Nat /\ Cardinality(found.errors) \in Nat
      BY <3>3, <3>5, FS_CardinalityType
    <3>7. base.errors = Cardinality(E)
      BY <1>1 DEF E
    <3>8. QED
      BY <1>5, <3>1, <3>4, <3>6, <3>7
  <2>3. QED
    BY <2>1, <2>2
<1>11. ASSUME n >= 6, NEW c \in places, 2 * MsAt(listing, c) > T PROVE c \in found.high
  <2> DEFINE m == MsAt(listing, c)
  <2>1. m \in Nat /\ m <= T /\ 2 * m > T
    BY <1>1, <1>4, <1>6, <1>11
  <2> HIDE DEF m, n, T
  <2>2. T > 0
    BY <1>6, <2>1
  <2>3. m * n >= m * 6
    <3>1. \A a, b, d \in Nat : a >= b => d * a >= d * b
      OBVIOUS
    <3>2. QED
      BY <1>5, <1>11, <2>1, <3>1
  <2>4. m * n > 3 * T
    BY <1>5, <1>6, <2>1, <2>3
  <2>5. HighLatency(base, m, 3)
    BY <2>2, <2>4 DEF HighLatency, n, T
  <2>6. QED
    BY <1>3, <2>5 DEF m
<1>12. QED
  BY <1>8, <1>9, <1>10, <1>11 DEF places, base, found

\* Anomalies are rare, and a span that takes longer than all the others of its
\* operation is one (analysis.go:345-466).
THEOREM AnomaliesAreFew == OrderSpec => []AnomaliesAreRare
<1>1. IInv /\ trace \in Seq(Spans) => AnomaliesAreRare
  <2> SUFFICES ASSUME IInv, trace \in Seq(Spans), NEW listing \in Listings,
                      NEW op \in Operations(listing)
               PROVE  LET found == DetectAnomalies(listing, op)
                          base == Baseline(listing, op)
                      IN /\ 3 * Cardinality(found.high) < base.count
                         /\ 10 * Cardinality(found.severe) < base.count
                         /\ 10 * Cardinality(found.errors) < base.count
                         /\ base.count >= 6 =>
                              \A c \in Places(listing, op) :
                                2 * MsAt(listing, c) > base.ms => c \in found.high
    BY DEF AnomaliesAreRare
  <2>1. IsListing(listing)
    BY ListingsAre DEF IInv
  <2>2. QED
    BY <2>1, FewAnomalies
<1>2. QED
  BY <1>1, TracesHoldSpans, PTL

-----------------------------------------------------------------------------
(* Loops that carry fractions, and the means they accumulate, in lowest terms. *)

\* g makes of base and seq what f does, as long as it stays in A.
Follows(f, base, seq, A, g) ==
  /\ g[{}] = base
  /\ \A T \in SUBSET (1..Len(seq)) : T # {} /\ g[T \ {Max(T)}] \in A =>
       g[T] = f[<<g[T \ {Max(T)}], seq[Max(T)]>>]

\* h is what such a loop has after every element, r what it ends with.
LoopedBy(f, base, seq, A, r, h) ==
  /\ h[0] = base /\ r = h[Len(seq)]
  /\ \A k \in 1..Len(seq) : h[k] = f[<<h[k - 1], seq[k]>>]
  /\ \A k \in 0..Len(seq) : h[k] \in A

\* A loop goes through its sequence element by element.
LEMMA LoopSteps ==
  ASSUME NEW A, NEW X, NEW f \in [A \X X -> A], NEW base \in A, NEW seq \in Seq(X), NEW g,
         Follows(f, base, seq, A, g)
  PROVE  \E h : LoopedBy(f, base, seq, A, g[DOMAIN seq], h)
<1> DEFINE N == Len(seq)
           h == [k \in 0..N |-> g[1..k]]
<1>1. N \in Nat /\ DOMAIN seq = 1..N /\ \A k \in 1..N : seq[k] \in X
  OBVIOUS
<1>2. /\ g[{}] = base
      /\ \A T \in SUBSET (1..N) : T # {} /\ g[T \ {Max(T)}] \in A =>
           g[T] = f[<<g[T \ {Max(T)}], seq[Max(T)]>>]
  BY DEF Follows
<1> HIDE DEF N
<1>3. \A k \in 0..N : h[k] = g[1..k]
  OBVIOUS
<1>4. h[0] = base
  <2>1. 1..0 = {} /\ 0 \in 0..N
    BY <1>1
  <2>2. QED
    BY <1>2, <1>3, <2>1
<1>5. h[N] = g[DOMAIN seq]
  BY <1>1, <1>3
<1> HIDE DEF h
<1>6. ASSUME NEW k \in 1..N, h[k - 1] \in A
      PROVE  h[k] = f[<<h[k - 1], seq[k]>>] /\ h[k] \in A
  <2>1. /\ 1..k \in SUBSET (1..N) /\ 1..k # {} /\ Max(1..k) = k
        /\ (1..k) \ {Max(1..k)} = 1..(k - 1)
    BY <1>1, MaxOfPrefix
  <2>2. k \in 0..N /\ k - 1 \in 0..N
    BY <1>1
  <2>3. h[k] = g[1..k] /\ h[k - 1] = g[1..(k - 1)]
    BY <1>3, <2>2
  <2>4. g[1..k] = f[<<g[1..(k - 1)], seq[k]>>]
    <3> DEFINE T == 1..k
    <3>1. T \in SUBSET (1..N) /\ T # {} /\ Max(T) = k /\ T \ {Max(T)} = 1..(k - 1)
      BY <2>1
    <3> HIDE DEF T
    <3>2. g[T \ {Max(T)}] \in A
      BY <1>6, <2>3, <3>1
    <3>3. g[T] = f[<<g[T \ {Max(T)}], seq[Max(T)]>>]
      BY <1>2, <3>1, <3>2
    <3>4. QED
      BY <3>1, <3>3 DEF T
  <2>5. h[k] = f[<<h[k - 1], seq[k]>>]
    BY <2>3, <2>4
  <2>6. QED
    BY <1>1, <1>6, <2>5
<1> DEFINE Good == {k \in Nat : k <= N => h[k] \in A}
<1>7. 0 \in Good
  BY <1>4
<1>8. ASSUME NEW k \in Nat, k \in Good, k + 1 <= N PROVE k + 1 \in Good
  <2>1. k + 1 \in 1..N /\ (k + 1) - 1 = k /\ k <= N
    BY <1>1, <1>8
  <2>2. h[k + 1] \in A
    BY <1>6, <1>8, <2>1
  <2>3. QED
    BY <2>2
<1>9. \A k \in 0..N : h[k] \in A
  <2>1. \A k \in 0..N : k \in Good
    <3> HIDE DEF Good
    <3>1. QED
      BY <1>1, <1>7, <1>8, PrefixInduction
  <2>2. QED
    BY <1>1, <2>1
<1>10. \A k \in 1..N : k - 1 \in 0..N
  BY <1>1
<1>11. LoopedBy(f, base, seq, A, g[DOMAIN seq], h)
  BY <1>4, <1>5, <1>6, <1>9, <1>10 DEF LoopedBy, N
<1>12. QED
  BY <1>11
-----------------------------------------------------------------------------
\* A product with a positive number says which factor is larger.
LEMMA Cancel ==
  \A a, b, m \in Nat : m > 0 => /\ a * m <= b * m <=> a <= b
                                /\ a * m = b * m <=> a = b
<1> SUFFICES ASSUME NEW a \in Nat, NEW b \in Nat, NEW m \in Nat, m > 0
             PROVE  /\ a * m <= b * m <=> a <= b
                    /\ a * m = b * m <=> a = b
  OBVIOUS
<1>1. a <= b => a * m <= b * m
  OBVIOUS
<1>2. a < b => a * m < b * m
  OBVIOUS
<1>3. b < a => b * m < a * m
  OBVIOUS
<1>4. QED
  BY <1>1, <1>2, <1>3

\* A multiple of a number, divided by it.
LEMMA Quotient == \A a, g \in Nat : g > 0 => (a * g) \div g = a
<1> SUFFICES ASSUME NEW a \in Nat, NEW g \in Nat, g > 0 PROVE (a * g) \div g = a
  OBVIOUS
<1> DEFINE n == a * g
           q == n \div g
<1>1. n \in Nat
  OBVIOUS
<1>2. q \in Nat /\ g * q <= n /\ n < g * (q + 1)
  <2> HIDE DEF n
  <2>1. QED
    BY <1>1
<1> HIDE DEF q
<1>3. ~(q < a)
  <2>1. q < a => g * (q + 1) <= g * a
    BY <1>2
  <2>2. QED
    BY <1>2, <2>1
<1>4. ~(a < q)
  <2>1. a < q => g * (a + 1) <= g * q
    BY <1>2
  <2>2. QED
    BY <1>2, <2>1
<1>5. QED
  BY <1>2, <1>3, <1>4 DEF q

\* One step of Euclid's algorithm, with g for the others.
Euclid(g, p) == IF p[2] = 0 THEN p[1] ELSE g[<<p[2], p[1] % p[2]>>]
Euclids(g) == g = [p \in Nat \X Nat |-> Euclid(g, p)]

\* The greatest common divisor follows its recursion.
LEMMA GcdIs == Euclids(gcd)
<1> DEFINE S == Nat \X Nat
           F == [g \in [S -> Nat] |-> [p \in S |-> Euclid(g, p)]]
           rank == [p \in S |-> p[2]]
<1>1. ASSUME NEW p \in S, p[2] # 0
      PROVE  <<p[2], p[1] % p[2]>> \in S /\ rank[<<p[2], p[1] % p[2]>>] < rank[p]
  <2>1. p[1] \in Nat /\ p[2] \in Nat
    OBVIOUS
  <2>2. p[1] % p[2] \in Nat /\ p[1] % p[2] < p[2]
    BY <1>1, <2>1
  <2>3. QED
    BY <2>1, <2>2
<1>2. \A g \in [S -> Nat] : \A p \in S : Euclid(g, p) \in Nat
  BY <1>1 DEF Euclid
<1>3. rank \in [S -> Nat] /\ F \in [[S -> Nat] -> [S -> Nat]]
  BY <1>2
<1>4. \A g \in [S -> Nat] : F[g] = [p \in S |-> Euclid(g, p)]
  OBVIOUS
<1>5. ASSUME NEW g \in [S -> Nat], NEW h \in [S -> Nat], NEW p \in S,
             \A y \in S : rank[y] < rank[p] => g[y] = h[y]
      PROVE  F[g][p] = F[h][p]
  <2>1. F[g][p] = Euclid(g, p) /\ F[h][p] = Euclid(h, p)
    BY <1>4
  <2>2. Euclid(g, p) = Euclid(h, p)
    <3> HIDE DEF rank, S
    <3>1. QED
      BY <1>1, <1>5 DEF Euclid
  <2>3. QED
    BY <2>1, <2>2
<1>6. PICK g \in [S -> Nat] : g = F[g]
  <2> HIDE DEF F, rank, S
  <2>1. \A g, h \in [S -> Nat] : \A p \in S :
          (\A y \in S : rank[y] < rank[p] => g[y] = h[y]) => F[g][p] = F[h][p]
    BY <1>5
  <2>2. Recursion(F, S, Nat, rank)
    BY <1>3, <2>1 DEF Recursion
  <2>3. Nat # {}
    OBVIOUS
  <2>4. QED
    BY <2>2, <2>3, RecursionExists
<1>7. Euclids(g)
  <2> HIDE DEF F
  <2>1. g = [p \in S |-> Euclid(g, p)]
    BY <1>4, <1>6, Zenon
  <2>2. QED
    BY <2>1, Zenon DEF Euclids
<1>8. gcd = CHOOSE h : Euclids(h)
  BY Zenon DEF gcd, Euclids, Euclid
<1>9. QED
  BY <1>7, <1>8, Zenon

\* It divides both numbers.
LEMMA GcdDivides ==
  ASSUME NEW n \in Nat, NEW d \in Nat, d > 0
  PROVE  LET g == gcd[<<n, d>>] IN
         /\ g \in Nat /\ g > 0
         /\ \E a, b \in Nat : n = a * g /\ d = b * g
<1> DEFINE S == Nat \X Nat
           rank == [p \in S |-> p[2]]
           Divides(p) == /\ gcd[p] \in Nat /\ (p[1] > 0 \/ p[2] > 0 => gcd[p] > 0)
                         /\ \E a, b \in Nat : p[1] = a * gcd[p] /\ p[2] = b * gcd[p]
           Good == {p \in S : Divides(p)}
<1>1. \A p \in S : gcd[p] = Euclid(gcd, p)
  BY GcdIs DEF Euclids
<1>2. ASSUME NEW p \in S, \A y \in S : rank[y] < rank[p] => y \in Good PROVE p \in Good
  <2> DEFINE x == p[1]
             y == p[2]
  <2>1. x \in Nat /\ y \in Nat
    OBVIOUS
  <2>2. CASE y = 0
    <3>1. gcd[p] = x
      BY <1>1, <2>2 DEF Euclid
    <3>2. x = 1 * x /\ y = 0 * x /\ 0 \in Nat /\ 1 \in Nat
      BY <2>1, <2>2
    <3>3. QED
      BY <2>1, <2>2, <3>1, <3>2
  <2>3. CASE y # 0
    <3> DEFINE r == x % y
               k == x \div y
               q == <<y, r>>
    <3>1. r \in Nat /\ r < y /\ k \in Nat /\ x = y * k + r
      <4>1. y \in Nat \ {0}
        BY <2>1, <2>3
      <4> HIDE DEF x, y
      <4>2. r \in Nat /\ r < y
        BY <2>1, <4>1
      <4>3. k \in Nat
        BY <2>1, <4>1
      <4>4. x = y * k + r
        BY <2>1, <4>1
      <4>5. QED
        BY <4>2, <4>3, <4>4
    <3>2. q \in S /\ rank[q] < rank[p] /\ q[1] = y /\ q[2] = r
      BY <2>1, <3>1
    <3>3. Divides(q)
      BY <1>2, <3>2
    <3> DEFINE g == gcd[q]
    <3>4. gcd[p] = g
      BY <1>1, <2>3 DEF Euclid
    <3>5. g \in Nat /\ (y > 0 => g > 0) /\ \E a, b \in Nat : y = a * g /\ r = b * g
      BY <3>2, <3>3
    <3> HIDE DEF g, q, r, k
    <3>6. PICK a \in Nat, b \in Nat : y = a * g /\ r = b * g
      BY <3>5
    <3>7. x = (a * k + b) * g /\ a * k + b \in Nat
      <4>1. (a * g) * k + b * g = (a * k + b) * g
        BY <3>1, <3>5
      <4>2. x = (a * g) * k + b * g
        BY <3>1, <3>6
      <4>3. a * k + b \in Nat
        BY <3>1
      <4>4. QED
        BY <4>1, <4>2, <4>3
    <3>8. g > 0
      BY <2>1, <2>3, <3>5
    <3>9. Divides(p)
      BY <3>4, <3>5, <3>6, <3>7, <3>8
    <3>10. QED
      BY <3>9
  <2>4. QED
    BY <2>2, <2>3
<1>3. rank \in [S -> Nat]
  OBVIOUS
<1>4. S \subseteq Good
  <2> HIDE DEF Good, S, rank
  <2>1. QED
    BY <1>2, <1>3, RankInduction
<1>5. Divides(<<n, d>>)
  BY <1>4
<1>6. QED
  BY <1>5
-----------------------------------------------------------------------------
\* Fractions that are not negative.
Fractions == [num : Nat, den : Nat \ {0}]

\* Brought to lowest terms, a fraction keeps its value.
LEMMA FractionIs ==
  ASSUME NEW n \in Nat, NEW d \in Nat, d > 0
  PROVE  /\ Fraction(n, d) \in Fractions
         /\ Fraction(n, d).num * d = n * Fraction(n, d).den
<1> DEFINE g == gcd[<<n, d>>]
<1>1. g \in Nat /\ g > 0 /\ \E a, b \in Nat : n = a * g /\ d = b * g
  BY GcdDivides
<1>2. Fraction(n, d) = [num |-> n \div g, den |-> d \div g]
  BY DEF Fraction
<1> HIDE DEF g
<1>3. PICK a \in Nat, b \in Nat : n = a * g /\ d = b * g
  BY <1>1
<1>4. n \div g = a /\ d \div g = b
  BY <1>1, <1>3, Quotient
<1>5. b > 0
  <2>1. b = 0 => b * g = 0
    BY <1>1
  <2>2. QED
    BY <1>3, <2>1
<1>6. a * (b * g) = (a * g) * b
  BY <1>1
<1>7. Fraction(n, d) = [num |-> a, den |-> b]
  BY <1>2, <1>4
<1>8. Fraction(n, d).num * d = n * Fraction(n, d).den
  BY <1>3, <1>6, <1>7
<1>9. QED
  BY <1>5, <1>7, <1>8 DEF Fractions

\* r, the mean of m + 1 values, is to s + x as q, the mean of m values, is to s.
NextMean(q, m, s, r, x) ==
  /\ r \in Fractions
  /\ (s + x) * r.den <= r.num * (m + 1) <=> s * q.den <= q.num * m
  /\ r.num * (m + 1) = (s + x) * r.den <=> q.num * m = s * q.den

\* One value more.
LEMMA RunningMeanIs ==
  ASSUME NEW q \in Fractions, NEW m \in Nat, NEW s \in Nat, NEW x \in Nat
  PROVE  NextMean(q, m, s, RunningMean(q, m + 1, x), x)
<1> DEFINE r == RunningMean(q, m + 1, x)
           a == q.num
           e == q.den
           N == a * m + x * e
           D == e * (m + 1)
<1>1. a \in Nat /\ e \in Nat /\ e > 0
  BY DEF Fractions
<1>2. r = Fraction(N, D)
  <2>1. (m + 1) - 1 = m
    OBVIOUS
  <2>2. QED
    BY <2>1 DEF RunningMean
<1> HIDE DEF r, a, e
<1>3. N \in Nat /\ D \in Nat /\ D > 0
  <2>1. a * m \in Nat /\ x * e \in Nat
    BY <1>1
  <2>2. e * (m + 1) >= 1
    BY <1>1
  <2>3. e * (m + 1) \in Nat
    BY <1>1
  <2>4. QED
    BY <2>1, <2>2, <2>3
<1>4. r \in Fractions /\ r.num * D = N * r.den
  <2> HIDE DEF N, D
  <2>1. QED
    BY <1>2, <1>3, FractionIs
<1> DEFINE u == r.num
           v == r.den
<1>5. u \in Nat /\ v \in Nat /\ v > 0
  BY <1>4 DEF Fractions
<1>6. u * D = N * v
  BY <1>4
<1> HIDE DEF u, v
<1> DEFINE left == u * (m + 1)
           right == (s + x) * v
           old == a * m
           was == s * e
           more == (x * e) * v
<1>7. left * e = old * v + more
  <2>1. u * D = left * e
    BY <1>1, <1>5
  <2>2. N * v = old * v + more
    BY <1>1, <1>5
  <2>3. QED
    BY <1>6, <2>1, <2>2
<1>8. right * e = was * v + more
  BY <1>1, <1>5
<1>9. left \in Nat /\ right \in Nat /\ old \in Nat /\ was \in Nat /\ more \in Nat
  <2>1. s + x \in Nat /\ m + 1 \in Nat /\ x * e \in Nat
    BY <1>1
  <2>2. \A b, c \in Nat : b * c \in Nat
    OBVIOUS
  <2>3. QED
    BY <1>1, <1>5, <2>1, <2>2
<1> HIDE DEF left, right, old, was, more, N, D
<1>10. right <= left <=> was <= old
  <2>1. right <= left <=> right * e <= left * e
    BY <1>1, <1>9, Cancel
  <2>2. was <= old <=> was * v <= old * v
    BY <1>5, <1>9, Cancel
  <2>3. was * v \in Nat /\ old * v \in Nat
    BY <1>5, <1>9
  <2>4. QED
    BY <1>7, <1>8, <1>9, <2>1, <2>2, <2>3
<1>11. left = right <=> old = was
  <2>1. left = right <=> left * e = right * e
    BY <1>1, <1>9, Cancel
  <2>2. old = was <=> old * v = was * v
    BY <1>5, <1>9, Cancel
  <2>3. was * v \in Nat /\ old * v \in Nat
    BY <1>5, <1>9
  <2>4. QED
    BY <1>7, <1>8, <1>9, <2>1, <2>2, <2>3
<1>12. QED
  BY <1>4, <1>10, <1>11 DEF left, right, old, was, u, v, a, e, r, NextMean

\* A fraction compares with that of s and n as its multiple by n with s.
LEMMA CompareFraction ==
  ASSUME NEW q \in Fractions, NEW s \in Nat, NEW n \in Nat, n > 0
  PROVE  /\ AtMost(Fraction(s, n), q) <=> s * q.den <= q.num * n
         /\ Same(q, Fraction(s, n)) <=> q.num * n = s * q.den
<1> DEFINE u == Fraction(s, n).num
           v == Fraction(s, n).den
           a == q.num
           e == q.den
<1>1. a \in Nat /\ e \in Nat
  BY DEF Fractions
<1>2. u \in Nat /\ v \in Nat /\ v > 0 /\ u * n = s * v
  BY FractionIs DEF Fractions
<1> HIDE DEF u, v, a, e
<1> DEFINE ue == u * e
           av == a * v
           se == s * e
           an == a * n
<1>3. ue * n = se * v /\ av * n = an * v
  <2>1. ue * n = (u * n) * e
    BY <1>1, <1>2
  <2>2. (s * v) * e = se * v
    BY <1>1, <1>2
  <2>3. av * n = an * v
    BY <1>1, <1>2
  <2>4. QED
    BY <1>2, <2>1, <2>2, <2>3
<1>4. ue \in Nat /\ av \in Nat /\ se \in Nat /\ an \in Nat
  <2>1. \A b, c \in Nat : b * c \in Nat
    OBVIOUS
  <2>2. QED
    BY <1>1, <1>2, <2>1
<1> HIDE DEF ue, av, se, an
<1>5. ue <= av <=> se <= an
  <2>1. ue <= av <=> ue * n <= av * n
    BY <1>4, Cancel
  <2>2. se <= an <=> se * v <= an * v
    BY <1>2, <1>4, Cancel
  <2>3. QED
    BY <1>3, <2>1, <2>2
<1>6. av = ue <=> an = se
  <2>1. av = ue <=> av * n = ue * n
    BY <1>4, Cancel
  <2>2. an = se <=> an * v = se * v
    BY <1>2, <1>4, Cancel
  <2>3. QED
    BY <1>3, <2>1, <2>2
<1>7. AtMost(Fraction(s, n), q) <=> ue <= av
  BY DEF AtMost, ue, av, u, v, a, e
<1>8. Same(q, Fraction(s, n)) <=> av = ue
  BY DEF Same, ue, av, u, v, a, e
<1>9. QED
  BY <1>5, <1>6, <1>7, <1>8 DEF se, an, a, e

-----------------------------------------------------------------------------
(* The rates of the SLA of an operation, as they are accumulated.          *)

\* The SLA of an operation, as it is accumulated.
Slas == [count : Nat, avg : Fractions, rate : [1..3 -> Fractions]]

\* One more value of a mean.
LEMMA RunningMeanIn ==
  ASSUME NEW q \in Fractions, NEW n \in Nat, n > 0, NEW x \in Nat
  PROVE  RunningMean(q, n, x) \in Fractions
<1>1. n - 1 \in Nat /\ (n - 1) + 1 = n /\ 0 \in Nat
  OBVIOUS
<1>2. NextMean(q, n - 1, 0, RunningMean(q, (n - 1) + 1, x), x)
  BY <1>1, RunningMeanIs, Zenon
<1>3. QED
  BY <1>1, <1>2 DEF NextMean

\* Statistics stay of their type.
LEMMA MeasuredIn == \A sla \in Slas, x \in Sample : Measured(sla, x) \in Slas
<1> SUFFICES ASSUME NEW sla \in Slas, NEW x \in Sample PROVE Measured(sla, x) \in Slas
  OBVIOUS
<1> DEFINE n == sla.count + 1
           avg == RunningMean(sla.avg, n, x.ms)
           one == RunningMean(sla.rate[x.status], n, 1)
<1>1. /\ n \in Nat /\ n > 0 /\ sla.avg \in Fractions /\ x.ms \in Nat
      /\ sla.rate \in [1..3 -> Fractions] /\ x.status \in 1..3
  BY DEF Slas, Sample
<1>2. avg \in Fractions
  BY <1>1, RunningMeanIn
<1>3. one \in Fractions
  <2>1. sla.rate[x.status] \in Fractions /\ 1 \in Nat
    BY <1>1
  <2>2. QED
    BY <1>1, <2>1, RunningMeanIn
<1>4. Measured(sla, x) =
        [count |-> n, avg |-> avg, rate |-> [sla.rate EXCEPT ![x.status] = one]]
  BY DEF Measured
<1> HIDE DEF n, avg, one
<1>5. [sla.rate EXCEPT ![x.status] = one] \in [1..3 -> Fractions]
  BY <1>1, <1>3
<1>6. QED
  BY <1>1, <1>2, <1>4, <1>5 DEF Slas

\* The loop over the samples.
Measures(samples, none, g) ==
  g = [T \in SUBSET DOMAIN samples |->
         IF T = {} THEN none ELSE Measured(g[T \ {Max(T)}], samples[Max(T)])]
MeasuredBy(samples, none, h) ==
  /\ h[0] = none /\ FoldLeft(Measured, none, samples) = h[Len(samples)]
  /\ \A k \in 1..Len(samples) : h[k] = Measured(h[k - 1], samples[k])
  /\ \A k \in 0..Len(samples) : h[k] \in Slas

\* The loop over the samples is a function of the number of samples measured.
LEMMA MeasuredLoop ==
  ASSUME NEW samples \in Seq(Sample), NEW none \in Slas
  PROVE  \E h : MeasuredBy(samples, none, h)
<1> DEFINE N == Len(samples)
           f == [p \in Slas \X Sample |-> Measured(p[1], p[2])]
           g == CHOOSE g : Measures(samples, none, g)
<1>1. N \in Nat /\ DOMAIN samples = 1..N /\ \A k \in 1..N : samples[k] \in Sample
  OBVIOUS
<1>2. FoldLeft(Measured, none, samples) = g[DOMAIN samples]
  BY DEF FoldLeft, MapThenFoldSet, Measures
<1>3. f \in [Slas \X Sample -> Slas]
  BY MeasuredIn
<1>4. \A sla \in Slas, x \in Sample : f[<<sla, x>>] = Measured(sla, x)
  OBVIOUS
<1> HIDE DEF f, g, N
<1>5. \A T \in SUBSET (1..N) : T # {} => Max(T) \in 1..N /\ samples[Max(T)] \in Sample
  <2>1. \A T \in SUBSET (1..N) : T # {} => Max(T) \in T
    BY <1>1, MaxIn
  <2>2. QED
    BY <1>1, <2>1
<1>6. Measures(samples, none, g)
  <2>1. PICK k \in [SUBSET (1..N) -> Slas] : Loop(f, none, samples, N, k)
    BY <1>3, LoopExists DEF N
  <2>2. \A T \in SUBSET (1..N) :
          k[T] = IF T = {} THEN none ELSE Measured(k[T \ {Max(T)}], samples[Max(T)])
    BY <1>4, <1>5, <2>1 DEF Loop
  <2>3. Measures(samples, none, k)
    BY <1>1, <2>1, <2>2 DEF Measures
  <2>4. QED
    BY <2>3, Zenon DEF g
<1>7. Follows(f, none, samples, Slas, g)
  <2>1. \A T \in SUBSET (1..N) :
          g[T] = IF T = {} THEN none ELSE Measured(g[T \ {Max(T)}], samples[Max(T)])
    BY <1>1, <1>6 DEF Measures
  <2>2. g[{}] = none
    BY <2>1
  <2>3. QED
    BY <1>4, <1>5, <2>1, <2>2 DEF Follows, N
<1>8. PICK h : LoopedBy(f, none, samples, Slas, g[DOMAIN samples], h)
  BY <1>3, <1>7, LoopSteps, Zenon
<1>9. ASSUME NEW k \in 1..N PROVE h[k] = Measured(h[k - 1], samples[k])
  <2>1. k - 1 \in 0..N
    BY <1>1
  <2>2. h[k - 1] \in Slas /\ h[k] = f[<<h[k - 1], samples[k]>>]
    BY <1>8, <2>1 DEF LoopedBy, N
  <2>3. QED
    BY <1>1, <1>4, <2>2
<1>10. MeasuredBy(samples, none, h)
  BY <1>2, <1>8, <1>9 DEF LoopedBy, MeasuredBy, N
<1>11. QED
  BY <1>10

\* What the loop has after k samples: the mean, and for every state a rate that
\* is at least the share, and the share if no other state came since.
Rating(samples, k, sla) ==
  LET Of(s) == {i \in 1..k : samples[i].status = s} IN
  /\ sla \in Slas /\ sla.count = k
  /\ sla.avg.num * k = SumOf(LatenciesOf(samples), 1..k) * sla.avg.den
  /\ \A s \in 1..3 :
       LET c == Cardinality(Of(s))
           q == sla.rate[s]
       IN /\ c * q.den <= q.num * k
          /\ c = 0 => q.num = 0
          /\ q.num * k = c * q.den <=> \A i \in Of(s) : i..k \subseteq Of(s)

\* One sample more.
LEMMA RatingStep ==
  ASSUME NEW samples \in Seq(Sample), NEW k \in Nat, k + 1 <= Len(samples), NEW sla,
         Rating(samples, k, sla)
  PROVE  Rating(samples, k + 1, Measured(sla, samples[k + 1]))
<1> DEFINE ms == LatenciesOf(samples)
           x == samples[k + 1]
           new == Measured(sla, x)
           Of(s, n) == {i \in 1..n : samples[i].status = s}
<1>1. /\ k + 1 \in 1..Len(samples) /\ DOMAIN samples = 1..Len(samples)
      /\ 1..k \subseteq 1..Len(samples) /\ 1..(k + 1) = 1..k \cup {k + 1} /\ k + 1 \notin 1..k
  OBVIOUS
<1>2. /\ sla \in Slas /\ sla.count = k
      /\ sla.avg.num * k = SumOf(ms, 1..k) * sla.avg.den
      /\ \A s \in 1..3 :
           /\ Cardinality(Of(s, k)) * sla.rate[s].den <= sla.rate[s].num * k
           /\ Cardinality(Of(s, k)) = 0 => sla.rate[s].num = 0
           /\ sla.rate[s].num * k = Cardinality(Of(s, k)) * sla.rate[s].den
                <=> \A i \in Of(s, k) : i..k \subseteq Of(s, k)
  BY DEF Rating
<1>3. \A i \in 1..Len(samples) : samples[i] \in Sample
  OBVIOUS
<1>4. x \in Sample /\ x.ms \in Nat /\ x.status \in 1..3
  <2>1. x \in Sample
    BY <1>3, <1>1
  <2> HIDE DEF x
  <2>2. QED
    BY <2>1 DEF Sample
<1>5. new \in Slas /\ new.count = k + 1
  <2>1. new \in Slas
    BY <1>2, <1>4, MeasuredIn
  <2>2. new.count = k + 1
    BY <1>2 DEF Measured
  <2>3. QED
    BY <2>1, <2>2
<1>6. new.avg.num * (k + 1) = SumOf(ms, 1..(k + 1)) * new.avg.den
  <2>1. \A i \in 1..Len(samples) : ms[i] \in Nat
    <3>1. \A y \in Sample : y.ms \in Nat
      BY DEF Sample
    <3>2. QED
      BY <1>3, <1>1, <3>1 DEF LatenciesOf
  <2>2. ms[k + 1] = x.ms
    BY <1>1 DEF LatenciesOf
  <2> HIDE DEF ms
  <2>3. IsFiniteSet(1..k) /\ Adds(ms, 1..k)
    <3>1. IsFiniteSet(1..k)
      BY FS_Interval
    <3>2. Adds(ms, 1..k)
      BY <1>1, <2>1 DEF Adds
    <3>3. QED
      BY <3>1, <3>2
  <2>4. SumOf(ms, 1..(k + 1)) = SumOf(ms, 1..k) + x.ms
    <3>1. ms[k + 1] \in Int /\ k + 1 \notin 1..k
      BY <1>1, <1>4, <2>2
    <3>2. SumOf(ms, 1..k \cup {k + 1}) = SumOf(ms, 1..k) + ms[k + 1]
      <4> DEFINE P == 1..k
      <4> HIDE DEF P
      <4>1. SumOf(ms, P \cup {k + 1}) = SumOf(ms, P) + ms[k + 1]
        BY <2>3, <3>1, SumAdd DEF P
      <4>2. QED
        BY <4>1 DEF P
    <3>3. QED
      BY <1>1, <2>2, <3>2
  <2>5. SumOf(ms, 1..k) \in Nat
    <3>1. 1..k \in SUBSET (1..k) /\ \A i \in 1..k : ms[i] \in Nat
      BY <1>1, <2>1
    <3>2. QED
      BY <2>3, <3>1, SumPart
  <2>6. new.avg = RunningMean(sla.avg, k + 1, x.ms)
    BY <1>2 DEF Measured
  <2>7. sla.avg \in Fractions
    BY <1>2 DEF Slas
  <2> DEFINE S == SumOf(ms, 1..k)
             q == sla.avg
             m == x.ms
  <2>8. q \in Fractions /\ S \in Nat /\ m \in Nat /\ q.num * k = S * q.den
    BY <1>2, <1>4, <2>5, <2>7
  <2>9. new.avg = RunningMean(q, k + 1, m) /\ SumOf(ms, 1..(k + 1)) = S + m
    BY <2>4, <2>6
  <2> HIDE DEF S, q, m, new, x
  <2>10. RunningMean(q, k + 1, m).num * (k + 1) = (S + m) * RunningMean(q, k + 1, m).den
    <3>1. NextMean(q, k, S, RunningMean(q, k + 1, m), m)
      BY <2>8, RunningMeanIs, Zenon
    <3>2. QED
      BY <2>8, <3>1 DEF NextMean
  <2>11. QED
    BY <2>9, <2>10
<1>7. ASSUME NEW s \in 1..3
      PROVE  LET c == Cardinality(Of(s, k + 1))
                 q == new.rate[s]
             IN /\ c * q.den <= q.num * (k + 1)
                /\ c = 0 => q.num = 0
                /\ q.num * (k + 1) = c * q.den
                     <=> \A i \in Of(s, k + 1) : i..(k + 1) \subseteq Of(s, k + 1)
  <2> DEFINE q == sla.rate[s]
             c == Cardinality(Of(s, k))
             r == new.rate[s]
             d == Cardinality(Of(s, k + 1))
  <2>1. q \in Fractions /\ q.num \in Nat /\ q.den \in Nat /\ q.den > 0
    BY <1>2 DEF Slas, Fractions
  <2>2. IsFiniteSet(Of(s, k)) /\ c \in Nat
    <3>1. IsFiniteSet(1..k) /\ Of(s, k) \in SUBSET (1..k)
      BY FS_Interval
    <3>2. IsFiniteSet(Of(s, k))
      BY <3>1, FS_Subset
    <3> HIDE DEF Of
    <3>3. QED
      BY <3>2, FS_CardinalityType
  <2>3. /\ c * q.den <= q.num * k
        /\ c = 0 => q.num = 0
        /\ q.num * k = c * q.den <=> \A i \in Of(s, k) : i..k \subseteq Of(s, k)
    BY <1>2
  <2>4. CASE s = x.status
    <3>1. Of(s, k + 1) = Of(s, k) \cup {k + 1} /\ k + 1 \notin Of(s, k)
      BY <1>1, <2>4
    <3>2. d = c + 1
      <4> HIDE DEF Of
      <4>1. QED
        BY <2>2, <3>1, FS_AddElement
    <3>3. r = RunningMean(q, k + 1, 1)
      BY <1>2, <1>4, <2>4 DEF Measured, Slas
    <3>4. (\A i \in Of(s, k + 1) : i..(k + 1) \subseteq Of(s, k + 1))
            <=> (\A i \in Of(s, k) : i..k \subseteq Of(s, k))
      <4>1. \A i \in Of(s, k) : i \in 1..k /\ i..(k + 1) = i..k \cup {k + 1} /\ k + 1 \notin i..k
        OBVIOUS
      <4>2. (k + 1)..(k + 1) = {k + 1}
        OBVIOUS
      <4> HIDE DEF Of
      <4>3. QED
        BY <3>1, <4>1, <4>2
    <3> HIDE DEF Of, q, c, new, r, d
    <3>5. /\ (c + 1) * r.den <= r.num * (k + 1) <=> c * q.den <= q.num * k
          /\ r.num * (k + 1) = (c + 1) * r.den <=> q.num * k = c * q.den
      <4>1. 1 \in Nat
        OBVIOUS
      <4>2. QED
        <5>1. NextMean(q, k, c, RunningMean(q, k + 1, 1), 1)
          BY <2>1, <2>2, <4>1, RunningMeanIs, Zenon
        <5>2. QED
          BY <3>3, <5>1 DEF NextMean
    <3>6. d # 0
      BY <2>2, <3>2
    <3>7. QED
      BY <2>3, <3>2, <3>4, <3>5, <3>6 DEF r, d
  <2>5. CASE s # x.status
    <3>1. Of(s, k + 1) = Of(s, k) /\ k + 1 \notin Of(s, k)
      BY <1>1, <2>5
    <3>2. r = q
      BY <1>2, <1>4, <2>5 DEF Measured, Slas
    <3>3. (\A i \in Of(s, k + 1) : i..(k + 1) \subseteq Of(s, k + 1)) <=> c = 0
      <4>1. \A i \in Of(s, k) : k + 1 \in i..(k + 1)
        OBVIOUS
      <4>2. c = 0 <=> Of(s, k) = {}
        <5> HIDE DEF Of
        <5>1. QED
          BY <2>2, FS_EmptySet
      <4> HIDE DEF Of
      <4>3. QED
        BY <3>1, <4>1, <4>2
    <3>4. d = c
      BY <3>1
    <3> DEFINE a == q.num
               e == q.den
    <3>5. a \in Nat /\ e \in Nat /\ e > 0 /\ c * e <= a * k /\ (c = 0 => a = 0)
      BY <2>1, <2>3
    <3> HIDE DEF Of, q, c, new, r, d, a, e
    <3>6. a * (k + 1) = a * k + a /\ a * k \in Nat /\ c * e \in Nat
      BY <2>2, <3>5
    <3>7. c * e <= a * (k + 1)
      BY <3>5, <3>6
    <3>8. a * (k + 1) = c * e <=> c = 0
      <4>1. ASSUME c = 0 PROVE a * (k + 1) = c * e
        BY <3>5, <4>1
      <4>2. ASSUME a * (k + 1) = c * e PROVE c = 0
        <5>1. a = 0
          BY <3>5, <3>6, <4>2
        <5>2. c * e = 0
          BY <4>2, <5>1
        <5>3. \A b \in Nat : b > 0 => b * e > 0
          BY <3>5
        <5>4. QED
          BY <2>2, <5>2, <5>3
      <4>3. QED
        BY <4>1, <4>2
    <3>9. QED
      BY <3>2, <3>3, <3>4, <3>5, <3>7, <3>8 DEF a, e, r, d
  <2>6. QED
    BY <2>4, <2>5
<1>8. QED
  BY <1>5, <1>6, <1>7 DEF Rating

\* No samples.
LEMMA ZeroIs == Fraction(0, 1) \in Fractions /\ Fraction(0, 1).num = 0
<1>1. 0 \in Nat /\ 1 \in Nat /\ 1 > 0
  OBVIOUS
<1> DEFINE z == Fraction(0, 1)
<1>2. z \in Fractions /\ z.num * 1 = 0 * z.den
  BY <1>1, FractionIs
<1> HIDE DEF z
<1>3. z.num \in Nat /\ z.den \in Nat
  BY <1>2 DEF Fractions
<1>4. z \in Fractions /\ z.num = 0
  BY <1>2, <1>3
<1>5. QED
  BY <1>4 DEF z

\* Measures of no sample, with every rate zero, are where the rating starts.
LEMMA RatingStarts ==
  ASSUME NEW samples, NEW sla \in Slas, sla.count = 0, sla.avg.num = 0,
         \A s \in 1..3 : sla.rate[s].num = 0
  PROVE  Rating(samples, 0, sla)
<1>1. 1..0 = {}
  OBVIOUS
<1>2. sla.avg \in Fractions /\ \A s \in 1..3 : sla.rate[s] \in Fractions
  BY DEF Slas
<1>3. \A q \in Fractions : q.num \in Nat /\ q.den \in Nat
  BY DEF Fractions
<1>4. SumOf(LatenciesOf(samples), 1..0) = 0
  <2> DEFINE ms == LatenciesOf(samples)
  <2>1. IsFiniteSet({}) /\ Adds(ms, {})
    BY FS_EmptySet DEF Adds
  <2> HIDE DEF ms
  <2>2. SumOf(ms, {}) = 0
    BY <2>1, SumAdd
  <2>3. QED
    BY <1>1, <2>2 DEF ms
<1>5. \A s : {i \in 1..0 : samples[i].status = s} = {}
  BY <1>1
<1>6. Cardinality({}) = 0
  BY FS_EmptySet
<1>7. sla.avg.num * 0 = SumOf(LatenciesOf(samples), 1..0) * sla.avg.den
  <2>1. sla.avg.den \in Nat
    BY <1>2, <1>3
  <2>2. QED
    BY <1>4, <2>1
<1>8. ASSUME NEW s \in 1..3
      PROVE  LET c == Cardinality({i \in 1..0 : samples[i].status = s})
                 q == sla.rate[s]
             IN /\ c * q.den <= q.num * 0
                /\ c = 0 => q.num = 0
                /\ q.num * 0 = c * q.den
  <2>1. sla.rate[s].num = 0 /\ sla.rate[s].den \in Nat
    BY <1>2, <1>3
  <2>2. Cardinality({i \in 1..0 : samples[i].status = s}) = 0
    BY <1>5, <1>6
  <2>3. QED
    BY <2>1, <2>2
<1>9. QED
  BY <1>5, <1>7, <1>8 DEF Rating

\* The SLA of samples.
LEMMA RatingIs ==
  ASSUME NEW samples \in Seq(Sample), NEW none \in Slas, none.count = 0, none.avg.num = 0,
         \A s \in 1..3 : none.rate[s].num = 0
  PROVE  Rating(samples, Len(samples), FoldLeft(Measured, none, samples))
<1> DEFINE N == Len(samples)
<1>1. N \in Nat
  OBVIOUS
<1>2. PICK h : MeasuredBy(samples, none, h)
  BY MeasuredLoop, Zenon
<1>3. /\ h[0] = none /\ FoldLeft(Measured, none, samples) = h[N]
      /\ \A k \in 1..N : h[k] = Measured(h[k - 1], samples[k])
  BY <1>2 DEF MeasuredBy
<1> DEFINE Good == {k \in Nat : k <= N => Rating(samples, k, h[k])}
<1>4. 0 \in Good
  <2>1. Rating(samples, 0, none)
    BY RatingStarts
  <2>2. QED
    BY <1>3, <2>1
<1>5. ASSUME NEW k \in Nat, k \in Good, k + 1 <= N PROVE k + 1 \in Good
  <2>1. k + 1 \in 1..N /\ (k + 1) - 1 = k /\ k <= N
    BY <1>1, <1>5
  <2>2. Rating(samples, k, h[k])
    BY <1>5, <2>1
  <2>3. Rating(samples, k + 1, Measured(h[k], samples[k + 1]))
    BY <1>5, <2>2, RatingStep
  <2>4. h[k + 1] = Measured(h[k], samples[k + 1])
    BY <1>3, <2>1
  <2>5. QED
    BY <2>3, <2>4
<1>6. Rating(samples, N, h[N])
  <2>1. \A k \in 0..N : k \in Good
    <3> HIDE DEF Good, N
    <3>1. QED
      BY <1>1, <1>4, <1>5, PrefixInduction
  <2>2. N \in 0..N
    BY <1>1
  <2>3. QED
    BY <2>1, <2>2
<1>7. QED
  BY <1>3, <1>6

\* Rates are no less than the shares, and more if another state came since.
LEMMA RatesAre ==
  ASSUME NEW samples \in Seq(Sample), samples # <<>>, NEW sla,
         Rating(samples, Len(samples), sla)
  PROVE  /\ Same(sla.avg, Mean(LatenciesOf(samples)))
         /\ \A status \in 1..3 :
              LET is == {i \in DOMAIN samples : samples[i].status = status} IN
              /\ AtMost(Share(samples, status), sla.rate[status])
              /\ Same(sla.rate[status], Share(samples, status))
                   <=> \A i \in is : i..Len(samples) \subseteq is
<1> DEFINE N == Len(samples)
           ms == LatenciesOf(samples)
           Of(s) == {i \in 1..N : samples[i].status = s}
<1>1. N \in Nat /\ N > 0 /\ DOMAIN samples = 1..N
  <2>1. N \in Nat /\ N # 0
    BY EmptySeq
  <2>2. QED
    BY <2>1
<1>2. \A i \in 1..N : samples[i] \in Sample
  OBVIOUS
<1>3. DOMAIN ms = 1..N /\ Len(ms) = N /\ \A i \in 1..N : ms[i] \in Nat
  <2>1. \A y \in Sample : y.ms \in Nat
    BY DEF Sample
  <2>2. ms = [i \in 1..N |-> samples[i].ms]
    BY <1>1 DEF LatenciesOf
  <2> HIDE DEF N, ms
  <2>3. ms \in [1..N -> Nat]
    BY <1>2, <2>1, <2>2
  <2>4. ms \in Seq(Nat)
    BY <1>1, <2>3
  <2>5. QED
    BY <1>1, <2>3, <2>4
<1>4. /\ sla \in Slas
      /\ sla.avg.num * N = SumOf(ms, 1..N) * sla.avg.den
      /\ \A s \in 1..3 :
           /\ Cardinality(Of(s)) * sla.rate[s].den <= sla.rate[s].num * N
           /\ sla.rate[s].num * N = Cardinality(Of(s)) * sla.rate[s].den
                <=> \A i \in Of(s) : i..N \subseteq Of(s)
  BY DEF Rating
<1>5. sla.avg \in Fractions /\ \A s \in 1..3 : sla.rate[s] \in Fractions
  BY <1>4 DEF Slas
<1>6. IsFiniteSet(1..N)
  BY <1>1, FS_Interval
<1>7. Same(sla.avg, Mean(ms))
  <2> DEFINE S == SumOf(ms, 1..N)
             q == sla.avg
  <2> HIDE DEF N, ms
  <2>1. S \in Nat
    <3>1. 1..N \in SUBSET (1..N)
      OBVIOUS
    <3>2. QED
      BY <1>3, <1>6, <3>1, SumPart
  <2>2. Mean(ms) = Fraction(S, N)
    <3>1. SumFunction(ms) = S
      BY <1>3, SumIsSum, Zenon
    <3>2. QED
      BY <1>3, <3>1 DEF Mean
  <2>3. q \in Fractions /\ q.num * N = S * q.den
    BY <1>4, <1>5
  <2> HIDE DEF S, q
  <2>4. Same(q, Fraction(S, N))
    BY <1>1, <2>1, <2>3, CompareFraction
  <2>5. QED
    BY <2>2, <2>4 DEF q
<1>8. ASSUME NEW status \in 1..3
      PROVE  LET is == {i \in DOMAIN samples : samples[i].status = status} IN
             /\ AtMost(Share(samples, status), sla.rate[status])
             /\ Same(sla.rate[status], Share(samples, status))
                  <=> \A i \in is : i..N \subseteq is
  <2> DEFINE is == {i \in DOMAIN samples : samples[i].status = status}
             c == Cardinality(is)
             q == sla.rate[status]
  <2>1. is = Of(status)
    BY <1>1
  <2>2. c \in Nat
    <3>1. is \in SUBSET (1..N)
      BY <1>1
    <3> HIDE DEF is
    <3>2. IsFiniteSet(is)
      BY <1>6, <3>1, FS_Subset
    <3>3. QED
      BY <3>2, FS_CardinalityType
  <2>3. Share(samples, status) = Fraction(c, N)
    BY DEF Share, Count
  <2>4. /\ c * q.den <= q.num * N
        /\ q.num * N = c * q.den <=> \A i \in is : i..N \subseteq is
    BY <1>4, <2>1
  <2>5. q \in Fractions
    BY <1>5
  <2> HIDE DEF N, is, c, q
  <2>6. /\ AtMost(Fraction(c, N), q) <=> c * q.den <= q.num * N
        /\ Same(q, Fraction(c, N)) <=> q.num * N = c * q.den
    BY <1>1, <2>2, <2>5, CompareFraction
  <2>7. QED
    BY <2>3, <2>4, <2>6 DEF q, is
<1>9. QED
  BY <1>7, <1>8

\* The samples of an operation that occurs.
LEMMA AllSamplesAre ==
  ASSUME NEW listing, IsListing(listing), NEW op
  PROVE  /\ AllSamplesOf(listing, op) \in Seq(Sample)
         /\ op \in Operations(listing) => AllSamplesOf(listing, op) # <<>>
<1> DEFINE sets == OfOperation(listing, op)
           samples == SamplesIn(listing, sets)
           places == Chosen(listing, sets)
<1> HIDE DEF sets
<1>1. PICK b : Sampled(b, listing, sets)
  BY SamplesWhere, Zenon
<1>2. /\ samples \in Seq(Sample) /\ IsFiniteSet(places) /\ Len(samples) = Cardinality(places)
  BY <1>1, SampleSums DEF Sums
<1>3. AllSamplesOf(listing, op) = samples /\ Places(listing, op) = places
  BY OperationSamples DEF sets
<1>4. op \in Operations(listing) => places # {}
  BY <1>3, OperationOccurs
<1> HIDE DEF samples, places
<1>5. places # {} => samples # <<>>
  <2>1. places # {} => Cardinality(places) # 0
    BY <1>2, FS_EmptySet
  <2>2. Len(<<>>) = 0
    OBVIOUS
  <2>3. QED
    BY <1>2, <2>1, <2>2
<1>6. QED
  BY <1>2, <1>3, <1>4, <1>5

\* The rates of an SLA never understate (analysis.go:491-564).
THEOREM RatesAreHigh == OrderSpec => []RatesOverstate
<1>1. IInv /\ trace \in Seq(Spans) => RatesOverstate
  <2> SUFFICES ASSUME IInv, trace \in Seq(Spans), NEW listing \in Listings,
                      NEW op \in Operations(listing)
               PROVE  LET samples == AllSamplesOf(listing, op)
                          sla == CalculateServiceSLAs(listing, op).sla
                      IN /\ Same(sla.avg, Mean(LatenciesOf(samples)))
                         /\ \A status \in 1..3 :
                              LET is == {i \in DOMAIN samples : samples[i].status = status} IN
                              /\ AtMost(Share(samples, status), sla.rate[status])
                              /\ Same(sla.rate[status], Share(samples, status))
                                   <=> \A i \in is : i..Len(samples) \subseteq is
    BY DEF RatesOverstate
  <2> DEFINE samples == AllSamplesOf(listing, op)
             zero == Fraction(0, 1)
             none == [count |-> 0, avg |-> zero, rate |-> [s \in 1..3 |-> zero]]
             sla == FoldLeft(Measured, none, samples)
  <2>1. IsListing(listing)
    BY ListingsAre DEF IInv
  <2>2. samples \in Seq(Sample) /\ samples # <<>>
    BY <2>1, AllSamplesAre
  <2>3. CalculateServiceSLAs(listing, op).sla = sla
    BY DEF CalculateServiceSLAs
  <2>4. zero \in Fractions /\ zero.num = 0
    BY ZeroIs
  <2> HIDE DEF samples, zero
  <2>5. /\ none \in Slas /\ none.count = 0 /\ none.avg.num = 0
        /\ \A s \in 1..3 : none.rate[s].num = 0
    BY <2>4 DEF Slas
  <2> HIDE DEF none
  <2>6. Rating(samples, Len(samples), sla)
    BY <2>2, <2>5, RatingIs
  <2> HIDE DEF sla
  <2>7. /\ Same(sla.avg, Mean(LatenciesOf(samples)))
        /\ \A status \in 1..3 :
             LET is == {i \in DOMAIN samples : samples[i].status = status} IN
             /\ AtMost(Share(samples, status), sla.rate[status])
             /\ Same(sla.rate[status], Share(samples, status))
                  <=> \A i \in is : i..Len(samples) \subseteq is
    BY <2>2, <2>6, RatesAre
  <2>8. QED
    BY <2>3, <2>7 DEF samples
<1>2. QED
  BY <1>1, TracesHoldSpans, PTL

-----------------------------------------------------------------------------
(* The statistics of an operation, as they are accumulated.                *)

\* The statistics of an operation, as they are accumulated.
Infos == [count : Nat, avg : Fractions, min : Nat, max : Nat, errors : Fractions,
          p : [{90, 95, 99} -> Nat]]

\* The smaller and the larger of two numbers.
LEMMA PairBounds ==
  \A a, b \in Nat : /\ Min({a, b}) \in {a, b} /\ Min({a, b}) <= a /\ Min({a, b}) <= b
                    /\ Max({a, b}) \in {a, b} /\ a <= Max({a, b}) /\ b <= Max({a, b})
<1> SUFFICES ASSUME NEW a \in Nat, NEW b \in Nat
             PROVE  /\ Min({a, b}) \in {a, b} /\ Min({a, b}) <= a /\ Min({a, b}) <= b
                    /\ Max({a, b}) \in {a, b} /\ a <= Max({a, b}) /\ b <= Max({a, b})
  OBVIOUS
<1> DEFINE S == {a, b}
<1>1. IsFiniteSet(S) /\ S # {} /\ S \subseteq Int
  <2>1. IsFiniteSet({a})
    BY FS_Singleton
  <2>2. IsFiniteSet({a} \cup {b}) /\ {a} \cup {b} = S
    BY <2>1, FS_AddElement
  <2>3. IsFiniteSet(S)
    BY <2>2
  <2>4. S # {} /\ S \subseteq Int
    OBVIOUS
  <2>5. QED
    BY <2>3, <2>4
<1>2. a \in S /\ b \in S
  OBVIOUS
<1> HIDE DEF S
<1>3. /\ Max(S) \in S /\ \A y \in S : y <= Max(S)
      /\ Min(S) \in S /\ \A y \in S : Min(S) <= y
  BY <1>1, FiniteMax
<1>4. Min(S) \in S /\ Min(S) <= a /\ Min(S) <= b /\ Max(S) \in S /\ a <= Max(S) /\ b <= Max(S)
  BY <1>2, <1>3
<1>5. QED
  BY <1>4 DEF S

\* Statistics stay of their type.
LEMMA RecordedIn == \A info \in Infos, x \in Sample : Recorded(info, x) \in Infos
<1> SUFFICES ASSUME NEW info \in Infos, NEW x \in Sample PROVE Recorded(info, x) \in Infos
  OBVIOUS
<1> DEFINE n == info.count + 1
           avg == RunningMean(info.avg, n, x.ms)
           low == Min({info.min, x.ms})
           high == Max({info.max, x.ms})
           bad == IF x.status = 2 THEN 1 ELSE 0
           errors == RunningMean(info.errors, n, bad)
<1>1. /\ n \in Nat /\ n > 0 /\ info.avg \in Fractions /\ info.errors \in Fractions
      /\ info.min \in Nat /\ info.max \in Nat /\ info.p \in [{90, 95, 99} -> Nat]
  BY DEF Infos
<1>2. x.ms \in Nat /\ bad \in Nat
  BY DEF Sample
<1>3. low \in Nat /\ high \in Nat
  BY <1>1, <1>2, PairBounds
<1>4. avg \in Fractions
  BY <1>1, <1>2, RunningMeanIn
<1>5. errors \in Fractions
  <2> HIDE DEF bad, n
  <2>1. QED
    BY <1>1, <1>2, RunningMeanIn
<1>6. Recorded(info, x) =
        [count |-> n, avg |-> avg, min |-> IF n = 1 THEN x.ms ELSE low, max |-> high,
         errors |-> errors, p |-> info.p]
  BY DEF Recorded
<1> HIDE DEF n, avg, low, high, errors
<1>7. (IF n = 1 THEN x.ms ELSE low) \in Nat
  BY <1>2, <1>3
<1>8. QED
  BY <1>1, <1>3, <1>4, <1>5, <1>6, <1>7 DEF Infos

\* The loop over the samples.
Records(samples, g) ==
  g = [T \in SUBSET DOMAIN samples |->
         IF T = {} THEN NoInfo ELSE Recorded(g[T \ {Max(T)}], samples[Max(T)])]
RecordedBy(samples, h) ==
  /\ h[0] = NoInfo /\ FoldLeft(Recorded, NoInfo, samples) = h[Len(samples)]
  /\ \A k \in 1..Len(samples) : h[k] = Recorded(h[k - 1], samples[k])
  /\ \A k \in 0..Len(samples) : h[k] \in Infos

\* The statistics that GetOperationPerformance starts from are all zero.
LEMMA NoInfoIs == /\ NoInfo \in Infos /\ NoInfo.count = 0 /\ NoInfo.max = 0
                  /\ NoInfo.avg.num = 0 /\ NoInfo.errors.num = 0
<1> DEFINE z == Fraction(0, 1)
<1>1. z \in Fractions /\ z.num = 0
  BY ZeroIs
<1>2. NoInfo = [count |-> 0, avg |-> z, min |-> 0, max |-> 0, errors |-> z,
                p |-> [q \in {90, 95, 99} |-> 0]]
  BY DEF NoInfo
<1> HIDE DEF z
<1>3. QED
  BY <1>1, <1>2 DEF Infos

\* The loop over the samples is a function of the number of samples recorded.
LEMMA RecordedLoop ==
  ASSUME NEW samples \in Seq(Sample)
  PROVE  \E h : RecordedBy(samples, h)
<1> DEFINE N == Len(samples)
           f == [p \in Infos \X Sample |-> Recorded(p[1], p[2])]
           g == CHOOSE g : Records(samples, g)
<1>1. N \in Nat /\ DOMAIN samples = 1..N /\ \A k \in 1..N : samples[k] \in Sample
  OBVIOUS
<1>2. FoldLeft(Recorded, NoInfo, samples) = g[DOMAIN samples]
  BY DEF FoldLeft, MapThenFoldSet, Records
<1>3. f \in [Infos \X Sample -> Infos]
  BY RecordedIn
<1>4. \A info \in Infos, x \in Sample : f[<<info, x>>] = Recorded(info, x)
  OBVIOUS
<1> HIDE DEF f, g, N
<1>5. \A T \in SUBSET (1..N) : T # {} => Max(T) \in 1..N /\ samples[Max(T)] \in Sample
  <2>1. \A T \in SUBSET (1..N) : T # {} => Max(T) \in T
    BY <1>1, MaxIn
  <2>2. QED
    BY <1>1, <2>1
<1>6. Records(samples, g)
  <2>1. PICK k \in [SUBSET (1..N) -> Infos] : Loop(f, NoInfo, samples, N, k)
    BY <1>3, NoInfoIs, LoopExists DEF N
  <2>2. \A T \in SUBSET (1..N) :
          k[T] = IF T = {} THEN NoInfo ELSE Recorded(k[T \ {Max(T)}], samples[Max(T)])
    BY <1>4, <1>5, <2>1 DEF Loop
  <2>3. Records(samples, k)
    BY <1>1, <2>1, <2>2 DEF Records
  <2>4. QED
    BY <2>3, Zenon DEF g
<1>7. Follows(f, NoInfo, samples, Infos, g)
  <2>1. \A T \in SUBSET (1..N) :
          g[T] = IF T = {} THEN NoInfo ELSE Recorded(g[T \ {Max(T)}], samples[Max(T)])
    BY <1>1, <1>6 DEF Records
  <2>2. g[{}] = NoInfo
    BY <2>1
  <2>3. QED
    BY <1>4, <1>5, <2>1, <2>2 DEF Follows, N
<1>8. PICK h : LoopedBy(f, NoInfo, samples, Infos, g[DOMAIN samples], h)
  <2>1. NoInfo \in Infos
    BY NoInfoIs
  <2>2. QED
    BY <1>3, <1>7, <2>1, LoopSteps, Zenon
<1>9. ASSUME NEW k \in 1..N PROVE h[k] = Recorded(h[k - 1], samples[k])
  <2>1. k - 1 \in 0..N
    BY <1>1
  <2>2. h[k - 1] \in Infos /\ h[k] = f[<<h[k - 1], samples[k]>>]
    BY <1>8, <2>1 DEF LoopedBy, N
  <2>3. QED
    BY <1>1, <1>4, <2>2
<1>10. RecordedBy(samples, h)
  BY <1>2, <1>8, <1>9 DEF LoopedBy, RecordedBy, N
<1>11. QED
  BY <1>10

\* The statistics are those of the values ms and the states of the elements of P.
Tallies(info, ms, status, P) ==
  /\ info \in Infos /\ IsFiniteSet(P) /\ info.count = Cardinality(P)
  /\ \A c \in P : ms[c] \in Nat
  /\ info.avg.num * Cardinality(P) = SumOf(ms, P) * info.avg.den
  /\ info.errors.num * Cardinality(P) = Cardinality({c \in P : status[c] = 2}) * info.errors.den
  /\ \A c \in P : info.min <= ms[c] /\ ms[c] <= info.max
  /\ IF P = {} THEN info.max = 0
     ELSE (\E c \in P : ms[c] = info.min) /\ (\E c \in P : ms[c] = info.max)

\* One element more.
LEMMA TalliesStep ==
  ASSUME NEW info, NEW ms, NEW status, NEW P, Tallies(info, ms, status, P), NEW x, x \notin P,
         NEW sample \in Sample, ms[x] = sample.ms, status[x] = sample.status
  PROVE  Tallies(Recorded(info, sample), ms, status, P \cup {x})
<1> DEFINE Q == P \cup {x}
           n == Cardinality(P)
           new == Recorded(info, sample)
           bad == IF sample.status = 2 THEN 1 ELSE 0
           v == sample.ms
           Failed(R) == {c \in R : status[c] = 2}
<1>1. /\ info \in Infos /\ IsFiniteSet(P) /\ info.count = n
      /\ \A c \in P : ms[c] \in Nat
      /\ info.avg.num * n = SumOf(ms, P) * info.avg.den
      /\ info.errors.num * n = Cardinality(Failed(P)) * info.errors.den
      /\ \A c \in P : info.min <= ms[c] /\ ms[c] <= info.max
      /\ P = {} => info.max = 0
      /\ P # {} => (\E c \in P : ms[c] = info.min) /\ (\E c \in P : ms[c] = info.max)
  BY DEF Tallies
<1>2. v \in Nat /\ bad \in Nat /\ ms[x] = v
  BY DEF Sample
<1>3. n \in Nat /\ IsFiniteSet(Q) /\ Cardinality(Q) = n + 1
  <2>1. n \in Nat
    BY <1>1, FS_CardinalityType
  <2>2. IsFiniteSet(Q) /\ Cardinality(Q) = n + 1
    BY <1>1, FS_AddElement
  <2>3. QED
    BY <2>1, <2>2
<1>4. /\ new \in Infos /\ new.count = n + 1
      /\ new.avg = RunningMean(info.avg, n + 1, v)
      /\ new.errors = RunningMean(info.errors, n + 1, bad)
      /\ new.min = (IF n + 1 = 1 THEN v ELSE Min({info.min, v}))
      /\ new.max = Max({info.max, v})
  <2>1. new \in Infos
    BY <1>1, RecordedIn
  <2>2. QED
    BY <1>1, <2>1 DEF Recorded
<1>5. info.avg \in Fractions /\ info.errors \in Fractions /\ info.min \in Nat /\ info.max \in Nat
  BY <1>1 DEF Infos
<1>6. \A c \in Q : ms[c] \in Nat
  BY <1>1, <1>2
<1>7. new.avg.num * (n + 1) = SumOf(ms, Q) * new.avg.den
  <2>1. Adds(ms, P)
    BY <1>1 DEF Adds
  <2>2. SumOf(ms, Q) = SumOf(ms, P) + v
    <3>1. ms[x] \in Int
      BY <1>2
    <3>2. SumOf(ms, P \cup {x}) = SumOf(ms, P) + ms[x]
      BY <1>1, <2>1, <3>1, SumAdd
    <3>3. QED
      BY <1>2, <3>2
  <2> DEFINE S == SumOf(ms, P)
             q == info.avg
             r == RunningMean(q, n + 1, v)
  <2>3. S \in Nat
    <3>1. P \in SUBSET P
      OBVIOUS
    <3>2. QED
      BY <1>1, <3>1, SumPart
  <2>4. q \in Fractions /\ q.num * n = S * q.den
    BY <1>1, <1>5
  <2> HIDE DEF S, q, n, v
  <2>5. NextMean(q, n, S, r, v)
    BY <1>2, <1>3, <2>3, <2>4, RunningMeanIs, Zenon
  <2>6. r.num * (n + 1) = (S + v) * r.den
    BY <2>4, <2>5 DEF NextMean
  <2>7. new.avg = r /\ SumOf(ms, Q) = S + v
    BY <1>4, <2>2 DEF q, S
  <2> HIDE DEF new, r, Q
  <2>8. QED
    BY <2>6, <2>7
<1>8. new.errors.num * (n + 1) = Cardinality(Failed(Q)) * new.errors.den
  <2> DEFINE S == Cardinality(Failed(P))
             q == info.errors
             r == RunningMean(q, n + 1, bad)
  <2>1. IsFiniteSet(Failed(P)) /\ S \in Nat
    <3>1. Failed(P) \in SUBSET P
      OBVIOUS
    <3> HIDE DEF Failed
    <3>2. IsFiniteSet(Failed(P))
      BY <1>1, <3>1, FS_Subset
    <3>3. QED
      BY <3>2, FS_CardinalityType
  <2>2. Cardinality(Failed(Q)) = S + bad
    <3>1. CASE sample.status = 2
      <4>1. Failed(Q) = Failed(P) \cup {x} /\ x \notin Failed(P)
        BY <3>1
      <4> HIDE DEF Failed
      <4>2. Cardinality(Failed(P) \cup {x}) = S + 1
        BY <2>1, <4>1, FS_AddElement
      <4>3. QED
        BY <3>1, <4>1, <4>2
    <3>2. CASE sample.status # 2
      <4>1. Failed(Q) = Failed(P)
        BY <3>2
      <4> HIDE DEF Failed
      <4>2. QED
        BY <2>1, <3>2, <4>1
    <3>3. QED
      BY <3>1, <3>2
  <2>3. q \in Fractions /\ q.num * n = S * q.den
    BY <1>1, <1>5
  <2> HIDE DEF S, q, n, bad
  <2>4. NextMean(q, n, S, r, bad)
    BY <1>2, <1>3, <2>1, <2>3, RunningMeanIs, Zenon
  <2>5. r.num * (n + 1) = (S + bad) * r.den
    BY <2>3, <2>4 DEF NextMean
  <2>6. new.errors = r
    BY <1>4 DEF q
  <2> HIDE DEF new, r, Failed
  <2>7. QED
    BY <2>2, <2>5, <2>6
<1>9. P = {} <=> n = 0
  BY <1>1, FS_EmptySet
<1> DEFINE a == info.min
           b == info.max
<1>10. /\ Min({a, v}) \in {a, v} /\ Min({a, v}) <= a /\ Min({a, v}) <= v
       /\ Max({b, v}) \in {b, v} /\ b <= Max({b, v}) /\ v <= Max({b, v})
  BY <1>2, <1>5, PairBounds
<1> DEFINE low == new.min
           high == new.max
<1>11. low \in Nat /\ high \in Nat
  BY <1>4 DEF Infos
<1>12. low = (IF n = 0 THEN v ELSE Min({a, v})) /\ high = Max({b, v})
  BY <1>3, <1>4
<1>13. (\A c \in P : a <= ms[c] /\ ms[c] <= b) /\ (P = {} => b = 0)
       /\ (P # {} => (\E c \in P : ms[c] = a) /\ (\E c \in P : ms[c] = b))
  BY <1>1
<1>14. a \in Nat /\ b \in Nat
  BY <1>5
<1> HIDE DEF new, n, v, a, b, low, high
<1>15. \A c \in Q : low <= ms[c] /\ ms[c] <= high
  <2>1. low <= v /\ v <= high
    BY <1>2, <1>10, <1>12
  <2>2. P # {} => low <= a /\ b <= high
    BY <1>9, <1>10, <1>12
  <2>3. \A c \in P : low <= ms[c] /\ ms[c] <= high
    BY <1>1, <1>11, <1>13, <1>14, <2>2
  <2>4. QED
    BY <1>2, <2>1, <2>3
<1>16. (\E c \in Q : ms[c] = low) /\ (\E c \in Q : ms[c] = high)
  <2>1. x \in Q /\ ms[x] = v
    BY <1>2
  <2>2. CASE P = {}
    <3>1. low = v /\ high = v
      BY <1>2, <1>9, <1>10, <1>12, <1>13, <2>2
    <3>2. QED
      BY <2>1, <3>1
  <2>3. CASE P # {}
    <3>1. low \in {a, v} /\ high \in {b, v}
      BY <1>9, <1>10, <1>12, <2>3
    <3>2. (\E c \in Q : ms[c] = a) /\ (\E c \in Q : ms[c] = b)
      BY <1>13, <2>3
    <3>3. QED
      BY <2>1, <3>1, <3>2
  <2>4. QED
    BY <2>2, <2>3
<1>17. Q # {}
  OBVIOUS
<1>18. Tallies(new, ms, status, Q)
  <2>1. new \in Infos /\ new.count = Cardinality(Q)
    BY <1>3, <1>4
  <2> HIDE DEF Q
  <2>2. QED
    BY <1>3, <1>6, <1>7, <1>8, <1>15, <1>16, <1>17, <2>1 DEF Tallies, low, high
<1>19. QED
  BY <1>18 DEF new

\* The statistics of samples.
LEMMA RecordingIs ==
  ASSUME NEW samples \in Seq(Sample)
  PROVE  Tallies(FoldLeft(Recorded, NoInfo, samples), LatenciesOf(samples),
                 [i \in DOMAIN samples |-> samples[i].status], 1..Len(samples))
<1> DEFINE N == Len(samples)
           ms == LatenciesOf(samples)
           status == [i \in DOMAIN samples |-> samples[i].status]
<1>1. N \in Nat /\ DOMAIN samples = 1..N /\ \A i \in 1..N : samples[i] \in Sample
  OBVIOUS
<1>2. \A i \in 1..N : ms[i] = samples[i].ms /\ status[i] = samples[i].status
  BY <1>1 DEF LatenciesOf
<1>3. PICK h : RecordedBy(samples, h)
  BY RecordedLoop, Zenon
<1>4. /\ h[0] = NoInfo /\ FoldLeft(Recorded, NoInfo, samples) = h[N]
      /\ \A k \in 1..N : h[k] = Recorded(h[k - 1], samples[k])
  BY <1>3 DEF RecordedBy
<1> HIDE DEF N, ms, status
<1> DEFINE Good == {k \in Nat : k <= N => Tallies(h[k], ms, status, 1..k)}
<1>5. 0 \in Good
  <2>1. 1..0 = {} /\ {c \in {} : status[c] = 2} = {}
    OBVIOUS
  <2>2. IsFiniteSet({}) /\ Cardinality({}) = 0
    BY FS_EmptySet
  <2>3. SumOf(ms, {}) = 0
    <3>1. Adds(ms, {})
      BY DEF Adds
    <3>2. QED
      BY <2>2, <3>1, SumAdd
  <2> DEFINE a == NoInfo.avg
             e == NoInfo.errors
  <2>4. a.num = 0 /\ e.num = 0 /\ a.den \in Nat /\ e.den \in Nat
    <3>1. a \in Fractions /\ e \in Fractions
      BY NoInfoIs DEF Infos
    <3>2. QED
      BY <3>1, NoInfoIs DEF Fractions
  <2>5. a.num * 0 = 0 * a.den /\ e.num * 0 = 0 * e.den
    <3> HIDE DEF a, e
    <3>1. QED
      BY <2>4
  <2>6. Tallies(NoInfo, ms, status, {})
    BY <2>1, <2>2, <2>3, <2>5, NoInfoIs DEF Tallies
  <2>7. QED
    BY <1>4, <2>1, <2>6
<1>6. ASSUME NEW k \in Nat, k \in Good, k + 1 <= N PROVE k + 1 \in Good
  <2>1. k + 1 \in 1..N /\ (k + 1) - 1 = k /\ k <= N
    BY <1>1, <1>6
  <2>2. Tallies(h[k], ms, status, 1..k)
    BY <1>6, <2>1
  <2>3. 1..(k + 1) = 1..k \cup {k + 1} /\ k + 1 \notin 1..k
    OBVIOUS
  <2> DEFINE P == 1..k
             x == k + 1
             sample == samples[x]
  <2>4. sample \in Sample /\ ms[x] = sample.ms /\ status[x] = sample.status
    BY <1>1, <1>2, <2>1
  <2>5. Tallies(h[k], ms, status, P) /\ x \notin P
    BY <2>2, <2>3
  <2> HIDE DEF P, x, sample
  <2>6. Tallies(Recorded(h[k], sample), ms, status, P \cup {x})
    BY <2>4, <2>5, TalliesStep
  <2>7. P \cup {x} = 1..(k + 1)
    BY <2>3 DEF P, x
  <2>8. h[k + 1] = Recorded(h[(k + 1) - 1], samples[k + 1])
    BY <1>4, <2>1
  <2>9. h[k + 1] = Recorded(h[k], sample)
    BY <2>1, <2>8 DEF x, sample
  <2>10. Tallies(h[k + 1], ms, status, 1..(k + 1))
    BY <2>6, <2>7, <2>9, Zenon
  <2>11. QED
    BY <2>10
<1>7. Tallies(h[N], ms, status, 1..N)
  <2>1. \A k \in 0..N : k \in Good
    <3> HIDE DEF Good
    <3>1. QED
      BY <1>1, <1>5, <1>6, PrefixInduction
  <2>2. N \in 0..N
    BY <1>1
  <2>3. QED
    BY <2>1, <2>2
<1>8. QED
  BY <1>4, <1>7 DEF N, ms, status

\* AnalyzeLatency counts the spans of the operation.
LEMMA AnalyzedCount ==
  ASSUME NEW t, IsTrace(t), NEW op
  PROVE  AnalyzeLatency(t, op).count
           = Cardinality({k \in 1..Len(t.spans) : t.spans[k] \in SpansOf(t, op)})
<1> DEFINE S == SpansOf(t, op)
           samples == SamplesOf(t, S)
           info == FoldLeft(Recorded, NoInfo, samples)
           places == {k \in 1..Len(t.spans) : t.spans[k] \in S}
<1> HIDE DEF S
<1>1. samples \in Seq(Sample) /\ Len(samples) = Len(Those(t.spans, S))
  BY SamplesOfWhere
<1>2. PICK b : Selected(b, t.spans, S)
  <2>1. t.spans \in Seq(Spans)
    BY DEF IsTrace
  <2>2. QED
    BY <2>1, ThoseWhere, Zenon
<1>3. Cardinality(places) = Len(samples)
  <2>1. Numbers(b, Len(samples), places)
    BY <1>1, <1>2 DEF Selected
  <2> HIDE DEF places, samples
  <2>2. QED
    BY <2>1, NumbersCount
<1>4. info \in Infos /\ info.count = Len(samples)
  <2> DEFINE status == [i \in DOMAIN samples |-> samples[i].status]
  <2>1. Tallies(info, LatenciesOf(samples), status, 1..Len(samples))
    BY <1>1, RecordingIs
  <2>2. Len(samples) \in Nat
    BY <1>1
  <2> HIDE DEF samples, info, status
  <2>3. Cardinality(1..Len(samples)) = Len(samples)
    BY <2>2, FS_Interval
  <2>4. QED
    BY <2>1, <2>3 DEF Tallies
<1>5. AnalyzeLatency(t, op)
        = [info EXCEPT !.p = [q \in {90, 95, 99} |-> Percentile(LatenciesOf(samples), q)]]
  BY DEF AnalyzeLatency, S
<1> HIDE DEF samples, info
<1>6. AnalyzeLatency(t, op).count = info.count
  BY <1>4, <1>5 DEF Infos
<1>7. QED
  BY <1>3, <1>4, <1>6 DEF S

-----------------------------------------------------------------------------
(* The view of one trace: its one root, the own times of its spans, which add *)
(* up to no more than the latency of the root, and its bottlenecks.        *)

\* A trace has one root, and spans that have been started.
OneRoot ==
  /\ Range(trace) \subseteq Started
  /\ \A r, s \in Started : parent[r] = NoSpan /\ parent[s] = NoSpan => r = s

\* A trace has one root: only the first span starts without a parent.
LEMMA RootIsUnique == OrderSpec => []OneRoot
<1>1. OrderInit => OneRoot
  <2> SUFFICES ASSUME OrderInit PROVE OneRoot
    OBVIOUS
  <2>1. Range(trace) = {} /\ Started = {}
    BY DEF OrderInit, Init, Started, Range
  <2>2. QED
    BY <2>1 DEF OneRoot
<1>2. OneRoot /\ IInv /\ trace \in Seq(Spans) /\ [OrderNext]_orderVars => OneRoot'
  <2> SUFFICES ASSUME OneRoot, IInv, trace \in Seq(Spans), [OrderNext]_orderVars PROVE OneRoot'
    OBVIOUS
  <2>0. /\ node \in [Spans -> Nodes \cup {NoSpan}] /\ parent \in [Spans -> Spans \cup {NoSpan}]
        /\ NoSpan \notin Spans /\ NoSpan \notin Nodes
    BY NoSpanAssumption DEF IInv, TypeOK, Started
  <2>1. CASE UNCHANGED orderVars
    BY <2>1 DEF OneRoot, Started, orderVars, vars, Range
  <2>2. ASSUME NEW s \in Spans, StoreSpan(s) PROVE OneRoot'
    <3>1. trace' = Append(trace, s) /\ s \in Started /\ UNCHANGED vars
      BY <2>2 DEF StoreSpan
    <3>2. Range(trace') = Range(trace) \cup {s}
      BY <3>1, Appended
    <3>3. Started' = Started /\ parent' = parent
      BY <3>1 DEF vars, Started
    <3>4. QED
      BY <3>1, <3>2, <3>3 DEF OneRoot
  <2>3. ASSUME NEW s \in Spans, NEW n \in Nodes, NEW p \in Spans \cup {NoSpan}, NEW vc, NEW a,
               StartSpan(s, n, p, vc, a), Started = {} \/ p \in Started, UNCHANGED trace
        PROVE  OneRoot'
    <3>1. /\ s \notin Started /\ Started' = Started \cup {s}
          /\ \A r \in Started : parent'[r] = parent[r] /\ parent'[s] = p
      BY <2>0, <2>3 DEF StartSpan, Started
    <3>2. Started # {} => p # NoSpan
      BY <2>0, <2>3 DEF Started
    <3>3. parent'[s] = p
      BY <2>0, <2>3 DEF StartSpan
    <3>4. QED
      BY <2>3, <3>1, <3>2, <3>3 DEF OneRoot
  <2>4. CASE Start
    <3>1. UNCHANGED trace
      BY <2>4 DEF Start
    <3>2. PICK s \in Spans, n \in Nodes :
            \/ Started = {} /\ StartRoot(s, n)
            \/ \E p \in Spans : \/ StartChild(s, n, p) \/ StartWithoutClock(s, n, p)
                                \/ StartSpanFromContext(s, n, p)
      BY <2>4 DEF Start
    <3>3. CASE Started = {} /\ StartRoot(s, n)
      BY <2>3, <3>1, <3>3 DEF StartRoot
    <3>4. ASSUME NEW p \in Spans,
                 \/ StartChild(s, n, p) \/ StartWithoutClock(s, n, p)
                 \/ StartSpanFromContext(s, n, p)
          PROVE  OneRoot'
      <4>1. p \in Started /\ \E vc, a : StartSpan(s, n, p, vc, a)
        BY <3>4 DEF StartChild, StartWithoutClock, StartSpanFromContext
      <4>2. QED
        BY <2>3, <3>1, <4>1
    <3>5. QED
      BY <3>2, <3>3, <3>4
  <2>5. QED
    BY <2>1, <2>2, <2>4 DEF OrderNext
<1>3. QED
  BY <1>1, <1>2, TracesHoldSpans, PTL DEF OrderSpec

\* SetToSeq is one of the orders.
LEMMA SomeOrder ==
  ASSUME NEW K, IsFiniteSet(K)
  PROVE  SetToSeq(K) \in SetToSeqs(K)
<1> DEFINE n == Cardinality(K)
<1>1. PICK f : f \in Bijection(1..n, K)
  BY FS_CardinalityType DEF ExistsBijection
<1>2. f \in [1..n -> K] /\ IsInjective(f)
  BY <1>1 DEF Bijection, Injection
<1> DEFINE Is(g) == g \in [1..n -> K] /\ IsInjective(g)
<1> DEFINE k == CHOOSE g \in [1..n -> K] : IsInjective(g)
<1>3. k \in [1..n -> K] /\ IsInjective(k)
  <2> HIDE DEF n
  <2>1. QED
    BY <1>2, Zenon
<1>4. SetToSeq(K) = k
  BY DEF SetToSeq
<1>5. \A i, j \in 1..n : i # j => k[i] # k[j]
  <2> HIDE DEF k, n
  <2>1. QED
    BY <1>3 DEF IsInjective
<1> HIDE DEF k
<1>6. QED
  BY <1>3, <1>4, <1>5 DEF SetToSeqs

\* What the view of a trace shows: every span once, and a nil for a missing parent.
LEMMA ViewOrder ==
  ASSUME IInv, trace \in Seq(Spans)
  PROVE  LET spans == OrderSpans(trace, SetToSeq(Keys(trace))) IN
         /\ Lists(spans, Range(trace))
         /\ Len(trace) <= 1 => spans = trace
         /\ Len(trace) > 1 =>
              /\ \A i, j \in 1..Len(spans) : spans[i] = spans[j] /\ spans[i] # NoSpan => i = j
              /\ NoSpan \in Range(spans) =>
                   \E s \in Range(trace) : parent[s] \notin Range(trace) \cup {NoSpan}
<1> DEFINE keys == SetToSeq(Keys(trace))
           spans == OrderSpans(trace, keys)
<1>1. /\ parent \in [Spans -> Spans \cup {NoSpan}] /\ NoSpan \notin Spans
  BY NoSpanAssumption DEF IInv, TypeOK, Started
<1>2. keys \in SetToSeqs(Keys(trace))
  <2>1. IsFiniteSet(Keys(trace))
    BY <1>1, GraphHas
  <2>2. QED
    BY <2>1, SomeOrder
<1> HIDE DEF keys
<1>3. Lists(spans, Range(trace)) /\ (Len(trace) <= 1 => spans = trace)
  BY <1>2, OrderLists
<1>4. ASSUME Len(trace) > 1
      PROVE  /\ \A i, j \in 1..Len(spans) : spans[i] = spans[j] /\ spans[i] # NoSpan => i = j
             /\ NoSpan \in Range(spans) =>
                  \E s \in Range(trace) : parent[s] \notin Range(trace) \cup {NoSpan}
  <2>1. PICK ordered \in Seq(Keys(trace)) :
           /\ IsInjective(ordered) /\ Range(ordered) = Keys(trace)
           /\ Len(spans) = Len(ordered)
           /\ \A i \in 1..Len(ordered) : spans[i] =
                IF ordered[Len(ordered) - i + 1] \in Range(trace)
                THEN ordered[Len(ordered) - i + 1] ELSE NoSpan
    BY <1>2, <1>4, OrderIs
  <2> DEFINE n == Len(ordered)
  <2>2. n \in Nat /\ DOMAIN ordered = 1..n /\ DOMAIN spans = 1..n
    BY <1>3, <2>1 DEF Lists
  <2> HIDE DEF spans, n
  <2>3. \A i, j \in 1..n : ordered[i] = ordered[j] => i = j
    BY <2>1, <2>2 DEF IsInjective
  <2>4. \A i \in 1..n : n - i + 1 \in 1..n
    BY <2>2
  <2>5. \A i \in 1..n : spans[i] = IF ordered[n - i + 1] \in Range(trace)
                                   THEN ordered[n - i + 1] ELSE NoSpan
    BY <2>1 DEF n
  <2>6. \A i, j \in 1..n : spans[i] = spans[j] /\ spans[i] # NoSpan => i = j
    <3> TAKE i \in 1..n, j \in 1..n
    <3> SUFFICES ASSUME spans[i] = spans[j], spans[i] # NoSpan PROVE i = j
      OBVIOUS
    <3>1. ordered[n - i + 1] = ordered[n - j + 1]
      BY <2>5
    <3>2. n - i + 1 = n - j + 1
      BY <2>3, <2>4, <3>1
    <3>3. QED
      BY <2>2, <3>2
  <2>7. ASSUME NoSpan \in Range(spans)
        PROVE  \E s \in Range(trace) : parent[s] \notin Range(trace) \cup {NoSpan}
    <3>1. PICK i \in 1..n : spans[i] = NoSpan
      BY <2>2, <2>7 DEF Range
    <3>2. ordered[n - i + 1] \in Keys(trace) /\ NoSpan \notin Keys(trace)
      BY <2>1, <2>2, <2>4 DEF Range, Keys
    <3>3. ordered[n - i + 1] \notin Range(trace)
      BY <2>5, <3>1, <3>2
    <3>4. QED
      BY <3>2, <3>3 DEF Keys
  <2>8. QED
    BY <2>1, <2>6, <2>7 DEF n
<1>5. QED
  BY <1>3, <1>4 DEF keys

\* Those of S whose parent is in T.
Below(S, T) == {c \in S : parent[c] \in T}

\* Summed over the parents, the sums over children are a sum over all of them.
LEMMA SumOfChildren ==
  ASSUME NEW S, IsFiniteSet(S), NEW f, \A s \in S : f[s] \in Int, NEW g,
         \A s \in S : g[s] = SumOf(f, Below(S, {s}))
  PROVE  SumOf(g, S) = SumOf(f, Below(S, S))
<1> DEFINE Kids(T) == Below(S, T)
           Good == {T \in SUBSET S : SumOf(g, T) = SumOf(f, Kids(T))}
<1>1. ASSUME NEW T \in SUBSET S PROVE IsFiniteSet(T) /\ Adds(f, T)
  <2>1. IsFiniteSet(T)
    BY FS_Subset
  <2>2. QED
    BY <2>1 DEF Adds
<1>2. /\ \A s \in S : g[s] = SumOf(f, Kids({s}))
      /\ \A T : Kids(T) \in SUBSET S
  BY DEF Below
<1>3. \A T \in SUBSET S : SumOf(f, T) \in Int
  BY <1>1, SumAdd
<1>4. \A s \in S : g[s] \in Int
  BY <1>2, <1>3
<1>5. \A T \in SUBSET S : Adds(g, T)
  BY <1>4 DEF Adds
<1>6. {} \in Good
  <2>1. Kids({}) = {} /\ {} \in SUBSET S
    BY DEF Below
  <2>2. SumOf(g, {}) = 0 /\ SumOf(f, {}) = 0
    BY <1>1, <1>5, <2>1, SumAdd
  <2>3. QED
    BY <2>1, <2>2
<1>7. ASSUME NEW T \in SUBSET S, NEW s \in S \ T, T \in Good PROVE T \cup {s} \in Good
  <2> DEFINE K == Kids({s})
  <2>1. Kids(T \cup {s}) = Kids(T) \cup K /\ Kids(T) \cap K = {}
    BY DEF Below
  <2>2. Kids(T) \in SUBSET S /\ K \in SUBSET S
    BY <1>2
  <2>3. g[s] = SumOf(f, K) /\ g[s] \in Int
    BY <1>2, <1>4
  <2>4. SumOf(g, T \cup {s}) = SumOf(g, T) + g[s]
    BY <1>1, <1>5, <2>3, SumAdd
  <2>5. SumOf(g, T) = SumOf(f, Kids(T))
    BY <1>7
  <2> HIDE DEF Kids, K
  <2>6. SumOf(f, Kids(T) \cup K) = SumOf(f, Kids(T)) + SumOf(f, K)
    BY <1>1, <2>1, <2>2, SumSplit
  <2>7. SumOf(g, T \cup {s}) = SumOf(f, Kids(T \cup {s}))
    BY <2>1, <2>3, <2>4, <2>5, <2>6
  <2>8. QED
    BY <2>7
<1>8. S \in Good
  <2> HIDE DEF Good
  <2>1. QED
    BY <1>6, <1>7, ElementInduction
<1>9. QED
  BY <1>8

\* S is a tree: all but its root have their parents in it.
TreeOf(S, root) ==
  /\ root \in S /\ parent[root] \notin S
  /\ \A s \in S : s # root => parent[s] \in S

\* own has the own times of the spans of S, whose latencies are f.
OwnTimes(own, f, S) == \A s \in S : own[s] = f[s] - SumOf(f, Below(S, {s}))

\* The own times of all spans of a tree make the latency of its root.
LEMMA OwnTimesAddUp ==
  ASSUME NEW S, IsFiniteSet(S), NEW f \in [S -> Nat], NEW own, OwnTimes(own, f, S),
         NEW root, TreeOf(S, root)
  PROVE  SumOf(own, S) = f[root] /\ \A s \in S : own[s] \in Int
<1>0. /\ \A s \in S : own[s] = f[s] - SumOf(f, Below(S, {s}))
      /\ root \in S /\ parent[root] \notin S /\ \A s \in S : s # root => parent[s] \in S
  BY DEF OwnTimes, TreeOf
<1> DEFINE g == [s \in S |-> SumOf(f, Below(S, {s}))]
<1>1. \A s \in S : f[s] \in Int /\ g[s] = SumOf(f, Below(S, {s}))
  OBVIOUS
<1> HIDE DEF g
<1>2. SumOf(g, S) = SumOf(f, Below(S, S)) /\ \A s \in S : g[s] \in Int
  <2>1. \A s \in S : f[s] \in Int
    BY <1>1
  <2>2. \A s \in S : g[s] = SumOf(f, Below(S, {s}))
    BY <1>1
  <2>3. SumOf(g, S) = SumOf(f, Below(S, S))
    BY <2>1, <2>2, SumOfChildren, Zenon
  <2>4. ASSUME NEW s \in S PROVE g[s] \in Int
    <3>1. Below(S, {s}) \in SUBSET S
      BY DEF Below
    <3>2. IsFiniteSet(Below(S, {s}))
      BY <3>1, FS_Subset
    <3>3. Adds(f, Below(S, {s}))
      BY <2>1, <3>1, <3>2 DEF Adds
    <3>4. SumOf(f, Below(S, {s})) \in Int
      BY <3>2, <3>3, SumAdd, Zenon
    <3>5. QED
      BY <2>2, <3>4
  <2>5. QED
    BY <2>3, <2>4
<1>3. Below(S, S) = S \ {root}
  BY <1>0 DEF Below
<1>4. \A s \in S : own[s] = f[s] - g[s]
  BY <1>0, <1>1
<1>5. \A s \in S : own[s] \in Int /\ f[s] = own[s] + g[s]
  BY <1>1, <1>2, <1>4
<1>6. Adds(own, S) /\ Adds(g, S) /\ Adds(f, S)
  BY <1>1, <1>2, <1>5 DEF Adds
<1>7. SumOf(f, S) = SumOf(own, S) + SumOf(g, S)
  BY <1>5, <1>6, SumPlus
<1>8. SumOf(f, S) = f[root] + SumOf(f, S \ {root})
  BY <1>0, <1>6, SumStep
<1>9. SumOf(own, S) \in Int /\ SumOf(f, S \ {root}) \in Int /\ f[root] \in Int
  <2>1. SumOf(own, S) \in Int
    BY <1>6, SumAdd
  <2>2. IsFiniteSet(S \ {root}) /\ Adds(f, S \ {root})
    <3>1. S \ {root} \in SUBSET S
      OBVIOUS
    <3>2. IsFiniteSet(S \ {root})
      BY <3>1, FS_Subset
    <3>3. QED
      BY <1>1, <3>2 DEF Adds
  <2>3. SumOf(f, S \ {root}) \in Int
    BY <2>2, SumAdd
  <2>4. QED
    BY <1>0, <1>1, <2>1, <2>3
<1>10. SumOf(own, S) = f[root]
  <2>1. SumOf(g, S) = SumOf(f, S \ {root})
    BY <1>2, <1>3, Zenon
  <2>2. QED
    BY <1>7, <1>8, <1>9, <2>1
<1>11. QED
  BY <1>5, <1>10

\* What is reported and what is left out of it.
LEMMA ReportedShare ==
  ASSUME NEW S, IsFiniteSet(S), NEW own, \A s \in S : own[s] \in Nat, NEW B \in SUBSET S,
         NEW m \in Nat, SumOf(own, S) = m, NEW total \in Nat
  PROVE  /\ SumOf(own, B) <= m
         /\ (\A s \in S \ B : 10 * own[s] <= total) =>
              10 * (m - SumOf(own, B)) <= Cardinality(S \ B) * total
<1> DEFINE R == S \ B
<1>1. B \cap R = {} /\ B \cup R = S /\ R \in SUBSET S
  OBVIOUS
<1> HIDE DEF R
<1>2. IsFiniteSet(B) /\ IsFiniteSet(R)
  BY <1>1, FS_Subset
<1>3. Adds(own, B) /\ Adds(own, R)
  BY <1>1 DEF Adds
<1>4. SumOf(own, B) \in Nat /\ SumOf(own, B) <= m /\ SumOf(own, R) \in Nat
  BY <1>1, SumPart
<1>5. m = SumOf(own, B) + SumOf(own, R)
  BY <1>1, <1>2, <1>3, SumSplit
<1>6. ASSUME \A s \in R : 10 * own[s] <= total PROVE 10 * SumOf(own, R) <= total * Cardinality(R)
  <2>1. 10 \in Int /\ total \in Int
    OBVIOUS
  <2>2. QED
    BY <1>2, <1>3, <1>6, <2>1, SumBounds
<1>7. Cardinality(R) \in Nat
  BY <1>2, FS_CardinalityType
<1>8. ASSUME \A s \in R : 10 * own[s] <= total
      PROVE  10 * (m - SumOf(own, B)) <= Cardinality(R) * total
  <2>1. m - SumOf(own, B) = SumOf(own, R)
    BY <1>4, <1>5
  <2>2. total * Cardinality(R) = Cardinality(R) * total
    BY <1>7
  <2>3. QED
    BY <1>6, <1>8, <2>1, <2>2
<1>9. QED
  BY <1>4, <1>8 DEF R

\* The order that the view of a trace shows.
ViewSpans == OrderSpans(trace, SetToSeq(Keys(trace)))

\* The spans of a view whose parents are all there.
Shown(spans) ==
  /\ spans \in Seq(Spans) /\ Range(spans) = Range(trace)
  /\ Len(trace) > 1 => \A i, j \in 1..Len(spans) : spans[i] = spans[j] => i = j
  /\ \A root \in Roots(trace) : \A s \in Range(trace) : s # root => parent[s] \in Range(trace)

\* A view that does not fail shows the stored spans, each of them once.
LEMMA ViewShows ==
  ASSUME IInv, trace \in Seq(Spans), OneRoot, NEW t, t.spans = ViewSpans
  PROVE  IF Panics(t) THEN \E s \in Range(trace) \ Roots(trace) : parent[s] \notin Range(trace)
         ELSE Shown(ViewSpans)
<1> DEFINE spans == ViewSpans
           S == Range(trace)
<1>1. NoSpan \notin Spans /\ S \subseteq Spans
  BY NoSpanAssumption DEF Range
<1>2. Lists(spans, S)
  BY ViewOrder DEF ViewSpans
<1>3. Len(trace) <= 1 => spans = trace
  BY ViewOrder DEF ViewSpans
<1>4. Len(trace) > 1 => \A i, j \in 1..Len(spans) : spans[i] = spans[j] /\ spans[i] # NoSpan => i = j
  BY ViewOrder DEF ViewSpans
<1>5. Len(trace) > 1 /\ NoSpan \in Range(spans) =>
        \E s \in S : parent[s] \notin S \cup {NoSpan}
  BY ViewOrder DEF ViewSpans
<1>6. t.spans = spans
  OBVIOUS
<1> HIDE DEF spans
<1>7. /\ spans \in Seq(Spans \cup {NoSpan}) /\ S = Range(spans) \ {NoSpan}
      /\ DOMAIN spans = 1..Len(spans) /\ Len(spans) \in Nat
  BY <1>2 DEF Lists
<1>8. ASSUME NEW x \in Range(spans), NEW y \in Range(spans), x # y PROVE Len(spans) > 1
  <2>1. PICK i \in 1..Len(spans) : spans[i] = x
    BY <1>7 DEF Range
  <2>2. PICK j \in 1..Len(spans) : spans[j] = y
    BY <1>7 DEF Range
  <2>3. i # j
    BY <1>8, <2>1, <2>2
  <2>4. QED
    BY <1>7, <2>3
<1>9. CASE Panics(t)
  <2>1. PICK s \in Range(spans) \ {NoSpan} : parent[s] \notin Range(spans) \cup {NoSpan}
    BY <1>6, <1>9 DEF Panics
  <2>2. s \in S /\ parent[s] \notin S /\ parent[s] # NoSpan
    BY <1>7, <2>1
  <2>3. QED
    BY <1>9, <2>2 DEF Roots
<1>10. CASE ~Panics(t)
  <2>1. Len(spans) > 1 => \A s \in S : parent[s] \in Range(spans) \cup {NoSpan}
    BY <1>6, <1>7, <1>10 DEF Panics
  <2>2. NoSpan \notin Range(spans)
    <3> SUFFICES ASSUME NoSpan \in Range(spans) PROVE FALSE
      OBVIOUS
    <3>1. Len(trace) > 1
      <4>1. Len(trace) \in Nat
        OBVIOUS
      <4>2. ASSUME Len(trace) <= 1 PROVE FALSE
        BY <1>1, <1>3, <4>2
      <4>3. QED
        BY <4>1, <4>2
    <3>2. PICK s \in S : parent[s] \notin S \cup {NoSpan}
      BY <1>5, <3>1
    <3>3. s \in Range(spans) /\ s # NoSpan
      BY <1>7, <3>2
    <3>4. Len(spans) > 1
      BY <1>8, <3>3
    <3>5. parent[s] \in Range(spans) \cup {NoSpan}
      BY <2>1, <3>4
    <3>6. QED
      BY <1>7, <3>2, <3>5
  <2>3. Range(spans) = S
    BY <1>7, <2>2
  <2>4. spans \in Seq(Spans)
    <3>1. \A i \in 1..Len(spans) : spans[i] \in S
      BY <1>7, <2>3 DEF Range
    <3>2. \A i \in 1..Len(spans) : spans[i] \in Spans
      BY <1>1, <3>1
    <3>3. QED
      BY <1>7, <3>2
  <2>5. Len(trace) > 1 => \A i, j \in 1..Len(spans) : spans[i] = spans[j] => i = j
    <3>1. \A i \in 1..Len(spans) : spans[i] # NoSpan
      BY <1>7, <2>2 DEF Range
    <3>2. QED
      BY <1>4, <3>1
  <2>6. ASSUME NEW root \in Roots(trace), NEW s \in S, s # root PROVE parent[s] \in S
    <3>1. root \in S /\ parent[root] = NoSpan
      BY DEF Roots
    <3>2. Len(spans) > 1
      BY <1>8, <2>3, <2>6, <3>1
    <3>3. parent[s] # NoSpan
      BY <2>6, <3>1 DEF OneRoot
    <3>4. QED
      BY <2>1, <2>3, <3>2, <3>3
  <2>7. Shown(spans)
    BY <2>3, <2>4, <2>5, <2>6 DEF Shown
  <2>8. QED
    BY <1>10, <2>7 DEF spans
<1>11. QED
  BY <1>9, <1>10

\* Every span of the operation is counted once.
LEMMA ViewCounts ==
  ASSUME trace \in Seq(Spans), NEW t, IsTrace(t), t.spans = ViewSpans, Shown(ViewSpans),
         Len(trace) > 1, NEW n
  PROVE  AnalyzeLatency(t, n).count = Cardinality({s \in Range(trace) : node[s] = n})
<1> DEFINE spans == ViewSpans
           N == Len(spans)
           P == {k \in 1..N : spans[k] \in SpansOf(t, n)}
           Q == {s \in Range(trace) : node[s] = n}
           f == [k \in P |-> spans[k]]
<1>1. t.spans = spans /\ Range(spans) = Range(trace)
  BY DEF Shown
<1>2. DOMAIN spans = 1..N /\ N \in Nat /\ \A i, j \in 1..N : spans[i] = spans[j] => i = j
  BY DEF Shown
<1>3. AnalyzeLatency(t, n).count = Cardinality(P)
  BY <1>1, AnalyzedCount
<1> HIDE DEF spans, N
<1>4. SpansOf(t, n) = Q
  BY <1>1 DEF SpansOf
<1>5. f \in Bijection(P, Q)
  <2>1. \A k \in P : f[k] = spans[k] /\ spans[k] \in Q
    BY <1>4
  <2>2. f \in [P -> Q]
    BY <2>1
  <2>3. \A i, j \in P : f[i] = f[j] => i = j
    BY <1>2, <2>1
  <2>4. \A s \in Q : \E k \in P : f[k] = s
    <3> TAKE s \in Q
    <3>1. PICK k \in 1..N : spans[k] = s
      BY <1>1, <1>2 DEF Range
    <3>2. k \in P
      BY <1>4, <3>1
    <3>3. QED
      BY <2>1, <3>1, <3>2
  <2> HIDE DEF P, Q, f
  <2>5. QED
    BY <2>2, <2>3, <2>4 DEF Bijection, Injection, Surjection, IsInjective
<1>6. IsFiniteSet(P) /\ IsFiniteSet(Q)
  <2>1. IsFiniteSet(1..N) /\ P \in SUBSET (1..N)
    BY <1>2, FS_Interval
  <2>2. IsFiniteSet(Range(trace)) /\ Q \in SUBSET Range(trace)
    BY RangeIsFinite
  <2>3. QED
    BY <2>1, <2>2, FS_Subset
<1>7. ExistsBijection(P, Q)
  <2> HIDE DEF P, Q
  <2>1. QED
    BY <1>5 DEF ExistsBijection
<1>8. Cardinality(P) = Cardinality(Q)
  <2> HIDE DEF P, Q
  <2>1. QED
    BY <1>6, <1>7, FS_Bijection
<1>9. QED
  BY <1>3, <1>8 DEF N, spans

\* What a view of the trace t shows of the own times of the spans adds up.
AddsUp(t, latency, own) ==
  \A root \in Roots(trace) :
    LET reported == Total(own, DetectBottlenecks(t))
        others == Range(trace) \ DetectBottlenecks(t)
    IN /\ reported <= latency[root]
       /\ t.start => 10 * (latency[root] - reported) <= Cardinality(others) * t.total

\* If the children of every span fit into it, the bottlenecks add up.
LEMMA BottlenecksAddUp ==
  ASSUME trace \in Seq(Spans), NEW latency \in [Range(trace) -> Nat], NEW t, IsTrace(t),
         t.spans = ViewSpans, t.latency = latency, Shown(ViewSpans), NEW own,
         own = [s \in Range(trace) |-> OwnLatency(t, s)], \A s \in Range(trace) : own[s] >= 0
  PROVE  AddsUp(t, latency, own)
<1> DEFINE S == Range(trace)
           B == DetectBottlenecks(t)
<1> SUFFICES ASSUME NEW root \in Roots(trace)
             PROVE  /\ Total(own, B) <= latency[root]
                    /\ t.start => 10 * (latency[root] - Total(own, B)) <= Cardinality(S \ B) * t.total
  BY DEF AddsUp
<1>1. /\ Range(t.spans) = S /\ IsFiniteSet(S) /\ t.total \in Nat
      /\ \A s \in S : own[s] = OwnLatency(t, s)
  <2>1. IsFiniteSet(S)
    BY RangeIsFinite
  <2>2. QED
    BY <2>1 DEF Shown, IsTrace
<1>2. root \in S /\ parent[root] \notin S /\ \A s \in S : s # root => parent[s] \in S
  BY NoSpanAssumption DEF Shown, Roots, Range
<1>3. ASSUME NEW s \in S PROVE own[s] = latency[s] - SumOf(latency, Below(S, {s}))
  <2>1. {c \in Range(t.spans) : parent[c] = s} = Below(S, {s})
    BY <1>1 DEF Below
  <2>2. Total(latency, Below(S, {s})) = SumOf(latency, Below(S, {s}))
    BY SumIsSum DEF Total
  <2>3. OwnLatency(t, s) = latency[s] - Total(latency, Below(S, {s}))
    BY <2>1 DEF OwnLatency
  <2>4. QED
    BY <1>1, <2>2, <2>3
<1>4. B \in SUBSET S
  BY <1>1 DEF DetectBottlenecks
<1>5. Total(own, B) = SumOf(own, B)
  BY SumIsSum DEF Total
<1>6. \A s \in S : own[s] >= 0
  OBVIOUS
<1>7. latency \in [S -> Nat] /\ latency[root] \in Nat
  BY <1>2
<1>8. t.start => \A s \in S \ B : own[s] > 0 => ~(10 * own[s] > t.total)
  <2>1. t.start => TotalLatency(t) = t.total
    BY DEF TotalLatency
  <2>2. ASSUME NEW s \in S \ B PROVE ~(own[s] > 0 /\ 10 * own[s] > TotalLatency(t))
    BY <1>1 DEF DetectBottlenecks
  <2>3. QED
    BY <2>1, <2>2
<1> HIDE DEF S, B
<1>9. SumOf(own, S) = latency[root] /\ \A s \in S : own[s] \in Int
  <2>1. IsFiniteSet(S) /\ latency \in [S -> Nat]
    BY <1>1, <1>7
  <2>2. OwnTimes(own, latency, S)
    BY <1>3 DEF OwnTimes
  <2>3. TreeOf(S, root)
    BY <1>2 DEF TreeOf
  <2>4. QED
    BY <2>1, <2>2, <2>3, OwnTimesAddUp
<1>10. ASSUME NEW s \in S PROVE own[s] \in Nat
  <2>1. own[s] \in Int /\ own[s] >= 0
    BY <1>6, <1>9
  <2>2. QED
    BY <2>1
<1>11. ASSUME t.start, NEW s \in S \ B PROVE 10 * own[s] <= t.total
  <2>1. own[s] \in Nat /\ t.total \in Nat
    BY <1>1, <1>10
  <2>2. own[s] > 0 => ~(10 * own[s] > t.total)
    BY <1>8, <1>11
  <2>3. QED
    BY <2>1, <2>2
<1> DEFINE m == latency[root]
           total == t.total
<1>12. m \in Nat /\ total \in Nat /\ SumOf(own, S) = m
  BY <1>1, <1>7, <1>9
<1> HIDE DEF m, total
<1>13. /\ SumOf(own, B) <= m
       /\ (\A s \in S \ B : 10 * own[s] <= total) =>
            10 * (m - SumOf(own, B)) <= Cardinality(S \ B) * total
  BY <1>1, <1>4, <1>10, <1>12, ReportedShare, Zenon
<1>14. QED
  BY <1>5, <1>11, <1>13 DEF m, total

(* The page of one trace (visualizer_main.go:337-392), which orders the    *)
(* spans of whatever was stored: unless a parent is missing it counts them *)
(* once each and reports no own time twice.                                *)
THEOREM ViewsAddUp == OrderSpec => []ViewAddsUp
<1>1. IInv /\ trace \in Seq(Spans) /\ OneRoot => ViewAddsUp
  <2> SUFFICES ASSUME IInv, trace \in Seq(Spans), OneRoot, trace # <<>>,
                      NEW latency \in [Range(trace) -> Latencies \cup {Outlier}],
                      NEW late \in {0, Outlier}
               PROVE  LET t == TraceView(latency, late)
                          own == [s \in Range(trace) |-> OwnLatency(t, s)]
                          reported == Total(own, DetectBottlenecks(t))
                          others == Range(trace) \ DetectBottlenecks(t)
                      IN IF Panics(t)
                         THEN \E s \in Range(trace) \ Roots(trace) : parent[s] \notin Range(trace)
                         ELSE /\ \A n \in Nodes : Len(trace) > 1 =>
                                    AnalyzeLatency(t, n).count
                                      = Cardinality({s \in Range(trace) : node[s] = n})
                              /\ (\A s \in Range(trace) : own[s] >= 0) =>
                                   \A root \in Roots(trace) :
                                     /\ reported <= latency[root]
                                     /\ t.start =>
                                          10 * (latency[root] - reported)
                                            <= Cardinality(others) * t.total
    BY DEF ViewAddsUp
  <2> DEFINE t == TraceView(latency, late)
             own == [s \in Range(trace) |-> OwnLatency(t, s)]
             status == [s \in Range(trace) |-> 1]
  <2>1. t = TraceOf(trace, ViewSpans, latency, status, late)
    BY DEF TraceView, ViewSpans
  <2>2. t.spans = ViewSpans /\ t.latency = latency
    BY <2>1 DEF TraceOf
  <2>3. latency \in [Range(trace) -> Nat] /\ late \in Nat /\ status \in [Range(trace) -> 1..3]
    <3>0. Outlier \in Nat /\ Latencies \subseteq Nat
      BY LatenciesAssumption, ReportedAssumption
    <3>1. Latencies \cup {Outlier} \subseteq Nat /\ {0, Outlier} \subseteq Nat
      BY <3>0
    <3>2. latency \in [Range(trace) -> Nat]
      BY <3>1
    <3>3. QED
      BY <3>1, <3>2
  <2>4. TypeOK
    BY DEF IInv
  <2> HIDE DEF t, status
  <2>5. IF Panics(t) THEN \E s \in Range(trace) \ Roots(trace) : parent[s] \notin Range(trace)
        ELSE Shown(ViewSpans)
    BY <2>2, ViewShows
  <2>6. CASE Panics(t)
    BY <2>5, <2>6 DEF t
  <2>7. CASE ~Panics(t)
    <3>1. Shown(ViewSpans)
      BY <2>5, <2>7
    <3>2. IsTrace(t)
      <4>1. ViewSpans \in Seq(Spans) /\ Range(ViewSpans) = Range(trace)
        BY <3>1 DEF Shown
      <4>2. QED
        BY <2>1, <2>3, <2>4, <4>1, TraceOfIs
    <3>3. \A n \in Nodes : Len(trace) > 1 =>
            AnalyzeLatency(t, n).count = Cardinality({s \in Range(trace) : node[s] = n})
      BY <2>2, <3>1, <3>2, ViewCounts
    <3>4. (\A s \in Range(trace) : own[s] >= 0) => AddsUp(t, latency, own)
      <4> HIDE DEF own
      <4>1. own = [s \in Range(trace) |-> OwnLatency(t, s)]
        BY DEF own
      <4>2. QED
        BY <2>2, <2>3, <3>1, <3>2, <4>1, BottlenecksAddUp
    <3> HIDE DEF own
    <3>5. QED
      BY <2>7, <3>3, <3>4 DEF AddsUp, t, own
  <2>8. QED
    BY <2>6, <2>7
<1>2. QED
  BY <1>1, RootIsUnique, TracesHoldSpans, PTL

-----------------------------------------------------------------------------
(* The performance report: what statistics say of the samples they describe, *)
(* and what merging keeps of it.                                           *)

\* The elements of P whose value is at most v, and those that failed.
UpTo(ms, P, v) == {c \in P : ms[c] <= v}
FailedIn(status, P) == {c \in P : status[c] = 2}

\* v is a value of an element of P, and more than q percent of them are at most v.
Centile(v, ms, P, q) ==
  /\ \E c \in P : ms[c] = v
  /\ 100 * Cardinality(UpTo(ms, P, v)) > q * Cardinality(P)
Centiles(info, ms, P) == P # {} => \A q \in {90, 95, 99} : Centile(info.p[q], ms, P, q)

\* b takes the elements of A, of P, to those of B, of Q.
Carries(b, P, A, Q, B) ==
  A \in SUBSET P /\ B \in SUBSET Q /\ \A c \in P : c \in A <=> b[c] \in B

\* A bijection takes as many elements as there are on the other side.
LEMMA MovedCount ==
  ASSUME NEW P, IsFiniteSet(P), NEW Q, NEW b \in Bijection(P, Q), NEW A, NEW B,
         Carries(b, P, A, Q, B)
  PROVE  IsFiniteSet(B) /\ Cardinality(A) = Cardinality(B)
<1> DEFINE f == [c \in A |-> b[c]]
<1>0. A \in SUBSET P /\ B \in SUBSET Q /\ \A c \in P : c \in A <=> b[c] \in B
  BY DEF Carries
<1>1. /\ b \in [P -> Q] /\ \A x, y \in P : b[x] = b[y] => x = y
      /\ \A t \in Q : \E x \in P : b[x] = t
  BY DEF Bijection, Injection, Surjection, IsInjective
<1>2. f \in [A -> B] /\ (\A x, y \in A : f[x] = f[y] => x = y)
      /\ \A t \in B : \E x \in A : f[x] = t
  BY <1>0, <1>1
<1> HIDE DEF f
<1>3. f \in Bijection(A, B)
  BY <1>2 DEF Bijection, Injection, Surjection, IsInjective
<1>4. IsFiniteSet(A)
  BY <1>0, FS_Subset
<1>5. ExistsBijection(A, B)
  BY <1>3 DEF ExistsBijection
<1>6. IsFiniteSet(B)
  BY <1>3, <1>4, FS_Surjection DEF Bijection
<1>7. Cardinality(A) = Cardinality(B)
  BY <1>4, <1>5, <1>6, FS_Bijection
<1>8. QED
  BY <1>6, <1>7

\* Statistics are the same under other names.
LEMMA MovedTallies ==
  ASSUME NEW info, NEW ms, NEW status, NEW P, Tallies(info, ms, status, P), Centiles(info, ms, P),
         NEW ns, NEW state, NEW Q, NEW b \in Bijection(P, Q),
         \A c \in P : ms[c] = ns[b[c]], \A c \in P : status[c] = state[b[c]]
  PROVE  Tallies(info, ns, state, Q) /\ Centiles(info, ns, Q)
<1>1. /\ info \in Infos /\ IsFiniteSet(P) /\ info.count = Cardinality(P)
      /\ \A c \in P : ms[c] \in Nat
      /\ info.avg.num * Cardinality(P) = SumOf(ms, P) * info.avg.den
      /\ info.errors.num * Cardinality(P) = Cardinality(FailedIn(status, P)) * info.errors.den
      /\ \A c \in P : info.min <= ms[c] /\ ms[c] <= info.max
      /\ P = {} => info.max = 0
      /\ P # {} => (\E c \in P : ms[c] = info.min) /\ (\E c \in P : ms[c] = info.max)
  BY DEF Tallies, FailedIn
<1>2. /\ b \in [P -> Q] /\ \A x, y \in P : b[x] = b[y] => x = y
      /\ \A t \in Q : \E x \in P : b[x] = t
  BY DEF Bijection, Injection, Surjection, IsInjective
<1>3. IsFiniteSet(Q) /\ Cardinality(P) = Cardinality(Q)
  <2>1. Carries(b, P, P, Q, Q)
    BY <1>2 DEF Carries
  <2>2. IsFiniteSet(P)
    BY <1>1
  <2>3. QED
    BY <2>1, <2>2, MovedCount
<1>4. Cardinality(FailedIn(status, P)) = Cardinality(FailedIn(state, Q))
  <2>1. Carries(b, P, FailedIn(status, P), Q, FailedIn(state, Q))
    BY <1>2 DEF FailedIn, Carries
  <2>2. IsFiniteSet(P)
    BY <1>1
  <2>3. QED
    BY <2>1, <2>2, MovedCount
<1>5. ASSUME NEW v PROVE Cardinality(UpTo(ms, P, v)) = Cardinality(UpTo(ns, Q, v))
  <2>1. Carries(b, P, UpTo(ms, P, v), Q, UpTo(ns, Q, v))
    BY <1>2 DEF UpTo, Carries
  <2>2. IsFiniteSet(P)
    BY <1>1
  <2>3. QED
    BY <2>1, <2>2, MovedCount
<1>6. SumOf(ms, P) = SumOf(ns, Q)
  <2>1. Adds(ms, P)
    BY <1>1 DEF Adds
  <2>2. \A c \in P : ms[c] = ns[b[c]]
    OBVIOUS
  <2>3. IsFiniteSet(P)
    BY <1>1
  <2>4. QED
    BY <2>1, <2>2, <2>3, SumRenamed
<1>7. (P = {} <=> Q = {}) /\ \A v : (\E c \in P : ms[c] = v) <=> (\E c \in Q : ns[c] = v)
  BY <1>2
<1>8. \A c \in Q : ns[c] \in Nat /\ info.min <= ns[c] /\ ns[c] <= info.max
  <2> TAKE d \in Q
  <2>1. PICK c \in P : b[c] = d
    BY <1>2
  <2>2. ns[d] = ms[c]
    BY <2>1
  <2>3. QED
    BY <1>1, <2>2
<1>9. Centiles(info, ns, Q)
  <2>1. ASSUME Q # {}, NEW q \in {90, 95, 99} PROVE Centile(info.p[q], ns, Q, q)
    <3>1. Centile(info.p[q], ms, P, q)
      BY <1>7, <2>1 DEF Centiles
    <3> DEFINE v == info.p[q]
    <3>2. Centile(v, ms, P, q)
      BY <3>1
    <3> HIDE DEF v
    <3>3. Centile(v, ns, Q, q)
      BY <1>3, <1>5, <1>7, <3>2 DEF Centile
    <3>4. QED
      BY <3>3 DEF v
  <2>2. QED
    BY <2>1 DEF Centiles
<1>10. Tallies(info, ns, state, Q)
  <2>1. /\ info.count = Cardinality(Q)
        /\ info.avg.num * Cardinality(Q) = SumOf(ns, Q) * info.avg.den
        /\ info.errors.num * Cardinality(Q) = Cardinality(FailedIn(state, Q)) * info.errors.den
    BY <1>1, <1>3, <1>4, <1>6
  <2>2. /\ Q = {} => info.max = 0
        /\ Q # {} => (\E c \in Q : ns[c] = info.min) /\ (\E c \in Q : ns[c] = info.max)
    BY <1>1, <1>7
  <2>3. QED
    BY <1>1, <1>3, <1>8, <2>1, <2>2 DEF Tallies, FailedIn
<1>11. QED
  BY <1>9, <1>10

\* Merged means are the mean of all values.
LEMMA WeightedMeanIs ==
  ASSUME NEW q \in Fractions, NEW r \in Fractions, NEW m \in Nat, NEW k \in Nat, m + k > 0,
         NEW s \in Nat, NEW t \in Nat, q.num * m = s * q.den, r.num * k = t * r.den
  PROVE  /\ WeightedMean(q, m, r, k) \in Fractions
         /\ WeightedMean(q, m, r, k).num * (m + k) = (s + t) * WeightedMean(q, m, r, k).den
<1> DEFINE a == q.num
           d == q.den
           b == r.num
           e == r.den
           N == a * m * e + b * k * d
           D == d * e * (m + k)
           w == Fraction(N, D)
<1>1. a \in Nat /\ d \in Nat /\ b \in Nat /\ e \in Nat /\ d > 0 /\ e > 0
  BY DEF Fractions
<1>2. a * m = s * d /\ b * k = t * e
  OBVIOUS
<1>3. WeightedMean(q, m, r, k) = w
  BY DEF WeightedMean
<1> HIDE DEF a, b, d, e
<1>4. N \in Nat /\ D \in Nat /\ d * e \in Nat /\ d * e > 0 /\ D > 0
  <2>1. \A x, y \in Nat : x > 0 /\ y > 0 => x * y \in Nat /\ x * y > 0
    OBVIOUS
  <2>2. d * e \in Nat /\ d * e > 0 /\ m + k \in Nat
    BY <1>1, <2>1
  <2>3. D \in Nat /\ D > 0
    BY <2>1, <2>2
  <2>4. a * m \in Nat /\ b * k \in Nat
    BY <1>1
  <2>5. a * m * e \in Nat /\ b * k * d \in Nat
    BY <1>1, <2>4
  <2>6. QED
    BY <2>2, <2>3, <2>5
<1>5. N = (s + t) * (d * e)
  <2>1. a * m * e = s * (d * e)
    <3>1. (s * d) * e = s * (d * e)
      BY <1>1
    <3>2. QED
      BY <1>2, <3>1
  <2>2. b * k * d = t * (d * e)
    <3>1. (t * e) * d = t * (d * e)
      BY <1>1
    <3>2. QED
      BY <1>2, <3>1
  <2>3. \A x \in Nat : s * x + t * x = (s + t) * x
    OBVIOUS
  <2>4. QED
    BY <1>4, <2>1, <2>2, <2>3
<1>6. D = (m + k) * (d * e)
  BY <1>1
<1> HIDE DEF N, D
<1>7. w \in Fractions /\ w.num * D = N * w.den
  BY <1>4, FractionIs
<1> DEFINE u == w.num
           v == w.den
           E == d * e
<1>8. u \in Nat /\ v \in Nat /\ E \in Nat /\ E > 0 /\ u * ((m + k) * E) = ((s + t) * E) * v
  BY <1>4, <1>5, <1>6, <1>7 DEF Fractions
<1> HIDE DEF w, u, v, E
<1>9. u * (m + k) = (s + t) * v
  <2> DEFINE x == m + k
             y == s + t
  <2>1. x \in Nat /\ y \in Nat /\ u * (x * E) = (y * E) * v
    BY <1>8
  <2> HIDE DEF x, y
  <2>2. (u * x) * E = (y * v) * E
    <3>1. u * (x * E) = (u * x) * E /\ (y * E) * v = (y * v) * E
      BY <1>8, <2>1
    <3>2. QED
      BY <2>1, <3>1
  <2>3. u * x = y * v
    <3>1. u * x \in Nat /\ y * v \in Nat
      BY <1>8, <2>1
    <3>2. QED
      BY <1>8, <2>2, <3>1, Cancel
  <2>4. QED
    BY <2>3 DEF x, y
<1>10. QED
  BY <1>3, <1>7, <1>9 DEF u, v

\* How many elements two sets have together.
LEMMA JoinedCount ==
  ASSUME NEW P, IsFiniteSet(P), NEW Q, IsFiniteSet(Q), P \cap Q = {}
  PROVE  /\ Cardinality(P) \in Nat /\ Cardinality(Q) \in Nat
         /\ IsFiniteSet(P \cup Q) /\ Cardinality(P \cup Q) = Cardinality(P) + Cardinality(Q)
<1>1. Cardinality(P) \in Nat /\ Cardinality(Q) \in Nat
  BY FS_CardinalityType
<1>2. IsFiniteSet(P \cup Q)
  BY FS_Union
<1>3. Cardinality(P \cup Q) = Cardinality(P) + Cardinality(Q) - Cardinality(P \cap Q)
  BY FS_Union
<1>4. Cardinality(P \cap Q) = 0
  BY FS_EmptySet
<1>5. QED
  BY <1>1, <1>2, <1>3, <1>4

\* The larger of two centiles is one of all values.
LEMMA JoinedCentile ==
  ASSUME NEW ms, NEW P, IsFiniteSet(P), NEW Q, IsFiniteSet(Q), P \cap Q = {},
         \A c \in P \cup Q : ms[c] \in Nat, NEW v \in Nat, NEW w \in Nat, NEW q \in {90, 95, 99},
         Centile(v, ms, P, q), Centile(w, ms, Q, q)
  PROVE  Centile(Max({v, w}), ms, P \cup Q, q)
<1> DEFINE m == Max({v, w})
           n == Cardinality(P)
           k == Cardinality(Q)
           A == UpTo(ms, P, m)
           B == UpTo(ms, Q, m)
<1>1. m \in {v, w} /\ v <= m /\ w <= m /\ m \in Nat
  BY PairBounds
<1> HIDE DEF m
<1>2. n \in Nat /\ k \in Nat /\ Cardinality(P \cup Q) = n + k
  BY JoinedCount
<1>3. A \in SUBSET P /\ B \in SUBSET Q /\ UpTo(ms, P \cup Q, m) = A \cup B /\ A \cap B = {}
  BY DEF UpTo
<1>4. UpTo(ms, P, v) \in SUBSET A /\ UpTo(ms, Q, w) \in SUBSET B
  <2>1. ASSUME NEW c \in P, ms[c] <= v PROVE ms[c] <= m
    <3>1. ms[c] \in Nat
      OBVIOUS
    <3>2. QED
      BY <1>1, <2>1, <3>1
  <2>2. ASSUME NEW c \in Q, ms[c] <= w PROVE ms[c] <= m
    <3>1. ms[c] \in Nat
      OBVIOUS
    <3>2. QED
      BY <1>1, <2>2, <3>1
  <2>3. QED
    BY <2>1, <2>2 DEF UpTo
<1>5. (\E c \in P : ms[c] = v) /\ (\E c \in Q : ms[c] = w)
  BY DEF Centile
<1>6. /\ 100 * Cardinality(UpTo(ms, P, v)) > q * n
      /\ 100 * Cardinality(UpTo(ms, Q, w)) > q * k
  BY DEF Centile
<1> HIDE DEF A, B, n, k
<1>7. IsFiniteSet(A) /\ IsFiniteSet(B)
  BY <1>3, FS_Subset
<1>8. Cardinality(UpTo(ms, P, v)) \in Nat /\ Cardinality(UpTo(ms, P, v)) <= Cardinality(A)
  BY <1>4, <1>7, FS_Subset, FS_CardinalityType
<1>9. Cardinality(UpTo(ms, Q, w)) \in Nat /\ Cardinality(UpTo(ms, Q, w)) <= Cardinality(B)
  BY <1>4, <1>7, FS_Subset, FS_CardinalityType
<1>10. /\ Cardinality(A) \in Nat /\ Cardinality(B) \in Nat
       /\ Cardinality(A \cup B) = Cardinality(A) + Cardinality(B)
  BY <1>3, <1>7, JoinedCount
<1>11. 100 * Cardinality(A \cup B) > q * (n + k)
  <2>1. q = 90 \/ q = 95 \/ q = 99
    OBVIOUS
  <2>2. QED
    BY <1>2, <1>6, <1>8, <1>9, <1>10, <2>1
<1>12. \E c \in P \cup Q : ms[c] = m
  BY <1>1, <1>5
<1>13. Centile(m, ms, P \cup Q, q)
  BY <1>2, <1>3, <1>11, <1>12 DEF Centile
<1>14. QED
  BY <1>13 DEF m

\* The merged statistics are those of all elements.
LEMMA JoinedTallies ==
  ASSUME NEW ms, NEW status, NEW info, NEW P, Tallies(info, ms, status, P),
         Centiles(info, ms, P), P # {}, NEW more, NEW Q, Tallies(more, ms, status, Q),
         Centiles(more, ms, Q), Q # {}, P \cap Q = {}
  PROVE  /\ Tallies(Merged(info, more), ms, status, P \cup Q)
         /\ Centiles(Merged(info, more), ms, P \cup Q)
<1> DEFINE new == Merged(info, more)
           n == Cardinality(P)
           k == Cardinality(Q)
           R == P \cup Q
<1>1. /\ info \in Infos /\ IsFiniteSet(P) /\ info.count = n
      /\ \A c \in P : ms[c] \in Nat
      /\ info.avg.num * n = SumOf(ms, P) * info.avg.den
      /\ info.errors.num * n = Cardinality(FailedIn(status, P)) * info.errors.den
      /\ \A c \in P : info.min <= ms[c] /\ ms[c] <= info.max
      /\ (\E c \in P : ms[c] = info.min) /\ (\E c \in P : ms[c] = info.max)
  BY DEF Tallies, FailedIn
<1>2. /\ more \in Infos /\ IsFiniteSet(Q) /\ more.count = k
      /\ \A c \in Q : ms[c] \in Nat
      /\ more.avg.num * k = SumOf(ms, Q) * more.avg.den
      /\ more.errors.num * k = Cardinality(FailedIn(status, Q)) * more.errors.den
      /\ \A c \in Q : more.min <= ms[c] /\ ms[c] <= more.max
      /\ (\E c \in Q : ms[c] = more.min) /\ (\E c \in Q : ms[c] = more.max)
  BY DEF Tallies, FailedIn
<1>3. /\ n \in Nat /\ k \in Nat /\ IsFiniteSet(R) /\ Cardinality(R) = n + k
  BY <1>1, <1>2, JoinedCount
<1>4. n > 0
  <2>1. n # 0
    BY <1>1, FS_EmptySet
  <2> HIDE DEF n
  <2>2. QED
    BY <1>3, <2>1
<1>5. /\ info.avg \in Fractions /\ info.errors \in Fractions /\ info.min \in Nat
      /\ info.max \in Nat /\ info.p \in [{90, 95, 99} -> Nat]
  BY <1>1 DEF Infos
<1>6. /\ more.avg \in Fractions /\ more.errors \in Fractions /\ more.min \in Nat
      /\ more.max \in Nat /\ more.p \in [{90, 95, 99} -> Nat]
  BY <1>2 DEF Infos
<1> DEFINE avg == WeightedMean(info.avg, n, more.avg, k)
           errors == WeightedMean(info.errors, n, more.errors, k)
           low == Min({info.min, more.min})
           high == Max({info.max, more.max})
           p == [q \in {90, 95, 99} |-> Max({info.p[q], more.p[q]})]
<1>7. new = [count |-> n + k, avg |-> avg, min |-> low, max |-> high, errors |-> errors, p |-> p]
  BY <1>1, <1>2, <1>5 DEF Merged
<1>8. ASSUME NEW q \in {90, 95, 99}
      PROVE  /\ info.p[q] \in Nat /\ more.p[q] \in Nat /\ p[q] = Max({info.p[q], more.p[q]})
             /\ p[q] \in Nat
  <2>1. info.p[q] \in Nat /\ more.p[q] \in Nat /\ p[q] = Max({info.p[q], more.p[q]})
    BY <1>5, <1>6
  <2>2. Max({info.p[q], more.p[q]}) \in {info.p[q], more.p[q]}
    BY <2>1, PairBounds
  <2> HIDE DEF p
  <2>3. QED
    BY <2>1, <2>2
<1>9. SumOf(ms, P) \in Nat /\ SumOf(ms, Q) \in Nat /\ SumOf(ms, R) = SumOf(ms, P) + SumOf(ms, Q)
  <2>1. Adds(ms, P) /\ Adds(ms, Q)
    BY <1>1, <1>2 DEF Adds
  <2>2. SumOf(ms, R) = SumOf(ms, P) + SumOf(ms, Q)
    BY <1>1, <1>2, <2>1, SumSplit
  <2>3. P \in SUBSET P /\ Q \in SUBSET Q
    OBVIOUS
  <2>4. QED
    BY <1>1, <1>2, <2>2, <2>3, SumPart
<1>10. /\ Cardinality(FailedIn(status, P)) \in Nat /\ Cardinality(FailedIn(status, Q)) \in Nat
       /\ Cardinality(FailedIn(status, R))
            = Cardinality(FailedIn(status, P)) + Cardinality(FailedIn(status, Q))
  <2>1. /\ FailedIn(status, R) = FailedIn(status, P) \cup FailedIn(status, Q)
        /\ FailedIn(status, P) \cap FailedIn(status, Q) = {}
        /\ FailedIn(status, P) \in SUBSET P /\ FailedIn(status, Q) \in SUBSET Q
    BY DEF FailedIn
  <2>2. IsFiniteSet(FailedIn(status, P)) /\ IsFiniteSet(FailedIn(status, Q))
    BY <1>1, <1>2, <2>1, FS_Subset
  <2>3. QED
    BY <2>1, <2>2, JoinedCount
<1> DEFINE a == info.avg
           b == more.avg
           c == info.errors
           d == more.errors
           s == SumOf(ms, P)
           t == SumOf(ms, Q)
           u == Cardinality(FailedIn(status, P))
           v == Cardinality(FailedIn(status, Q))
<1>11. /\ a \in Fractions /\ b \in Fractions /\ a.num * n = s * a.den /\ b.num * k = t * b.den
       /\ s \in Nat /\ t \in Nat
  BY <1>1, <1>2, <1>5, <1>6, <1>9
<1>12. /\ c \in Fractions /\ d \in Fractions /\ c.num * n = u * c.den /\ d.num * k = v * d.den
       /\ u \in Nat /\ v \in Nat
  BY <1>1, <1>2, <1>5, <1>6, <1>10
<1>13. n + k > 0
  BY <1>3, <1>4
<1>14. avg = WeightedMean(a, n, b, k) /\ errors = WeightedMean(c, n, d, k)
  OBVIOUS
<1>15. SumOf(ms, R) = s + t /\ Cardinality(FailedIn(status, R)) = u + v
  BY <1>9, <1>10
<1> HIDE DEF a, b, c, d, s, t, u, v, avg, errors, n, k, R
<1>16. avg \in Fractions /\ avg.num * (n + k) = (s + t) * avg.den
  BY <1>3, <1>11, <1>13, <1>14, WeightedMeanIs
<1>17. errors \in Fractions /\ errors.num * (n + k) = (u + v) * errors.den
  BY <1>3, <1>12, <1>13, <1>14, WeightedMeanIs
<1>18. /\ low \in {info.min, more.min} /\ low <= info.min /\ low <= more.min
       /\ high \in {info.max, more.max} /\ info.max <= high /\ more.max <= high
  BY <1>5, <1>6, PairBounds
<1>19. p \in [{90, 95, 99} -> Nat]
  BY <1>8
<1> HIDE DEF low, high, p
<1>20. /\ new \in Infos /\ new.count = n + k /\ new.avg = avg /\ new.errors = errors
       /\ new.min = low /\ new.max = high /\ new.p = p
  <2>1. low \in Nat /\ high \in Nat
    BY <1>5, <1>6, <1>18
  <2>2. QED
    BY <1>3, <1>7, <1>16, <1>17, <1>19, <2>1 DEF Infos
<1> HIDE DEF new
<1>21. ASSUME NEW e \in R PROVE ms[e] \in Nat /\ low <= ms[e] /\ ms[e] <= high
  <2>0. low \in Nat /\ high \in Nat
    BY <1>5, <1>6, <1>18
  <2>1. CASE e \in P
    <3>1. ms[e] \in Nat /\ info.min <= ms[e] /\ ms[e] <= info.max
      BY <1>1, <2>1
    <3>2. QED
      BY <1>5, <1>18, <2>0, <3>1
  <2>2. CASE e \in Q
    <3>1. ms[e] \in Nat /\ more.min <= ms[e] /\ ms[e] <= more.max
      BY <1>2, <2>2
    <3>2. QED
      BY <1>6, <1>18, <2>0, <3>1
  <2>3. QED
    BY <2>1, <2>2 DEF R
<1>22. (\E e \in R : ms[e] = low) /\ (\E e \in R : ms[e] = high)
  <2>1. \A x \in {info.min, more.min, info.max, more.max} : \E e \in R : ms[e] = x
    BY <1>1, <1>2 DEF R
  <2>2. QED
    BY <1>18, <2>1
<1>23. Tallies(new, ms, status, R)
  <2>1. R # {}
    BY DEF R
  <2>2. /\ new.avg.num * Cardinality(R) = SumOf(ms, R) * new.avg.den
        /\ new.errors.num * Cardinality(R) = Cardinality(FailedIn(status, R)) * new.errors.den
        /\ new.count = Cardinality(R)
    BY <1>3, <1>15, <1>16, <1>17, <1>20
  <2>3. QED
    BY <1>3, <1>20, <1>21, <1>22, <2>1, <2>2 DEF Tallies, FailedIn
<1>24. ASSUME NEW q \in {90, 95, 99} PROVE Centile(new.p[q], ms, R, q)
  <2>1. Centile(info.p[q], ms, P, q) /\ Centile(more.p[q], ms, Q, q)
    BY DEF Centiles
  <2> DEFINE x == info.p[q]
             y == more.p[q]
  <2>2. x \in Nat /\ y \in Nat /\ new.p[q] = Max({x, y})
    BY <1>8, <1>20
  <2>3. \A e \in P \cup Q : ms[e] \in Nat
    BY <1>21 DEF R
  <2>4. Centile(x, ms, P, q) /\ Centile(y, ms, Q, q)
    BY <2>1
  <2> HIDE DEF x, y
  <2>5. Centile(Max({x, y}), ms, P \cup Q, q)
    <3>1. IsFiniteSet(P) /\ IsFiniteSet(Q) /\ P \cap Q = {}
      BY <1>1, <1>2
    <3>2. x \in Nat /\ y \in Nat
      BY <2>2
    <3>3. QED
      BY <2>3, <2>4, <3>1, <3>2, JoinedCentile
  <2>6. QED
    BY <2>2, <2>5 DEF R
<1>25. Centiles(new, ms, R)
  BY <1>24 DEF Centiles
<1>26. QED
  BY <1>23, <1>25 DEF new, R

\* A percentile is the least centile.
LEMMA PercentileIs ==
  ASSUME NEW n \in Nat, n > 0, NEW values \in [1..n -> Nat], NEW q \in {90, 95, 99}
  PROVE  /\ Percentile(values, q) \in Nat /\ Centile(Percentile(values, q), values, 1..n, q)
         /\ \A v : Centile(v, values, 1..n, q) => Percentile(values, q) <= v
<1> DEFINE place == Min({(q * n) \div 100 + 1, n})
           At(v) == Cardinality(UpTo(values, 1..n, v))
           F == {v \in Range(values) : At(v) >= place}
<1>1. DOMAIN values = 1..n /\ IsFiniteSet(1..n) /\ Cardinality(1..n) = n
  BY FS_Interval
<1>2. Percentile(values, q) = Min(F)
  <2> DEFINE D == DOMAIN values
             k == Cardinality(D)
             G == {v \in Range(values) :
                     Cardinality(UpTo(values, D, v)) >= Min({(q * k) \div 100 + 1, k})}
  <2>1. Percentile(values, q) = IF k = 0 THEN 0 ELSE Min(G)
    BY DEF Percentile, UpTo
  <2>2. D = 1..n /\ k = n
    BY <1>1
  <2> HIDE DEF D, k
  <2>3. G = F
    BY <2>2
  <2> HIDE DEF G, F
  <2>4. QED
    BY <2>1, <2>2, <2>3
<1>3. place = (q * n) \div 100 + 1 /\ q * n \in Nat /\ q * n < 100 * n
  <2>1. q * n \in Nat /\ q * n < 100 * n
    <3>1. q = 90 \/ q = 95 \/ q = 99
      OBVIOUS
    <3>2. QED
      BY <3>1
  <2> DEFINE m == q * n
             x == m \div 100 + 1
  <2>2. m \in Nat /\ m < 100 * n
    BY <2>1
  <2> HIDE DEF m
  <2>3. x \in Nat /\ x <= n
    BY <2>2
  <2> HIDE DEF x
  <2>4. Min({x, n}) \in {x, n} /\ Min({x, n}) <= x /\ Min({x, n}) <= n
    BY <2>3, PairBounds
  <2>5. Min({x, n}) = x
    BY <2>3, <2>4
  <2>6. QED
    BY <2>1, <2>5 DEF x, m
<1>4. ASSUME NEW v PROVE At(v) \in Nat
  <2>1. UpTo(values, 1..n, v) \in SUBSET (1..n)
    BY DEF UpTo
  <2>2. IsFiniteSet(UpTo(values, 1..n, v))
    BY <1>1, <2>1, FS_Subset
  <2>3. QED
    BY <2>2, FS_CardinalityType
<1> HIDE DEF place, At
<1>5. ASSUME NEW v PROVE At(v) >= place <=> 100 * At(v) > q * n
  <2> DEFINE m == q * n
             x == At(v)
  <2>1. m \in Nat /\ x \in Nat /\ place = m \div 100 + 1
    BY <1>3, <1>4
  <2> HIDE DEF m, x
  <2>2. x >= m \div 100 + 1 <=> 100 * x > m
    BY <2>1
  <2>3. QED
    BY <2>1, <2>2 DEF m, x
<1>6. \A v : v \in F <=> Centile(v, values, 1..n, q)
  BY <1>1, <1>5 DEF Centile, At, Range
<1>7. IsFiniteSet(Range(values)) /\ Range(values) \subseteq Nat /\ Range(values) # {}
  <2>1. values \in Surjection(1..n, Range(values))
    BY <1>1 DEF Surjection, Range
  <2>2. IsFiniteSet(Range(values))
    BY <1>1, <2>1, FS_Surjection
  <2>3. values[1] \in Range(values) /\ Range(values) \subseteq Nat
    BY <1>1 DEF Range
  <2>4. QED
    BY <2>2, <2>3
<1>8. F # {}
  <2> DEFINE h == Max(Range(values))
  <2>1. Range(values) \subseteq Int
    BY <1>7
  <2>2. h \in Range(values) /\ \A y \in Range(values) : y <= h
    BY <1>7, <2>1, FiniteMax
  <2> HIDE DEF h
  <2>3. UpTo(values, 1..n, h) = 1..n
    BY <1>1, <2>2 DEF UpTo, Range
  <2>4. At(h) = n
    BY <1>1, <2>3 DEF At
  <2>5. 100 * At(h) > q * n
    BY <1>3, <2>4
  <2>6. At(h) >= place
    BY <1>5, <2>5
  <2>7. QED
    BY <2>2, <2>6
<1>9. IsFiniteSet(F) /\ F \subseteq Int /\ F \subseteq Nat
  <2>1. F \in SUBSET Range(values)
    OBVIOUS
  <2> HIDE DEF F
  <2>2. IsFiniteSet(F)
    BY <1>7, <2>1, FS_Subset
  <2>3. QED
    BY <1>7, <2>1, <2>2
<1> HIDE DEF F
<1>10. Min(F) \in F /\ \A y \in F : Min(F) <= y
  BY <1>8, <1>9, FiniteMax
<1>11. QED
  BY <1>2, <1>6, <1>9, <1>10

\* The latencies and the states of samples.
StatesOf(samples) == [i \in DOMAIN samples |-> samples[i].status]

\* The statistics are those of the samples.
Describes(info, samples) ==
  /\ samples \in Seq(Sample)
  /\ Tallies(info, LatenciesOf(samples), StatesOf(samples), 1..Len(samples))
  /\ Centiles(info, LatenciesOf(samples), 1..Len(samples))

\* AnalyzeLatency describes the spans of an operation in a trace.
LEMMA AnalyzedIs ==
  ASSUME NEW t, IsTrace(t), NEW op
  PROVE  Describes(AnalyzeLatency(t, op), SamplesOf(t, SpansOf(t, op)))
<1> DEFINE samples == SamplesOf(t, SpansOf(t, op))
           n == Len(samples)
           ms == LatenciesOf(samples)
           info == FoldLeft(Recorded, NoInfo, samples)
           p == [q \in {90, 95, 99} |-> Percentile(ms, q)]
           new == AnalyzeLatency(t, op)
<1>1. samples \in Seq(Sample)
  BY SamplesOfWhere
<1>2. new = [info EXCEPT !.p = p]
  BY DEF AnalyzeLatency
<1> HIDE DEF samples, new
<1>3. n \in Nat /\ DOMAIN samples = 1..n /\ \A i \in 1..n : samples[i] \in Sample
  BY <1>1
<1>4. \A i \in 1..n : samples[i].ms \in Nat
  BY <1>3 DEF Sample
<1>5. ms \in [1..n -> Nat]
  BY <1>3, <1>4 DEF LatenciesOf
<1>6. Tallies(info, ms, StatesOf(samples), 1..n)
  BY <1>1, RecordingIs DEF StatesOf
<1> HIDE DEF info, ms, n
<1>7. p \in [{90, 95, 99} -> Nat]
  <2>1. ASSUME NEW q \in {90, 95, 99} PROVE Percentile(ms, q) \in Nat
    <3>1. CASE n = 0
      <4>1. DOMAIN ms = {}
        BY <1>5, <3>1
      <4>2. Percentile(ms, q) = 0
        BY <4>1, FS_EmptySet DEF Percentile
      <4>3. QED
        BY <4>2
    <3>2. CASE n > 0
      BY <1>3, <1>5, <3>2, PercentileIs
    <3>3. QED
      BY <1>3, <3>1, <3>2
  <2>2. QED
    BY <2>1
<1>8. ASSUME n > 0, NEW q \in {90, 95, 99} PROVE Centile(p[q], ms, 1..n, q)
  <2>1. Centile(Percentile(ms, q), ms, 1..n, q)
    BY <1>3, <1>5, <1>8, PercentileIs
  <2>2. QED
    BY <2>1
<1> HIDE DEF p
<1>9. /\ new \in Infos /\ new.count = info.count /\ new.avg = info.avg
      /\ new.errors = info.errors /\ new.min = info.min /\ new.max = info.max /\ new.p = p
  <2>1. info \in Infos
    BY <1>6 DEF Tallies
  <2>2. QED
    BY <1>2, <1>7, <2>1 DEF Infos
<1>10. Tallies(new, ms, StatesOf(samples), 1..n)
  <2> DEFINE P == 1..n
             state == StatesOf(samples)
  <2>1. Tallies(info, ms, state, P)
    BY <1>6
  <2> HIDE DEF P, state
  <2>2. Tallies(new, ms, state, P)
    BY <1>9, <2>1 DEF Tallies
  <2>3. QED
    BY <2>2 DEF P, state
<1>11. Centiles(new, ms, 1..n)
  <2>1. 1..n # {} => n > 0
    BY <1>3
  <2>2. QED
    BY <1>8, <1>9, <2>1 DEF Centiles
<1>12. Describes(new, samples)
  BY <1>1, <1>10, <1>11 DEF Describes, ms, n
<1>13. QED
  BY <1>12 DEF new, samples

\* Merged statistics are those of both sequences of samples.
LEMMA MergedIs ==
  ASSUME NEW info, NEW s, Describes(info, s), s # <<>>, NEW more, NEW t, Describes(more, t), t # <<>>
  PROVE  Describes(Merged(info, more), s \o t)
<1> DEFINE u == s \o t
           m == Len(s)
           k == Len(t)
           ms == LatenciesOf(u)
           state == StatesOf(u)
           P == 1..m
           Q == (m + 1)..(m + k)
<1>1. s \in Seq(Sample) /\ t \in Seq(Sample)
  BY DEF Describes
<1>2. /\ m \in Nat /\ m > 0 /\ k \in Nat /\ k > 0 /\ DOMAIN s = 1..m /\ DOMAIN t = 1..k
  BY <1>1, EmptySeq
<1>3. u \in Seq(Sample)
  BY <1>1, Concatenated
<1>4. /\ Len(u) = m + k /\ DOMAIN u = 1..(m + k)
      /\ \A i \in 1..(m + k) : u[i] = IF i <= m THEN s[i] ELSE t[i - m]
  <2>1. Len(u) = m + k /\ \A i \in 1..(m + k) : u[i] = IF i <= m THEN s[i] ELSE t[i - m]
    BY <1>1, ConcatElements
  <2>2. QED
    BY <1>3, <2>1
<1> HIDE DEF u, m, k
<1>5. \A i \in 1..(m + k) : ms[i] = u[i].ms /\ state[i] = u[i].status
  BY <1>4 DEF LatenciesOf, StatesOf
<1>6. \A i \in 1..m : LatenciesOf(s)[i] = s[i].ms /\ StatesOf(s)[i] = s[i].status
  BY <1>2 DEF LatenciesOf, StatesOf
<1>7. \A i \in 1..k : LatenciesOf(t)[i] = t[i].ms /\ StatesOf(t)[i] = t[i].status
  BY <1>2 DEF LatenciesOf, StatesOf
<1> HIDE DEF ms, state
<1>8. Tallies(info, ms, state, P) /\ Centiles(info, ms, P)
  <2> DEFINE b == [i \in 1..m |-> i]
  <2>1. b \in [1..m -> P] /\ \A i \in 1..m : b[i] = i
    OBVIOUS
  <2> HIDE DEF b
  <2>2. b \in Bijection(1..m, P)
    BY <2>1 DEF Bijection, Injection, Surjection, IsInjective
  <2>3. ASSUME NEW i \in 1..m
        PROVE  LatenciesOf(s)[i] = ms[b[i]] /\ StatesOf(s)[i] = state[b[i]]
    <3>1. i \in 1..(m + k) /\ i <= m
      BY <1>2
    <3>2. QED
      BY <1>4, <1>5, <1>6, <2>1, <3>1
  <2>4. Tallies(info, LatenciesOf(s), StatesOf(s), 1..m) /\ Centiles(info, LatenciesOf(s), 1..m)
    BY DEF Describes, m
  <2> DEFINE N == 1..m
  <2>5. /\ \A i \in N : LatenciesOf(s)[i] = ms[b[i]]
        /\ \A i \in N : StatesOf(s)[i] = state[b[i]]
    BY <2>3
  <2>6. b \in Bijection(N, P) /\ Tallies(info, LatenciesOf(s), StatesOf(s), N)
        /\ Centiles(info, LatenciesOf(s), N)
    BY <2>2, <2>4
  <2> HIDE DEF P, N
  <2>7. QED
    BY <2>5, <2>6, MovedTallies
<1>9. Tallies(more, ms, state, Q) /\ Centiles(more, ms, Q)
  <2> DEFINE b == [i \in 1..k |-> m + i]
  <2>1. b \in [1..k -> Q] /\ \A i \in 1..k : b[i] = m + i
    BY <1>2
  <2> HIDE DEF b
  <2>2. b \in Bijection(1..k, Q)
    <3>1. \A i, j \in 1..k : b[i] = b[j] => i = j
      BY <1>2, <2>1
    <3>2. \A c \in Q : \E i \in 1..k : b[i] = c
      <4> TAKE c \in Q
      <4>1. c - m \in 1..k /\ m + (c - m) = c
        BY <1>2
      <4>2. QED
        BY <2>1, <4>1
    <3> HIDE DEF Q
    <3>3. QED
      BY <2>1, <3>1, <3>2 DEF Bijection, Injection, Surjection, IsInjective
  <2>3. ASSUME NEW i \in 1..k
        PROVE  LatenciesOf(t)[i] = ms[b[i]] /\ StatesOf(t)[i] = state[b[i]]
    <3>1. m + i \in 1..(m + k) /\ ~(m + i <= m) /\ (m + i) - m = i
      BY <1>2
    <3>2. u[m + i] = t[i]
      BY <1>4, <3>1
    <3>3. QED
      BY <1>5, <1>7, <2>1, <3>1, <3>2
  <2>4. Tallies(more, LatenciesOf(t), StatesOf(t), 1..k) /\ Centiles(more, LatenciesOf(t), 1..k)
    BY DEF Describes, k
  <2> DEFINE N == 1..k
  <2>5. /\ \A i \in N : LatenciesOf(t)[i] = ms[b[i]]
        /\ \A i \in N : StatesOf(t)[i] = state[b[i]]
    BY <2>3
  <2>6. b \in Bijection(N, Q) /\ Tallies(more, LatenciesOf(t), StatesOf(t), N)
        /\ Centiles(more, LatenciesOf(t), N)
    BY <2>2, <2>4
  <2> HIDE DEF Q, N
  <2>7. QED
    BY <2>5, <2>6, MovedTallies
<1>10. P # {} /\ Q # {} /\ P \cap Q = {} /\ P \cup Q = 1..(m + k)
  <2>1. 1 \in P /\ m + 1 \in Q
    BY <1>2
  <2>2. P \cap Q = {}
    BY <1>2
  <2>3. P \cup Q = 1..(m + k)
    BY <1>2
  <2>4. QED
    BY <2>1, <2>2, <2>3
<1> HIDE DEF P, Q
<1> DEFINE new == Merged(info, more)
<1>11. Tallies(new, ms, state, P \cup Q) /\ Centiles(new, ms, P \cup Q)
  BY <1>8, <1>9, <1>10, JoinedTallies
<1> HIDE DEF new
<1>12. Describes(new, u)
  BY <1>3, <1>4, <1>10, <1>11 DEF Describes, ms, state
<1>13. QED
  BY <1>12 DEF new, u

\* The percentiles are the maximum.
Tops(info) == \A q \in {90, 95, 99} : info.p[q] = info.max

\* So it is for ten samples at the most.
LEMMA FewTop ==
  ASSUME NEW info, NEW samples, Describes(info, samples), samples # <<>>, Len(samples) <= 10
  PROVE  Tops(info)
<1> DEFINE n == Len(samples)
           P == 1..n
           ms == LatenciesOf(samples)
<1>1. n \in Nat /\ n > 0 /\ n <= 10
  BY EmptySeq DEF Describes
<1>2. Tallies(info, ms, StatesOf(samples), P) /\ Centiles(info, ms, P)
  BY DEF Describes
<1> HIDE DEF n, ms
<1>3. IsFiniteSet(1..n) /\ Cardinality(1..n) = n
  <2>1. n \in Nat /\ 1 \in Int /\ n \in Int /\ ~(1 > n) /\ n - 1 + 1 = n
    BY <1>1
  <2>2. QED
    BY <2>1, FS_Interval
<1>4. ASSUME NEW q \in {90, 95, 99} PROVE info.p[q] = info.max
  <2> DEFINE v == info.p[q]
             U == UpTo(ms, P, v)
  <2>1. Centile(v, ms, P, q)
    <3>1. P # {}
      BY <1>1
    <3>2. QED
      BY <1>2, <3>1 DEF Centiles
  <2>2. IsFiniteSet(P) /\ Cardinality(P) = n
    BY <1>3
  <2>3. U \in SUBSET P
    BY DEF UpTo
  <2>4. 100 * Cardinality(U) > q * n /\ \E c \in P : ms[c] = v
    BY <2>1, <2>2 DEF Centile
  <2> HIDE DEF U, P
  <2>5. Cardinality(U) \in Nat /\ Cardinality(U) <= n
    BY <2>2, <2>3, FS_Subset, FS_CardinalityType
  <2>6. Cardinality(U) = n
    <3>1. q = 90 \/ q = 95 \/ q = 99
      OBVIOUS
    <3>2. QED
      BY <1>1, <2>4, <2>5, <3>1
  <2>7. U = P
    BY <2>2, <2>3, <2>6, FS_Subset
  <2>8. \A c \in P : ms[c] <= v
    BY <2>7 DEF U, UpTo
  <2>9. /\ info.max \in Nat /\ v \in Nat /\ \A c \in P : ms[c] <= info.max
        /\ \E c \in P : ms[c] = info.max
    <3>1. P # {}
      BY <2>4
    <3>2. QED
      BY <1>2, <3>1 DEF Tallies, Infos
  <2>10. v <= info.max /\ info.max <= v
    BY <2>4, <2>8, <2>9
  <2>11. QED
    BY <2>9, <2>10
<1>5. QED
  BY <1>4 DEF Tops

\* It stays so when statistics are merged.
LEMMA MergedTop ==
  ASSUME NEW info \in Infos, Tops(info), NEW more \in Infos, Tops(more)
  PROVE  Tops(Merged(info, more))
<1>1. info.p \in [{90, 95, 99} -> Nat]
  BY DEF Infos
<1>2. DOMAIN info.p = {90, 95, 99}
  BY <1>1
<1>3. Merged(info, more).max = Max({info.max, more.max})
  BY DEF Merged
<1>4. \A q \in {90, 95, 99} : Merged(info, more).p[q] = Max({info.p[q], more.p[q]})
  BY <1>2 DEF Merged
<1>5. QED
  BY <1>3, <1>4 DEF Tops

\* A merged mean is a fraction, whatever it is the mean of.
LEMMA WeightedMeanIn ==
  \A q, r \in Fractions, m, k \in Nat : m + k > 0 => WeightedMean(q, m, r, k) \in Fractions
<1> SUFFICES ASSUME NEW q \in Fractions, NEW r \in Fractions, NEW m \in Nat, NEW k \in Nat, m + k > 0
             PROVE  WeightedMean(q, m, r, k) \in Fractions
  OBVIOUS
<1> DEFINE a == q.num
           d == q.den
           b == r.num
           e == r.den
           N == a * m * e + b * k * d
           D == d * e * (m + k)
<1>1. a \in Nat /\ d \in Nat /\ b \in Nat /\ e \in Nat /\ d > 0 /\ e > 0
  BY DEF Fractions
<1>2. WeightedMean(q, m, r, k) = Fraction(N, D)
  BY DEF WeightedMean
<1> HIDE DEF a, b, d, e
<1>3. D \in Nat /\ D > 0
  <2>1. \A x, y \in Nat : x > 0 /\ y > 0 => x * y \in Nat /\ x * y > 0
    OBVIOUS
  <2>2. d * e \in Nat /\ d * e > 0 /\ m + k \in Nat
    BY <1>1, <2>1
  <2>3. QED
    BY <2>1, <2>2
<1>4. N \in Nat
  <2>1. a * m \in Nat /\ b * k \in Nat
    BY <1>1
  <2>2. a * m * e \in Nat /\ b * k * d \in Nat
    BY <1>1, <2>1
  <2>3. QED
    BY <2>2
<1> HIDE DEF N, D
<1>5. QED
  BY <1>2, <1>3, <1>4, FractionIs

\* Merged statistics stay of their type.
LEMMA MergedIn ==
  ASSUME NEW info \in Infos, info.count # 0, NEW more \in Infos
  PROVE  Merged(info, more) \in Infos
<1> DEFINE n == info.count
           k == more.count
           avg == WeightedMean(info.avg, n, more.avg, k)
           errors == WeightedMean(info.errors, n, more.errors, k)
           low == Min({info.min, more.min})
           high == Max({info.max, more.max})
           p == [q \in {90, 95, 99} |-> Max({info.p[q], more.p[q]})]
<1>1. /\ n \in Nat /\ n # 0 /\ info.avg \in Fractions /\ info.errors \in Fractions
      /\ info.min \in Nat /\ info.max \in Nat /\ info.p \in [{90, 95, 99} -> Nat]
  BY DEF Infos
<1>2. /\ k \in Nat /\ more.avg \in Fractions /\ more.errors \in Fractions
      /\ more.min \in Nat /\ more.max \in Nat /\ more.p \in [{90, 95, 99} -> Nat]
  BY DEF Infos
<1>3. Merged(info, more)
        = [count |-> n + k, avg |-> avg, min |-> low, max |-> high, errors |-> errors, p |-> p]
  BY <1>1 DEF Merged
<1> HIDE DEF n, k
<1>4. n + k > 0 /\ n + k \in Nat
  BY <1>1, <1>2
<1>5. avg \in Fractions
  BY <1>1, <1>2, <1>4, WeightedMeanIn
<1>6. errors \in Fractions
  BY <1>1, <1>2, <1>4, WeightedMeanIn
<1>7. low \in Nat /\ high \in Nat
  BY <1>1, <1>2, PairBounds
<1>8. p \in [{90, 95, 99} -> Nat]
  <2>1. ASSUME NEW q \in {90, 95, 99} PROVE Max({info.p[q], more.p[q]}) \in Nat
    <3>1. info.p[q] \in Nat /\ more.p[q] \in Nat
      BY <1>1, <1>2
    <3>2. QED
      BY <3>1, PairBounds
  <2>2. QED
    BY <2>1
<1> HIDE DEF avg, errors, low, high, p
<1>9. QED
  BY <1>3, <1>4, <1>5, <1>6, <1>7, <1>8 DEF Infos

\* Including a trace keeps the type.
LEMMA IncludedIn ==
  ASSUME NEW info \in Infos, NEW t, IsTrace(t), NEW op
  PROVE  Included(info, t, op) \in Infos
<1> DEFINE more == AnalyzeLatency(t, op)
<1>1. more \in Infos
  BY AnalyzedIs DEF Describes, Tallies
<1>2. Included(info, t, op) = IF ~t.start \/ op \notin Services(t) THEN info
                              ELSE IF info.count = 0 THEN more ELSE Merged(info, more)
  BY DEF Included
<1> HIDE DEF more
<1>3. info.count # 0 => Merged(info, more) \in Infos
  BY <1>1, MergedIn
<1>4. QED
  BY <1>1, <1>2, <1>3

\* The loop over the traces of a listing.
Includes(listing, op, g) ==
  g = [T \in SUBSET DOMAIN listing |->
         IF T = {} THEN NoInfo ELSE Included(g[T \ {Max(T)}], listing[Max(T)], op)]
IncludedBy(listing, op, h) ==
  /\ h[0] = NoInfo /\ ServiceLatencies(listing, op) = h[Len(listing)]
  /\ \A k \in 1..Len(listing) : h[k] = Included(h[k - 1], listing[k], op)
  /\ \A k \in 0..Len(listing) : h[k] \in Infos

\* The latencies of the report are what the loop ends with.
LEMMA IncludedLoop ==
  ASSUME NEW listing, IsListing(listing), NEW op
  PROVE  \E h : IncludedBy(listing, op, h)
<1> DEFINE N == Len(listing)
           X == Range(listing)
           f == [p \in Infos \X X |-> Included(p[1], p[2], op)]
           g == CHOOSE g : Includes(listing, op, g)
<1>1. N \in Nat /\ DOMAIN listing = 1..N /\ \A k \in 1..N : listing[k] \in X
  BY DEF IsListing, Range
<1>2. ServiceLatencies(listing, op) = g[DOMAIN listing]
  BY DEF ServiceLatencies, FoldLeft, MapThenFoldSet, Includes
<1>3. \A t \in X : IsTrace(t)
  BY DEF IsListing, Range
<1>4. f \in [Infos \X X -> Infos]
  BY <1>3, IncludedIn
<1>5. \A info \in Infos, t \in X : f[<<info, t>>] = Included(info, t, op)
  OBVIOUS
<1> HIDE DEF f, g, X
<1>6. listing \in Seq(X)
  <2>1. listing = [k \in 1..N |-> listing[k]]
    BY <1>1 DEF IsListing
  <2>2. QED
    BY <1>1, <2>1
<1> HIDE DEF N
<1>7. \A T \in SUBSET (1..N) : T # {} => Max(T) \in 1..N /\ listing[Max(T)] \in X
  <2>1. \A T \in SUBSET (1..N) : T # {} => Max(T) \in T
    BY <1>1, MaxIn
  <2>2. QED
    BY <1>1, <2>1
<1>8. Includes(listing, op, g)
  <2>1. PICK k \in [SUBSET (1..N) -> Infos] : Loop(f, NoInfo, listing, N, k)
    BY <1>4, <1>6, NoInfoIs, LoopExists DEF N
  <2>2. \A T \in SUBSET (1..N) :
          k[T] = IF T = {} THEN NoInfo ELSE Included(k[T \ {Max(T)}], listing[Max(T)], op)
    BY <1>5, <1>7, <2>1 DEF Loop
  <2>3. Includes(listing, op, k)
    BY <1>1, <2>1, <2>2 DEF Includes
  <2>4. QED
    BY <2>3, Zenon DEF g
<1>9. Follows(f, NoInfo, listing, Infos, g)
  <2>1. \A T \in SUBSET (1..N) :
          g[T] = IF T = {} THEN NoInfo ELSE Included(g[T \ {Max(T)}], listing[Max(T)], op)
    BY <1>1, <1>8 DEF Includes
  <2>2. g[{}] = NoInfo
    BY <2>1
  <2>3. QED
    BY <1>5, <1>7, <2>1, <2>2 DEF Follows, N
<1>10. PICK h : LoopedBy(f, NoInfo, listing, Infos, g[DOMAIN listing], h)
  <2>1. NoInfo \in Infos
    BY NoInfoIs
  <2>2. QED
    BY <1>4, <1>6, <1>9, <2>1, LoopSteps, Zenon
<1>11. ASSUME NEW k \in 1..N PROVE h[k] = Included(h[k - 1], listing[k], op)
  <2>1. k - 1 \in 0..N
    BY <1>1
  <2>2. h[k - 1] \in Infos /\ h[k] = f[<<h[k - 1], listing[k]>>]
    BY <1>10, <2>1 DEF LoopedBy, N
  <2>3. QED
    BY <1>1, <1>5, <2>2
<1>12. IncludedBy(listing, op, h)
  BY <1>2, <1>10, <1>11 DEF LoopedBy, IncludedBy, N
<1>13. QED
  BY <1>12

\* Statistics of nothing.
LEMMA NothingIs == Describes(NoInfo, <<>>) /\ Tops(NoInfo)
<1>1. <<>> \in Seq(Sample) /\ Len(<<>>) = 0
  OBVIOUS
<1>2. FoldLeft(Recorded, NoInfo, <<>>) = NoInfo
  <2>1. PICK h : RecordedBy(<<>>, h)
    BY <1>1, RecordedLoop, Zenon
  <2>2. QED
    BY <1>1, <2>1 DEF RecordedBy
<1>3. Tallies(NoInfo, LatenciesOf(<<>>), StatesOf(<<>>), 1..0)
  <2> DEFINE none == <<>>
  <2>1. none \in Seq(Sample) /\ Len(none) = 0 /\ FoldLeft(Recorded, NoInfo, none) = NoInfo
    BY <1>1, <1>2
  <2> HIDE DEF none
  <2>2. Tallies(NoInfo, LatenciesOf(none), StatesOf(none), 1..0)
    BY <2>1, RecordingIs DEF StatesOf
  <2>3. QED
    BY <2>2 DEF none
<1>4. Centiles(NoInfo, LatenciesOf(<<>>), 1..0)
  BY DEF Centiles
<1>5. Tops(NoInfo)
  <2>1. NoInfo.max = 0 /\ NoInfo.p = [q \in {90, 95, 99} |-> 0]
    BY DEF NoInfo
  <2>2. QED
    BY <2>1 DEF Tops
<1>6. Describes(NoInfo, <<>>)
  BY <1>1, <1>3, <1>4 DEF Describes
<1>7. QED
  BY <1>5, <1>6

\* A trace has samples of an operation if the operation is one of its services.
LEMMA PieceIs ==
  ASSUME NEW t, IsTrace(t), NEW op
  PROVE  LET samples == SamplesOf(t, SpansOf(t, op)) IN
         /\ samples \in Seq(Sample) /\ Len(samples) <= Len(t.spans)
         /\ samples = <<>> <=> op \notin Services(t)
<1> DEFINE S == SpansOf(t, op)
           samples == SamplesOf(t, S)
           n == Len(samples)
           N == Len(t.spans)
           P == {k \in 1..N : t.spans[k] \in S}
<1>1. t.spans \in Seq(Spans)
  BY DEF IsTrace
<1>2. N \in Nat /\ DOMAIN t.spans = 1..N
  BY <1>1
<1>3. samples \in Seq(Sample) /\ n = Len(Those(t.spans, S))
  BY SamplesOfWhere
<1>4. PICK b : Selected(b, t.spans, S)
  BY <1>1, ThoseWhere, Zenon
<1>5. Numbers(b, n, P)
  BY <1>3, <1>4 DEF Selected
<1>6. P # {} <=> op \in Services(t)
  BY <1>2 DEF SpansOf, Services, Range
<1>7. P \in SUBSET (1..N)
  OBVIOUS
<1> HIDE DEF S, N, P, n
<1>8. IsFiniteSet(P) /\ Cardinality(P) = n
  BY <1>5, NumbersCount
<1>9. n <= N
  <2>1. IsFiniteSet(1..N) /\ Cardinality(1..N) = N
    BY <1>2, FS_Interval
  <2>2. Cardinality(P) <= Cardinality(1..N)
    BY <1>7, <2>1, FS_Subset
  <2>3. QED
    BY <1>8, <2>1, <2>2
<1>10. n = 0 <=> P = {}
  BY <1>8, FS_EmptySet
<1> HIDE DEF samples
<1>11. n = 0 <=> samples = <<>>
  BY <1>3, EmptySeq DEF n
<1>12. QED
  BY <1>3, <1>6, <1>9, <1>10, <1>11 DEF n, N, S, samples

\* What a trace adds to the report.
Piece(t, op) == IF t.start THEN SamplesOf(t, SpansOf(t, op)) ELSE <<>>

\* One more trace in the report.
LEMMA IncludedStep ==
  ASSUME NEW info, NEW cat, Describes(info, cat), NEW t, IsTrace(t), NEW op
  PROVE  /\ Describes(Included(info, t, op), cat \o Piece(t, op))
         /\ Tops(info) /\ Len(t.spans) <= 10 => Tops(Included(info, t, op))
<1> DEFINE more == AnalyzeLatency(t, op)
           samples == SamplesOf(t, SpansOf(t, op))
           new == Included(info, t, op)
<1>1. /\ samples \in Seq(Sample) /\ Len(samples) <= Len(t.spans)
      /\ samples = <<>> <=> op \notin Services(t)
  BY PieceIs
<1>2. Describes(more, samples)
  BY AnalyzedIs
<1>3. Piece(t, op) = IF t.start THEN samples ELSE <<>>
  BY DEF Piece
<1>4. new = IF ~t.start \/ op \notin Services(t) THEN info
            ELSE IF info.count = 0 THEN more ELSE Merged(info, more)
  BY DEF Included
<1>5. cat \in Seq(Sample) /\ info \in Infos /\ more \in Infos
  BY <1>2 DEF Describes, Tallies
<1> HIDE DEF samples, more, new
<1>6. info.count = 0 <=> cat = <<>>
  <2> DEFINE n == Len(cat)
  <2>1. n \in Nat /\ (n = 0 <=> cat = <<>>)
    BY <1>5, EmptySeq
  <2>2. info.count = Cardinality(1..n)
    BY DEF Describes, Tallies
  <2> HIDE DEF n
  <2>3. Cardinality(1..n) = n
    <3>1. n = 0 => 1..n = {}
      BY <2>1
    <3>2. n > 0 => Cardinality(1..n) = n
      BY <2>1, FS_Interval
    <3>3. QED
      BY <2>1, <3>1, <3>2, FS_EmptySet
  <2>4. QED
    BY <2>1, <2>2, <2>3
<1>7. Tops(more) \/ op \notin Services(t) \/ ~(Len(t.spans) <= 10)
  <2> SUFFICES ASSUME op \in Services(t), Len(t.spans) <= 10 PROVE Tops(more)
    OBVIOUS
  <2>1. Len(samples) \in Nat /\ Len(t.spans) \in Nat
    BY <1>1 DEF IsTrace
  <2>2. samples # <<>> /\ Len(samples) <= 10
    BY <1>1, <2>1
  <2>3. QED
    BY <1>2, <2>2, FewTop
<1>8. CASE ~t.start \/ op \notin Services(t)
  <2>1. Piece(t, op) = <<>> /\ new = info
    BY <1>1, <1>3, <1>4, <1>8
  <2>2. cat \o <<>> = cat
    BY <1>5, ConcatEmptySeq
  <2>3. QED
    BY <2>1, <2>2 DEF new
<1>9. CASE t.start /\ op \in Services(t) /\ info.count = 0
  <2>1. Piece(t, op) = samples /\ new = more /\ cat = <<>>
    BY <1>3, <1>4, <1>6, <1>9
  <2>2. <<>> \o samples = samples
    BY <1>1, ConcatEmptySeq
  <2>3. Describes(new, cat \o Piece(t, op))
    BY <1>2, <2>1, <2>2
  <2>4. QED
    BY <1>7, <1>9, <2>1, <2>3 DEF new
<1>10. CASE t.start /\ op \in Services(t) /\ info.count # 0
  <2>1. Piece(t, op) = samples /\ new = Merged(info, more) /\ cat # <<>> /\ samples # <<>>
    BY <1>1, <1>3, <1>4, <1>6, <1>10
  <2>2. Describes(Merged(info, more), cat \o samples)
    BY <1>2, <2>1, MergedIs
  <2>3. Tops(info) /\ Tops(more) => Tops(Merged(info, more))
    BY <1>5, MergedTop
  <2>4. Describes(new, cat \o Piece(t, op))
    BY <2>1, <2>2
  <2>5. Tops(info) /\ Len(t.spans) <= 10 => Tops(new)
    BY <1>7, <1>10, <2>1, <2>3
  <2>6. QED
    BY <2>4, <2>5 DEF new
<1>11. QED
  BY <1>8, <1>9, <1>10

\* The latencies of the report describe the samples of all its traces.
LEMMA ReportDescribes ==
  ASSUME NEW listing, IsListing(listing), NEW op
  PROVE  /\ Describes(ServiceLatencies(listing, op), TimedSamplesOf(listing, op))
         /\ (\A i \in DOMAIN listing : Len(listing[i].spans) <= 10) =>
              Tops(ServiceLatencies(listing, op))
<1> DEFINE N == Len(listing)
           seqs == [i \in DOMAIN listing |-> Piece(listing[i], op)]
           Short(k) == \A i \in 1..k : Len(listing[i].spans) <= 10
<1>1. N \in Nat /\ DOMAIN listing = 1..N /\ \A i \in 1..N : IsTrace(listing[i])
  BY DEF IsListing
<1>2. PICK h : IncludedBy(listing, op, h)
  BY IncludedLoop, Zenon
<1>3. /\ h[0] = NoInfo /\ ServiceLatencies(listing, op) = h[N]
      /\ \A k \in 1..N : h[k] = Included(h[k - 1], listing[k], op)
  BY <1>2 DEF IncludedBy
<1>4. TimedSamplesOf(listing, op) = FlattenSeq(seqs)
  BY DEF TimedSamplesOf, Piece
<1> HIDE DEF N
<1>5. seqs \in Seq(Seq(Sample)) /\ Len(seqs) = N /\ \A i \in 1..N : seqs[i] = Piece(listing[i], op)
  <2>1. \A i \in 1..N : Piece(listing[i], op) \in Seq(Sample)
    <3> TAKE i \in 1..N
    <3>1. SamplesOf(listing[i], SpansOf(listing[i], op)) \in Seq(Sample)
      BY <1>1, PieceIs
    <3>2. <<>> \in Seq(Sample)
      OBVIOUS
    <3>3. QED
      BY <3>1, <3>2 DEF Piece
  <2>2. seqs = [i \in 1..N |-> Piece(listing[i], op)]
    BY <1>1
  <2>3. seqs \in [1..N -> Seq(Sample)]
    BY <2>1, <2>2
  <2>4. \A i \in 1..N : seqs[i] = Piece(listing[i], op)
    BY <2>2
  <2> HIDE DEF seqs
  <2>5. QED
    BY <1>1, <2>3, <2>4
<1> HIDE DEF seqs
<1>6. PICK flat : Flattening(seqs, Sample, flat)
  BY <1>5, FlattenWalk, Zenon
<1>7. /\ flat[0] = <<>> /\ FlattenSeq(seqs) = flat[N]
      /\ \A k \in 1..N : flat[k] = flat[k - 1] \o Piece(listing[k], op)
  BY <1>5, <1>6 DEF Flattening
<1> DEFINE Good == {k \in Nat : k <= N => Describes(h[k], flat[k]) /\ (Short(k) => Tops(h[k]))}
<1>8. 0 \in Good
  BY <1>3, <1>7, NothingIs
<1>9. ASSUME NEW k \in Nat, k \in Good, k + 1 <= N PROVE k + 1 \in Good
  <2>1. k + 1 \in 1..N /\ (k + 1) - 1 = k /\ k <= N
    BY <1>1, <1>9
  <2>2. Describes(h[k], flat[k]) /\ (Short(k) => Tops(h[k]))
    BY <1>9, <2>1
  <2>3. Short(k + 1) => Short(k) /\ Len(listing[k + 1].spans) <= 10
    <3> SUFFICES ASSUME Short(k + 1) PROVE Short(k) /\ Len(listing[k + 1].spans) <= 10
      OBVIOUS
    <3>1. k + 1 \in 1..(k + 1) /\ \A i \in 1..k : i \in 1..(k + 1)
      OBVIOUS
    <3>2. QED
      BY <3>1
  <2> HIDE DEF Short
  <2> DEFINE info == h[k]
             cat == flat[k]
             t == listing[k + 1]
  <2>4. h[k + 1] = Included(info, t, op) /\ flat[k + 1] = cat \o Piece(t, op)
    <3>1. h[k + 1] = Included(h[(k + 1) - 1], listing[k + 1], op)
      BY <1>3, <2>1
    <3>2. flat[k + 1] = flat[(k + 1) - 1] \o Piece(listing[k + 1], op)
      BY <1>7, <2>1
    <3>3. QED
      BY <2>1, <3>1, <3>2
  <2>5. IsTrace(t)
    BY <1>1, <2>1
  <2>6. Describes(info, cat)
    BY <2>2
  <2>7. Short(k + 1) => Tops(info) /\ Len(t.spans) <= 10
    BY <2>2, <2>3
  <2> HIDE DEF info, cat, t
  <2>8. /\ Describes(Included(info, t, op), cat \o Piece(t, op))
        /\ Tops(info) /\ Len(t.spans) <= 10 => Tops(Included(info, t, op))
    BY <2>5, <2>6, IncludedStep
  <2>9. Describes(h[k + 1], flat[k + 1]) /\ (Short(k + 1) => Tops(h[k + 1]))
    BY <2>4, <2>7, <2>8
  <2>10. QED
    BY <2>9
<1>10. Describes(h[N], flat[N]) /\ (Short(N) => Tops(h[N]))
  <2>1. \A k \in 0..N : k \in Good
    <3> HIDE DEF Good
    <3>1. QED
      BY <1>1, <1>8, <1>9, PrefixInduction
  <2>2. N \in 0..N
    BY <1>1
  <2>3. QED
    BY <2>1, <2>2
<1>11. QED
  BY <1>1, <1>3, <1>4, <1>7, <1>10

\* What the report says of the samples of an operation.
Figures(info, samples) ==
  LET ms == LatenciesOf(samples) IN
  /\ Same(info.avg, Mean(ms)) /\ Same(info.errors, Share(samples, 2))
  /\ info.min = Min(Range(ms)) /\ info.max = Max(Range(ms))
  /\ \A q \in {90, 95, 99} : Percentile(ms, q) <= info.p[q] /\ info.p[q] <= info.max

\* The figures of the report are those of the samples it describes.
LEMMA FiguresAre ==
  ASSUME NEW info, NEW samples, Describes(info, samples)
  PROVE  info.count = Len(samples) /\ (samples # <<>> => Figures(info, samples))
<1> DEFINE n == Len(samples)
           P == 1..n
           ms == LatenciesOf(samples)
           state == StatesOf(samples)
<1>1. samples \in Seq(Sample) /\ n \in Nat /\ DOMAIN samples = 1..n
  BY DEF Describes
<1>2. \A i \in 1..n : samples[i].ms \in Nat /\ state[i] = samples[i].status /\ ms[i] = samples[i].ms
  <2>1. \A i \in 1..n : samples[i] \in Sample
    BY <1>1
  <2>2. \A i \in 1..n : samples[i].ms \in Nat
    BY <2>1 DEF Sample
  <2>3. \A i \in DOMAIN samples : state[i] = samples[i].status /\ ms[i] = samples[i].ms
    BY DEF LatenciesOf, StatesOf
  <2>4. QED
    BY <1>1, <2>2, <2>3
<1>3. ms \in [1..n -> Nat] /\ Len(ms) = n
  <2>1. ms = [i \in 1..n |-> samples[i].ms]
    BY <1>1 DEF LatenciesOf
  <2> HIDE DEF n, ms
  <2>2. ms \in [1..n -> Nat]
    BY <1>2, <2>1
  <2>3. QED
    BY <1>1, <2>2
<1>4. Tallies(info, ms, state, P) /\ Centiles(info, ms, P)
  BY DEF Describes
<1>5. IsFiniteSet(1..n) /\ Cardinality(1..n) = n
  <2> HIDE DEF n
  <2>1. n = 0 => 1..n = {}
    OBVIOUS
  <2>2. n > 0 => Cardinality(1..n) = n
    BY <1>1, FS_Interval
  <2>3. IsFiniteSet(1..n)
    BY <1>1, FS_Interval
  <2>4. QED
    BY <1>1, <2>1, <2>2, <2>3, FS_EmptySet
<1>6. Count(samples, 2) = Cardinality({c \in P : state[c] = 2})
  <2>1. {i \in DOMAIN samples : samples[i].status = 2} = {c \in P : state[c] = 2}
    BY <1>1, <1>2
  <2>2. QED
    BY <2>1 DEF Count
<1> HIDE DEF n, ms, state
<1>7. /\ info \in Infos /\ info.count = n
      /\ info.avg.num * n = SumOf(ms, P) * info.avg.den
      /\ info.errors.num * n = Count(samples, 2) * info.errors.den
      /\ \A c \in P : info.min <= ms[c] /\ ms[c] <= info.max
      /\ P # {} => (\E c \in P : ms[c] = info.min) /\ (\E c \in P : ms[c] = info.max)
  BY <1>4, <1>5, <1>6 DEF Tallies
<1>8. ASSUME samples # <<>> PROVE Figures(info, samples)
  <2>1. n > 0 /\ P # {}
    <3>1. n > 0
      BY <1>1, <1>8, EmptySeq DEF n
    <3>2. 1 \in P
      BY <1>1, <3>1
    <3>3. QED
      BY <3>1, <3>2
  <2>2. /\ info.avg \in Fractions /\ info.errors \in Fractions /\ info.min \in Nat
        /\ info.max \in Nat /\ info.p \in [{90, 95, 99} -> Nat]
    BY <1>7 DEF Infos
  <2>3. SumOf(ms, P) \in Nat /\ SumFunction(ms) = SumOf(ms, P)
    <3>1. DOMAIN ms = P
      BY <1>3
    <3>2. P \in SUBSET P /\ IsFiniteSet(P) /\ \A c \in P : ms[c] \in Nat
      BY <1>3, <1>5
    <3> HIDE DEF P
    <3>3. SumOf(ms, P) \in Nat
      BY <3>2, SumPart
    <3>4. QED
      BY <3>1, <3>3, SumIsSum
  <2>4. Count(samples, 2) \in Nat
    <3>1. {c \in P : state[c] = 2} \in SUBSET P
      OBVIOUS
    <3>2. IsFiniteSet({c \in P : state[c] = 2})
      BY <1>5, <3>1, FS_Subset
    <3>3. QED
      BY <1>6, <3>2, FS_CardinalityType
  <2>5. Same(info.avg, Mean(ms))
    <3> DEFINE s == SumOf(ms, P)
               a == info.avg
    <3>1. a \in Fractions /\ s \in Nat /\ a.num * n = s * a.den
      BY <1>7, <2>2, <2>3
    <3>2. Mean(ms) = Fraction(s, n)
      BY <1>3, <2>3 DEF Mean
    <3> HIDE DEF s, a
    <3>3. Same(a, Fraction(s, n))
      BY <1>1, <2>1, <3>1, CompareFraction
    <3>4. QED
      BY <3>2, <3>3 DEF a
  <2>6. Same(info.errors, Share(samples, 2))
    <3> DEFINE s == Count(samples, 2)
               a == info.errors
    <3>1. a \in Fractions /\ s \in Nat /\ a.num * n = s * a.den
      BY <1>7, <2>2, <2>4
    <3>2. Share(samples, 2) = Fraction(s, n)
      BY DEF Share, n
    <3> HIDE DEF s, a
    <3>3. Same(a, Fraction(s, n))
      BY <1>1, <2>1, <3>1, CompareFraction
    <3>4. QED
      BY <3>2, <3>3 DEF a
  <2>7. /\ info.min \in Range(ms) /\ info.max \in Range(ms)
        /\ \A y \in Range(ms) : info.min <= y /\ y <= info.max
    BY <1>3, <1>7, <2>1 DEF Range
  <2>8. info.min = Min(Range(ms)) /\ info.max = Max(Range(ms))
    <3> DEFINE R == Range(ms)
    <3>1. R \subseteq Int /\ R # {} /\ R \subseteq Nat
      BY <1>3, <2>7 DEF Range
    <3>2. IsFiniteSet(R)
      <4>1. ms \in Surjection(1..n, R)
        BY <1>3 DEF Surjection, Range
      <4>2. QED
        BY <1>5, <4>1, FS_Surjection
    <3>3. info.min \in R /\ info.max \in R /\ \A y \in R : info.min <= y /\ y <= info.max
      BY <2>7
    <3> HIDE DEF R
    <3>4. Max(R) \in R /\ (\A y \in R : y <= Max(R)) /\ Min(R) \in R /\ \A y \in R : Min(R) <= y
      BY <3>1, <3>2, FiniteMax
    <3>5. Max(R) \in Nat /\ Min(R) \in Nat
      BY <3>1, <3>4
    <3>6. info.min = Min(R)
      BY <2>2, <3>3, <3>4, <3>5
    <3>7. info.max = Max(R)
      BY <2>2, <3>3, <3>4, <3>5
    <3>8. QED
      BY <3>6, <3>7 DEF R
  <2>9. ASSUME NEW q \in {90, 95, 99}
        PROVE  Percentile(ms, q) <= info.p[q] /\ info.p[q] <= info.max
    <3>1. Centile(info.p[q], ms, P, q)
      BY <1>4, <2>1 DEF Centiles
    <3>2. Percentile(ms, q) <= info.p[q]
      BY <1>1, <1>3, <2>1, <3>1, PercentileIs
    <3>3. \E c \in P : ms[c] = info.p[q]
      BY <3>1 DEF Centile
    <3>4. QED
      BY <1>7, <3>2, <3>3
  <2>10. QED
    BY <2>5, <2>6, <2>8, <2>9 DEF Figures, ms
<1>9. QED
  BY <1>7, <1>8 DEF n

\* "Count slow traces (>2x average)" (analysis.go:800): no more than half of them.
LEMMA SlowAreFew ==
  ASSUME NEW listing, IsListing(listing)
  PROVE  2 * GeneratePerformanceReport(listing).slow <= GeneratePerformanceReport(listing).timed
<1> DEFINE timed == Timed(listing)
           totals == [i \in timed |-> listing[i].total]
           n == Cardinality(timed)
           H == {i \in timed : totals[i] * n > 2 * SumFunction(totals)}
<1>1. /\ GeneratePerformanceReport(listing).slow = Cardinality(H)
      /\ GeneratePerformanceReport(listing).timed = n
  BY DEF GeneratePerformanceReport
<1>2. IsFiniteSet(timed) /\ \A i \in timed : listing[i].total \in Nat
  <2>1. DOMAIN listing = 1..Len(listing) /\ Len(listing) \in Nat
        /\ \A i \in DOMAIN listing : IsTrace(listing[i])
    BY DEF IsListing
  <2>2. timed \in SUBSET (1..Len(listing))
    BY <2>1 DEF Timed
  <2>3. IsFiniteSet(1..Len(listing))
    BY <2>1, FS_Interval
  <2>4. IsFiniteSet(timed)
    BY <2>2, <2>3, FS_Subset
  <2>5. QED
    BY <2>1, <2>2, <2>4 DEF IsTrace
<1> HIDE DEF timed
<1>3. DOMAIN totals = timed /\ \A i \in timed : totals[i] \in Nat
  BY <1>2
<1> HIDE DEF totals
<1>4. SumFunction(totals) = SumOf(totals, timed)
  BY <1>3, SumIsSum
<1>5. H \in SUBSET timed /\ \A i \in H : totals[i] * n > 2 * SumOf(totals, timed)
  BY <1>4
<1>6. 2 \in Nat /\ n \in Nat
  BY <1>2, FS_CardinalityType
<1> HIDE DEF H
<1>7. Cardinality(H) \in Nat /\ (timed # {} => 2 * Cardinality(H) < n)
  BY <1>2, <1>3, <1>5, <1>6, FewAbove
<1>8. timed = {} => Cardinality(H) = 0
  BY <1>5, FS_EmptySet
<1> HIDE DEF n
<1>9. 2 * Cardinality(H) <= n
  BY <1>6, <1>7, <1>8
<1>10. QED
  BY <1>1, <1>9

-----------------------------------------------------------------------------
(* The graph of services, and the report as a whole.                       *)

\* The calls of an edge of the graph, as they are accumulated.
Deps == [calls : Nat, errors : Nat, avg : Fractions]
NoCalls == [calls |-> 0, errors |-> 0, avg |-> Fraction(0, 1)]

\* One more call keeps the type.
LEMMA CalledIn == \A dep \in Deps, x \in Sample : Called(dep, x) \in Deps
<1> SUFFICES ASSUME NEW dep \in Deps, NEW x \in Sample PROVE Called(dep, x) \in Deps
  OBVIOUS
<1> DEFINE n == dep.calls + 1
           avg == RunningMean(dep.avg, n, x.ms)
           errors == dep.errors + (IF x.status = 2 THEN 1 ELSE 0)
<1>1. n \in Nat /\ n > 0 /\ dep.avg \in Fractions /\ dep.errors \in Nat
  BY DEF Deps
<1>2. x.ms \in Nat
  BY DEF Sample
<1>3. avg \in Fractions
  BY <1>1, <1>2, RunningMeanIn
<1>4. errors \in Nat
  BY <1>1
<1>5. Called(dep, x) = [calls |-> n, errors |-> errors, avg |-> avg]
  BY DEF Called
<1> HIDE DEF n, avg, errors
<1>6. QED
  BY <1>1, <1>3, <1>4, <1>5 DEF Deps

\* The loop over the calls of an edge.
CallsThrough(samples, g) ==
  g = [T \in SUBSET DOMAIN samples |->
         IF T = {} THEN NoCalls ELSE Called(g[T \ {Max(T)}], samples[Max(T)])]
CalledBy(samples, h) ==
  /\ h[0] = NoCalls /\ FoldLeft(Called, NoCalls, samples) = h[Len(samples)]
  /\ \A k \in 1..Len(samples) : h[k] = Called(h[k - 1], samples[k])
  /\ \A k \in 0..Len(samples) : h[k] \in Deps

\* The figures of an edge are what the loop ends with.
LEMMA CalledLoop ==
  ASSUME NEW samples \in Seq(Sample)
  PROVE  \E h : CalledBy(samples, h)
<1> DEFINE N == Len(samples)
           f == [p \in Deps \X Sample |-> Called(p[1], p[2])]
           g == CHOOSE g : CallsThrough(samples, g)
<1>1. N \in Nat /\ DOMAIN samples = 1..N /\ \A k \in 1..N : samples[k] \in Sample
  OBVIOUS
<1>2. FoldLeft(Called, NoCalls, samples) = g[DOMAIN samples]
  BY DEF FoldLeft, MapThenFoldSet, CallsThrough
<1>3. f \in [Deps \X Sample -> Deps]
  BY CalledIn
<1>4. \A dep \in Deps, x \in Sample : f[<<dep, x>>] = Called(dep, x)
  OBVIOUS
<1>5. NoCalls \in Deps
  <2> DEFINE z == Fraction(0, 1)
  <2>1. z \in Fractions
    BY ZeroIs
  <2>2. NoCalls = [calls |-> 0, errors |-> 0, avg |-> z]
    BY DEF NoCalls
  <2> HIDE DEF z
  <2>3. QED
    BY <2>1, <2>2 DEF Deps
<1> HIDE DEF f, g, N
<1>6. \A T \in SUBSET (1..N) : T # {} => Max(T) \in 1..N /\ samples[Max(T)] \in Sample
  <2>1. \A T \in SUBSET (1..N) : T # {} => Max(T) \in T
    BY <1>1, MaxIn
  <2>2. QED
    BY <1>1, <2>1
<1>7. CallsThrough(samples, g)
  <2>1. PICK k \in [SUBSET (1..N) -> Deps] : Loop(f, NoCalls, samples, N, k)
    BY <1>3, <1>5, LoopExists DEF N
  <2>2. \A T \in SUBSET (1..N) :
          k[T] = IF T = {} THEN NoCalls ELSE Called(k[T \ {Max(T)}], samples[Max(T)])
    BY <1>4, <1>6, <2>1 DEF Loop
  <2>3. CallsThrough(samples, k)
    BY <1>1, <2>1, <2>2 DEF CallsThrough
  <2>4. QED
    BY <2>3, Zenon DEF g
<1>8. Follows(f, NoCalls, samples, Deps, g)
  <2>1. \A T \in SUBSET (1..N) :
          g[T] = IF T = {} THEN NoCalls ELSE Called(g[T \ {Max(T)}], samples[Max(T)])
    BY <1>1, <1>7 DEF CallsThrough
  <2>2. g[{}] = NoCalls
    BY <2>1
  <2>3. QED
    BY <1>4, <1>6, <2>1, <2>2 DEF Follows, N
<1>9. PICK h : LoopedBy(f, NoCalls, samples, Deps, g[DOMAIN samples], h)
  BY <1>3, <1>5, <1>8, LoopSteps, Zenon
<1>10. ASSUME NEW k \in 1..N PROVE h[k] = Called(h[k - 1], samples[k])
  <2>1. k - 1 \in 0..N
    BY <1>1
  <2>2. h[k - 1] \in Deps /\ h[k] = f[<<h[k - 1], samples[k]>>]
    BY <1>9, <2>1 DEF LoopedBy, N
  <2>3. QED
    BY <1>1, <1>4, <2>2
<1>11. CalledBy(samples, h)
  BY <1>2, <1>9, <1>10 DEF LoopedBy, CalledBy, N
<1>12. QED
  BY <1>11

\* The calls of an edge are counted and averaged as spans of an operation are.
LEMMA CallsAreSpans ==
  ASSUME NEW samples \in Seq(Sample)
  PROVE  LET dep == FoldLeft(Called, NoCalls, samples)
             info == FoldLeft(Recorded, NoInfo, samples)
         IN dep.calls = info.count /\ dep.avg = info.avg
<1> DEFINE N == Len(samples)
<1>1. N \in Nat /\ \A k \in 1..N : samples[k] \in Sample
  OBVIOUS
<1>2. PICK d : CalledBy(samples, d)
  BY CalledLoop, Zenon
<1>3. PICK h : RecordedBy(samples, h)
  BY RecordedLoop, Zenon
<1>4. /\ d[0] = NoCalls /\ FoldLeft(Called, NoCalls, samples) = d[N]
      /\ \A k \in 1..N : d[k] = Called(d[k - 1], samples[k])
  BY <1>2 DEF CalledBy
<1>5. /\ h[0] = NoInfo /\ FoldLeft(Recorded, NoInfo, samples) = h[N]
      /\ \A k \in 1..N : h[k] = Recorded(h[k - 1], samples[k])
  BY <1>3 DEF RecordedBy
<1> HIDE DEF N
<1> DEFINE Good == {k \in Nat : k <= N => d[k].calls = h[k].count /\ d[k].avg = h[k].avg}
<1>6. 0 \in Good
  <2>1. NoCalls.calls = NoInfo.count /\ NoCalls.avg = NoInfo.avg
    BY DEF NoCalls, NoInfo
  <2>2. QED
    BY <1>4, <1>5, <2>1
<1>7. ASSUME NEW k \in Nat, k \in Good, k + 1 <= N PROVE k + 1 \in Good
  <2>1. k + 1 \in 1..N /\ (k + 1) - 1 = k /\ k <= N
    BY <1>1, <1>7
  <2>2. d[k].calls = h[k].count /\ d[k].avg = h[k].avg
    BY <1>7, <2>1
  <2> DEFINE x == samples[k + 1]
  <2>3. d[k + 1] = Called(d[k], x)
    <3>1. d[k + 1] = Called(d[(k + 1) - 1], samples[k + 1])
      BY <1>4, <2>1
    <3>2. QED
      BY <2>1, <3>1
  <2>4. h[k + 1] = Recorded(h[k], x)
    <3>1. h[k + 1] = Recorded(h[(k + 1) - 1], samples[k + 1])
      BY <1>5, <2>1
    <3>2. QED
      BY <2>1, <3>1
  <2> HIDE DEF x
  <2>5. /\ d[k + 1].calls = d[k].calls + 1
        /\ d[k + 1].avg = RunningMean(d[k].avg, d[k].calls + 1, x.ms)
    BY <2>3 DEF Called
  <2>6. /\ h[k + 1].count = h[k].count + 1
        /\ h[k + 1].avg = RunningMean(h[k].avg, h[k].count + 1, x.ms)
    BY <2>4 DEF Recorded
  <2>7. QED
    BY <2>2, <2>5, <2>6
<1>8. \A k \in 0..N : k \in Good
  <2> HIDE DEF Good
  <2>1. QED
    BY <1>1, <1>6, <1>7, PrefixInduction
<1>9. N \in 0..N
  BY <1>1
<1>10. d[N].calls = h[N].count /\ d[N].avg = h[N].avg
  BY <1>1, <1>8, <1>9
<1>11. QED
  BY <1>4, <1>5, <1>10

\* The calls of an edge, as the property finds them: spans whose parent is a
\* span of the same trace and another operation.
CallPlaces(listing, from, to) ==
  {c \in Places(listing, to) :
     from # to /\ \E d \in Places(listing, from) :
       c[1] = d[1] /\ parent[SpanAt(listing, c)] = SpanAt(listing, d)}

\* They are the places of the spans that the graph counts.
LEMMA CallPlacesAre ==
  ASSUME NEW listing, NEW from, NEW to
  PROVE  CallPlaces(listing, from, to)
           = Chosen(listing, [i \in DOMAIN listing |-> CallsIn(listing[i], from, to)])
<1> DEFINE sets == [i \in DOMAIN listing |-> CallsIn(listing[i], from, to)]
           At(i, j) == listing[i].spans[j]
<1>1. \A i \in DOMAIN listing : sets[i] = CallsIn(listing[i], from, to)
  OBVIOUS
<1> HIDE DEF sets
<1>2. \A op, c : c \in Places(listing, op) <=>
        \E i \in DOMAIN listing : \E j \in DOMAIN listing[i].spans :
          c = <<i, j>> /\ node[At(i, j)] = op
  BY DEF Places
<1>3. \A c : c \in Chosen(listing, sets) <=>
        \E i \in DOMAIN listing : \E j \in DOMAIN listing[i].spans :
          c = <<i, j>> /\ At(i, j) \in CallsIn(listing[i], from, to)
  BY <1>1 DEF Chosen
<1>4. \A i, j : SpanAt(listing, <<i, j>>) = At(i, j) /\ <<i, j>>[1] = i
  BY DEF SpanAt
<1>5. ASSUME NEW i \in DOMAIN listing, NEW j \in DOMAIN listing[i].spans
      PROVE  At(i, j) \in CallsIn(listing[i], from, to) <=>
               /\ node[At(i, j)] = to /\ from # to
               /\ \E k \in DOMAIN listing[i].spans :
                    parent[At(i, j)] = At(i, k) /\ node[At(i, k)] = from
  <2>1. At(i, j) \in Range(listing[i].spans)
    BY DEF Range
  <2>2. parent[At(i, j)] \in Range(listing[i].spans) <=>
          \E k \in DOMAIN listing[i].spans : parent[At(i, j)] = At(i, k)
    BY DEF Range
  <2>3. At(i, j) \in CallsIn(listing[i], from, to) <=>
          /\ node[At(i, j)] = to /\ parent[At(i, j)] \in Range(listing[i].spans)
          /\ from # to /\ node[parent[At(i, j)]] = from
    BY <2>1 DEF CallsIn, SpansOf
  <2> HIDE DEF At
  <2>4. QED
    BY <2>2, <2>3
<1> HIDE DEF At
<1>6. ASSUME NEW c \in CallPlaces(listing, from, to) PROVE c \in Chosen(listing, sets)
  <2>1. PICK d \in Places(listing, from) :
          c[1] = d[1] /\ parent[SpanAt(listing, c)] = SpanAt(listing, d)
    BY <1>6 DEF CallPlaces
  <2>2. c \in Places(listing, to) /\ from # to
    BY DEF CallPlaces
  <2>3. PICK i \in DOMAIN listing : \E j \in DOMAIN listing[i].spans :
          c = <<i, j>> /\ node[At(i, j)] = to
    BY <1>2, <2>2
  <2>4. PICK j \in DOMAIN listing[i].spans : c = <<i, j>> /\ node[At(i, j)] = to
    BY <2>3
  <2>5. PICK h \in DOMAIN listing : \E k \in DOMAIN listing[h].spans :
          d = <<h, k>> /\ node[At(h, k)] = from
    BY <1>2, <2>1
  <2>6. PICK k \in DOMAIN listing[h].spans : d = <<h, k>> /\ node[At(h, k)] = from
    BY <2>5
  <2>7. h = i
    BY <1>4, <2>1, <2>4, <2>6
  <2>8. parent[At(i, j)] = At(i, k) /\ node[At(i, k)] = from
    BY <1>4, <2>1, <2>4, <2>6, <2>7
  <2>9. At(i, j) \in CallsIn(listing[i], from, to)
    BY <1>5, <2>2, <2>4, <2>6, <2>7, <2>8
  <2>10. QED
    BY <1>3, <2>4, <2>9
<1>7. ASSUME NEW c \in Chosen(listing, sets) PROVE c \in CallPlaces(listing, from, to)
  <2>1. PICK i \in DOMAIN listing : \E j \in DOMAIN listing[i].spans :
          c = <<i, j>> /\ At(i, j) \in CallsIn(listing[i], from, to)
    BY <1>3, <1>7
  <2>2. PICK j \in DOMAIN listing[i].spans :
          c = <<i, j>> /\ At(i, j) \in CallsIn(listing[i], from, to)
    BY <2>1
  <2>3. node[At(i, j)] = to /\ from # to
    BY <1>5, <2>2
  <2>4. PICK k \in DOMAIN listing[i].spans : parent[At(i, j)] = At(i, k) /\ node[At(i, k)] = from
    BY <1>5, <2>2
  <2>5. <<i, k>> \in Places(listing, from) /\ c \in Places(listing, to)
    BY <1>2, <2>2, <2>3, <2>4
  <2>6. c[1] = <<i, k>>[1] /\ parent[SpanAt(listing, c)] = SpanAt(listing, <<i, k>>)
    BY <1>4, <2>2, <2>4
  <2>7. QED
    BY <2>3, <2>5, <2>6 DEF CallPlaces
<1>8. QED
  BY <1>6, <1>7 DEF sets

\* The edge counts the calls at these places, and has their mean.
LEMMA GraphIs ==
  ASSUME NEW listing, IsListing(listing), NEW from, NEW to
  PROVE  LET dep == GenerateServiceDependencyGraph(listing, from, to)
             calls == CallPlaces(listing, from, to)
             ms == [c \in calls |-> MsAt(listing, c)]
         IN /\ dep.calls = Cardinality(calls)
            /\ calls # {} => Same(dep.avg, Fraction(SumFunction(ms), dep.calls))
<1> DEFINE sets == [i \in DOMAIN listing |-> CallsIn(listing[i], from, to)]
           samples == SamplesIn(listing, sets)
           calls == CallPlaces(listing, from, to)
           ms == [c \in calls |-> MsAt(listing, c)]
           dep == GenerateServiceDependencyGraph(listing, from, to)
           info == FoldLeft(Recorded, NoInfo, samples)
           n == Len(samples)
<1>1. dep = FoldLeft(Called, NoCalls, samples)
  <2>1. [i \in DOMAIN listing |-> SamplesOf(listing[i], CallsIn(listing[i], from, to))]
          = [i \in DOMAIN listing |-> SamplesOf(listing[i], sets[i])]
    OBVIOUS
  <2> HIDE DEF sets
  <2>2. QED
    BY <2>1 DEF GenerateServiceDependencyGraph, NoCalls, SamplesIn
<1>2. calls = Chosen(listing, sets)
  BY CallPlacesAre
<1> HIDE DEF sets, calls, dep
<1>3. PICK b : Sampled(b, listing, sets)
  BY SamplesWhere, Zenon
<1>4. Sums(b, listing, samples, calls)
  BY <1>2, <1>3, SampleSums
<1> HIDE DEF samples
<1>5. /\ samples \in Seq(Sample) /\ DOMAIN samples = 1..n /\ IsFiniteSet(calls)
      /\ n = Cardinality(calls) /\ \A c \in calls : MsAt(listing, c) \in Nat
  BY <1>4 DEF Sums
<1>6. SumFunction(LatenciesOf(samples)) = SumOf(ms, calls)
  BY <1>4 DEF Sums
<1>7. dep.calls = info.count /\ dep.avg = info.avg
  BY <1>1, <1>5, CallsAreSpans
<1> HIDE DEF info, n, ms
<1>8. n \in Nat /\ IsFiniteSet(1..n) /\ Cardinality(1..n) = n
  <2>1. n \in Nat
    BY <1>5 DEF n
  <2>2. IsFiniteSet(1..n)
    BY <2>1, FS_Interval
  <2>3. n > 0 => Cardinality(1..n) = n
    BY <2>1, FS_Interval
  <2>4. n = 0 => 1..n = {}
    OBVIOUS
  <2>5. QED
    BY <2>1, <2>2, <2>3, <2>4, FS_EmptySet
<1>9. SumFunction(LatenciesOf(samples)) = SumOf(LatenciesOf(samples), 1..n)
  <2>1. DOMAIN LatenciesOf(samples) = 1..n
    BY <1>5 DEF LatenciesOf
  <2>2. QED
    BY <2>1, SumIsSum
<1>10. Tallies(info, LatenciesOf(samples), StatesOf(samples), 1..n)
  BY <1>5, RecordingIs DEF info, n, StatesOf
<1>11. /\ info \in Infos /\ info.count = n
       /\ info.avg.num * n = SumOf(ms, calls) * info.avg.den
  BY <1>6, <1>8, <1>9, <1>10 DEF Tallies
<1>12. dep.calls = Cardinality(calls)
  BY <1>5, <1>7, <1>11
<1>13. ASSUME calls # {} PROVE Same(dep.avg, Fraction(SumFunction(ms), dep.calls))
  <2>1. n > 0
    <3>1. n # 0
      BY <1>5, <1>13, FS_EmptySet
    <3>2. QED
      BY <1>8, <3>1
  <2>2. DOMAIN ms = calls /\ \A c \in calls : ms[c] \in Nat
    BY <1>5 DEF ms
  <2>3. SumFunction(ms) = SumOf(ms, calls)
    BY <2>2, SumIsSum
  <2>4. SumOf(ms, calls) \in Nat
    <3>1. calls \in SUBSET calls
      OBVIOUS
    <3>2. QED
      BY <1>5, <2>2, <3>1, SumPart
  <2> DEFINE a == info.avg
             s == SumOf(ms, calls)
  <2>5. a \in Fractions /\ s \in Nat /\ a.num * n = s * a.den
    BY <1>11, <2>4 DEF Infos
  <2> HIDE DEF a, s
  <2>6. Same(a, Fraction(s, n))
    BY <1>8, <2>1, <2>5, CompareFraction
  <2>7. dep.avg = a /\ dep.calls = n /\ SumFunction(ms) = s
    BY <1>7, <1>11, <2>3 DEF a, s
  <2>8. QED
    BY <2>6, <2>7
<1>14. QED
  BY <1>12, <1>13 DEF calls, dep, ms

(* The performance report, whose figures are merged trace by trace, says   *)
(* of every operation what its spans say, and the graph of services counts *)
(* its calls, whatever the listing (analysis.go:219-308, 700-806).         *)
THEOREM ReportsMatch == OrderSpec => []ReportMatchesSpans
<1>1. TypeOK /\ trace \in Seq(Spans) => ReportMatchesSpans
  <2> SUFFICES ASSUME TypeOK, trace \in Seq(Spans), NEW listing \in Listings
               PROVE  LET report == GeneratePerformanceReport(listing) IN
                      /\ 2 * report.slow <= report.timed
                      /\ \A op \in Nodes :
                           LET info == ServiceLatencies(listing, op)
                               samples == TimedSamplesOf(listing, op)
                               ms == LatenciesOf(samples)
                           IN /\ info.count = Len(samples)
                              /\ samples # <<>> =>
                                   /\ Same(info.avg, Mean(ms))
                                   /\ Same(info.errors, Share(samples, 2))
                                   /\ info.min = Min(Range(ms)) /\ info.max = Max(Range(ms))
                                   /\ \A q \in {90, 95, 99} :
                                        /\ Percentile(ms, q) <= info.p[q] /\ info.p[q] <= info.max
                                        /\ (\A i \in DOMAIN listing : Len(listing[i].spans) <= 10)
                                             => info.p[q] = info.max
                      /\ \A from, to \in Nodes :
                           LET dep == GenerateServiceDependencyGraph(listing, from, to)
                               calls == {c \in Places(listing, to) :
                                 from # to /\ \E d \in Places(listing, from) :
                                   c[1] = d[1] /\ parent[SpanAt(listing, c)] = SpanAt(listing, d)}
                               ms == [c \in calls |-> MsAt(listing, c)]
                           IN /\ dep.calls = Cardinality(calls)
                              /\ calls # {} => Same(dep.avg, Fraction(SumFunction(ms), dep.calls))
    BY ZenonT(60) DEF ReportMatchesSpans
  <2>1. IsListing(listing)
    BY ListingsAre
  <2>2. 2 * GeneratePerformanceReport(listing).slow <= GeneratePerformanceReport(listing).timed
    BY <2>1, SlowAreFew
  <2>3. ASSUME NEW op \in Nodes
        PROVE  LET info == ServiceLatencies(listing, op)
                   samples == TimedSamplesOf(listing, op)
               IN /\ info.count = Len(samples)
                  /\ samples # <<>> => Figures(info, samples)
                  /\ (\A i \in DOMAIN listing : Len(listing[i].spans) <= 10) => Tops(info)
    <3> DEFINE info == ServiceLatencies(listing, op)
               samples == TimedSamplesOf(listing, op)
    <3>1. /\ Describes(info, samples)
          /\ (\A i \in DOMAIN listing : Len(listing[i].spans) <= 10) => Tops(info)
      BY <2>1, ReportDescribes
    <3> HIDE DEF info, samples
    <3>2. info.count = Len(samples) /\ (samples # <<>> => Figures(info, samples))
      BY <3>1, FiguresAre
    <3>3. QED
      BY <3>1, <3>2 DEF info, samples
  <2>4. ASSUME NEW from \in Nodes, NEW to \in Nodes
        PROVE  LET dep == GenerateServiceDependencyGraph(listing, from, to)
                   calls == CallPlaces(listing, from, to)
                   ms == [c \in calls |-> MsAt(listing, c)]
               IN /\ dep.calls = Cardinality(calls)
                  /\ calls # {} => Same(dep.avg, Fraction(SumFunction(ms), dep.calls))
    BY <2>1, GraphIs
  <2>5. QED
    BY <2>2, <2>3, <2>4 DEF Figures, Tops, CallPlaces
<1>2. IInv => TypeOK
  BY DEF IInv
<1>3. QED
  BY <1>1, <1>2, TracesHoldSpans, PTL
=============================================================================
