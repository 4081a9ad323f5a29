----------------------------- MODULE SpanOrder ------------------------------
(***************************************************************************)
(* One trace in the collector's storage and what clock.go:190-316 reads    *)
(* from it: OrderSpans and DetectConcurrentEvents.                         *)
(*                                                                         *)
(* The spans of the trace start as in SpanClocks and are stored one after  *)
(* the other in any order (module Collector has what goes wrong when they  *)
(* are not).  A span that is sent twice is stored twice; one that never    *)
(* arrives, or not yet, leaves its children without a parent in the trace. *)
(***************************************************************************)
EXTENDS SpanClocks, SequencesExt

CONSTANTS MaxLength,  \* bound: length of the trace
          MaxCopied   \* bound: length of a trace with a span stored twice

ASSUME LengthAssumption == {MaxLength, MaxCopied} \subseteq Nat

VARIABLE trace      \* trace.Spans: a sequence of spans that have been started

orderVars == <<vars, trace>>

OrderInit == Init /\ trace = <<>>

\* StoreSpan (collector.go:320-321): the span is appended.
StoreSpan(s) ==
  /\ s \in Started
  /\ Len(trace) < MaxLength
  /\ IsInjective(Append(trace, s)) \/ Len(trace) < MaxCopied
  /\ trace' = Append(trace, s)
  /\ UNCHANGED vars

\* All spans of one trace: there is one root.
Start ==
  /\ \E s \in Spans, n \in Nodes :
       \/ Started = {} /\ StartRoot(s, n)
       \/ \E p \in Spans : \/ StartChild(s, n, p) \/ StartWithoutClock(s, n, p)
                           \/ StartSpanFromContext(s, n, p)
  /\ UNCHANGED trace

OrderNext == Start \/ \E s \in Spans : StoreSpan(s)

OrderSpec == OrderInit /\ [][OrderNext]_orderVars
-----------------------------------------------------------------------------
Before(r, s) == Compare(clock[r], clock[s]) = -1
Concurrent(r, s) == Compare(clock[r], clock[s]) = 0

\* The keys of graph: line 212 makes one also for a parent that is not there.
Keys(spans) == (Range(spans) \cup {parent[s] : s \in Range(spans)}) \ {NoSpan}

\* The elements of seq that are in S, in order.
Those(seq, S) ==
  LET those[i \in 0..Len(seq)] ==
        IF i = 0 THEN <<>>
        ELSE IF seq[i] \in S THEN Append(those[i - 1], seq[i]) ELSE those[i - 1]
  IN those[Len(seq)]

\* The spans that s is before, in the order of the trace (lines 215-226).
Later(spans, s) == Those(spans, {r \in Range(spans) : Before(s, r)})

\* The edges in the order of the appends of lines 207-226.
Graph(spans) ==
  [id \in Keys(spans) |-> FlattenSeq([i \in 1..Len(spans) |->
    (IF parent[spans[i]] = id THEN <<spans[i]>> ELSE <<>>) \o
    (IF spans[i] = id THEN Later(spans, id) ELSE <<>>)])]

\* What the search leaves behind: lines 229-231.
Search(graph) == [visited : SUBSET DOMAIN graph, ordered : Seq(DOMAIN graph)]

\* Mutant of Visit: the span is appended before its neighbours are visited.
Visit_Preorder(graph, start, key) ==
  LET visit[temp \in SUBSET DOMAIN graph] ==
        [p \in Search(graph) \X DOMAIN graph |->
          LET st == p[1]
              id == p[2]
              entered == [st EXCEPT !.ordered = Append(@, id)]
              down == FoldLeft(LAMBDA acc, m : visit[temp \cup {id}][<<acc, m>>],
                               entered, graph[id])
          IN IF id \in temp \cup st.visited THEN st
             ELSE [down EXCEPT !.visited = @ \cup {id}]]
  IN visit[{}][<<start, key>>]

\* Mutant of Visit: visited is not looked at.
Visit_Again(graph, start, key) ==
  LET visit[temp \in SUBSET DOMAIN graph] ==
        [p \in Search(graph) \X DOMAIN graph |->
          LET st == p[1]
              id == p[2]
              down == FoldLeft(LAMBDA acc, m : visit[temp \cup {id}][<<acc, m>>], st, graph[id])
          IN IF id \in temp THEN st
             ELSE [visited |-> down.visited \cup {id}, ordered |-> Append(down.ordered, id)]]
  IN visit[{}][<<start, key>>]

\* Lines 233-252: visit of a span while the spans of temp are being visited,
\* applied to what has been found and the span; a cycle is left where it closes.
Visit(graph, start, key) ==
  LET visit[temp \in SUBSET DOMAIN graph] ==
        [p \in Search(graph) \X DOMAIN graph |->
          LET st == p[1]
              id == p[2]
              down == FoldLeft(LAMBDA acc, m : visit[temp \cup {id}][<<acc, m>>], st, graph[id])
          IN IF id \in temp \cup st.visited THEN st
             ELSE [visited |-> down.visited \cup {id}, ordered |-> Append(down.ordered, id)]]
  IN visit[{}][<<start, key>>]

\* keys is the order in which the map is ranged over (255-259); NoSpan in the
\* result is the nil that spanMap has for a parent that is not there.
OrderSpans(spans, keys) ==
  LET graph == Graph(spans)
      start == [visited |-> {}, ordered |-> <<>>]
      ordered == FoldLeft(LAMBDA acc, id : Visit(graph, acc, id), start, keys).ordered
  IN IF Len(spans) <= 1 THEN spans
     ELSE Reverse([i \in 1..Len(ordered) |->
            IF ordered[i] \in Range(spans) THEN ordered[i] ELSE NoSpan])

\* Mutant of Group: the spans that are ordered after the first are taken too.
Group_After(spans, processed, s) ==
  FoldLeft(LAMBDA group, r : IF r \notin processed \cup Range(group) /\ ~Before(r, s)
                             THEN Append(group, r) ELSE group,
           <<s>>, spans)

\* Lines 292-307: only the first span of a group is compared with the others.
Group(spans, processed, s) ==
  FoldLeft(LAMBDA group, r : IF r \notin processed \cup Range(group) /\ Concurrent(s, r)
                             THEN Append(group, r) ELSE group,
           <<s>>, spans)

\* Lines 283-315: every span is in one group, groups of one are dropped.
DetectConcurrentEvents(spans) ==
  LET step(acc, s) ==
        LET group == Group(spans, acc.processed, s) IN
        IF s \in acc.processed THEN acc
        ELSE [processed |-> acc.processed \cup Range(group),
              groups |-> IF Len(group) > 1 THEN Append(acc.groups, group) ELSE acc.groups]
  IN FoldLeft(step, [processed |-> {}, groups |-> <<>>], spans).groups
-----------------------------------------------------------------------------
\* Every child in the trace was started with the clock of its parent.
ClocksPassed(spans) ==
  \A s \in Range(spans) : parent[s] # NoSpan => parent[s] \in above[s]

(* "OrderSpans orders spans based on causal relationships" (clock.go:190): *)
(* whatever order the spans were stored in and the map is ranged over in,  *)
(* no span comes before one that has caused it, spans with a missing       *)
(* parent included, if clocks were passed on.  And it gives its callers    *)
(* every stored span once, however often it was stored and whatever cycles *)
(* broken clocks make, and a nil for every parent that is missing, whose   *)
(* fields DetectBottlenecks reads without a test (analysis.go:143).        *)
OrderIsCausal ==
  \A keys \in SetToSeqs(Keys(trace)) :
    LET spans == OrderSpans(trace, keys)
        Times(s) == Cardinality({i \in 1..Len(spans) : spans[i] = s})
    IN /\ ClocksPassed(trace) =>
            \A i, j \in 1..Len(spans) :
              i < j /\ {spans[i], spans[j]} \subseteq Range(trace) =>
                ~Before(spans[j], spans[i]) /\ parent[spans[i]] # spans[j]
       /\ Len(trace) > 1 =>
            /\ \A s \in Range(trace) : Times(s) = 1
            /\ Times(NoSpan) = Cardinality({parent[s] : s \in Range(trace)}
                                             \ (Range(trace) \cup {NoSpan}))

(* "identifies concurrent events in a trace" (clock.go:269): groups are    *)
(* reported if and only if some two spans are unordered, no span is in two *)
(* of them, and the first of a group is unordered with every other.        *)
ConcurrencyFound ==
  LET groups == DetectConcurrentEvents(trace) IN
  /\ groups # <<>> <=> \E r, s \in Range(trace) : r # s /\ Concurrent(r, s)
  /\ IsInjective(FlattenSeq(groups))
  /\ \A i \in 1..Len(groups) : \A j \in 2..Len(groups[i]) : Concurrent(groups[i][1], groups[i][j])
=============================================================================
