--------------------------- MODULE TraceAnalysis ----------------------------
(***************************************************************************)
(* What is computed from one stored trace: the critical path that the      *)
(* visualizer shows (analysis.go:575-681, visualizer_main.go:371) and the  *)
(* two ways in which the storages search for it (storage.go:487-611).      *)
(* Latencies and states of spans are parameters: the properties are about  *)
(* all of them.                                                            *)
(***************************************************************************)
EXTENDS SpanOrder

CONSTANTS Latencies,  \* bound: milliseconds from StartTime to EndTime
          Statuses    \* bound: states of spans, 1 for OK, 2 for ERROR, 3 for TIMEOUT

ASSUME LatenciesAssumption == Latencies \subseteq Nat
ASSUME StatusesAssumption == Statuses \subseteq 1..3
-----------------------------------------------------------------------------
\* A nil of OrderSpans is an empty span once it has been sent (collector.go:363).
ParentOf(s) == IF s = NoSpan THEN NoSpan ELSE parent[s]

Children(spans, s) == {c \in Range(spans) : s # NoSpan /\ ParentOf(c) = s}

\* Lines 587-602: the last span without a parent, or else the first span.
RootSpan(spans) ==
  LET roots == {i \in DOMAIN spans : ParentOf(spans[i]) = NoSpan}
  IN IF roots = {} THEN Head(spans) ELSE spans[Max(roots)]

\* Mutant of PathLatency: what was found below a child is not added to it.
PathLatency_Own(spans, latency, span) == latency[span]

\* findCriticalPath (632-656): a span and its slowest descent.
PathLatency(spans, latency, span) ==
  LET slowest[s \in Range(spans) \ {NoSpan}] ==
        latency[s] + Max({0} \cup {slowest[c] : c \in Children(spans, s)})
  IN slowest[span]

\* Lines 638-652, 663-677: down the first child with the largest latency, as
\* long as that is not 0.
PathFrom(spans, latency, span) ==
  LET ms == [s \in Range(spans) \ {NoSpan} |-> PathLatency(spans, latency, s)]
      path[s \in Range(spans) \ {NoSpan}] ==
        LET Slowest(c) == \A d \in Children(spans, s) : ms[c] >= ms[d]
            critical == {i \in DOMAIN spans : /\ spans[i] \in Children(spans, s)
                                             /\ Slowest(spans[i]) /\ ms[spans[i]] > 0}
        IN IF critical = {} THEN <<s>> ELSE <<s>> \o path[spans[Min(critical)]]
  IN path[span]

\* An empty span has no times, and no path starts there (605-627).
IdentifyCriticalPath(spans, latency) ==
  IF spans = <<>> \/ RootSpan(spans) = NoSpan THEN <<>>
  ELSE PathFrom(spans, latency, RootSpan(spans))
-----------------------------------------------------------------------------
\* The service of a span is its node.  RootService is that of the first span
\* stored, if it is the root (collector.go:313-317).
RootService(spans) == IF parent[spans[1]] = NoSpan THEN node[spans[1]] ELSE NoSpan

\* updateTraceIndex (storage.go:311-318): the highest status, at least OK.
IndexEntry(spans, status) ==
  [service |-> RootService(spans), status |-> Max({1} \cup {status[s] : s \in Range(spans)})]

\* Mutant of MatchesFilterEntry: the status is not compared.
MatchesFilterEntry_AnyStatus(entry, filter) ==
  filter.services = {} \/ entry.service \in filter.services

\* FileStorage.ListTraces; status 0 asks for any.
MatchesFilterEntry(entry, filter) ==
  /\ filter.services = {} \/ entry.service \in filter.services
  /\ filter.status \in {0, entry.status}

\* MemoryStorage.ListTraces.
MatchesFilter(spans, status, filter) ==
  /\ filter.services = {} \/ \E s \in Range(spans) : node[s] \in filter.services
  /\ filter.status = 0 \/ \E s \in Range(spans) : status[s] = filter.status
-----------------------------------------------------------------------------
Total(latency, S) == SumFunctionOnSet(latency, S)

\* S is the set of spans on a way down from r in the trace.
ChainFrom(r, S) ==
  /\ r \in S
  /\ \A s \in S \ {r} : parent[s] \in S
  /\ \A s, t \in S \ {r} : parent[s] = parent[t] => s = t

(* "Find critical path - the path with the highest latency"                *)
(* (analysis.go:631): in a trace that has its parents, in whatever order   *)
(* they come, the path found is a way down from the root and no other way  *)
(* takes longer, also if spans were stored twice.  A missing parent may    *)
(* hide the root: then there is no path.                                   *)
CriticalPathIsLongest ==
  \A spans \in {OrderSpans(trace, keys) : keys \in SetToSeqs(Keys(trace))},
     latency \in [Range(trace) -> Latencies] :
    LET path == IdentifyCriticalPath(spans, latency)
        chains == {S \in SUBSET Range(trace) : ChainFrom(path[1], S)}
    IN IF path = <<>> THEN NoSpan \in Range(spans) \/ trace = <<>>
       ELSE /\ Len(spans) = 1 \/ parent[path[1]] = NoSpan
            /\ Range(path) \in chains /\ IsInjective(path)
            /\ \A S \in chains : Total(latency, S) <= Total(latency, Range(path))

(* The storages answer ListTraces in different ways, from the index and    *)
(* from the spans.  What a filter finds in the index it also finds in the  *)
(* spans; the index misses traces by services below the root, by states    *)
(* that are not the worst, and all whose first stored span is not the root.*)
ListingsAgree ==
  trace # <<>> =>
    \A status \in [Range(trace) -> Statuses],
       filter \in [services : SUBSET Nodes, status : 0..3] :
      MatchesFilterEntry(IndexEntry(trace, status), filter) => MatchesFilter(trace, status, filter)
=============================================================================
