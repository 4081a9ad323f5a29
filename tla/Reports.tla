------------------------------- MODULE Reports -------------------------------
(***************************************************************************)
(* The reports of pkg/analysis.go over a listing of traces: latencies,     *)
(* bottlenecks, the graph of services, anomalies, SLAs and the performance *)
(* report made of them.  The collector's analysis worker and the           *)
(* visualizer compute them from what ListTraces returns, in the order in   *)
(* which spans happen to be stored.                                        *)
(*                                                                         *)
(* An operation is its service, which is the node of its spans.  Stored    *)
(* spans have both their times.  Averages and rates are floats in the code *)
(* and exact fractions here.                                               *)
(***************************************************************************)
EXTENDS TraceAnalysis

CONSTANTS MaxReported,  \* bound: length of a trace in a listing
          MaxListing,   \* bound: length of the longer listings
          Outlier       \* bound: the latency of a span that takes very long

ASSUME ReportedAssumption == {MaxReported, MaxListing, Outlier} \subseteq Nat
-----------------------------------------------------------------------------
gcd[p \in Nat \X Nat] == IF p[2] = 0 THEN p[1] ELSE gcd[<<p[2], p[1] % p[2]>>]

\* In lowest terms, so that terms stay small.
Fraction(n, d) == [num |-> n \div gcd[<<n, d>>], den |-> d \div gcd[<<n, d>>]]
AtMost(q, r)   == q.num * r.den <= r.num * q.den
Same(q, r)     == q.num * r.den = r.num * q.den

\* ((mean * (n-1)) + x) / n: lines 55, 66-68, 278, 523-532.
RunningMean(q, n, x) == Fraction(q.num * (n - 1) + x * q.den, q.den * n)

\* The mean of m values with mean q and k values with mean r (747-749, 773-775).
WeightedMean(q, m, r, k) ==
  Fraction(q.num * m * r.den + r.num * k * q.den, q.den * r.den * (m + k))

\* Lines 102-113: the value that is at the place once they are sorted; for p of
\* 90, 95 and 99 the float product is cut to the same integer as the exact one.
Percentile(values, p) ==
  LET n == Cardinality(DOMAIN values)
      place == Min({(p * n) \div 100 + 1, n})
      UpTo(v) == {i \in DOMAIN values : values[i] <= v}
  IN IF n = 0 THEN 0 ELSE Min({v \in Range(values) : Cardinality(UpTo(v)) >= place})
-----------------------------------------------------------------------------
Roots(spans) == {s \in Range(spans) : parent[s] = NoSpan}

\* A trace: its spans with their latency and status, whether it has a StartTime,
\* and EndTime minus StartTime.  There is a StartTime if the root was stored
\* first (collector.go:313-317).  The last span to end is the root, or one that
\* ends late, after its deadline.
TraceOf(stored, spans, latency, status, late) ==
  [spans |-> spans, latency |-> latency, status |-> status,
   start |-> parent[stored[1]] = NoSpan,
   total |-> late + Max({0} \cup {latency[s] : s \in Roots(stored)})]

Services(t) == {node[s] : s \in Range(t.spans)}
Operations(listing) == UNION {Services(listing[i]) : i \in DOMAIN listing}

\* What is recorded of the spans in S, in the order in which they are stored.
SamplesOf(t, S) ==
  LET spans == Those(t.spans, S)
  IN [i \in DOMAIN spans |-> [ms |-> t.latency[spans[i]], status |-> t.status[spans[i]]]]

\* The spans of an operation.
SpansOf(t, op) == {s \in Range(t.spans) : node[s] = op}

AllSamplesOf(listing, op) ==
  FlattenSeq([i \in DOMAIN listing |-> SamplesOf(listing[i], SpansOf(listing[i], op))])

LatenciesOf(samples) == [i \in DOMAIN samples |-> samples[i].ms]
Count(samples, status) == Cardinality({i \in DOMAIN samples : samples[i].status = status})

NoInfo ==
  [count |-> 0, avg |-> Fraction(0, 1), min |-> 0, max |-> 0, errors |-> Fraction(0, 1),
   p |-> [q \in {90, 95, 99} |-> 0]]

\* One more span in the statistics of its operation (51-69).
Recorded(info, sample) ==
  LET n == info.count + 1 IN
  [count |-> n,
   avg |-> RunningMean(info.avg, n, sample.ms),
   min |-> IF n = 1 THEN sample.ms ELSE Min({info.min, sample.ms}),
   max |-> Max({info.max, sample.ms}),
   errors |-> RunningMean(info.errors, n, IF sample.status = 2 THEN 1 ELSE 0),
   p |-> info.p]

\* Lines 27-99, for one operation.
AnalyzeLatency(t, op) ==
  LET samples == SamplesOf(t, SpansOf(t, op))
  IN [FoldLeft(Recorded, NoInfo, samples)
        EXCEPT !.p = [q \in {90, 95, 99} |-> Percentile(LatenciesOf(samples), q)]]
-----------------------------------------------------------------------------
\* Mutant of OwnLatency: children are not subtracted.
OwnLatency_Whole(t, s) == t.latency[s]

\* Own time of a span: its latency without that of its children (145-174).
\* OrderSpans has returned every span once (OrderIsCausal).
OwnLatency(t, s) ==
  t.latency[s] - Total(t.latency, {c \in Range(t.spans) : parent[c] = s})

\* Lines 135-138.
TotalLatency(t) == IF t.start THEN t.total ELSE 0

\* Lines 126-200; a total of 0 makes every share infinite.
DetectBottlenecks(t) ==
  {s \in Range(t.spans) : OwnLatency(t, s) > 0 /\ 10 * OwnLatency(t, s) > TotalLatency(t)}

\* OrderSpans has returned a nil, which line 143 reads.
Panics(t) ==
  /\ Len(t.spans) > 1
  /\ \E s \in Range(t.spans) \ {NoSpan} : parent[s] \notin Range(t.spans) \cup {NoSpan}

\* The first bottleneck after the sort of lines 195-197.
Worst(t) == {s \in DetectBottlenecks(t) :
               \A r \in DetectBottlenecks(t) : OwnLatency(t, r) <= OwnLatency(t, s)}

\* handleTraceView (visualizer_main.go:337-392) shows what it computes from the
\* trace that the collector has ordered.  Which of the orders it is does not
\* matter (OrderIsCausal).
TraceView(latency, late) ==
  LET spans == OrderSpans(trace, SetToSeq(Keys(trace)))
  IN TraceOf(trace, spans, latency, [s \in Range(trace) |-> 1], late)
-----------------------------------------------------------------------------
\* The calls of an edge of the graph: spans whose parent is in the trace and in
\* another service (237-248).
CallsIn(t, from, to) ==
  {s \in SpansOf(t, to) : /\ parent[s] \in Range(t.spans)
                          /\ from # to /\ node[parent[s]] = from}

\* One more call (256-270).
Called(dep, call) ==
  [calls |-> dep.calls + 1,
   errors |-> dep.errors + (IF call.status = 2 THEN 1 ELSE 0),
   avg |-> RunningMean(dep.avg, dep.calls + 1, call.ms)]

\* Lines 219-308, one edge.
GenerateServiceDependencyGraph(listing, from, to) ==
  FoldLeft(Called, [calls |-> 0, errors |-> 0, avg |-> Fraction(0, 1)],
    FlattenSeq([i \in DOMAIN listing |-> SamplesOf(listing[i], CallsIn(listing[i], from, to))]))
-----------------------------------------------------------------------------
SpanAt(listing, c) == listing[c[1]].spans[c[2]]
MsAt(listing, c) == listing[c[1]].latency[SpanAt(listing, c)]
StatusAt(listing, c) == listing[c[1]].status[SpanAt(listing, c)]

\* The places of the spans of an operation.
Places(listing, op) ==
  UNION {{<<i, j>> : j \in {k \in DOMAIN listing[i].spans : node[listing[i].spans[k]] = op}} :
           i \in DOMAIN listing}

\* The baseline of an operation (345-385), not divided by the count.
Baseline(listing, op) ==
  LET samples == AllSamplesOf(listing, op) IN
  [count |-> Len(samples), ms |-> SumFunction(LatenciesOf(samples)), errors |-> Count(samples, 2)]

\* Mutant of HighLatency: the total has not been divided by the count.
HighLatency_Total(base, ms, times) == base.ms > 0 /\ ms > times * base.ms

\* Lines 420 and 422.
HighLatency(base, ms, times) == base.ms > 0 /\ ms * base.count > times * base.ms

\* Lines 438-441: errors are rare for this operation.
RareError(base, status) == status = 2 /\ 10 * base.errors < base.count

\* Lines 407-466, for one operation; groups of three and more concurrent spans
\* (SpanOrder) are reported as well.
DetectAnomalies(listing, op) ==
  LET base == Baseline(listing, op)
      places == Places(listing, op) IN
  [high |-> {c \in places : HighLatency(base, MsAt(listing, c), 3)},
   severe |-> {c \in places : HighLatency(base, MsAt(listing, c), 10)},
   errors |-> {c \in places : RareError(base, StatusAt(listing, c))},
   timeouts |-> {c \in places : StatusAt(listing, c) = 3}]
-----------------------------------------------------------------------------
\* Mutant of Measured: the rates of the other states are updated too.
Measured_AllRates(sla, sample) ==
  LET n == sla.count + 1
      Is(s) == IF s = sample.status THEN 1 ELSE 0 IN
  [count |-> n,
   avg |-> RunningMean(sla.avg, n, sample.ms),
   rate |-> [s \in 1..3 |-> RunningMean(sla.rate[s], n, Is(s))]]

\* Lines 519-533: only the rate of the span's own state is updated.
Measured(sla, sample) ==
  LET n == sla.count + 1 IN
  [count |-> n,
   avg |-> RunningMean(sla.avg, n, sample.ms),
   rate |-> [sla.rate EXCEPT ![sample.status] = RunningMean(@, n, 1)]]

\* Lines 491-564, for one operation.
CalculateServiceSLAs(listing, op) ==
  LET samples == AllSamplesOf(listing, op)
      zero == Fraction(0, 1)
      none == [count |-> 0, avg |-> zero, rate |-> [s \in 1..3 |-> zero]]
  IN [sla |-> FoldLeft(Measured, none, samples), p99 |-> Percentile(LatenciesOf(samples), 99)]
-----------------------------------------------------------------------------
\* Mutant of Merged: the new average is not weighted.
Merged_Unweighted(info, more) ==
  [count |-> info.count + more.count,
   avg |-> WeightedMean(info.avg, 1, more.avg, 1),
   min |-> Min({info.min, more.min}), max |-> Max({info.max, more.max}),
   errors |-> WeightedMean(info.errors, info.count, more.errors, more.count),
   p |-> [q \in DOMAIN info.p |-> Max({info.p[q], more.p[q]})]]

\* Lines 744-775.
Merged(info, more) ==
  [count |-> info.count + more.count,
   avg |-> WeightedMean(info.avg, info.count, more.avg, more.count),
   min |-> Min({info.min, more.min}), max |-> Max({info.max, more.max}),
   errors |-> WeightedMean(info.errors, info.count, more.errors, more.count),
   p |-> [q \in DOMAIN info.p |-> Max({info.p[q], more.p[q]})]]

\* Lines 741-780: traces without timing info are skipped (719-721).
Included(info, t, op) ==
  LET more == AnalyzeLatency(t, op) IN
  IF ~t.start \/ op \notin Services(t) THEN info
  ELSE IF info.count = 0 THEN more ELSE Merged(info, more)

\* The latencies of an operation in the report.
ServiceLatencies(listing, op) ==
  FoldLeft(LAMBDA info, t : Included(info, t, op), NoInfo, listing)

Timed(listing) == {i \in DOMAIN listing : listing[i].start}

\* The figures about whole traces (709-740, 783-806).  The bottleneck of a
\* trace is one of Worst.
GeneratePerformanceReport(listing) ==
  LET timed == Timed(listing)
      totals == [i \in timed |-> listing[i].total]
      Failed(t) == \E s \in Range(t.spans) : t.status[s] \in {2, 3}
      Slow(ms) == ms * Cardinality(timed) > 2 * SumFunction(totals)
  IN [traces |-> Len(listing), timed |-> Cardinality(timed),
      errors |-> Cardinality({i \in timed : Failed(listing[i])}),
      slow |-> Cardinality({i \in timed : Slow(totals[i])}),
      p95 |-> Percentile(totals, 95),
      bottlenecks |-> [i \in timed |-> Worst(listing[i])]]
-----------------------------------------------------------------------------
\* Many traces of a usual call, and one that is not usual: it comes first or
\* last, and its spans may have been stored in another order.
UsualTraces ==
  {TraceOf(trace, trace, latency, [s \in Range(trace) |-> status], 0) :
     latency \in [Range(trace) -> Latencies], status \in Statuses}
OddTraces ==
  {TraceOf(spans, spans, latency, status, 0) : spans \in {trace, Reverse(trace)},
     latency \in [Range(trace) -> Latencies \cup {Outlier}],
     status \in [Range(trace) -> Statuses]}
Listings ==
  IF trace = <<>> \/ Len(trace) > MaxReported \/ Cardinality(Started) > MaxReported THEN {}
  ELSE {[j \in 1..MaxListing |-> IF j = i THEN odd ELSE usual] :
          usual \in UsualTraces, odd \in OddTraces, i \in {1, MaxListing}}

Share(samples, status) == Fraction(Count(samples, status), Len(samples))

Mean(values) == Fraction(SumFunction(values), Len(values))

\* All samples of an operation in traces with a start time.
TimedSamplesOf(listing, op) ==
  FlattenSeq([i \in DOMAIN listing |->
    IF listing[i].start THEN SamplesOf(listing[i], SpansOf(listing[i], op)) ELSE <<>>])

(* The latencies of the report, which are merged from running means trace  *)
(* by trace (analysis.go:743-779), are those of the spans of all traces    *)
(* with a start time, in whatever order these were stored; a percentile is *)
(* at least the true one, and the maximum if no trace has more than ten    *)
(* spans.  "Count slow traces (>2x average)": fewer than half.  The edges  *)
(* of the graph count the calls of all traces, with their mean.            *)
ReportMatchesSpans ==
  \A listing \in Listings :
    LET report == GeneratePerformanceReport(listing) IN
    /\ 2 * report.slow <= report.timed
    /\ \A op \in Nodes :
         LET info == ServiceLatencies(listing, op)
             samples == TimedSamplesOf(listing, op)
             ms == LatenciesOf(samples)
         IN /\ info.count = Len(samples)
            /\ samples # <<>> =>
                 /\ Same(info.avg, Mean(ms)) /\ Same(info.errors, Share(samples, 2))
                 /\ info.min = Min(Range(ms)) /\ info.max = Max(Range(ms))
                 /\ \A q \in {90, 95, 99} :
                      /\ Percentile(ms, q) <= info.p[q] /\ info.p[q] <= info.max
                      /\ (\A i \in DOMAIN listing : Len(listing[i].spans) <= 10) =>
                           info.p[q] = info.max
    /\ \A from, to \in Nodes :
         LET dep == GenerateServiceDependencyGraph(listing, from, to)
             calls == {c \in Places(listing, to) :
                         from # to /\ \E d \in Places(listing, from) :
                           c[1] = d[1] /\ parent[SpanAt(listing, c)] = SpanAt(listing, d)}
             ms == [c \in calls |-> MsAt(listing, c)]
         IN /\ dep.calls = Cardinality(calls)
            /\ calls # {} => Same(dep.avg, Fraction(SumFunction(ms), dep.calls))

(* The rates of an SLA (analysis.go:526-533) never understate: each is at  *)
(* least the share of the spans with that state, and equal to it only if   *)
(* no span with another state was listed after the first one with it.  So  *)
(* an error rate depends on the order of the listing, and does not agree   *)
(* with that of the latency report.                                        *)
RatesOverstate ==
  \A listing \in Listings : \A op \in Operations(listing) :
    LET samples == AllSamplesOf(listing, op)
        sla == CalculateServiceSLAs(listing, op).sla
    IN /\ Same(sla.avg, Mean(LatenciesOf(samples)))
       /\ \A status \in 1..3 :
            LET is == {i \in DOMAIN samples : samples[i].status = status} IN
            /\ AtMost(Share(samples, status), sla.rate[status])
            /\ Same(sla.rate[status], Share(samples, status))
                 <=> \A i \in is : i..Len(samples) \subseteq is

(* The page of one trace.  It fails if a parent is missing.  Otherwise it  *)
(* counts every span once, in whatever order and however often spans were  *)
(* stored, and its bottlenecks add up, "Own time" (analysis.go:173): if    *)
(* the children of every span fit into it, their times make no more than   *)
(* that of the root, so that no time is reported twice, and if the trace   *)
(* has a start time each span left out hides at most a tenth of the total. *)
ViewAddsUp ==
  trace # <<>> /\ Len(trace) <= MaxCopied /\ Cardinality(Started) <= MaxCopied =>
    \A latency \in [Range(trace) -> Latencies \cup {Outlier}], late \in {0, Outlier} :
      LET t == TraceView(latency, late)
          own == [s \in Range(trace) |-> OwnLatency(t, s)]
          reported == Total(own, DetectBottlenecks(t))
          others == Range(trace) \ DetectBottlenecks(t)
      IN IF Panics(t)
         THEN \E s \in Range(trace) \ Roots(trace) : parent[s] \notin Range(trace)
         ELSE /\ \A n \in Nodes : Len(trace) > 1 =>
                    AnalyzeLatency(t, n).count = Cardinality({s \in Range(trace) : node[s] = n})
              /\ (\A s \in Range(trace) : own[s] >= 0) =>
                   \A root \in Roots(trace) :
                     /\ reported <= latency[root]
                     /\ t.start =>
                          10 * (latency[root] - reported) <= Cardinality(others) * t.total

(* Anomalies are unusual (analysis.go:419, 441): fewer than a third of the *)
(* spans of an operation are reported as slow, fewer than a tenth as very  *)
(* slow or as errors, so nothing is reported of an operation with few      *)
(* spans.  Of six or more, one that takes longer than all the others       *)
(* together is reported.                                                   *)
AnomaliesAreRare ==
  \A listing \in Listings : \A op \in Operations(listing) :
    LET found == DetectAnomalies(listing, op)
        base == Baseline(listing, op)
    IN /\ 3 * Cardinality(found.high) < base.count
       /\ 10 * Cardinality(found.severe) < base.count
       /\ 10 * Cardinality(found.errors) < base.count
       /\ base.count >= 6 =>
            \A c \in Places(listing, op) : 2 * MsAt(listing, c) > base.ms => c \in found.high
=============================================================================
