-------------------------- MODULE CollectorProofs --------------------------
(***************************************************************************)
(* Type correctness of module Collector, and that a confirmed span is in   *)
(* its trace as long as nothing but lone handlers has touched the trace,   *)
(* for any number of handlers, spans, traces and requests; that the        *)
(* process of CollectorProcess runs such a collector, that a shutdown of   *)
(* it cuts off no caller, and that a panic of its analysis has a cause.    *)
(*                                                                         *)
(* AckedStored alone is not inductive: what a handler writes is its copy.  *)
(* The strengthening says that the copy is up to date, which the race that *)
(* AckedStored excepts is exactly the failure of.  MetadataMatch needs no  *)
(* exception: it is strengthened to the copies about to be written.        *)
(***************************************************************************)
EXTENDS CollectorProcess, TLAPS, FiniteSetTheorems

\* The copy a handler is about to write is the trace and its span.
CopyIsFresh ==
  \A h \in Handlers :
    LET s == Head(queue[h]) IN
    pc[h] = "store" /\ TraceOf[s] \notin disturbed =>
      copy[h].copies = [traces[TraceOf[s]].copies EXCEPT ![s] = @ + 1]

IInv == TypeOK /\ CopyIsFresh /\ AckedStored

\* A new trace, and a trace with one more span, are traces.
LEMMA TraceTypes ==
  /\ NoTrace \in Trace
  /\ \A s \in Spans : NewTrace(s) \in Trace
  /\ \A t \in Trace, s \in Spans : WithSpan(t, s) \in Trace
<1>1. NoTrace \in Trace
  BY DEF NoTrace, Trace
<1>2. ASSUME NEW s \in Spans PROVE NewTrace(s) \in Trace
  BY DEF NewTrace, NoTrace, Trace
<1>3. ASSUME NEW t \in Trace, NEW s \in Spans PROVE WithSpan(t, s) \in Trace
  <2>1. Later(t.end, EndOf[s]) \in Nat
    BY SpansAssumption DEF Trace, Later
  <2>2. [t.copies EXCEPT ![s] = @ + 1] \in [Spans -> Nat]
    BY DEF Trace
  <2>3. ASSUME NEW c \in [Spans -> Nat], NEW e \in Nat
        PROVE  [t EXCEPT !.copies = c, !.end = e] \in Trace
    BY DEF Trace
  <2>4. WithSpan(t, s) = [t EXCEPT !.copies = [t.copies EXCEPT ![s] = @ + 1],
                                   !.end = Later(t.end, EndOf[s])]
    BY DEF WithSpan, Trace
  <2> QED BY <2>1, <2>2, <2>3, <2>4
<1> QED BY <1>1, <1>2, <1>3

\* Under the type invariant a step of any action preserves it.
LEMMA TypeInductive == TypeOK /\ [Next]_vars => TypeOK'
<1> SUFFICES ASSUME TypeOK, [Next]_vars PROVE TypeOK'
  OBVIOUS
<1> USE DEF TypeOK
<1>1. ASSUME NEW h \in Handlers, NEW spans \in Seq(Spans), Receive(h, spans)
      PROVE  TypeOK'
  <2> DEFINE n(s) == Cardinality({i \in 1..Len(spans) : spans[i] = s})
  <2>1. ASSUME NEW s \in Spans PROVE n(s) \in Nat
    <3>1. IsFiniteSet(1..Len(spans))
      <4>1. Len(spans) \in Int
        OBVIOUS
      <4> QED BY <4>1, FS_Interval
    <3>2. {i \in 1..Len(spans) : spans[i] = s} \in SUBSET (1..Len(spans))
      OBVIOUS
    <3>3. IsFiniteSet({i \in 1..Len(spans) : spans[i] = s})
      BY <3>1, <3>2, FS_Subset
    <3> QED BY <3>3, FS_CardinalityType
  <2>2. received' \in [Spans -> Nat]
    <3>1. received' = [s \in Spans |-> received[s] + n(s)]
      BY <1>1 DEF Receive
    <3> HIDE DEF n
    <3> QED BY <2>1, <3>1
  <2> QED BY <1>1, <2>2 DEF Receive, stored
<1>2. ASSUME NEW h \in Handlers, NEW s \in Spans, CollectSpan(h, s) PROVE TypeOK'
  BY <1>1, <1>2, <<s>> \in Seq(Spans) DEF CollectSpan
<1>3. ASSUME NEW h \in Handlers, ReplicateSpans(h) PROVE TypeOK'
  BY <1>1, <1>3, SpansAssumption DEF ReplicateSpans
<1>4. ASSUME NEW h \in Handlers, Load(h) PROVE TypeOK'
  <2>1. Head(queue[h]) \in Spans
    BY <1>4 DEF Load
  <2>2. TraceOf[Head(queue[h])] \in Traces
    BY <2>1, SpansAssumption
  <2> DEFINE s == Head(queue[h])
             t == TraceOf[s]
  <2>3. PICK found \in {traces[t]} \cup (IF ReadFaults THEN {NoTrace} ELSE {}) :
          /\ copy' = [copy EXCEPT ![h] = WithSpan(IF found = NoTrace THEN NewTrace(s) ELSE found, s)]
          /\ disturbed' = IF found = traces[t] THEN disturbed ELSE disturbed \cup {t}
    BY <1>4 DEF Load
  <2>4. found \in Trace
    BY <2>2, TraceTypes
  <2>5. WithSpan(IF found = NoTrace THEN NewTrace(s) ELSE found, s) \in Trace
    BY <2>1, <2>4, TraceTypes
  <2>6. copy' \in [Handlers -> Trace] /\ disturbed' \subseteq Traces
    BY <2>2, <2>3, <2>5
  <2> QED BY <1>4, <2>6 DEF Load
<1>5. ASSUME NEW h \in Handlers, Done(h), Write(h) \/ UNCHANGED stored,
             acked' \in [Spans -> Nat]
      PROVE  TypeOK'
  <2>1. Head(queue[h]) \in Spans /\ TraceOf[Head(queue[h])] \in Traces
    BY <1>5, SpansAssumption DEF Done
  <2>2. traces' \in [Traces -> Trace] /\ disturbed' \subseteq Traces
    BY <1>5, <2>1 DEF Write, stored
  <2>3. queue' \in [Handlers -> Seq(Spans)] /\ copy' \in [Handlers -> Trace]
    BY <1>5, TraceTypes DEF Done
  <2> QED BY <1>5, <2>2, <2>3 DEF Done
<1>6. ASSUME NEW h \in Handlers, Store(h) PROVE TypeOK'
  <2>1. acked' \in [Spans -> Nat]
    <3>1. acked' = [acked EXCEPT ![Head(queue[h])] = @ + 1]
      BY <1>6 DEF Store
    <3>2. Head(queue[h]) \in Spans
      BY <1>6 DEF Store, Done
    <3>3. acked \in [Spans -> Nat] /\ acked[Head(queue[h])] + 1 \in Nat
      BY <3>2
    <3> QED BY <3>1, <3>2, <3>3
  <2> QED BY <1>5, <1>6, <2>1 DEF Store
<1>7. ASSUME NEW h \in Handlers, StoreFails(h) PROVE TypeOK'
  BY <1>5, <1>7 DEF StoreFails
<1>8. ASSUME NEW h \in Handlers, Reply(h) PROVE TypeOK'
  BY <1>8 DEF Reply, stored
<1>9. ASSUME NEW t \in Traces, PruneOldTraces(t) PROVE TypeOK'
  BY <1>9, TraceTypes DEF PruneOldTraces
<1>10. CASE Restart
  BY <1>10, TraceTypes DEF Restart, stored
<1>11. CASE UNCHANGED vars
  BY <1>11 DEF vars
<1> QED BY <1>2, <1>3, <1>4, <1>6, <1>7, <1>8, <1>9, <1>10, <1>11 DEF Next

\* A handler's write leaves every undisturbed trace with what it had, and
\* the trace it writes, if undisturbed, with one more copy of its span.
LEMMA WriteAddsOne ==
  ASSUME IInv, NEW h \in Handlers, pc[h] = "store", Write(h), NEW t \in Traces,
         t \notin disturbed'
  PROVE  /\ t \notin disturbed
         /\ TraceOf[Head(queue[h])] = t =>
              /\ Writing(h, t) = {}
              /\ traces'[t].copies = [traces[t].copies EXCEPT ![Head(queue[h])] = @ + 1]
         /\ TraceOf[Head(queue[h])] # t => traces'[t] = traces[t]
BY SpansAssumption DEF IInv, TypeOK, CopyIsFresh, Write

\* Every step of the collector preserves the strengthened invariant.
LEMMA Inductive == IInv /\ [Next]_vars => IInv'
<1> SUFFICES ASSUME IInv, [Next]_vars PROVE CopyIsFresh' /\ AckedStored'
  BY TypeInductive DEF IInv
<1> USE DEF IInv, TypeOK
<1>1. ASSUME NEW h \in Handlers, NEW spans \in Seq(Spans), Receive(h, spans)
      PROVE  CopyIsFresh' /\ AckedStored'
  <2>1. \A o \in Handlers : pc'[o] = "store" => pc[o] = "store" /\ queue'[o] = queue[o]
    BY <1>1 DEF Receive
  <2> QED BY <1>1, <2>1 DEF Receive, stored, CopyIsFresh, AckedStored
<1>2. ASSUME NEW h \in Handlers, NEW s \in Spans, CollectSpan(h, s)
      PROVE  CopyIsFresh' /\ AckedStored'
  BY <1>1, <1>2, <<s>> \in Seq(Spans) DEF CollectSpan
<1>3. ASSUME NEW h \in Handlers, ReplicateSpans(h) PROVE CopyIsFresh' /\ AckedStored'
  BY <1>1, <1>3, SpansAssumption DEF ReplicateSpans
<1>4. ASSUME NEW h \in Handlers, Load(h) PROVE CopyIsFresh' /\ AckedStored'
  <2> DEFINE s == Head(queue[h])
             t == TraceOf[s]
  <2>1. s \in Spans /\ t \in Traces
    BY <1>4, SpansAssumption DEF Load
  <2>2. PICK found \in {traces[t]} \cup (IF ReadFaults THEN {NoTrace} ELSE {}) :
          /\ copy' = [copy EXCEPT ![h] = WithSpan(IF found = NoTrace THEN NewTrace(s) ELSE found, s)]
          /\ disturbed' = IF found = traces[t] THEN disturbed ELSE disturbed \cup {t}
    BY <1>4 DEF Load
  <2>3. traces' = traces /\ queue' = queue /\ acked' = acked /\ disturbed \subseteq disturbed'
    BY <1>4, <2>2 DEF Load
  <2>4. AckedStored'
    BY <2>3 DEF AckedStored
  <2>5. t \notin disturbed' => copy'[h].copies = [traces[t].copies EXCEPT ![s] = @ + 1]
    <3>1. SUFFICES ASSUME t \notin disturbed'
                   PROVE  copy'[h].copies = [traces[t].copies EXCEPT ![s] = @ + 1]
      OBVIOUS
    <3>2. found = traces[t] /\ traces[t] \in Trace
      BY <2>1, <2>2, <3>1
    <3> DEFINE base == IF found = NoTrace THEN NewTrace(s) ELSE found
    <3>3. base \in Trace /\ base.copies = traces[t].copies
      BY <2>1, <3>2, TraceTypes DEF NewTrace, NoTrace, Trace
    <3>4. copy'[h] = WithSpan(base, s)
      BY <2>2
    <3> HIDE DEF base
    <3> QED BY <3>3, <3>4, <2>1 DEF WithSpan, Trace
  <2>6. \A o \in Handlers \ {h} : copy'[o] = copy[o] /\ pc'[o] = pc[o]
    BY <1>4, <2>2 DEF Load
  <2>7. CopyIsFresh'
    BY <2>3, <2>5, <2>6 DEF CopyIsFresh
  <2> QED BY <2>4, <2>7
<1>5. ASSUME NEW h \in Handlers, Done(h), Write(h) \/ UNCHANGED stored
      PROVE  CopyIsFresh'
  <2>1. SUFFICES ASSUME NEW o \in Handlers, pc'[o] = "store",
                        TraceOf[Head(queue'[o])] \notin disturbed'
                 PROVE  copy'[o].copies = [traces'[TraceOf[Head(queue'[o])]].copies
                                             EXCEPT ![Head(queue'[o])] = @ + 1]
    BY DEF CopyIsFresh
  <2>2. /\ o # h /\ pc[o] = "store"
        /\ copy'[o] = copy[o] /\ queue'[o] = queue[o]
    BY <1>5, <2>1 DEF Done
  <2> DEFINE t == TraceOf[Head(queue[o])]
  <2>3. t \in Traces
    BY <2>2, SpansAssumption
  <2>4. CASE UNCHANGED stored
    BY <2>1, <2>2, <2>4 DEF stored, CopyIsFresh
  <2>5. CASE Write(h)
    <3>1. o \in Writing(h, t)
      BY <2>2 DEF Writing
    <3>2. t \notin disturbed /\ traces'[t] = traces[t]
      BY <1>5, <2>1, <2>2, <2>3, <2>5, <3>1, WriteAddsOne DEF Done
    <3> QED BY <2>2, <3>2 DEF CopyIsFresh
  <2> QED BY <1>5, <2>4, <2>5
<1>6. ASSUME NEW h \in Handlers, Store(h) PROVE CopyIsFresh' /\ AckedStored'
  <2>1. CopyIsFresh'
    BY <1>5, <1>6 DEF Store
  <2>2. SUFFICES ASSUME NEW s \in Spans, TraceOf[s] \notin disturbed'
                 PROVE  acked'[s] <= traces'[TraceOf[s]].copies[s]
    BY <2>1 DEF AckedStored
  <2>3. TraceOf[s] \in Traces /\ Head(queue[h]) \in Spans
    <3>1. queue[h] \in Seq(Spans) /\ queue[h] # <<>>
      BY <1>6 DEF Store, Done
    <3> QED BY <3>1, SpansAssumption
  <2>4. TraceOf[s] \notin disturbed /\ traces[TraceOf[s]] \in Trace
    BY <1>6, <2>2, <2>3, WriteAddsOne DEF Store, Done
  <2>5. acked[s] <= traces[TraceOf[s]].copies[s]
    BY <2>4 DEF AckedStored
  <2>6. acked' = [acked EXCEPT ![Head(queue[h])] = @ + 1]
    BY <1>6 DEF Store
  <2>7. CASE TraceOf[Head(queue[h])] = TraceOf[s]
    <3>1. traces'[TraceOf[s]].copies = [traces[TraceOf[s]].copies EXCEPT ![Head(queue[h])] = @ + 1]
      BY <1>6, <2>2, <2>3, <2>7, WriteAddsOne DEF Store, Done
    <3>2. traces[TraceOf[s]].copies \in [Spans -> Nat] /\ acked \in [Spans -> Nat]
      BY <2>4 DEF Trace
    <3> DEFINE n == traces[TraceOf[s]].copies[s]
    <3>3. acked[s] \in Nat /\ n \in Nat /\ acked[s] <= n
      BY <2>5, <3>2
    <3>4. CASE s = Head(queue[h])
      <4>1. acked'[s] = acked[s] + 1 /\ traces'[TraceOf[s]].copies[s] = n + 1
        BY <2>3, <2>6, <3>1, <3>2, <3>4
      <4> QED BY <3>3, <4>1
    <3>5. CASE s # Head(queue[h])
      <4>1. acked'[s] = acked[s] /\ traces'[TraceOf[s]].copies[s] = n
        BY <2>3, <2>6, <3>1, <3>2, <3>5
      <4> QED BY <3>3, <4>1
    <3> QED BY <3>4, <3>5
  <2>8. CASE TraceOf[Head(queue[h])] # TraceOf[s]
    <3>1. traces'[TraceOf[s]] = traces[TraceOf[s]]
      BY <1>6, <2>2, <2>3, <2>8, WriteAddsOne DEF Store, Done
    <3>2. acked'[s] = acked[s]
      BY <2>6, <2>8
    <3> QED BY <2>5, <3>1, <3>2
  <2> QED BY <2>7, <2>8
<1>7. ASSUME NEW h \in Handlers, StoreFails(h) PROVE CopyIsFresh' /\ AckedStored'
  <2>1. CopyIsFresh'
    BY <1>5, <1>7 DEF StoreFails
  <2>2. SUFFICES ASSUME NEW s \in Spans, TraceOf[s] \notin disturbed'
                 PROVE  acked'[s] <= traces'[TraceOf[s]].copies[s]
    BY <2>1 DEF AckedStored
  <2>3. TraceOf[s] \in Traces /\ Head(queue[h]) \in Spans /\ acked' = acked
    BY <1>7, SpansAssumption DEF StoreFails, Done
  <2>4. CASE UNCHANGED stored
    BY <2>2, <2>3, <2>4 DEF stored, AckedStored
  <2>5. CASE Write(h)
    <3>1. TraceOf[s] \notin disturbed /\ traces[TraceOf[s]] \in Trace
      BY <1>7, <2>2, <2>3, <2>5, WriteAddsOne DEF StoreFails, Done
    <3>2. acked[s] <= traces[TraceOf[s]].copies[s]
      BY <3>1 DEF AckedStored
    <3>3. \/ traces'[TraceOf[s]] = traces[TraceOf[s]]
          \/ traces'[TraceOf[s]].copies = [traces[TraceOf[s]].copies EXCEPT ![Head(queue[h])] = @ + 1]
      BY <1>7, <2>2, <2>3, <2>5, WriteAddsOne DEF StoreFails, Done
    <3>4. traces[TraceOf[s]].copies \in [Spans -> Nat] /\ acked[s] \in Nat
      BY <3>1 DEF Trace
    <3>5. CASE s = Head(queue[h])
      BY <2>3, <3>2, <3>3, <3>4, <3>5
    <3>6. CASE s # Head(queue[h])
      BY <2>3, <3>2, <3>3, <3>4, <3>6
    <3> QED BY <3>5, <3>6
  <2> QED BY <1>7, <2>4, <2>5 DEF StoreFails
<1>8. ASSUME NEW h \in Handlers, Reply(h) PROVE CopyIsFresh' /\ AckedStored'
  <2>1. \A o \in Handlers : pc'[o] = "store" => pc[o] = "store"
    BY <1>8 DEF Reply
  <2> QED BY <1>8, <2>1 DEF Reply, stored, CopyIsFresh, AckedStored
<1>9. ASSUME NEW t \in Traces, PruneOldTraces(t) PROVE CopyIsFresh' /\ AckedStored'
  <2>1. \A u \in Traces \ {t} : traces'[u] = traces[u]
    BY <1>9 DEF PruneOldTraces
  <2>2. \A s \in Spans : TraceOf[s] \in Traces
    BY SpansAssumption
  <2>3. \A o \in Handlers : pc[o] = "store" => Head(queue[o]) \in Spans
    OBVIOUS
  <2> QED BY <1>9, <2>1, <2>2, <2>3 DEF PruneOldTraces, CopyIsFresh, AckedStored
<1>10. CASE Restart
  BY <1>10 DEF Restart, stored, CopyIsFresh, AckedStored
<1>11. CASE UNCHANGED vars
  BY <1>11 DEF vars, CopyIsFresh, AckedStored
<1> QED BY <1>2, <1>3, <1>4, <1>6, <1>7, <1>8, <1>9, <1>10, <1>11 DEF Next

\* The collector starts in the strengthened invariant.
LEMMA InitIInv == Init => IInv
<1> SUFFICES ASSUME Init PROVE IInv
  OBVIOUS
<1>1. TypeOK
  BY TraceTypes DEF Init, TypeOK
<1>2. CopyIsFresh
  BY DEF Init, CopyIsFresh
<1>3. AckedStored
  BY SpansAssumption DEF Init, AckedStored, NoTrace
<1> QED BY <1>1, <1>2, <1>3 DEF IInv

\* The strengthened invariant holds throughout.
THEOREM CopiesAreFresh == Spec => []IInv
BY InitIInv, Inductive, PTL DEF Spec

\* StoreSpan and its callers keep the types of the collector's state.
THEOREM TypeCorrect == Spec => []TypeOK
BY CopiesAreFresh, PTL DEF IInv

\* A span whose storing StoreSpan has confirmed is in its trace as often as
\* that was confirmed, for any number of handlers, through batches, failed
\* writes and restarts, as long as no two handlers have overlapped on the
\* trace, no read of it has failed and it has not been pruned.
THEOREM ConfirmedStaysStored == Spec => []AckedStored
BY CopiesAreFresh, PTL DEF IInv
-----------------------------------------------------------------------------
\* Every step of the process is a step of its collector, or none of its steps.
LEMMA ProcessStep == [ProcessNext]_processVars => [Next]_vars
<1>1. ASSUME Die PROVE Next
  BY <1>1 DEF Die, Next
<1>2. ASSUME NEW h \in Handlers, Request(h) PROVE Next
  BY <1>2, ProcessAssumption DEF Request, Next, Servers
<1>3. ASSUME NEW h \in Handlers, HandlerStep(h) PROVE Next
  BY <1>3 DEF HandlerStep, Next
<1>4. ASSUME NEW t \in Traces, Prune(t) PROVE Next
  BY <1>4 DEF Prune, Next
<1>5. ASSUME Boot \/ Copied \/ RunAnalysis \/ AnalysisEnds \/ WorkerStops \/ Signal
             \/ GracefulStop \/ Stopped
      PROVE  UNCHANGED vars
  BY <1>5 DEF Boot, Copied, RunAnalysis, AnalysisEnds, WorkerStops, Signal, GracefulStop, Stopped
<1>6. ASSUME NEW a \in Replicas, Disconnect(a) PROVE Next \/ UNCHANGED vars
  BY <1>1, <1>6 DEF Disconnect
<1>7. ASSUME UNCHANGED processVars PROVE UNCHANGED vars
  BY <1>7 DEF processVars
<1> QED
  BY <1>1, <1>2, <1>3, <1>4, <1>5, <1>6, <1>7
     DEF ProcessNext, Kill, AnalysisPanics, AllTasksCompleted, Timeout

\* The process of collector_main.go, with its deaths and starts, runs the
\* collector of module Collector.
THEOREM ProcessIsCollector == ProcessSpec => Spec
<1>1. ProcessInit => Init
  BY DEF ProcessInit
<1> QED
  BY <1>1, ProcessStep, PTL DEF ProcessSpec, Spec

\* What StoreSpan has confirmed stays stored through shutdowns and panics, too.
THEOREM ConfirmedStaysStoredInProcess == ProcessSpec => []AckedStored
BY ProcessIsCollector, ConfirmedStaysStored, PTL

LEMMA ProcessTypeInductive ==
  TypeOK /\ ProcessTypeOK /\ [ProcessNext]_processVars /\ TypeOK' => ProcessTypeOK'
<1> SUFFICES ASSUME TypeOK, ProcessTypeOK, [ProcessNext]_processVars, TypeOK'
             PROVE  ProcessTypeOK'
  OBVIOUS
<1> USE DEF ProcessTypeOK
<1>1. ASSUME NEW h \in Handlers, Request(h) PROVE ProcessTypeOK'
  <2>1. \A r \in Roots : TraceOf[r] \in Traces
    BY SpansAssumption
  <2>2. {TraceOf[r] : r \in {r \in Roots : received'[r] > received[r] /\ Unfinished(r)}}
          \subseteq Traces
    BY <2>1
  <2>3. QED
    BY <1>1, <2>2 DEF Request
<1>2. ASSUME NEW h \in Handlers, HandlerStep(h) PROVE ProcessTypeOK'
  BY <1>2 DEF HandlerStep
<1>3. ASSUME NEW t \in Traces, Prune(t) PROVE ProcessTypeOK'
  BY <1>3 DEF Prune
<1>4. ASSUME Die PROVE ProcessTypeOK'
  BY <1>4 DEF Die
<1>5. ASSUME NEW a \in Replicas, Disconnect(a) PROVE ProcessTypeOK'
  BY <1>4, <1>5 DEF Disconnect
<1>6. ASSUME Boot \/ Copied \/ Signal \/ GracefulStop \/ Stopped PROVE ProcessTypeOK'
  BY <1>6 DEF Boot, Copied, Signal, GracefulStop, Stopped
<1>7. ASSUME RunAnalysis \/ AnalysisEnds \/ WorkerStops PROVE ProcessTypeOK'
  BY <1>7 DEF RunAnalysis, AnalysisEnds, WorkerStops
<1>8. ASSUME UNCHANGED processVars PROVE ProcessTypeOK'
  BY <1>8 DEF processVars
<1> QED
  BY <1>1, <1>2, <1>3, <1>4, <1>5, <1>6, <1>7, <1>8
     DEF ProcessNext, Kill, AnalysisPanics, AllTasksCompleted, Timeout

\* What the process adds to the collector keeps its type, too: its phase, its
\* worker, the clients that Stop removes and the traces whose root came early.
THEOREM ProcessTypeCorrect == ProcessSpec => []ProcessTypeOK
<1>1. ProcessInit /\ TypeOK => ProcessTypeOK
  BY DEF ProcessInit, ProcessTypeOK
<1>2. ProcessSpec => []TypeOK
  BY ProcessIsCollector, TypeCorrect, PTL
<1> QED
  BY <1>1, <1>2, ProcessTypeInductive, PTL DEF ProcessSpec
-----------------------------------------------------------------------------
\* MetadataMatch for one content v of trace t: the stored one or a copy.
Matches(t, v) ==
  LET present == {s \in Spans : v.copies[s] > 0}
  IN  /\ v.root \subseteq present \cap Roots
      /\ \A s \in present : TraceOf[s] = t /\ EndOf[s] <= v.end
      /\ v # NoTrace => \E s \in present : EndOf[s] = v.end

\* A handler's copy matches too: what it writes does not depend on what others
\* have written since its read.
AllMatch ==
  /\ \A t \in Traces : Matches(t, traces[t])
  /\ \A h \in Handlers : pc[h] = "store" => Matches(TraceOf[Head(queue[h])], copy[h])

\* Lines 318-325 keep the match, and make it of a new trace.
LEMMA WithSpanMatches ==
  ASSUME NEW s \in Spans, NEW v \in Trace,
         v = NewTrace(s) \/ (v # NoTrace /\ Matches(TraceOf[s], v))
  PROVE  Matches(TraceOf[s], WithSpan(v, s))
<1> DEFINE w == WithSpan(v, s)
<1>1. /\ w.root = v.root /\ w.end = Later(v.end, EndOf[s])
      /\ w.copies[s] = v.copies[s] + 1 /\ v.copies[s] \in Nat
      /\ \A r \in Spans \ {s} : w.copies[r] = v.copies[r]
  BY DEF WithSpan, Trace
<1>2. EndOf[s] \in Nat /\ v.end \in Nat /\ EndOf \in [Spans -> Nat]
  BY SpansAssumption DEF Trace
<1>3. w.end \in {v.end, EndOf[s]} /\ v.end <= w.end /\ EndOf[s] <= w.end /\ w.end \in Nat
  BY <1>1, <1>2 DEF Later
<1>4. w.copies[s] > 0
  BY <1>1
<1> HIDE DEF w
<1>5. CASE v = NewTrace(s)
  <2>1. /\ v.root \subseteq {s} \cap Roots /\ v.end = 0 /\ \A r \in Spans : v.copies[r] = 0
    BY <1>5 DEF NewTrace, NoTrace
  <2>2. EndOf[s] = w.end
    BY <1>2, <1>3, <2>1
  <2>3. {r \in Spans : w.copies[r] > 0} = {s}
    BY <1>1, <1>4, <2>1
  <2>4. QED
    BY <1>1, <1>3, <2>1, <2>2, <2>3 DEF Matches, w
<1>6. CASE v # NoTrace /\ Matches(TraceOf[s], v)
  <2>1. /\ v.root \subseteq {r \in Spans : v.copies[r] > 0} \cap Roots
        /\ \A r \in Spans : v.copies[r] > 0 => TraceOf[r] = TraceOf[s] /\ EndOf[r] <= v.end
        /\ \E r \in Spans : v.copies[r] > 0 /\ EndOf[r] = v.end
    BY <1>6 DEF Matches
  <2>2. \A r \in Spans : w.copies[r] > 0 <=> v.copies[r] > 0 \/ r = s
    BY <1>1, <1>4
  <2>3. \A r \in Spans : w.copies[r] > 0 => TraceOf[r] = TraceOf[s] /\ EndOf[r] <= w.end
    BY <1>2, <1>3, <2>1, <2>2
  <2>4. \E r \in Spans : w.copies[r] > 0 /\ EndOf[r] = w.end
    BY <1>3, <2>1, <2>2
  <2>5. QED
    BY <1>1, <2>1, <2>2, <2>3, <2>4 DEF Matches, w
<1>7. QED
  BY <1>5, <1>6

LEMMA NoTraceMatches == \A t \in Traces : Matches(t, NoTrace)
BY DEF Matches, NoTrace

LEMMA MatchInductive == TypeOK /\ AllMatch /\ [Next]_vars => AllMatch'
<1> SUFFICES ASSUME TypeOK, AllMatch, [Next]_vars PROVE AllMatch'
  OBVIOUS
<1>1. ASSUME NEW h \in Handlers, NEW spans, Receive(h, spans) PROVE AllMatch'
  <2>1. \A o \in Handlers : pc'[o] = "store" => o # h /\ pc[o] = "store"
    BY <1>1 DEF Receive, TypeOK
  <2>2. QED
    BY <1>1, <2>1 DEF Receive, stored, AllMatch, TypeOK
<1>2. ASSUME NEW h \in Handlers, Load(h) PROVE AllMatch'
  <2> DEFINE s == Head(queue[h])
             t == TraceOf[s]
  <2>1. s \in Spans /\ t \in Traces
    BY <1>2, SpansAssumption DEF Load, TypeOK
  <2>2. PICK found \in {traces[t]} \cup (IF ReadFaults THEN {NoTrace} ELSE {}) :
          copy' = [copy EXCEPT ![h] = WithSpan(IF found = NoTrace THEN NewTrace(s) ELSE found, s)]
    BY <1>2 DEF Load
  <2> DEFINE base == IF found = NoTrace THEN NewTrace(s) ELSE found
  <2>3. base \in Trace /\ (base = NewTrace(s) \/ (base # NoTrace /\ Matches(t, base)))
    BY <2>1, <2>2, TraceTypes DEF AllMatch, TypeOK
  <2>4. copy'[h] = WithSpan(base, s)
    BY <2>2 DEF TypeOK
  <2>5. Matches(t, copy'[h])
    <3> HIDE DEF base
    <3>1. QED
      BY <2>1, <2>3, <2>4, WithSpanMatches
  <2>6. \A o \in Handlers \ {h} : copy'[o] = copy[o] /\ pc'[o] = pc[o]
    BY <1>2, <2>2 DEF Load, TypeOK
  <2>7. QED
    BY <1>2, <2>5, <2>6 DEF Load, AllMatch
<1>3. ASSUME NEW h \in Handlers, Done(h), Write(h) \/ UNCHANGED stored PROVE AllMatch'
  <2>1. Matches(TraceOf[Head(queue[h])], copy[h])
    BY <1>3 DEF Done, AllMatch
  <2>2. \A t \in Traces : Matches(t, traces'[t])
    BY <1>3, <2>1 DEF Write, stored, AllMatch, TypeOK
  <2>3. \A o \in Handlers : pc'[o] = "store" =>
          pc[o] = "store" /\ queue'[o] = queue[o] /\ copy'[o] = copy[o]
    BY <1>3 DEF Done, TypeOK
  <2>4. QED
    BY <2>2, <2>3 DEF AllMatch
<1>4. ASSUME NEW h \in Handlers, Reply(h) PROVE AllMatch'
  <2>1. \A o \in Handlers : pc'[o] = "store" => pc[o] = "store"
    BY <1>4 DEF Reply, TypeOK
  <2>2. QED
    BY <1>4, <2>1 DEF Reply, stored, AllMatch
<1>5. ASSUME NEW t \in Traces, PruneOldTraces(t) PROVE AllMatch'
  BY <1>5, NoTraceMatches DEF PruneOldTraces, AllMatch, TypeOK
<1>6. CASE Restart
  BY <1>6 DEF Restart, stored, AllMatch
<1>7. CASE UNCHANGED vars
  BY <1>7 DEF vars, AllMatch
<1>8. QED
  BY <1>1, <1>2, <1>3, <1>4, <1>5, <1>6, <1>7
     DEF Next, CollectSpan, ReplicateSpans, Store, StoreFails

\* A trace's end time and root metadata are right about its spans whatever
\* spans the races, failed reads, failed writes, restarts and pruning have
\* lost (collector.go:303-337): a trace is written as a whole.
THEOREM MetadataIsRight == Spec => []MetadataMatch
<1>1. Init => AllMatch
  BY NoTraceMatches DEF Init, AllMatch
<1>2. AllMatch => MetadataMatch
  BY DEF AllMatch, Matches, MetadataMatch, Present
<1>3. QED
  BY <1>1, <1>2, MatchInductive, TypeCorrect, PTL DEF Spec

\* So it is through shutdowns and panics of the process.
THEOREM MetadataIsRightInProcess == ProcessSpec => []MetadataMatch
BY ProcessIsCollector, MetadataIsRight, PTL
-----------------------------------------------------------------------------
\* When the collector is being stopped no RPC is under way.
Drained == phase \in {"stopping", "waiting"} => \A h \in Servers : pc[h] = "idle"

LEMMA DrainedInductive == TypeOK /\ Drained /\ [ProcessNext]_processVars => Drained'
<1> SUFFICES ASSUME TypeOK, Drained, [ProcessNext]_processVars,
                    phase' \in {"stopping", "waiting"}, NEW h \in Servers
             PROVE  pc'[h] = "idle"
  BY DEF Drained
<1> h \in Handlers /\ h \notin Processors
  BY DEF Servers
<1> USE DEF TypeOK
<1>1. ASSUME Die PROVE FALSE
  BY <1>1 DEF Die
<1>2. ASSUME NEW g \in Handlers, Request(g) PROVE pc'[h] = "idle"
  BY <1>2 DEF Request, Drained, CollectSpan, ReplicateSpans, Receive
<1>3. ASSUME NEW g \in Handlers, HandlerStep(g) PROVE pc'[h] = "idle"
  BY <1>3 DEF HandlerStep, Drained, Load, Store, StoreFails, Reply, Done
<1>4. ASSUME NEW t \in Traces, Prune(t) PROVE pc'[h] = "idle"
  BY <1>4 DEF Prune, Drained, PruneOldTraces
<1>5. ASSUME GracefulStop PROVE pc'[h] = "idle"
  BY <1>5 DEF GracefulStop, vars
<1>6. ASSUME Boot \/ Signal PROVE FALSE
  BY <1>6 DEF Boot, Signal
<1>7. ASSUME Copied \/ RunAnalysis \/ AnalysisEnds \/ WorkerStops \/ Stopped
      PROVE  pc'[h] = "idle"
  BY <1>7 DEF Copied, RunAnalysis, AnalysisEnds, WorkerStops, Stopped, Drained, vars
<1>8. ASSUME NEW a \in Replicas, Disconnect(a) PROVE pc'[h] = "idle"
  BY <1>1, <1>8 DEF Disconnect, Drained, vars
<1>9. ASSUME UNCHANGED processVars PROVE pc'[h] = "idle"
  BY <1>9 DEF processVars, vars, Drained
<1> QED
  BY <1>1, <1>2, <1>3, <1>4, <1>5, <1>6, <1>7, <1>8, <1>9
     DEF ProcessNext, Kill, AnalysisPanics, AllTasksCompleted, Timeout

\* A shutdown of the collector cuts off no request that a client waits for, for
\* any number of handlers and processors and whatever ends the process.
THEOREM ShutdownDrains == ProcessSpec => NothingCutOff
<1>1. ProcessInit => Drained
  BY DEF ProcessInit, Drained
<1>2. Drained /\ [ProcessNext]_processVars =>
        [(phase \in {"stopping", "waiting"} /\ phase' = "down") =>
           {h \in Handlers : pc[h] # "idle"} \subseteq Processors]_processVars
  BY DEF Drained, Servers
<1>3. ProcessSpec => []TypeOK
  BY ProcessIsCollector, TypeCorrect, PTL
<1> QED
  BY <1>1, <1>2, <1>3, DrainedInductive, PTL DEF ProcessSpec, NothingCutOff
-----------------------------------------------------------------------------
\* A trace has spans of its own only, and root metadata of a root it has.
Sound(m, t, counts) ==
  /\ \A r \in m.root : r \in Roots /\ m.copies[r] > 0 /\ counts[r] > 0
  /\ \A s \in Spans : m.copies[s] > 0 => TraceOf[s] = t

\* What handlers store has been received, and what they write is sound.
RootInv ==
  /\ \A h \in Handlers : \A i \in 1..Len(queue[h]) : received[queue[h][i]] > 0
  /\ \A t \in Traces : Sound(traces[t], t, received)
  /\ \A h \in Handlers : pc[h] = "store" => Sound(copy[h], TraceOf[Head(queue[h])], received)

\* When a root has come and its trace is not early, all other spans are stored.
RootsComeLast ==
  \A r \in Roots : received[r] > 0 /\ TraceOf[r] \notin early =>
    \A s \in Spans \ {r} : TraceOf[s] = TraceOf[r] => acked[s] > 0

\* Without a cause for it, no trace makes the analysis panic.
LEMMA PanicHasCause ==
  ASSUME TypeOK, RootInv, RootsComeLast, AckedStored, NEW t \in Traces, Panics(t)
  PROVE  t \in early \cup disturbed
<1> SUFFICES ASSUME t \notin early \cup disturbed PROVE FALSE
  OBVIOUS
<1> USE ProcessAssumption, SpansAssumption DEF TypeOK, Trace
<1>1. PICK s \in Spans : traces[t].copies[s] > 0 /\ traces[t].copies[ParentOf[s]] = 0
  BY DEF Panics
<1>2. PICK r \in traces[t].root : TRUE
  BY DEF Panics
<1>3. /\ r \in Roots /\ r \in Spans /\ traces[t].copies[r] > 0 /\ received[r] > 0
      /\ TraceOf[r] = t /\ TraceOf[s] = t
  BY <1>1, <1>2 DEF RootInv, Sound
<1> DEFINE p == ParentOf[s]
<1>4. p \in Spans /\ TraceOf[p] = t /\ p # r
  BY <1>1, <1>3
<1>5. acked[p] > 0
  BY <1>3, <1>4 DEF RootsComeLast
<1>6. acked[p] <= traces[t].copies[p]
  BY <1>4 DEF AckedStored
<1> QED
  BY <1>1, <1>4, <1>5, <1>6

\* A trace that is sound stays so when more spans are received.
LEMMA SoundStays ==
  ASSUME NEW m \in Trace, NEW t \in Traces,
         NEW old \in [Spans -> Nat], NEW new \in [Spans -> Nat],
         \A s \in Spans : new[s] >= old[s], Sound(m, t, old)
  PROVE  Sound(m, t, new)
BY SpansAssumption DEF Sound, Trace

\* What Load writes into the handler's copy is sound.
LEMMA LoadIsSound ==
  ASSUME TypeOK, NEW s \in Spans, NEW m \in Trace, received[s] > 0,
         m = NewTrace(s) \/ Sound(m, TraceOf[s], received)
  PROVE  Sound(WithSpan(m, s), TraceOf[s], received)
<1> DEFINE w == WithSpan(m, s)
<1> USE DEF Trace, TypeOK
<1>1. w.root = m.root
  BY DEF WithSpan
<1>2. w.copies = [m.copies EXCEPT ![s] = @ + 1]
  BY DEF WithSpan
<1>3. CASE m = NewTrace(s)
  <2>1. m.copies = [r \in Spans |-> 0] /\ m.root = IF s \in Roots THEN {s} ELSE {}
    BY <1>3 DEF NewTrace, NoTrace
  <2> QED
    BY <1>1, <1>2, <2>1 DEF Sound
<1>4. CASE Sound(m, TraceOf[s], received)
  BY <1>1, <1>2, <1>4, SpansAssumption DEF Sound
<1> QED
  BY <1>3, <1>4

\* Receive counts every span of the request.
LEMMA ReceiveCounts ==
  ASSUME TypeOK, NEW h \in Handlers, NEW spans \in Seq(Spans), Receive(h, spans)
  PROVE  /\ received' \in [Spans -> Nat]
         /\ \A s \in Spans : received'[s] >= received[s]
         /\ \A i \in 1..Len(spans) : received'[spans[i]] > 0
<1> DEFINE at(s) == {i \in 1..Len(spans) : spans[i] = s}
           n(s) == Cardinality(at(s))
<1>1. IsFiniteSet(1..Len(spans))
  <2>1. Len(spans) \in Int
    OBVIOUS
  <2> QED BY <2>1, FS_Interval
<1>2. ASSUME NEW s \in Spans PROVE IsFiniteSet(at(s)) /\ n(s) \in Nat
  <2>1. at(s) \in SUBSET (1..Len(spans))
    OBVIOUS
  <2>2. IsFiniteSet(at(s))
    BY <1>1, <2>1, FS_Subset
  <2> QED BY <2>2, FS_CardinalityType
<1>3. ASSUME NEW i \in 1..Len(spans) PROVE spans[i] \in Spans /\ n(spans[i]) > 0
  <2>1. spans[i] \in Spans /\ i \in at(spans[i])
    OBVIOUS
  <2>2. n(spans[i]) # 0
    BY <1>2, <2>1, FS_EmptySet
  <2>3. n(spans[i]) \in Nat
    BY <1>2, <2>1
  <2> HIDE DEF n
  <2> QED BY <2>1, <2>2, <2>3
<1>4. received' = [s \in Spans |-> received[s] + n(s)]
  BY DEF Receive
<1> HIDE DEF n, at
<1>5. received \in [Spans -> Nat]
  BY DEF TypeOK
<1> QED BY <1>2, <1>3, <1>4, <1>5

\* Counts do not go down, and what has been disturbed stays disturbed.
LEMMA Monotone ==
  ASSUME TypeOK, [Next]_vars
  PROVE  /\ \A s \in Spans : received'[s] >= received[s] /\ acked'[s] >= acked[s]
         /\ disturbed \subseteq disturbed'
<1> USE DEF TypeOK
<1>1. ASSUME NEW h \in Handlers, NEW spans \in Seq(Spans), Receive(h, spans)
      PROVE  /\ \A s \in Spans : received'[s] >= received[s] /\ acked'[s] >= acked[s]
             /\ disturbed \subseteq disturbed'
  <2>1. UNCHANGED <<acked, disturbed>>
    BY <1>1 DEF Receive, stored
  <2> QED BY <1>1, <2>1, ReceiveCounts
<1>2. ASSUME NEW h \in Handlers, NEW s \in Spans, CollectSpan(h, s)
      PROVE  Receive(h, <<s>>) /\ <<s>> \in Seq(Spans)
  BY <1>2 DEF CollectSpan
<1>3. ASSUME NEW h \in Handlers, ReplicateSpans(h)
      PROVE  \E spans \in Seq(Spans) : Receive(h, spans)
  BY <1>3, SpansAssumption DEF ReplicateSpans
<1>4. ASSUME NEW h \in Handlers, Store(h)
      PROVE  /\ \A s \in Spans : received'[s] >= received[s] /\ acked'[s] >= acked[s]
             /\ disturbed \subseteq disturbed'
  <2>1. Head(queue[h]) \in Spans
    BY <1>4 DEF Store, Done
  <2> QED BY <1>4, <2>1 DEF Store, Done, Write
<1>5. ASSUME NEW h \in Handlers, Load(h) \/ StoreFails(h) \/ Reply(h)
      PROVE  /\ \A s \in Spans : received'[s] >= received[s] /\ acked'[s] >= acked[s]
             /\ disturbed \subseteq disturbed'
  BY <1>5 DEF Load, StoreFails, Reply, Done, Write, stored
<1>6. ASSUME (\E t \in Traces : PruneOldTraces(t)) \/ Restart \/ UNCHANGED vars
      PROVE  /\ \A s \in Spans : received'[s] >= received[s] /\ acked'[s] >= acked[s]
             /\ disturbed \subseteq disturbed'
  BY <1>6 DEF PruneOldTraces, Restart, stored, vars
<1> QED
  BY <1>1, <1>2, <1>3, <1>4, <1>5, <1>6 DEF Next

\* Under the type invariant a step of the collector preserves RootInv.
LEMMA RootInductive ==
  ASSUME TypeOK, TypeOK', RootInv, [Next]_vars
  PROVE  RootInv'
<1> USE DEF TypeOK
<1>1. ASSUME NEW m \in Trace, NEW t \in Traces, Sound(m, t, received)
      PROVE  Sound(m, t, received')
  BY <1>1, SoundStays, Monotone
<1>2. ASSUME NEW h \in Handlers, NEW spans \in Seq(Spans), Receive(h, spans) PROVE RootInv'
  <2>0. /\ received' \in [Spans -> Nat]
        /\ \A s \in Spans : received'[s] >= received[s]
        /\ \A i \in 1..Len(spans) : received'[spans[i]] > 0
    <3> HIDE DEF TypeOK
    <3> QED BY <1>2, ReceiveCounts
  <2>1. ASSUME NEW g \in Handlers, NEW i \in 1..Len(queue'[g])
        PROVE  received'[queue'[g][i]] > 0
    <3>1. queue' = [queue EXCEPT ![h] = spans]
      BY <1>2 DEF Receive
    <3>2. CASE g = h
      <4>1. queue'[g] = spans
        BY <3>1, <3>2
      <4> QED BY <2>0, <2>1, <4>1
    <3>3. CASE g # h
      <4>1. queue'[g] = queue[g] /\ queue[g] \in Seq(Spans)
        BY <3>1, <3>3
      <4>2. i \in 1..Len(queue[g])
        BY <2>1, <4>1
      <4> DEFINE s == queue[g][i]
      <4>3. s \in Spans
        BY <4>1, <4>2
      <4>4. received[s] > 0
        BY <4>2 DEF RootInv
      <4> HIDE DEF s, TypeOK
      <4>5. received[s] \in Nat /\ received'[s] \in Nat /\ received'[s] >= received[s]
        BY <2>0, <4>3 DEF TypeOK
      <4>6. received'[s] > 0
        BY <4>4, <4>5
      <4> QED BY <4>1, <4>6 DEF s
    <3> QED BY <3>2, <3>3
  <2>2. \A t \in Traces : Sound(traces'[t], t, received')
    BY <1>1, <1>2 DEF Receive, RootInv, stored
  <2>3. ASSUME NEW g \in Handlers, pc'[g] = "store"
        PROVE  Sound(copy'[g], TraceOf[Head(queue'[g])], received')
    <3>1. pc[g] = "store" /\ queue'[g] = queue[g] /\ copy'[g] = copy[g]
      BY <1>2, <2>3 DEF Receive
    <3>2. TraceOf[Head(queue[g])] \in Traces
      BY <3>1, SpansAssumption
    <3> QED BY <1>1, <3>1, <3>2 DEF RootInv
  <2> QED BY <2>1, <2>2, <2>3 DEF RootInv
<1>3. ASSUME NEW h \in Handlers, NEW s \in Spans, CollectSpan(h, s) PROVE RootInv'
  BY <1>2, <1>3, <<s>> \in Seq(Spans) DEF CollectSpan
<1>4. ASSUME NEW h \in Handlers, ReplicateSpans(h) PROVE RootInv'
  BY <1>2, <1>4, SpansAssumption DEF ReplicateSpans
<1>5. ASSUME NEW h \in Handlers, Load(h) PROVE RootInv'
  <2> DEFINE s == Head(queue[h])
             t == TraceOf[s]
  <2>1. s \in Spans /\ t \in Traces /\ s = queue[h][1] /\ 1 \in 1..Len(queue[h])
    BY <1>5, SpansAssumption DEF Load
  <2>2. received[s] > 0
    BY <2>1 DEF RootInv
  <2>3. PICK found \in {traces[t], NoTrace} :
          copy' = [copy EXCEPT ![h] = WithSpan(IF found = NoTrace THEN NewTrace(s) ELSE found, s)]
    BY <1>5 DEF Load
  <2> DEFINE m == IF found = NoTrace THEN NewTrace(s) ELSE found
  <2>4. m \in Trace /\ (m = NewTrace(s) \/ Sound(m, t, received))
    BY <2>1, <2>3, TraceTypes DEF RootInv
  <2>5. Sound(WithSpan(m, s), t, received)
    BY <2>1, <2>2, <2>4, LoadIsSound
  <2>6. /\ copy'[h] = WithSpan(m, s) /\ \A g \in Handlers \ {h} : copy'[g] = copy[g]
        /\ pc' = [pc EXCEPT ![h] = "store"] /\ UNCHANGED <<traces, queue, received>>
    BY <1>5, <2>3 DEF Load
  <2> HIDE DEF m
  <2>7. ASSUME NEW g \in Handlers, pc'[g] = "store"
        PROVE  Sound(copy'[g], TraceOf[Head(queue[g])], received)
    BY <2>5, <2>6, <2>7 DEF RootInv
  <2> QED BY <2>6, <2>7 DEF RootInv
<1>6. ASSUME NEW h \in Handlers, Done(h), Write(h) \/ UNCHANGED stored PROVE RootInv'
  <2>1. Head(queue[h]) \in Spans /\ TraceOf[Head(queue[h])] \in Traces
    BY <1>6, SpansAssumption DEF Done
  <2>2. \A t \in Traces : Sound(traces'[t], t, received)
    BY <1>6, <2>1 DEF Done, Write, stored, RootInv
  <2>3. \A g \in Handlers \ {h} : queue'[g] = queue[g] /\ copy'[g] = copy[g] /\ pc'[g] = pc[g]
    BY <1>6 DEF Done
  <2>4. pc'[h] # "store" /\ queue'[h] = Tail(queue[h]) /\ queue[h] # <<>> /\ received' = received
    BY <1>6 DEF Done
  <2>5. \A i \in 1..Len(Tail(queue[h])) :
          Tail(queue[h])[i] = queue[h][i + 1] /\ i + 1 \in 1..Len(queue[h])
    BY <2>4
  <2>6. \A g \in Handlers : \A i \in 1..Len(queue'[g]) : received[queue'[g][i]] > 0
    <3>1. ASSUME NEW i \in 1..Len(queue'[h]) PROVE received[queue'[h][i]] > 0
      BY <2>4, <2>5 DEF RootInv
    <3> QED BY <2>3, <3>1 DEF RootInv
  <2>7. \A g \in Handlers : pc'[g] = "store" =>
                            Sound(copy'[g], TraceOf[Head(queue'[g])], received)
    BY <2>3, <2>4 DEF RootInv
  <2> QED BY <2>2, <2>4, <2>6, <2>7 DEF RootInv
<1>7. ASSUME NEW h \in Handlers, Store(h) \/ StoreFails(h) PROVE RootInv'
  BY <1>6, <1>7 DEF Store, StoreFails
<1>8. ASSUME NEW h \in Handlers, Reply(h) PROVE RootInv'
  BY <1>8 DEF Reply, stored, RootInv, Sound
<1>9. ASSUME NEW t \in Traces, PruneOldTraces(t) PROVE RootInv'
  <2>1. traces' = [traces EXCEPT ![t] = NoTrace] /\ UNCHANGED <<pc, queue, copy, received>>
    BY <1>9 DEF PruneOldTraces
  <2>2. Sound(NoTrace, t, received)
    BY DEF Sound, NoTrace
  <2> QED BY <2>1, <2>2 DEF RootInv, Sound
<1>10. CASE Restart
  BY <1>10 DEF Restart, stored, RootInv, Sound
<1>11. CASE UNCHANGED vars
  BY <1>11 DEF vars, RootInv, Sound
<1> QED
  BY <1>3, <1>4, <1>5, <1>7, <1>8, <1>9, <1>10, <1>11 DEF Next
\* Under the type invariant a step of the process preserves RootsComeLast.
LEMMA EarlyInductive ==
  ASSUME TypeOK, TypeOK', RootsComeLast, [ProcessNext]_processVars
  PROVE  RootsComeLast' /\ early \subseteq early'
<1>1. \A s \in Spans : received'[s] >= received[s] /\ acked'[s] >= acked[s]
  BY ProcessStep, Monotone
<1>2. /\ \A s \in Spans : received[s] \in Nat /\ received'[s] \in Nat
      /\ \A s \in Spans : acked[s] \in Nat /\ acked'[s] \in Nat
  BY DEF TypeOK
<1>3. ASSUME UNCHANGED <<received, early>> PROVE RootsComeLast' /\ early \subseteq early'
  BY <1>1, <1>2, <1>3, SpansAssumption DEF RootsComeLast
<1>4. ASSUME NEW h \in Handlers, Request(h) PROVE RootsComeLast' /\ early \subseteq early'
  <2>1. early' = early \cup {TraceOf[r] : r \in {q \in Roots : received'[q] > received[q] /\ Unfinished(q)}}
    BY <1>4 DEF Request
  <2>2. ASSUME NEW r \in Roots, received'[r] > 0, TraceOf[r] \notin early',
               NEW s \in Spans \ {r}, TraceOf[s] = TraceOf[r]
        PROVE  acked'[s] > 0
    <3>1. r \in Spans /\ TraceOf[r] \notin early
      BY <2>1, <2>2, SpansAssumption
    <3>2. CASE received[r] > 0
      BY <1>1, <1>2, <2>2, <3>1, <3>2 DEF RootsComeLast
    <3>3. CASE ~(received[r] > 0)
      <4>1. received'[r] > received[r]
        BY <1>2, <2>2, <3>1, <3>3
      <4>2. ~Unfinished(r)
        BY <2>1, <2>2, <4>1
      <4>3. acked[s] # 0
        BY <2>2, <4>2 DEF Unfinished
      <4> QED BY <1>1, <1>2, <4>3
    <3> QED BY <3>2, <3>3
  <2> QED BY <2>1, <2>2 DEF RootsComeLast
<1>5. ASSUME [ProcessNext]_processVars, ~(\E h \in Handlers : Request(h))
      PROVE  UNCHANGED <<received, early>>
  <2>1. ASSUME Die PROVE UNCHANGED <<received, early>>
    BY <2>1 DEF Die, Restart
  <2>2. ASSUME NEW h \in Handlers, HandlerStep(h) PROVE UNCHANGED <<received, early>>
    BY <2>2 DEF HandlerStep, Load, Store, StoreFails, Reply, Done
  <2>3. ASSUME NEW t \in Traces, Prune(t) PROVE UNCHANGED <<received, early>>
    BY <2>3 DEF Prune, PruneOldTraces
  <2>4. ASSUME Boot \/ Copied \/ RunAnalysis \/ AnalysisEnds \/ WorkerStops \/ Signal
               \/ GracefulStop \/ Stopped
        PROVE  UNCHANGED <<received, early>>
    BY <2>4 DEF Boot, Copied, RunAnalysis, AnalysisEnds, WorkerStops, Signal, GracefulStop,
                Stopped, vars
  <2>5. ASSUME NEW a \in Replicas, Disconnect(a) PROVE UNCHANGED <<received, early>>
    BY <2>1, <2>5 DEF Disconnect, vars
  <2>6. ASSUME UNCHANGED processVars PROVE UNCHANGED <<received, early>>
    BY <2>6 DEF processVars, vars
  <2> QED
    BY <1>5, <2>1, <2>2, <2>3, <2>4, <2>5, <2>6
       DEF ProcessNext, Kill, AnalysisPanics, AllTasksCompleted, Timeout
<1> QED
  BY <1>3, <1>4, <1>5

\* The worker is doomed by a trace that had a cause, which has not gone away.
LEMMA DoomedInductive ==
  ASSUME TypeOK, RootInv, RootsComeLast, AckedStored, PanicsExplained,
         early \subseteq early', [ProcessNext]_processVars
  PROVE  PanicsExplained'
<1>1. disturbed \subseteq disturbed'
  BY ProcessStep, Monotone
<1> SUFFICES ASSUME worker' = "doomed" PROVE early \cup disturbed # {}
  BY <1>1 DEF PanicsExplained
<1>2. CASE worker = "doomed"
  BY <1>2 DEF PanicsExplained
<1>3. CASE RunAnalysis
  <2>1. PICK t \in Traces : Panics(t)
    BY <1>3 DEF RunAnalysis
  <2> QED BY <2>1, PanicHasCause
<1>4. ASSUME worker # "doomed", ~RunAnalysis PROVE FALSE
  <2>1. ASSUME Die PROVE FALSE
    BY <2>1 DEF Die
  <2>2. ASSUME NEW h \in Handlers, Request(h) \/ HandlerStep(h) PROVE FALSE
    BY <1>4, <2>2 DEF Request, HandlerStep
  <2>3. ASSUME NEW t \in Traces, Prune(t) PROVE FALSE
    BY <1>4, <2>3 DEF Prune
  <2>4. ASSUME Boot \/ Copied \/ AnalysisEnds \/ WorkerStops \/ Signal \/ GracefulStop \/ Stopped
        PROVE  FALSE
    BY <1>4, <2>4 DEF Boot, Copied, AnalysisEnds, WorkerStops, Signal, GracefulStop, Stopped
  <2>5. ASSUME NEW a \in Replicas, Disconnect(a) PROVE FALSE
    BY <1>4, <2>1, <2>5 DEF Disconnect
  <2>6. ASSUME UNCHANGED processVars PROVE FALSE
    BY <1>4, <2>6 DEF processVars
  <2> QED
    BY <1>4, <2>1, <2>2, <2>3, <2>4, <2>5, <2>6
       DEF ProcessNext, Kill, AnalysisPanics, AllTasksCompleted, Timeout
<1> QED
  BY <1>2, <1>3, <1>4

ProcessInv == RootInv /\ RootsComeLast /\ PanicsExplained

\* For any handlers, batches, parents and replicas, the analysis panics only
\* after a root came early to its trace or a trace was disturbed.
THEOREM PanicsHaveCauses == ProcessSpec => []PanicsExplained
<1>1. ProcessInit => ProcessInv
  BY SpansAssumption
     DEF ProcessInit, Init, ProcessInv, RootInv, RootsComeLast, PanicsExplained, Sound, NoTrace
<1>2. TypeOK /\ TypeOK' /\ AckedStored /\ ProcessInv /\ [ProcessNext]_processVars => ProcessInv'
  <2> SUFFICES ASSUME TypeOK, TypeOK', AckedStored, ProcessInv, [ProcessNext]_processVars
               PROVE  ProcessInv'
    OBVIOUS
  <2>1. RootInv'
    BY ProcessStep, RootInductive DEF ProcessInv
  <2>2. RootsComeLast' /\ early \subseteq early'
    BY EarlyInductive DEF ProcessInv
  <2>3. PanicsExplained'
    BY <2>2, DoomedInductive DEF ProcessInv
  <2> QED BY <2>1, <2>2, <2>3 DEF ProcessInv
<1>3. ProcessInv => PanicsExplained
  BY DEF ProcessInv
<1>4. ProcessSpec => []TypeOK /\ []AckedStored
  BY ProcessIsCollector, TypeCorrect, ConfirmedStaysStored, PTL
<1> QED
  BY <1>1, <1>2, <1>3, <1>4, PTL DEF ProcessSpec
=============================================================================
