----------------------------- MODULE Collector -----------------------------
(***************************************************************************)
(* How a collector of pkg/collector.go adds spans to traces.  Every RPC    *)
(* runs in a goroutine of its own, a handler.  CollectSpan stores one      *)
(* span, ReplicateSpans those of a batch one after the other; StoreSpan    *)
(* reads the trace from the storage, appends the span to its own copy, and *)
(* writes the copy back, with no lock from the read to the write.          *)
(*                                                                         *)
(* The storage is the contract of module TraceStorage, which module        *)
(* FileStorage is shown to keep: a read and a write of a trace are atomic, *)
(* a failed write may have taken effect, expired traces disappear.         *)
(*                                                                         *)
(* A trace is what StoreSpan looks at: how many copies of each span it     *)
(* has, the span its root metadata are from, and its end time.  The copies *)
(* sent to other collectors are in module Replication.                     *)
(***************************************************************************)
EXTENDS Integers, Sequences, FiniteSets

CONSTANTS Handlers,    \* goroutines serving RPCs
          Spans, Traces,
          TraceOf,     \* the trace a span belongs to
          Roots,       \* spans without a parent
          EndOf,       \* the end time of a span
          Batches,     \* what a ReplicateSpans request may carry
          Old,         \* traces that end by this time are past retention
          ReadFaults,  \* whether GetTrace may fail on a trace that is there
          MaxReceived  \* bound: how often clients send one span

ASSUME SpansAssumption ==
  /\ TraceOf \in [Spans -> Traces] /\ EndOf \in [Spans -> Nat \ {0}]
  /\ Roots \subseteq Spans
  /\ Batches \subseteq Seq(Spans)
  /\ Old \in Nat /\ ReadFaults \in BOOLEAN /\ MaxReceived \in Nat

VARIABLES traces,     \* what the storage holds; NoTrace if it is not there
          pc, queue,  \* of each handler, and the spans it has still to store
          copy,       \* the trace a handler is about to write
          received, acked,  \* per span: requests with it, and StoreSpan calls
                            \* for it that returned no error
          disturbed   \* traces of which something other than a lone handler
                      \* has changed the content

stored == <<traces, disturbed>>
vars == <<traces, pc, queue, copy, received, acked, disturbed>>

NoTrace == [copies |-> [s \in Spans |-> 0], root |-> {}, end |-> 0]

Trace == [copies : [Spans -> Nat], root : SUBSET Spans, end : Nat]

TypeOK ==
  /\ traces \in [Traces -> Trace] /\ copy \in [Handlers -> Trace]
  /\ pc \in [Handlers -> {"idle", "load", "store"}]
  /\ queue \in [Handlers -> Seq(Spans)]
  /\ \A h \in Handlers : pc[h] = "store" => queue[h] # <<>>
  /\ received \in [Spans -> Nat] /\ acked \in [Spans -> Nat]
  /\ disturbed \subseteq Traces

Init ==
  /\ traces = [t \in Traces |-> NoTrace] /\ copy = [h \in Handlers |-> NoTrace]
  /\ pc = [h \in Handlers |-> "idle"] /\ queue = [h \in Handlers |-> <<>>]
  /\ received = [s \in Spans |-> 0] /\ acked = [s \in Spans |-> 0]
  /\ disturbed = {}

\* Handlers other than h that are about to write trace t.
Writing(h, t) == {o \in Handlers \ {h} : pc[o] = "store" /\ TraceOf[Head(queue[o])] = t}
-----------------------------------------------------------------------------
Receive(h, spans) ==
  /\ pc[h] = "idle"
  /\ \A i \in 1..Len(spans) : received[spans[i]] < MaxReceived
  /\ pc' = [pc EXCEPT ![h] = "load"]
  /\ queue' = [queue EXCEPT ![h] = spans]
  /\ received' = [s \in Spans |-> received[s] + Cardinality({i \in 1..Len(spans) : spans[i] = s})]
  /\ UNCHANGED <<stored, copy, acked>>

\* Lines 510-514.
CollectSpan(h, s) == Receive(h, <<s>>)

\* Lines 562-570: a batch from another process.
ReplicateSpans(h) == \E b \in Batches : Receive(h, b)

\* Lines 308-316.
NewTrace(s) == [NoTrace EXCEPT !.root = IF s \in Roots THEN {s} ELSE {}]

Later(a, b) == IF a < b THEN b ELSE a

\* Mutant of WithSpan: the end time is that of the span stored last.
WithSpan_LastEnd(t, s) == [t EXCEPT !.copies[s] = @ + 1, !.end = EndOf[s]]

\* Lines 318-325.
WithSpan(t, s) == [t EXCEPT !.copies[s] = @ + 1, !.end = Later(@, EndOf[s])]

\* Lines 303-325: any error of GetTrace makes a new trace.
Load(h) ==
  LET s == Head(queue[h])
      t == TraceOf[s]
  IN
  /\ pc[h] = "load" /\ queue[h] # <<>>
  /\ pc' = [pc EXCEPT ![h] = "store"]
  /\ \E found \in {traces[t]} \cup (IF ReadFaults THEN {NoTrace} ELSE {}) :
       /\ copy' = [copy EXCEPT ![h] = WithSpan(IF found = NoTrace THEN NewTrace(s) ELSE found, s)]
       /\ disturbed' = IF found = traces[t] THEN disturbed ELSE disturbed \cup {t}
  /\ UNCHANGED <<traces, queue, received, acked>>

Write(h) ==
  LET t == TraceOf[Head(queue[h])] IN
  /\ traces' = [traces EXCEPT ![t] = copy[h]]
  /\ disturbed' = IF Writing(h, t) = {} THEN disturbed ELSE disturbed \cup {t}

\* The handler goes on with the next span of its request.
Done(h) ==
  /\ pc[h] = "store"
  /\ pc' = [pc EXCEPT ![h] = "load"]
  /\ queue' = [queue EXCEPT ![h] = Tail(@)]
  /\ copy' = [copy EXCEPT ![h] = NoTrace]
  /\ UNCHANGED received

\* Mutant of Store: the caller has its answer before the trace is written.
Store_AckFirst(h) ==
  /\ Done(h)
  /\ acked' = [acked EXCEPT ![Head(queue[h])] = @ + 1]
  /\ Write(h) \/ UNCHANGED stored

\* Lines 327-337, without an error.
Store(h) ==
  /\ Done(h)
  /\ acked' = [acked EXCEPT ![Head(queue[h])] = @ + 1]
  /\ Write(h)

\* Lines 328-330: StoreTrace returns an error, after or without effect, and
\* so does StoreSpan.  A batch goes on with its next span (lines 571-573).
StoreFails(h) ==
  /\ Done(h)
  /\ Write(h) \/ UNCHANGED stored
  /\ UNCHANGED acked

\* The end of CollectSpan and ReplicateSpans (lines 515-519, 576-579).
Reply(h) ==
  /\ pc[h] = "load" /\ queue[h] = <<>>
  /\ pc' = [pc EXCEPT ![h] = "idle"]
  /\ UNCHANGED <<stored, queue, copy, received, acked>>

\* PruneOldTraces (lines 476-480).
PruneOldTraces(t) ==
  /\ traces[t] # NoTrace /\ traces[t].end <= Old
  /\ traces' = [traces EXCEPT ![t] = NoTrace]
  /\ disturbed' = disturbed \cup {t}
  /\ UNCHANGED <<pc, queue, copy, received, acked>>

\* The process dies anywhere; the storage is on disk.
Restart ==
  /\ pc' = [h \in Handlers |-> "idle"] /\ queue' = [h \in Handlers |-> <<>>]
  /\ copy' = [h \in Handlers |-> NoTrace]
  /\ UNCHANGED <<stored, received, acked>>

Next ==
  \/ \E h \in Handlers :
       \/ \E s \in Spans : CollectSpan(h, s)
       \/ ReplicateSpans(h) \/ Load(h) \/ Store(h) \/ StoreFails(h) \/ Reply(h)
  \/ \E t \in Traces : PruneOldTraces(t)
  \/ Restart

Spec == Init /\ [][Next]_vars
-----------------------------------------------------------------------------
(* A span whose storing was confirmed is in its trace, as often as it was  *)
(* confirmed, through failed writes, batches and restarts - unless two     *)
(* handlers were between the read and the write of that trace at once, a   *)
(* read of it failed, or it was pruned.                                    *)
AckedStored ==
  \A s \in Spans : TraceOf[s] \notin disturbed => acked[s] <= traces[TraceOf[s]].copies[s]

Present(t) == {s \in Spans : traces[t].copies[s] > 0}

(* What the index, filters and pruning go by is always right about the     *)
(* spans of the trace: its end time is that of its last span, and its root *)
(* metadata are those of a root span it has.  So it is whatever the races  *)
(* have lost: a trace is written as a whole.                               *)
MetadataMatch ==
  \A t \in Traces :
    /\ traces[t].root \subseteq Present(t) \cap Roots
    /\ \A s \in Present(t) : TraceOf[s] = t /\ EndOf[s] <= traces[t].end
    /\ traces[t] # NoTrace => \E s \in Present(t) : EndOf[s] = traces[t].end

(* collector.go:297 "StoreSpan stores a span in the central repository":   *)
(* a confirmed span is in its trace.                                       *)
ConfirmedIsStored ==
  \A s \in Spans : acked[s] > 0 => traces[TraceOf[s]].copies[s] > 0
=============================================================================
