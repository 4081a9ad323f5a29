------------------------------- MODULE Tracer -------------------------------
(***************************************************************************)
(* The tracer of pkg/tracer.go at work: goroutines that finish spans       *)
(* (finishSpan, trySubmitSpan), the flush worker, and Close, around one    *)
(* circuit breaker (module CircuitBreaker), one buffer (module SpanBuffer) *)
(* and a collector that may come and go.  The callers of Execute are the   *)
(* goroutines that finish spans, the flushers are the worker and Close.    *)
(*                                                                         *)
(* The collector is external.  While healthy it stores what it is sent and *)
(* answers before the deadline; a call in flight when it stops being       *)
(* healthy may fail although the collector has stored the span.            *)
(***************************************************************************)
EXTENDS CircuitBreaker, SpanBuffer

CONSTANTS NoSpan,        \* not a span
          MaxBatchSize   \* config.MaxBatchSize

ASSUME NoSpanAssumption == NoSpan \notin Spans
ASSUME BatchSizeAssumption == MaxBatchSize \in Nat
ASSUME FlushersAssumption == {"worker", "close"} \subseteq Flushers

\* Besides those of the breaker and the buffer:
VARIABLES
  healthy,    \* the collector answers
  client,     \* t.client # nil; once connected it stays
  own,        \* the span each caller is finishing
  submit,     \* where each caller is in finishSpan
  workerPc,   \* where the flush worker is
  closePc,    \* where Close is
  closeSize,  \* Close's buffer.Size()
  logged,     \* spans Close wrote to the log file
  finished,   \* spans passed to finishSpan
  twice,      \* spans the collector stored more than once
  retried     \* spans in a call that failed, or in two flushes at once

callers == <<own, submit>>
closing == <<closePc, closeSize, logged>>
ghosts  == <<finished, twice, retried>>
vars    == <<breaker, buffer, callers, healthy, client, workerPc, closing, ghosts>>

TypeOK ==
  /\ BreakerTypeOK /\ BufferTypeOK
  /\ healthy \in BOOLEAN /\ client \in BOOLEAN
  /\ own \in [Callers -> Spans \cup {NoSpan}]
  /\ submit \in [Callers -> {"idle", "execute", "executing", "arrived", "add"}]
  /\ \A c \in Callers : submit[c] # "idle" <=> own[c] # NoSpan
  /\ \A c \in Callers : pc[c] # "idle" => submit[c] \in {"executing", "arrived"}
  /\ workerPc \in {"tick", "flush", "sending"}
  /\ closePc \in {"open", "sized", "sending", "log", "done"}
  /\ closeSize \in 0..Size
  /\ {logged, finished, twice, retried} \subseteq SUBSET Spans

\* NewTracer connects if the collector is there, and goes on if it is not.
Init ==
  /\ BreakerInit /\ BufferInit
  /\ healthy \in BOOLEAN /\ client = healthy
  /\ own = [c \in Callers |-> NoSpan]
  /\ submit = [c \in Callers |-> "idle"]
  /\ workerPc = "tick"
  /\ closePc = "open" /\ closeSize = 0
  /\ logged = {} /\ finished = {} /\ twice = {} /\ retried = {}

\* The connection works: the collector answers and Close has not closed it.
Reachable == healthy /\ closePc # "done"

Step(c, from, to) == submit[c] = from /\ submit' = [submit EXCEPT ![c] = to]

Elsewhere == <<healthy, client, workerPc, closing>>
-----------------------------------------------------------------------------
\* Mutant of Finish: the breaker is left to Execute.
Finish_NoCheck(c, s) ==
  /\ Step(c, "idle", IF ~client THEN "add" ELSE "execute")
  /\ own' = [own EXCEPT ![c] = s]
  /\ finished' = finished \cup {s}
  /\ UNCHANGED <<breaker, buffer, Elsewhere, twice, retried>>

\* finishSpan up to line 427: no client or an open breaker sends the span to
\* the buffer.
Finish(c, s) ==
  /\ Step(c, "idle", IF ~client \/ state = "Open" THEN "add" ELSE "execute")
  /\ own' = [own EXCEPT ![c] = s]
  /\ finished' = finished \cup {s}
  /\ UNCHANGED <<breaker, buffer, Elsewhere, twice, retried>>

\* Line 430: Execute reads the state again.
Enter(c) ==
  /\ Step(c, "execute", "executing")
  /\ ReadState(c)
  /\ UNCHANGED <<buffer, own, Elsewhere, ghosts>>

Proceed(c) ==
  /\ HalfOpenNow(c) \/ TakeSlot(c)
  /\ UNCHANGED <<buffer, callers, Elsewhere, ghosts>>

\* Mutant of Rejected: the breaker's error is not a reason to buffer.
Rejected_Forget(c) ==
  /\ RejectOpen(c) \/ RejectHalfOpen(c)
  /\ Step(c, "executing", "idle")
  /\ own' = [own EXCEPT ![c] = NoSpan]
  /\ UNCHANGED <<buffer, Elsewhere, ghosts>>

Rejected(c) ==
  /\ RejectOpen(c) \/ RejectHalfOpen(c)
  /\ Step(c, "executing", "add")
  /\ UNCHANGED <<buffer, own, Elsewhere, ghosts>>

\* The collector stores the span (CollectSpan, line 434).
Arrive(c) ==
  /\ Reachable
  /\ pc[c] \in {"calling", "trial"}
  /\ Step(c, "executing", "arrived")
  /\ received' = received \cup {own[c]}
  /\ twice' = twice \cup ({own[c]} \cap received)
  /\ UNCHANGED <<breaker, spans, flushPc, batch, added, rejected, dropped,
                 overtaken, misaligned, own, Elsewhere, finished, retried>>

Submitted(c) ==
  /\ Step(c, "arrived", "idle")
  /\ own' = [own EXCEPT ![c] = NoSpan]
  /\ Succeed(c)
  /\ UNCHANGED <<buffer, Elsewhere, ghosts>>

\* The call fails, whether or not the collector has stored the span.
SubmitFails(c) ==
  /\ ~Reachable
  /\ Fail(c)
  /\ submit' = [submit EXCEPT ![c] = "add"]
  /\ retried' = retried \cup {own[c]}
  /\ UNCHANGED <<buffer, own, Elsewhere, finished, twice>>

\* Line 410.
AddToBuffer(c) ==
  /\ Step(c, "add", "idle")
  /\ own' = [own EXCEPT ![c] = NoSpan]
  /\ Add(own[c])
  /\ UNCHANGED <<breaker, Elsewhere, ghosts>>
-----------------------------------------------------------------------------
\* Mutant of WorkerConnect: the connection is made but not kept.
WorkerConnect_Unstored ==
  /\ workerPc = "tick" /\ ~client
  /\ healthy
  /\ UNCHANGED vars

\* Lines 483-490: a tick without a client tries to connect.
WorkerConnect ==
  /\ workerPc = "tick" /\ ~client
  /\ healthy
  /\ client' = TRUE
  /\ UNCHANGED <<breaker, buffer, callers, healthy, workerPc, closing, ghosts>>

\* Line 497: the breaker is asked, but not used, for a flush.
WorkerCheck ==
  /\ workerPc = "tick"
  /\ client /\ state # "Open"
  /\ workerPc' = "flush"
  /\ UNCHANGED <<breaker, buffer, callers, healthy, client, closing, ghosts>>

\* Spans that are in two flushes at once.
InBoth(f) == UNION {ToSet(batch'[f]) \cap ToSet(batch[g]) : g \in InFlight}

BeginFlush(f, n) ==
  /\ FlushBegin(f, n)
  /\ retried' = retried \cup InBoth(f)
  /\ UNCHANGED <<breaker, callers, healthy, client, logged, finished, twice>>

WorkerFlush ==
  /\ workerPc = "flush"
  /\ \/ /\ BeginFlush("worker", MaxBatchSize)
        /\ workerPc' = "sending"
        /\ UNCHANGED <<closePc, closeSize>>
     \/ /\ spans = <<>>
        /\ workerPc' = "tick"
        /\ UNCHANGED <<breaker, buffer, callers, healthy, client, closing, ghosts>>

\* The collector stores the batch (ReplicateSpans, line 101 of reliability.go).
AnswerFlush(f) ==
  /\ Reachable
  /\ Answer(f)
  /\ twice' = twice \cup (ToSet(batch[f]) \cap received)
  /\ UNCHANGED <<breaker, callers, Elsewhere, finished, retried>>

Returned(f, to) ==
  IF f = "worker"
  THEN workerPc' = "tick" /\ UNCHANGED closing
  ELSE closePc' = to /\ UNCHANGED <<workerPc, closeSize, logged>>

EndFlush(f) ==
  /\ FlushOk(f)
  /\ Returned(f, "done")
  /\ UNCHANGED <<breaker, callers, healthy, client, ghosts>>

\* A failed flush is not reported to the breaker.
FailFlush(f) ==
  /\ ~Reachable
  /\ retried' = retried \cup ToSet(batch[f])
  /\ FlushFail(f)
  /\ Returned(f, "log")
  /\ UNCHANGED <<breaker, callers, healthy, client, finished, twice>>
-----------------------------------------------------------------------------
\* Close, lines 508-509: buffer.Size() is evaluated before Flush locks again.
CloseBegin ==
  /\ closePc = "open"
  /\ closePc' = IF client THEN "sized" ELSE "log"
  /\ closeSize' = Len(spans)
  /\ UNCHANGED <<breaker, buffer, callers, healthy, client, workerPc, logged, ghosts>>

CloseFlush ==
  /\ closePc = "sized"
  /\ \/ /\ BeginFlush("close", closeSize)
        /\ closePc' = "sending"
        /\ UNCHANGED <<workerPc, closeSize>>
     \/ /\ spans = <<>>
        /\ closePc' = "done"
        /\ UNCHANGED <<breaker, buffer, callers, healthy, client, workerPc, closeSize, logged, ghosts>>

\* Lines 511-515 and 519-523: under the buffer's lock.
CloseLog ==
  /\ closePc = "log"
  /\ closePc' = "done"
  /\ logged' = logged \cup ToSet(spans)
  /\ UNCHANGED <<breaker, buffer, callers, healthy, client, workerPc, closeSize, ghosts>>
-----------------------------------------------------------------------------
Environment ==
  \/ /\ TimeoutElapses
     /\ UNCHANGED <<buffer, callers, Elsewhere, ghosts>>
  \/ /\ healthy' = ~healthy
     /\ UNCHANGED <<breaker, buffer, callers, client, workerPc, closing, ghosts>>

Caller(c) ==
  \/ Enter(c) \/ Proceed(c) \/ Rejected(c) \/ Arrive(c) \/ Submitted(c)
  \/ SubmitFails(c) \/ AddToBuffer(c)

InFlush(f) == AnswerFlush(f) \/ EndFlush(f) \/ FailFlush(f)

Worker == WorkerConnect \/ WorkerCheck \/ WorkerFlush

Close == CloseBegin \/ CloseFlush \/ CloseLog

Next ==
  \/ \E c \in Callers : Caller(c) \/ \E s \in Spans \ finished : Finish(c, s)
  \/ \E f \in Flushers : InFlush(f)
  \/ Worker \/ Close \/ Environment

\* Goroutines inside a call get on, every call has a deadline, the ticker
\* keeps ticking and the clock running.  Nobody has to finish a span or to
\* call Close, and the collector owes nothing.
Fairness ==
  /\ \A c \in Callers : WF_vars(Caller(c))
  /\ \A f \in Flushers : WF_vars(InFlush(f))
  /\ WF_vars(Worker)
  /\ WF_vars(TimeoutElapses /\ UNCHANGED <<buffer, callers, Elsewhere, ghosts>>)

Spec == Init /\ [][Next]_vars /\ Fairness
-----------------------------------------------------------------------------
InHand == {own[c] : c \in Callers} \ {NoSpan}

(* A finished span is never dropped on the way: it is with its goroutine,  *)
(* in the buffer, at the collector, or was pushed out of a full buffer.    *)
(* This covers a rejection by the breaker at either of its two checks and  *)
(* a call that fails late.  The exception is the cut of an overtaken flush *)
(* that SpanBuffer's LossOnlyWhenOvertaken describes.                      *)
DeliveredOrHeld == ~misaligned => finished \subseteq InHand \cup Settled

(* The collector stores a span twice only if some call that carried it     *)
(* failed, or two flushes carried it at once: at-least-once delivery with  *)
(* no other source of duplicates.                                          *)
DuplicatesExplained == twice \subseteq retried

\* The breaker is open and no goroutine is between IsOpen (line 425) and the
\* end of Execute's timeout check.
Stalled == {c \in Callers : submit[c] = "execute" \/ pc[c] = "sawOpen"}
Wedged  == state = "Open" /\ Stalled = {}

(* Only Execute moves the breaker out of Open, and both ways to it ask     *)
(* IsOpen first (lines 425 and 497): once the goroutines that had already  *)
(* passed that check are through, the breaker stays open for good.         *)
WedgedForever == [][Wedged => Wedged']_vars

(* While the breaker keeps out of Open, a healthy collector gets every     *)
(* span that stays in the buffer.                                          *)
DrainsUnlessOpen ==
  (<>[]Reachable /\ <>[](state # "Open"))
    => \A s \in Spans : s \in ToSet(spans) ~> s \notin ToSet(spans)
=============================================================================
