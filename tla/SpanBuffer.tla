----------------------------- MODULE SpanBuffer -----------------------------
(***************************************************************************)
(* The in-memory half of the span buffer of pkg/reliability.go: Add        *)
(* (lines 51-65) and Flush (lines 75-140).  Its file is the subject of     *)
(* module BufferPersistence.                                               *)
(*                                                                         *)
(* Flush copies a prefix of the buffer under the lock, sends the copy      *)
(* without the lock, and takes the lock again to remove what it sent.  Its *)
(* callers are the flush worker and Close (tracer.go:498 and 509), so two  *)
(* flushes may overlap with each other and with any number of Adds.        *)
(***************************************************************************)
EXTENDS Integers, Sequences, FiniteSets, SequencesExt

CONSTANTS Spans,      \* span identities
          Size,       \* config.Size
          Flushers,   \* goroutines that may be inside Flush
          Rejects     \* whether the collector may answer with FailedSpanIds

ASSUME SizeAssumption == Size \in Nat \ {0}
ASSUME RejectsAssumption == Rejects \in BOOLEAN

VARIABLES spans,      \* b.spans
          flushPc,    \* where each flusher is: idle, sending, answered
          batch,      \* its copy of the spans it is sending
          \* What happened to the spans, for stating the properties:
          added,      \* passed to Add
          received,   \* stored by the collector
          rejected,   \* listed in some response's FailedSpanIds
          dropped,    \* pushed out by an Add to a full buffer
          overtaken,  \* flushers whose batch may no longer be the prefix
          misaligned  \* such a flusher has removed a prefix

history == <<added, received, rejected, dropped>>
cuts    == <<overtaken, misaligned>>
buffer  == <<spans, flushPc, batch, history, cuts>>

BufferTypeOK ==
  /\ spans \in Seq(Spans) /\ Len(spans) <= Size
  /\ flushPc \in [Flushers -> {"idle", "sending", "answered"}]
  /\ batch \in [Flushers -> Seq(Spans)]
  /\ {added, received, rejected, dropped} \subseteq SUBSET Spans
  /\ overtaken \subseteq Flushers
  /\ misaligned \in BOOLEAN

BufferInit ==
  /\ spans = <<>>
  /\ flushPc = [f \in Flushers |-> "idle"]
  /\ batch = [f \in Flushers |-> <<>>]
  /\ added = {} /\ received = {} /\ rejected = {} /\ dropped = {}
  /\ overtaken = {}
  /\ misaligned = FALSE

InFlight == {f \in Flushers : flushPc[f] # "idle"}
-----------------------------------------------------------------------------
Full == Len(spans) >= Size

\* Drop the oldest span if the buffer is full.
Kept == IF Full THEN Tail(spans) ELSE spans

Add(s) ==
  /\ spans' = Append(Kept, s)
  /\ added' = added \cup {s}
  /\ dropped' = IF Full THEN dropped \cup {Head(spans)} ELSE dropped
  /\ overtaken' = IF Full THEN InFlight ELSE overtaken
  /\ UNCHANGED <<flushPc, batch, received, rejected, misaligned>>

\* Mutant of FlushBegin: the newest spans are sent first.
FlushBegin_Newest(f, n) ==
  /\ flushPc[f] = "idle"
  /\ spans # <<>>
  /\ flushPc' = [flushPc EXCEPT ![f] = "sending"]
  /\ batch' = [batch EXCEPT ![f] = SubSeq(spans, IF n < Len(spans) THEN Len(spans) - n + 1 ELSE 1, Len(spans))]
  /\ overtaken' = overtaken \ {f}
  /\ UNCHANGED <<spans, history, misaligned>>

\* Lines 80-90, with batchSize = n.  An empty buffer is not flushed.
FlushBegin(f, n) ==
  /\ flushPc[f] = "idle"
  /\ spans # <<>>
  /\ flushPc' = [flushPc EXCEPT ![f] = "sending"]
  /\ batch' = [batch EXCEPT ![f] = SubSeq(spans, 1, IF n < Len(spans) THEN n ELSE Len(spans))]
  /\ overtaken' = overtaken \ {f}
  /\ UNCHANGED <<spans, history, misaligned>>

\* The collector handles ReplicateSpans (external to Flush); the spans it
\* could not store are only named in the response.
Answer(f) ==
  /\ flushPc[f] = "sending"
  /\ flushPc' = [flushPc EXCEPT ![f] = "answered"]
  /\ \E failed \in SUBSET ToSet(batch[f]) :
       /\ ~Rejects => failed = {}
       /\ received' = received \cup (ToSet(batch[f]) \ failed)
       /\ rejected' = rejected \cup failed
  /\ UNCHANGED <<spans, batch, added, dropped, cuts>>

\* Line 106: the deadline passed or the connection broke, before or after
\* the collector handled the request.
FlushFail(f) ==
  /\ flushPc[f] # "idle"
  /\ flushPc' = [flushPc EXCEPT ![f] = "idle"]
  /\ batch' = [batch EXCEPT ![f] = <<>>]
  /\ UNCHANGED <<spans, history, cuts>>

\* Lines 119-130: a loop over a sequence keeps what has not been sent.
Without(s, sent) ==
  LET Left[n \in 0..Len(s)] ==
        IF n = 0 THEN <<>>
        ELSE IF s[n] \in sent THEN Left[n - 1] ELSE Append(Left[n - 1], s[n])
  IN  Left[Len(s)]

\* Mutant of Remaining: one span too many is cut.
Remaining_OffByOne(f) ==
  IF Len(spans) >= Len(batch[f])
  THEN SubSeq(spans, Len(batch[f]) + 2, Len(spans))
  ELSE Without(spans, ToSet(batch[f]))

\* Mutant of Remaining: sent spans stay in the buffer.
Remaining_All(f) == spans

\* Lines 115-131: cut the prefix; only if the buffer has become shorter than
\* the batch, look at the spans' identities.
Remaining(f) ==
  IF Len(spans) >= Len(batch[f])
  THEN SubSeq(spans, Len(batch[f]) + 1, Len(spans))
  ELSE Without(spans, ToSet(batch[f]))

\* The response itself, with Success and FailedSpanIds, is not looked at.
FlushOk(f) ==
  /\ flushPc[f] = "answered"
  /\ flushPc' = [flushPc EXCEPT ![f] = "idle"]
  /\ batch' = [batch EXCEPT ![f] = <<>>]
  /\ spans' = Remaining(f)
  /\ overtaken' = overtaken \cup (InFlight \ {f})
  /\ misaligned' = (misaligned \/ f \in overtaken)
  /\ UNCHANGED history
-----------------------------------------------------------------------------
\* Every span is finished once here; Close passes a size it read earlier.
BufferNext ==
  \/ \E s \in Spans \ added : Add(s)
  \/ \E f \in Flushers :
       \/ \E n \in 0..Size : FlushBegin(f, n)
       \/ Answer(f) \/ FlushFail(f) \/ FlushOk(f)

BufferSpec == BufferInit /\ [][BufferNext]_buffer
-----------------------------------------------------------------------------
Settled == ToSet(spans) \cup received \cup rejected \cup dropped

(* Flush removes by position, not by identity.  That is right as long as   *)
(* nothing was taken off the front of the buffer while its request was on  *)
(* its way, neither by an Add to a full buffer nor by another flush: then  *)
(* the batch still is the prefix that line 116 cuts off.                   *)
BatchIsPrefix ==
  \A f \in InFlight \ overtaken : IsPrefix(batch[f], spans)

(* No span vanishes: whatever was added is still buffered, or reached the  *)
(* collector, or was dropped because the buffer was full - unless a flush  *)
(* that had been overtaken cut the buffer.  The exception is real: line    *)
(* 116 then cuts spans that were never sent, against the comment of line   *)
(* 110, "Remove successfully sent spans from buffer".                      *)
LossOnlyWhenOvertaken == ~misaligned => added \subseteq Settled
=============================================================================
