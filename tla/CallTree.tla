------------------------------ MODULE CallTree -------------------------------
(***************************************************************************)
(* Who finishes a span, and what the collector gets of it.                 *)
(*                                                                         *)
(* A span belongs to a handler: an HTTP handler, a gRPC handler under the  *)
(* server interceptor, or local work that its parent's handler waits for.  *)
(* Handlers call other services.  The client interceptor does not start a  *)
(* span when there is one in the context: it sets the status of that span  *)
(* and finishes it after every call, and its owner does so once more at    *)
(* the end.  Every Finish submits a copy or, if that fails, puts a POINTER *)
(* into the buffer: a later flush sends what the span has become.          *)
(*                                                                         *)
(* Overflow of the buffer, overlapping flushes and the breaker are in      *)
(* SpanBuffer and Tracer.                                                  *)
(***************************************************************************)
EXTENDS Integers, Sequences, SequencesExt, FiniteSets

CONSTANTS Spans, NoSpan,
          MaxFinishes,  \* bound: no calls and streams after so many Finish calls
          MaxFailures,  \* bound: copies whose submission fails
          Unlucky       \* bound: spans whose submission may fail

ASSUME NoSpanAssumption == NoSpan \notin Spans
ASSUME BoundsAssumption == {MaxFinishes, MaxFailures} \subseteq Nat /\ Unlucky \subseteq Spans

VARIABLES kind,      \* whose span it is; "none" before it is started
          caller,    \* the span whose handler has started or called it
          pc,        \* where the owner's goroutine is
          last,      \* spans whose owner has come to its own Finish
          callee,    \* the call that is waited for
          abandoned, \* calls whose caller has given up
          status,    \* Span.Status
          versions,  \* the span as every Finish has submitted it
          held,      \* pointers to the span in the buffer
          batch,     \* the flush under way
          strays,    \* calls given up that the collector may still serve
          stored,    \* copies in the trace, in the order of their arrival
          failures   \* copies whose call was reported as failed

owners    == <<kind, caller, last, callee, abandoned>>
collector == <<strays, stored>>
vars      == <<owners, pc, status, versions, held, batch, collector, failures>>

Version == [end : Nat, status : {"ok", "error"}]
Batch   == [size : Nat, copy : Version]

Total(f) == MapThenSumSet(LAMBDA s : f[s], Spans)

\* The number of Finish calls stands for EndTime.
Finishes == [s \in Spans |-> Len(versions[s])]

\* ToProto (tracer.go:197-217).
Copy(s) == [end |-> Finishes[s], status |-> status[s]]
NoBatch == [size |-> 0, copy |-> [end |-> 0, status |-> "ok"]]

TypeOK ==
  /\ kind \in [Spans -> {"none", "http", "server", "local"}]
  /\ caller \in [Spans -> Spans \cup {NoSpan}] /\ callee \in [Spans -> Spans \cup {NoSpan}]
  /\ pc \in [Spans -> {"none", "handler", "waiting", "finish", "submit", "done"}]
  /\ {last, abandoned} \subseteq SUBSET Spans
  /\ status \in [Spans -> {"ok", "error"}]
  /\ versions \in [Spans -> Seq(Version)] /\ stored \in [Spans -> Seq(Version)]
  /\ held \in [Spans -> Nat] /\ failures \in [Spans -> Nat]
  /\ batch \in [Spans -> Batch] /\ strays \subseteq Spans \X Batch
  /\ \A s \in Spans : /\ kind[s] = "none" <=> pc[s] = "none"
                      /\ callee[s] # NoSpan <=> pc[s] = "waiting"
                      /\ batch[s].size <= held[s]

Init ==
  /\ kind = [s \in Spans |-> "none"] /\ pc = [s \in Spans |-> "none"]
  /\ caller = [s \in Spans |-> NoSpan] /\ callee = [s \in Spans |-> NoSpan]
  /\ last = {} /\ abandoned = {}
  /\ status = [s \in Spans |-> "ok"] /\ versions = [s \in Spans |-> <<>>]
  /\ held = [s \in Spans |-> 0] /\ batch = [s \in Spans |-> NoBatch]
  /\ strays = {} /\ stored = [s \in Spans |-> <<>>] /\ failures = [s \in Spans |-> 0]
-----------------------------------------------------------------------------
\* A goroutine with a new span that starts at once.
Started(c, k, s, pcs) ==
  /\ pc[c] = "none"
  /\ kind' = [kind EXCEPT ![c] = k]
  /\ caller' = [caller EXCEPT ![c] = s]
  /\ pc' = [pcs EXCEPT ![c] = "handler"]
  /\ UNCHANGED <<last, abandoned, status, versions, held, batch, collector, failures>>

\* A request from outside: the HTTP middleware of service A, or a server
\* interceptor that finds no span in the metadata.  Requests share nothing,
\* and there is one.
Request(c) ==
  /\ \A s \in Spans : pc[s] = "none"
  /\ \E k \in {"http", "server"} : Started(c, k, NoSpan, pc)
  /\ UNCHANGED callee

\* The handler of s starts a span for a part of its work.
StartLocal(s, c) == pc[s] = "handler" /\ Started(c, "local", s, pc) /\ UNCHANGED callee

\* s can be finished before its end.
Early(s) == pc[s] = "handler" /\ Total(Finishes) < MaxFinishes

\* A call, up to its server interceptor (interceptor.go:27-50, 78-103).
Call(s, c) ==
  /\ Early(s)
  /\ Started(c, "server", s, [pc EXCEPT ![s] = "waiting"])
  /\ callee' = [callee EXCEPT ![s] = c]

\* The status is set and Finish is called.
Ending(s, st) ==
  /\ status' = [status EXCEPT ![s] = st]
  /\ pc' = [pc EXCEPT ![s] = "finish"]
  /\ UNCHANGED <<kind, caller, versions, held, batch, collector, failures>>

\* The client interceptor has its result (interceptor.go:55-63).
AfterCall(s, isError) ==
  /\ Ending(s, IF isError THEN "error" ELSE "ok")
  /\ callee' = [callee EXCEPT ![s] = NoSpan]
  /\ UNCHANGED last

\* The server's span has the status of what its handler returned (105-111).
Reply(s) ==
  /\ pc[s] = "waiting" /\ pc[callee[s]] = "done"
  /\ AfterCall(s, status[callee[s]] = "error")
  /\ UNCHANGED abandoned

\* The deadline of the caller's context (service-b.go:194); the handler of the
\* call goes on.
Deadline(s) ==
  /\ pc[s] = "waiting"
  /\ AfterCall(s, TRUE)
  /\ abandoned' = abandoned \cup {callee[s]}

\* A call or a new stream that does not get through (interceptor.go:151-157),
\* or a message that cannot be sent (371-378).
CallFails(s) == Early(s) /\ AfterCall(s, TRUE) /\ UNCHANGED abandoned

\* A client stream holds the span of the context (interceptor.go:136-164); any
\* handler may have one open.  RecvMsg at its end finishes the span, once for
\* each call (362-365).
RecvEof(s) == Early(s) /\ Ending(s, status[s]) /\ UNCHANGED <<last, callee, abandoned>>

\* Any other error of RecvMsg, and every error of a server stream, sets the
\* status and finishes nothing (357-360, 396-417).
RecvError(s) ==
  /\ Early(s)
  /\ status' = [status EXCEPT ![s] = "error"]
  /\ UNCHANGED <<owners, pc, versions, held, batch, collector, failures>>

\* A server interceptor sets the status by the result (interceptor.go:105-111);
\* other owners set it for an error and leave it otherwise.
Outcome(s, isError) ==
  IF isError THEN "error" ELSE IF kind[s] = "server" THEN "ok" ELSE status[s]

\* Mutant of HandlerReturns: the parts of the work are not waited for.
HandlerReturns_NoWait(s, isError) ==
  /\ pc[s] = "handler"
  /\ Ending(s, Outcome(s, isError))
  /\ last' = last \cup {s}
  /\ UNCHANGED <<callee, abandoned>>

\* The end of a handler or of local work.
HandlerReturns(s, isError) ==
  /\ pc[s] = "handler"
  /\ \A c \in Spans : caller[c] = s /\ kind[c] = "local" => pc[c] = "done"
  /\ Ending(s, Outcome(s, isError))
  /\ last' = last \cup {s}
  /\ UNCHANGED <<callee, abandoned>>
-----------------------------------------------------------------------------
NextVersion(s) == [end |-> Finishes[s] + 1, status |-> status[s]]

AfterFinish(s) == pc' = [pc EXCEPT ![s] = IF s \in last THEN "done" ELSE "handler"]

\* Mutant of Finish: a goroutine of its own submits the span.
Finish_Background(s) ==
  /\ pc[s] = "finish"
  /\ versions' = [versions EXCEPT ![s] = Append(@, NextVersion(s))]
  /\ AfterFinish(s)
  /\ strays' = strays \cup {<<s, [size |-> 1, copy |-> NextVersion(s)]>>}
  /\ UNCHANGED <<owners, status, held, batch, stored, failures>>

\* Span.Finish up to the call of finishSpan (tracer.go:188-193).
Finish(s) ==
  /\ pc[s] = "finish"
  /\ versions' = [versions EXCEPT ![s] = Append(@, NextVersion(s))]
  /\ pc' = [pc EXCEPT ![s] = "submit"]
  /\ UNCHANGED <<owners, status, held, batch, collector, failures>>

StoreCopies(s, b) ==
  stored' = [stored EXCEPT ![s] = @ \o [i \in 1..b.size |-> b.copy]]

\* trySubmitSpan succeeds (tracer.go:430-439).
Submitted(s) ==
  /\ pc[s] = "submit"
  /\ StoreCopies(s, [size |-> 1, copy |-> Copy(s)])
  /\ AfterFinish(s)
  /\ UNCHANGED <<owners, status, versions, held, batch, strays, failures>>

\* A call about b fails; the collector serves it later or never.
CallLost(s, b) ==
  /\ s \in Unlucky /\ Total(failures) + b.size <= MaxFailures
  /\ failures' = [failures EXCEPT ![s] = @ + b.size]
  /\ strays' = strays \cup {<<s, b>>}
  /\ UNCHANGED stored

\* It does not: the pointer goes to the buffer (tracer.go:409-410).
SubmitFails(s) ==
  /\ pc[s] = "submit"
  /\ CallLost(s, [size |-> 1, copy |-> Copy(s)])
  /\ held' = [held EXCEPT ![s] = @ + 1]
  /\ AfterFinish(s)
  /\ UNCHANGED <<owners, status, versions, batch>>

\* Flush copies some pointers and converts what they point to now; the owner
\* may be between SetStatus and Finish (reliability.go:87-96).
FlushBegin(s) ==
  /\ batch[s].size = 0
  /\ \E n \in 1..held[s] : batch' = [batch EXCEPT ![s] = [size |-> n, copy |-> Copy(s)]]
  /\ UNCHANGED <<owners, pc, status, versions, held, collector, failures>>

\* Mutant of FlushOk: what was added during the flush is removed as well.
FlushOk_All(s) ==
  /\ batch[s].size > 0
  /\ StoreCopies(s, batch[s])
  /\ held' = [held EXCEPT ![s] = 0]
  /\ batch' = [batch EXCEPT ![s] = NoBatch]
  /\ UNCHANGED <<owners, pc, status, versions, strays, failures>>

\* Lines 101-116.
FlushOk(s) ==
  /\ batch[s].size > 0
  /\ StoreCopies(s, batch[s])
  /\ held' = [held EXCEPT ![s] = @ - batch[s].size]
  /\ batch' = [batch EXCEPT ![s] = NoBatch]
  /\ UNCHANGED <<owners, pc, status, versions, strays, failures>>

FlushFails(s) ==
  /\ batch[s].size > 0
  /\ CallLost(s, batch[s])
  /\ batch' = [batch EXCEPT ![s] = NoBatch]
  /\ UNCHANGED <<owners, pc, status, versions, held>>

\* The collector serves a call whose client has given up.
Arrive(s, b) ==
  /\ <<s, b>> \in strays
  /\ StoreCopies(s, b)
  /\ strays' = strays \ {<<s, b>>}
  /\ UNCHANGED <<owners, pc, status, versions, held, batch, failures>>

Next ==
  \E s \in Spans :
    \/ Request(s)
    \/ \E c \in Spans : StartLocal(s, c) \/ Call(s, c)
    \/ Reply(s) \/ Deadline(s) \/ CallFails(s)
    \/ RecvEof(s) \/ RecvError(s)
    \/ \E isError \in BOOLEAN : HandlerReturns(s, isError)
    \/ Finish(s) \/ Submitted(s) \/ SubmitFails(s)
    \/ FlushBegin(s) \/ FlushOk(s) \/ FlushFails(s)
    \/ \E b \in {stray[2] : stray \in strays} : Arrive(s, b)

Spec == Init /\ [][Next]_vars
-----------------------------------------------------------------------------
(* The copy of a span as its owner has left it is in the trace or still to *)
(* be sent, although earlier copies of the same span were submitted,       *)
(* buffered and flushed while it was changing.                             *)
FinalIsKept ==
  \A s \in Spans : pc[s] = "done" => Copy(s) \in Range(stored[s]) \/ held[s] > 0

(* OrderSpans keeps the last copy of a span (clock.go:202).  If no call    *)
(* about the span has failed that is its last version, since every copy    *)
(* arrives before the owner gets on: one for each call and one for the end.*)
(* After a failed call an older or a half-changed one may come last.       *)
InOrderWithoutFailures ==
  \A s \in Spans : failures[s] = 0 =>
    stored[s] = IF pc[s] = "submit" THEN Front(versions[s]) ELSE versions[s]

(* A span ends for the last time after all that was done for it, on any    *)
(* service, except for calls that its handler has given up.                *)
ChildrenEndFirst ==
  \A c \in Spans \ abandoned :
    caller[c] # NoSpan /\ pc[caller[c]] = "done" => pc[c] = "done"
=============================================================================
