--------------------------- MODULE CallTreeProofs ----------------------------
(***************************************************************************)
(* For any number of spans, calls and failures: types, and that the last   *)
(* state of a finished span is not lost on the way to the collector.       *)
(*                                                                         *)
(* FinalIsKept is not inductive: a flush under way is going to remove      *)
(* entries from the buffer.  The strengthening says that it either sends   *)
(* the last state or leaves an entry behind.  The order of the copies is   *)
(* that of the trace, then the batch, then the buffer; and callers end     *)
(* last since whoever works for a span is waited for or was given up.      *)
(***************************************************************************)
EXTENDS CallTree, SequenceTheorems, TLAPS

LEMMA TypeInit == Init => TypeOK
<1> SUFFICES ASSUME Init PROVE TypeOK
  OBVIOUS
<1> USE DEF Init
<1>1. NoBatch \in Batch
  BY DEF NoBatch, Batch, Version
<1>2. [s \in Spans |-> <<>>] \in [Spans -> Seq(Version)]
  OBVIOUS
<1> QED BY <1>1, <1>2, NoSpanAssumption DEF TypeOK, NoBatch

\* What is submitted has the type of a copy.
LEMMA CopyType ==
  ASSUME TypeOK, NEW s \in Spans
  PROVE  /\ Copy(s) \in Version /\ NextVersion(s) \in Version
         /\ [size |-> 1, copy |-> Copy(s)] \in Batch
BY DEF TypeOK, Copy, NextVersion, Finishes, Version, Batch

\* Storing copies is appending them.
LEMMA StoreCopiesType ==
  ASSUME TypeOK, NEW s \in Spans, NEW b \in Batch, StoreCopies(s, b)
  PROVE  /\ stored' \in [Spans -> Seq(Version)]
         /\ \A t \in Spans : t # s => stored'[t] = stored[t]
         /\ \A v \in Range(stored[s]) : v \in Range(stored'[s])
         /\ b.size > 0 => b.copy \in Range(stored'[s])
<1> DEFINE new == [i \in 1..b.size |-> b.copy]
<1>1. b.size \in Nat /\ b.copy \in Version
  BY DEF Batch
<1>2. new \in Seq(Version) /\ Len(new) = b.size
  BY <1>1
<1>3. stored[s] \in Seq(Version) /\ stored \in [Spans -> Seq(Version)]
  BY DEF TypeOK
<1>4. stored' = [stored EXCEPT ![s] = stored[s] \o new]
  BY DEF StoreCopies
<1>5. stored[s] \o new \in Seq(Version)
  BY <1>2, <1>3
<1>6. stored'[s] = stored[s] \o new
  BY <1>3, <1>4
<1>7. /\ DOMAIN (stored[s] \o new) = 1..(Len(stored[s]) + Len(new))
      /\ \A i \in 1..(Len(stored[s]) + Len(new)) :
           (stored[s] \o new)[i] = IF i <= Len(stored[s]) THEN stored[s][i]
                                   ELSE new[i - Len(stored[s])]
  <2> HIDE DEF new
  <2>1. DOMAIN (stored[s] \o new) = 1..Len(stored[s] \o new)
    BY <1>5
  <2> QED BY <1>2, <1>3, <2>1, ConcatProperties
<1>8. Len(stored[s]) \in Nat /\ DOMAIN stored[s] = 1..Len(stored[s])
  BY <1>3
<1>9. \A v \in Range(stored[s]) : v \in Range(stored'[s])
  <2> SUFFICES ASSUME NEW i \in DOMAIN stored[s] PROVE stored[s][i] \in Range(stored'[s])
    BY DEF Range
  <2>1. i \in 1..(Len(stored[s]) + Len(new)) /\ i <= Len(stored[s])
    BY <1>1, <1>2, <1>8
  <2>2. i \in DOMAIN stored'[s] /\ stored'[s][i] = stored[s][i]
    BY <1>6, <1>7, <2>1
  <2> QED BY <2>2 DEF Range
<1>10. ASSUME b.size > 0 PROVE b.copy \in Range(stored'[s])
  <2> DEFINE k == Len(stored[s]) + 1
  <2>1. k \in 1..(Len(stored[s]) + Len(new)) /\ ~ (k <= Len(stored[s])) /\ k - Len(stored[s]) = 1
    BY <1>1, <1>2, <1>8, <1>10
  <2>2. new[1] = b.copy
    BY <1>1, <1>10
  <2>3. k \in DOMAIN stored'[s] /\ stored'[s][k] = new[1]
    BY <1>6, <1>7, <2>1
  <2> QED BY <2>2, <2>3 DEF Range
<1> QED BY <1>3, <1>4, <1>5, <1>9, <1>10

LEMMA TypeInductive == TypeOK /\ [Next]_vars => TypeOK'
<1> SUFFICES ASSUME TypeOK, [Next]_vars PROVE TypeOK'
  OBVIOUS
<1> USE NoSpanAssumption
<1>1. ASSUME NEW s \in Spans, Request(s) PROVE TypeOK'
  BY <1>1 DEF TypeOK, Request, Started, collector
<1>2. ASSUME NEW s \in Spans, NEW c \in Spans, StartLocal(s, c) PROVE TypeOK'
  BY <1>2 DEF TypeOK, StartLocal, Started, collector
<1>3. ASSUME NEW s \in Spans, NEW c \in Spans, Call(s, c) PROVE TypeOK'
  BY <1>3 DEF TypeOK, Call, Early, Started, collector
<1>4. ASSUME NEW s \in Spans, Reply(s) PROVE TypeOK'
  BY <1>4 DEF TypeOK, Reply, AfterCall, Ending, collector
<1>5. ASSUME NEW s \in Spans, Deadline(s) PROVE TypeOK'
  BY <1>5 DEF TypeOK, Deadline, AfterCall, Ending, collector
<1>6. ASSUME NEW s \in Spans, CallFails(s) PROVE TypeOK'
  BY <1>6 DEF TypeOK, CallFails, Early, AfterCall, Ending, collector
<1>7. ASSUME NEW s \in Spans, RecvEof(s) PROVE TypeOK'
  BY <1>7 DEF TypeOK, RecvEof, Early, Ending, collector
<1>8. ASSUME NEW s \in Spans, RecvError(s) PROVE TypeOK'
  BY <1>8 DEF TypeOK, RecvError, owners, collector
<1>9. ASSUME NEW s \in Spans, NEW isError \in BOOLEAN, HandlerReturns(s, isError) PROVE TypeOK'
  <2>1. Outcome(s, isError) \in {"ok", "error"}
    BY DEF Outcome, TypeOK
  <2> QED BY <1>9, <2>1 DEF TypeOK, HandlerReturns, Ending, collector
<1>10. ASSUME NEW s \in Spans, Finish(s) PROVE TypeOK'
  <2>0. versions[s] \in Seq(Version) /\ NextVersion(s) \in Version
    BY CopyType DEF TypeOK
  <2>1. Append(versions[s], NextVersion(s)) \in Seq(Version)
    BY <2>0
  <2> QED BY <1>10, <2>1 DEF TypeOK, Finish, owners, collector
<1>11. ASSUME NEW s \in Spans, Submitted(s) PROVE TypeOK'
  <2>0. [size |-> 1, copy |-> Copy(s)] \in Batch
    BY CopyType
  <2>1. stored' \in [Spans -> Seq(Version)]
    BY <1>11, <2>0, StoreCopiesType DEF Submitted
  <2> QED BY <1>11, <2>1 DEF TypeOK, Submitted, AfterFinish, owners
<1>12. ASSUME NEW s \in Spans, SubmitFails(s) PROVE TypeOK'
  <2>1. strays' \subseteq Spans \X Batch /\ failures' \in [Spans -> Nat] /\ UNCHANGED stored
    <3> DEFINE b == [size |-> 1, copy |-> Copy(s)]
    <3>1. b \in Batch /\ b.size = 1
      BY CopyType
    <3>2. CallLost(s, b)
      BY <1>12 DEF SubmitFails
    <3> HIDE DEF b
    <3> QED BY <3>1, <3>2 DEF TypeOK, CallLost
  <2>2. held' \in [Spans -> Nat] /\ \A t \in Spans : held'[t] >= held[t]
    BY <1>12 DEF TypeOK, SubmitFails
  <2>3. batch' = batch /\ \A t \in Spans : batch[t].size \in Nat /\ batch'[t].size <= held'[t]
    BY <1>12, <2>2 DEF TypeOK, SubmitFails, Batch
  <2> QED BY <1>12, <2>1, <2>2, <2>3 DEF TypeOK, SubmitFails, AfterFinish, owners
<1>13. ASSUME NEW s \in Spans, FlushBegin(s) PROVE TypeOK'
  <2>1. PICK n \in 1..held[s] : batch' = [batch EXCEPT ![s] = [size |-> n, copy |-> Copy(s)]]
    BY <1>13 DEF FlushBegin
  <2>2. n \in Nat /\ n <= held[s] /\ [size |-> n, copy |-> Copy(s)] \in Batch
    <3>1. n \in Nat /\ n <= held[s]
      BY DEF TypeOK
    <3>2. Copy(s) \in Version
      BY CopyType
    <3> QED BY <3>1, <3>2 DEF Batch
  <2> QED BY <1>13, <2>1, <2>2 DEF TypeOK, FlushBegin, owners, collector
<1>14. ASSUME NEW s \in Spans, FlushOk(s) PROVE TypeOK'
  <2>1. batch[s] \in Batch /\ NoBatch \in Batch /\ NoBatch.size = 0
    BY DEF TypeOK, NoBatch, Batch, Version
  <2>2. stored' \in [Spans -> Seq(Version)]
    BY <1>14, <2>1, StoreCopiesType DEF FlushOk
  <2>3. held[s] - batch[s].size \in Nat
    BY <2>1 DEF TypeOK, Batch
  <2>4. held' \in [Spans -> Nat] /\ batch' \in [Spans -> Batch]
    BY <1>14, <2>1, <2>3 DEF TypeOK, FlushOk
  <2>5. \A t \in Spans : batch'[t].size <= held'[t]
    BY <1>14, <2>1, <2>3, <2>4 DEF TypeOK, FlushOk
  <2> QED BY <1>14, <2>2, <2>4, <2>5 DEF TypeOK, FlushOk, owners
<1>15. ASSUME NEW s \in Spans, FlushFails(s) PROVE TypeOK'
  <2>1. batch[s] \in Batch /\ NoBatch \in Batch /\ NoBatch.size = 0
    BY DEF TypeOK, NoBatch, Batch, Version
  <2>2. strays' \subseteq Spans \X Batch /\ failures' \in [Spans -> Nat] /\ UNCHANGED stored
    BY <1>15, <2>1 DEF TypeOK, FlushFails, CallLost, Batch
  <2>3. batch' \in [Spans -> Batch]
    BY <1>15, <2>1 DEF TypeOK, FlushFails
  <2>4. \A t \in Spans : batch'[t].size <= held'[t]
    BY <1>15, <2>1 DEF TypeOK, FlushFails
  <2> QED BY <1>15, <2>2, <2>3, <2>4 DEF TypeOK, FlushFails, owners
<1>16. ASSUME NEW s \in Spans, NEW b, Arrive(s, b) PROVE TypeOK'
  <2>1. b \in Batch
    BY <1>16 DEF TypeOK, Arrive
  <2>2. stored' \in [Spans -> Seq(Version)]
    BY <1>16, <2>1, StoreCopiesType DEF Arrive
  <2> QED BY <1>16, <2>2 DEF TypeOK, Arrive, owners
<1>17. CASE UNCHANGED vars
  BY <1>17 DEF TypeOK, vars, owners, collector
<1>18. CASE Next
  <2>1. PICK s \in Spans :
          \/ Request(s) \/ \E c \in Spans : StartLocal(s, c) \/ Call(s, c)
          \/ Reply(s) \/ Deadline(s) \/ CallFails(s) \/ RecvEof(s) \/ RecvError(s)
          \/ \E isError \in BOOLEAN : HandlerReturns(s, isError)
          \/ Finish(s) \/ Submitted(s) \/ SubmitFails(s)
          \/ FlushBegin(s) \/ FlushOk(s) \/ FlushFails(s) \/ \E b : Arrive(s, b)
    BY <1>18 DEF Next
  <2> QED
    BY <2>1, <1>1, <1>2, <1>3, <1>4, <1>5, <1>6, <1>7, <1>8, <1>9, <1>10, <1>11, <1>12, <1>13,
       <1>14, <1>15, <1>16
<1> QED BY <1>17, <1>18

(* Every reachable state has the types of module CallTree: a goroutine     *)
(* waits exactly while it has a call, and a flush removes no more than is  *)
(* in the buffer.                                                          *)
THEOREM TypeCorrect == Spec => []TypeOK
BY TypeInit, TypeInductive, PTL DEF Spec
-----------------------------------------------------------------------------
\* What the span is now is in the trace, is being sent, or stays in the buffer
\* when the flush under way is over.
Safe(s) ==
  \/ Copy(s) \in Range(stored[s])
  \/ batch[s].size > 0 /\ batch[s].copy = Copy(s)
  \/ held[s] > batch[s].size

Kept == \A s \in Spans : pc[s] = "done" => Safe(s)

LEMMA KeptInit == Init => Kept
BY DEF Init, Kept

\* A span keeps what it is unless its owner works on it.
LEMMA SafeStays ==
  ASSUME NEW t \in Spans, Safe(t), Copy(t)' = Copy(t),
         \A v \in Range(stored[t]) : v \in Range(stored'[t]),
         UNCHANGED <<held[t], batch[t]>>
  PROVE  Safe(t)'
BY DEF Safe

LEMMA KeptInductive == TypeOK /\ Kept /\ [Next]_vars => Kept'
<1> SUFFICES ASSUME TypeOK, Kept, [Next]_vars, NEW t \in Spans, pc'[t] = "done"
             PROVE  Safe(t)'
  BY DEF Kept
<1>1. ASSUME UNCHANGED <<held, batch, stored>>, pc[t] = "done",
             UNCHANGED <<status[t], versions[t]>>
      PROVE  Safe(t)'
  <2>1. Copy(t)' = Copy(t)
    BY <1>1 DEF Copy, Finishes
  <2> QED BY <1>1, <2>1, SafeStays DEF Kept
\* The owner's steps before it submits the span do not end it.
<1>2. ASSUME NEW s \in Spans, Request(s) PROVE Safe(t)'
  BY <1>1, <1>2 DEF TypeOK, Request, Started, collector
<1>3. ASSUME NEW s \in Spans, NEW c \in Spans, StartLocal(s, c) PROVE Safe(t)'
  BY <1>1, <1>3 DEF TypeOK, StartLocal, Started, collector
<1>4. ASSUME NEW s \in Spans, NEW c \in Spans, Call(s, c) PROVE Safe(t)'
  BY <1>1, <1>4 DEF TypeOK, Call, Started, collector
<1>5. ASSUME NEW s \in Spans, NEW st, Ending(s, st) PROVE Safe(t)'
  BY <1>1, <1>5 DEF TypeOK, Ending, collector
<1>6. ASSUME NEW s \in Spans, RecvError(s) PROVE Safe(t)'
  BY <1>1, <1>6 DEF TypeOK, RecvError, Early, collector
<1>7. ASSUME NEW s \in Spans, Finish(s) PROVE Safe(t)'
  BY <1>1, <1>7 DEF TypeOK, Finish, collector
\* A copy of what the span is now arrives, or a pointer to it is kept.
<1>8. ASSUME NEW s \in Spans, Submitted(s) PROVE Safe(t)'
  <2> DEFINE b == [size |-> 1, copy |-> Copy(s)]
  <2>1. b \in Batch /\ b.size > 0 /\ b.copy = Copy(s) /\ StoreCopies(s, b)
    BY <1>8, CopyType DEF Submitted
  <2>2. Copy(t)' = Copy(t) /\ UNCHANGED <<held, batch>>
    BY <1>8 DEF Submitted, Copy, Finishes
  <2> HIDE DEF b
  <2>3. CASE t = s
    BY <2>1, <2>2, <2>3, StoreCopiesType DEF Safe
  <2>4. CASE t # s
    <3>1. pc[t] = "done"
      BY <1>8, <2>4 DEF Submitted, AfterFinish, TypeOK
    <3> QED BY <2>1, <2>2, <2>4, <3>1, SafeStays, StoreCopiesType DEF Kept
  <2> QED BY <2>3, <2>4
<1>9. ASSUME NEW s \in Spans, SubmitFails(s) PROVE Safe(t)'
  <2>1. Copy(t)' = Copy(t) /\ UNCHANGED <<batch, stored>>
    BY <1>9 DEF SubmitFails, CallLost, Copy, Finishes
  <2>2. CASE t = s
    <3>1. held'[s] = held[s] + 1 /\ batch[s].size <= held[s]
           /\ batch[s].size \in Nat /\ held[s] \in Nat
      BY <1>9 DEF SubmitFails, TypeOK, Batch
    <3>2. held'[s] > batch'[s].size
      BY <2>1, <3>1
    <3> QED BY <2>2, <3>2 DEF Safe
  <2>3. CASE t # s
    <3>1. pc[t] = "done" /\ held'[t] = held[t]
      BY <1>9, <2>3 DEF SubmitFails, AfterFinish, TypeOK
    <3> QED BY <2>1, <3>1, SafeStays DEF Kept
  <2> QED BY <2>2, <2>3
\* A flush takes the span as it is now, which is its last state if it is done.
<1>10. ASSUME NEW s \in Spans, FlushBegin(s) PROVE Safe(t)'
  <2>1. Copy(t)' = Copy(t) /\ pc[t] = "done" /\ UNCHANGED <<held, stored>>
    BY <1>10 DEF FlushBegin, Copy, Finishes, collector
  <2>2. PICK n \in 1..held[s] : batch' = [batch EXCEPT ![s] = [size |-> n, copy |-> Copy(s)]]
    BY <1>10 DEF FlushBegin
  <2>3. CASE t = s
    <3>1. batch'[t] = [size |-> n, copy |-> Copy(t)]
      BY <2>2, <2>3 DEF TypeOK
    <3>2. batch'[t].size > 0 /\ batch'[t].copy = Copy(t)
      BY <2>2, <3>1 DEF TypeOK
    <3> QED BY <2>1, <3>2 DEF Safe
  <2>4. CASE t # s
    <3>1. batch'[t] = batch[t]
      BY <2>2, <2>4 DEF TypeOK
    <3> QED BY <2>1, <3>1, SafeStays DEF Kept
  <2> QED BY <2>3, <2>4
\* It removes what it has sent and leaves the rest.
<1>11. ASSUME NEW s \in Spans, FlushOk(s) PROVE Safe(t)'
  <2>1. Copy(t)' = Copy(t) /\ pc[t] = "done"
    BY <1>11 DEF FlushOk, Copy, Finishes
  <2>2. batch[s] \in Batch /\ batch[s].size > 0 /\ StoreCopies(s, batch[s])
    BY <1>11 DEF FlushOk, TypeOK
  <2>3. CASE t = s
    <3>1. Safe(s)
      BY <2>1, <2>3 DEF Kept
    <3>2. CASE held[s] > batch[s].size
      <4>1. held'[s] > 0 /\ batch'[s].size = 0
        BY <1>11, <2>2, <3>2 DEF FlushOk, TypeOK, Batch, NoBatch
      <4> QED BY <2>3, <4>1 DEF Safe
    <3>3. CASE ~ (held[s] > batch[s].size)
      <4>1. Copy(s) \in Range(stored'[s])
        BY <2>2, <3>1, <3>3, StoreCopiesType DEF Safe
      <4> QED BY <2>1, <2>3, <4>1 DEF Safe
    <3> QED BY <3>2, <3>3
  <2>4. CASE t # s
    <3>1. UNCHANGED <<held[t], batch[t]>>
      BY <1>11, <2>4 DEF FlushOk, TypeOK
    <3> QED BY <2>1, <2>2, <2>4, <3>1, SafeStays, StoreCopiesType DEF Kept
  <2> QED BY <2>3, <2>4
\* If the call fails every entry stays.
<1>12. ASSUME NEW s \in Spans, FlushFails(s) PROVE Safe(t)'
  <2>1. Copy(t)' = Copy(t) /\ pc[t] = "done" /\ UNCHANGED <<held, stored>>
    BY <1>12 DEF FlushFails, CallLost, Copy, Finishes
  <2>2. CASE t = s
    <3>1. batch[s].size \in Nat /\ batch[s].size > 0 /\ batch[s].size <= held[s] /\ held[s] \in Nat
      BY <1>12 DEF FlushFails, TypeOK, Batch
    <3>2. held'[s] > batch'[s].size
      BY <1>12, <2>1, <3>1 DEF FlushFails, TypeOK, NoBatch
    <3> QED BY <2>2, <3>2 DEF Safe
  <2>3. CASE t # s
    <3>1. batch'[t] = batch[t]
      BY <1>12, <2>3 DEF FlushFails, TypeOK
    <3> QED BY <2>1, <3>1, SafeStays DEF Kept
  <2> QED BY <2>2, <2>3
<1>13. ASSUME NEW s \in Spans, NEW b, Arrive(s, b) PROVE Safe(t)'
  <2>1. Copy(t)' = Copy(t) /\ pc[t] = "done" /\ UNCHANGED <<held, batch>>
    BY <1>13 DEF Arrive, Copy, Finishes
  <2>2. b \in Batch /\ StoreCopies(s, b)
    BY <1>13 DEF Arrive, TypeOK
  <2>3. \A v \in Range(stored[t]) : v \in Range(stored'[t])
    BY <2>2, StoreCopiesType
  <2> QED BY <2>1, <2>3, SafeStays DEF Kept
<1>14. CASE UNCHANGED vars
  BY <1>1, <1>14 DEF vars, collector
<1>15. CASE Next
  <2>1. PICK s \in Spans :
          \/ Request(s) \/ \E c \in Spans : StartLocal(s, c) \/ Call(s, c)
          \/ \E st : Ending(s, st)
          \/ RecvError(s) \/ Finish(s) \/ Submitted(s) \/ SubmitFails(s)
          \/ FlushBegin(s) \/ FlushOk(s) \/ FlushFails(s) \/ \E b : Arrive(s, b)
    BY <1>15 DEF Next, Reply, Deadline, CallFails, AfterCall, RecvEof, HandlerReturns
  <2> QED
    BY <2>1, <1>2, <1>3, <1>4, <1>5, <1>6, <1>7, <1>8, <1>9, <1>10, <1>11, <1>12, <1>13
<1> QED BY <1>14, <1>15

(* A finished span is in the trace as its owner has left it, or it is      *)
(* still in the buffer, however often it was submitted, buffered and       *)
(* flushed while it was changing, and whichever of the calls failed.       *)
THEOREM LastStateIsKept == Spec => []FinalIsKept
<1>1. TypeOK /\ Kept => FinalIsKept
  <2> SUFFICES ASSUME TypeOK, Kept, NEW s \in Spans, pc[s] = "done"
               PROVE  Copy(s) \in Range(stored[s]) \/ held[s] > 0
    BY DEF FinalIsKept
  <2>1. held[s] \in Nat /\ batch[s].size \in Nat /\ batch[s].size <= held[s]
    BY DEF TypeOK, Batch
  <2>2. Safe(s)
    BY DEF Kept
  <2> QED BY <2>1, <2>2 DEF Safe
<1> QED BY <1>1, TypeInit, TypeInductive, KeptInit, KeptInductive, PTL DEF Spec
-----------------------------------------------------------------------------
\* A span no call about which has failed was never buffered, and nothing about
\* it is on its way; what is submitted is its last version.
InOrder(s) ==
  failures[s] = 0 =>
    /\ held[s] = 0 /\ \A x \in strays : x[1] # s
    /\ pc[s] = "submit" => versions[s] # <<>> /\ Last(versions[s]) = Copy(s)
    /\ stored[s] = IF pc[s] = "submit" THEN Front(versions[s]) ELSE versions[s]

\* Appending one version and taking it off again.
LEMMA AppendFront ==
  ASSUME NEW t \in Seq(Version), NEW v \in Version
  PROVE  Append(t, v) # <<>> /\ Last(Append(t, v)) = v /\ Front(Append(t, v)) = t
<1>1. /\ Append(t, v) \in Seq(Version) /\ Len(Append(t, v)) = Len(t) + 1 /\ Len(t) \in Nat
      /\ Append(t, v)[Len(t) + 1] = v /\ \A i \in 1..Len(t) : Append(t, v)[i] = t[i]
  OBVIOUS
<1>2. /\ SubSeq(Append(t, v), 1, Len(t)) \in Seq(Version)
      /\ Len(SubSeq(Append(t, v), 1, Len(t))) = Len(t)
      /\ \A i \in 1..Len(t) : SubSeq(Append(t, v), 1, Len(t))[i] = t[i]
  BY <1>1, SubSeqProperties
<1>3. SubSeq(Append(t, v), 1, Len(t)) = t
  BY <1>2, SeqEqual
<1>4. QED
  BY <1>1, <1>3 DEF Front, Last

LEMMA FrontLast ==
  ASSUME NEW t \in Seq(Version), t # <<>>, NEW one, one = [i \in 1..1 |-> Last(t)]
  PROVE  Front(t) \o one = t
<1>1. Len(t) \in Nat \ {0} /\ Last(t) \in Version
  BY DEF Last
<1>2. /\ Front(t) \in Seq(Version) /\ Len(Front(t)) = Len(t) - 1
      /\ \A i \in 1..(Len(t) - 1) : Front(t)[i] = t[i]
  BY <1>1, SubSeqProperties DEF Front
<1>3. one \in Seq(Version) /\ Len(one) = 1 /\ one[1] = t[Len(t)]
  BY <1>1 DEF Last
<1>4. /\ Front(t) \o one \in Seq(Version) /\ Len(Front(t) \o one) = Len(t)
      /\ \A i \in 1..Len(t) : (Front(t) \o one)[i] = t[i]
  <2>1. /\ Front(t) \o one \in Seq(Version)
        /\ Len(Front(t) \o one) = Len(Front(t)) + Len(one)
        /\ \A i \in 1..(Len(Front(t)) + Len(one)) :
             (Front(t) \o one)[i] = IF i <= Len(Front(t)) THEN Front(t)[i]
                                    ELSE one[i - Len(Front(t))]
    BY <1>2, <1>3, ConcatProperties
  <2>2. QED
    BY <1>1, <1>2, <1>3, <2>1
<1>5. QED
  BY <1>4, SeqEqual

\* Nothing that InOrder looks at has changed, or a call about the span failed.
LEMMA InOrderStays ==
  ASSUME NEW t \in Spans, InOrder(t),
         pc'[t] = pc[t] \/ (pc[t] # "submit" /\ pc'[t] # "submit"),
         pc[t] = "submit" => status'[t] = status[t],
         UNCHANGED <<versions[t], stored[t], held[t], failures[t]>>,
         \A x \in strays' \ strays : x[1] # t
  PROVE  InOrder(t)'
<1>1. pc[t] = "submit" => Copy(t)' = Copy(t)
  BY DEF Copy, Finishes
<1>2. QED
  BY <1>1 DEF InOrder

LEMMA InOrderInductive ==
  ASSUME TypeOK, \A s \in Spans : InOrder(s), [Next]_vars, NEW t \in Spans
  PROVE  InOrder(t)'
<1>0. InOrder(t)
  OBVIOUS
\* No step but Finish and the submission touches a span that is submitted.
<1>1. ASSUME NEW s \in Spans, Request(s) PROVE InOrder(t)'
  BY <1>0, <1>1, InOrderStays DEF TypeOK, Request, Started, collector
<1>2. ASSUME NEW s \in Spans, NEW c \in Spans, StartLocal(s, c) PROVE InOrder(t)'
  BY <1>0, <1>2, InOrderStays DEF TypeOK, StartLocal, Started, collector
<1>3. ASSUME NEW s \in Spans, NEW c \in Spans, Call(s, c) PROVE InOrder(t)'
  BY <1>0, <1>3, InOrderStays DEF TypeOK, Call, Early, Started, collector
<1>4. ASSUME NEW s \in Spans, NEW st, pc[s] # "submit", Ending(s, st) PROVE InOrder(t)'
  BY <1>0, <1>4, InOrderStays DEF TypeOK, Ending, collector
<1>5. ASSUME NEW s \in Spans, RecvError(s) PROVE InOrder(t)'
  BY <1>0, <1>5, InOrderStays DEF TypeOK, RecvError, Early, owners, collector
<1>6. ASSUME NEW s \in Spans, Finish(s) PROVE InOrder(t)'
  <2>1. CASE t # s
    BY <1>0, <1>6, <2>1, InOrderStays DEF TypeOK, Finish, collector
  <2>2. CASE t = s
    <3>1. /\ versions[s] \in Seq(Version) /\ NextVersion(s) \in Version
          /\ versions'[s] = Append(versions[s], NextVersion(s))
          /\ pc[s] = "finish" /\ pc'[s] = "submit"
          /\ UNCHANGED <<stored, strays, held, failures, status>>
      BY <1>6, CopyType DEF TypeOK, Finish, collector
    <3>2. Len(versions'[s]) = Len(versions[s]) + 1
      BY <3>1
    <3>3. Copy(s)' = NextVersion(s)
      BY <3>1, <3>2 DEF Copy, NextVersion, Finishes
    <3>4. /\ versions'[s] # <<>> /\ Last(versions'[s]) = NextVersion(s)
          /\ Front(versions'[s]) = versions[s]
      BY <3>1, AppendFront
    <3>5. QED
      BY <1>0, <2>2, <3>1, <3>3, <3>4 DEF InOrder
  <2>3. QED
    BY <2>1, <2>2
<1>7. ASSUME NEW s \in Spans, Submitted(s) PROVE InOrder(t)'
  <2> DEFINE b == [size |-> 1, copy |-> Copy(s)]
  <2>1. b \in Batch /\ StoreCopies(s, b)
    BY <1>7, CopyType DEF Submitted
  <2>2. /\ pc[s] = "submit" /\ pc'[s] # "submit" /\ \A u \in Spans \ {s} : pc'[u] = pc[u]
        /\ UNCHANGED <<status, versions, held, strays, failures>>
    BY <1>7 DEF Submitted, AfterFinish, TypeOK
  <2>3. CASE t # s
    <3>1. stored'[t] = stored[t]
      BY <2>1, <2>3, StoreCopiesType
    <3>2. QED
      BY <1>0, <2>2, <2>3, <3>1, InOrderStays
  <2>4. CASE t = s
    <3>1. stored'[s] = stored[s] \o [i \in 1..1 |-> Copy(s)]
      BY <2>1 DEF StoreCopies, TypeOK
    <3>2. versions[s] \in Seq(Version)
      BY DEF TypeOK
    <3>3. ASSUME failures[s] = 0 PROVE stored'[s] = versions[s]
      <4>1. /\ versions[s] # <<>> /\ Last(versions[s]) = Copy(s)
            /\ stored[s] = Front(versions[s])
        BY <1>0, <2>2, <2>4, <3>3 DEF InOrder
      <4>2. QED
        BY <3>1, <3>2, <4>1, FrontLast
    <3>4. QED
      BY <1>0, <2>2, <2>4, <3>3 DEF InOrder
  <2>5. QED
    BY <2>3, <2>4
\* After a failed call nothing is said about the span.
<1>8. ASSUME NEW s \in Spans, NEW b \in Batch, b.size > 0, CallLost(s, b)
      PROVE  /\ failures'[s] # 0 /\ \A u \in Spans \ {s} : failures'[u] = failures[u]
             /\ \A x \in strays' \ strays : x[1] = s
             /\ stored' = stored
  BY <1>8 DEF CallLost, TypeOK, Batch
<1>9. ASSUME NEW s \in Spans, SubmitFails(s) PROVE InOrder(t)'
  <2> DEFINE b == [size |-> 1, copy |-> Copy(s)]
  <2>1. b \in Batch /\ b.size > 0 /\ CallLost(s, b)
    BY <1>9, CopyType DEF SubmitFails
  <2> HIDE DEF b
  <2>2. CASE t = s
    BY <1>8, <2>1, <2>2 DEF InOrder
  <2>3. CASE t # s
    BY <1>0, <1>8, <1>9, <2>1, <2>3, InOrderStays DEF SubmitFails, AfterFinish, TypeOK
  <2>4. QED
    BY <2>2, <2>3
<1>10. ASSUME NEW s \in Spans, FlushFails(s) PROVE InOrder(t)'
  <2>1. batch[s] \in Batch /\ batch[s].size > 0 /\ CallLost(s, batch[s])
    BY <1>10 DEF FlushFails, TypeOK
  <2>2. CASE t = s
    BY <1>8, <2>1, <2>2 DEF InOrder
  <2>3. CASE t # s
    BY <1>0, <1>8, <1>10, <2>1, <2>3, InOrderStays DEF FlushFails
  <2>4. QED
    BY <2>2, <2>3
<1>11. ASSUME NEW s \in Spans, FlushBegin(s) PROVE InOrder(t)'
  BY <1>0, <1>11, InOrderStays DEF FlushBegin, collector
\* Only spans that were buffered are flushed, or arrive late.
<1>12. ASSUME NEW s \in Spans, FlushOk(s) PROVE InOrder(t)'
  <2>1. /\ batch[s] \in Batch /\ batch[s].size > 0 /\ StoreCopies(s, batch[s])
        /\ batch[s].size <= held[s] /\ batch[s].size \in Nat
        /\ UNCHANGED <<pc, status, versions, strays, failures>>
        /\ \A u \in Spans \ {s} : held'[u] = held[u]
    BY <1>12 DEF FlushOk, TypeOK, Batch
  <2>2. CASE t = s
    BY <1>0, <2>1, <2>2 DEF InOrder
  <2>3. CASE t # s
    BY <1>0, <2>1, <2>3, InOrderStays, StoreCopiesType
  <2>4. QED
    BY <2>2, <2>3
<1>13. ASSUME NEW s \in Spans, NEW b, Arrive(s, b) PROVE InOrder(t)'
  <2>1. /\ <<s, b>> \in strays /\ b \in Batch /\ StoreCopies(s, b) /\ strays' \subseteq strays
        /\ UNCHANGED <<pc, status, versions, held, failures>>
    BY <1>13 DEF Arrive, TypeOK
  <2>2. CASE t = s
    BY <1>0, <2>1, <2>2 DEF InOrder
  <2>3. CASE t # s
    BY <1>0, <2>1, <2>3, InOrderStays, StoreCopiesType
  <2>4. QED
    BY <2>2, <2>3
<1>14. CASE UNCHANGED vars
  BY <1>0, <1>14, InOrderStays DEF vars, collector
<1>15. CASE Next
  <2>1. PICK s \in Spans :
          \/ Request(s) \/ \E c \in Spans : StartLocal(s, c) \/ Call(s, c)
          \/ \E st : pc[s] # "submit" /\ Ending(s, st)
          \/ RecvError(s) \/ Finish(s) \/ Submitted(s) \/ SubmitFails(s)
          \/ FlushBegin(s) \/ FlushOk(s) \/ FlushFails(s) \/ \E b : Arrive(s, b)
    BY <1>15 DEF Next, Reply, Deadline, CallFails, AfterCall, RecvEof, HandlerReturns, Early
  <2>2. QED
    BY <2>1, <1>1, <1>2, <1>3, <1>4, <1>5, <1>6, <1>7, <1>9, <1>10, <1>11, <1>12, <1>13
<1>16. QED
  BY <1>14, <1>15

(* As long as no call about a span has failed, its copies are in the trace *)
(* in the order of its Finish calls (tracer.go:188-193, 430-439), however  *)
(* many spans are finished, buffered and flushed around it.                *)
THEOREM CopiesArriveInOrder == Spec => []InOrderWithoutFailures
<1> DEFINE AllInOrder == \A s \in Spans : InOrder(s)
<1>1. Init => AllInOrder
  BY DEF Init, InOrder
<1>2. TypeOK /\ AllInOrder /\ [Next]_vars => AllInOrder'
  BY InOrderInductive
<1>3. AllInOrder => InOrderWithoutFailures
  BY DEF InOrder, InOrderWithoutFailures
<1>4. QED
  BY <1>1, <1>2, <1>3, TypeCorrect, PTL DEF Spec
-----------------------------------------------------------------------------
\* What has not ended, and was not given up, keeps its caller from ending: a
\* part of its work, or the call that it waits for.
Awaited ==
  \A c \in Spans \ abandoned : caller[c] # NoSpan /\ pc[c] # "done" =>
    IF kind[c] = "local" THEN caller[c] \notin last ELSE callee[caller[c]] = c

\* An owner that has come to its own Finish does nothing else.
LastIsLast ==
  \A s \in Spans : /\ pc[s] = "done" => s \in last
                   /\ s \in last => pc[s] \in {"finish", "submit", "done"}

LEMMA LastInductive == TypeOK /\ LastIsLast /\ [Next]_vars => LastIsLast'
<1> SUFFICES ASSUME TypeOK, LastIsLast, [Next]_vars PROVE LastIsLast'
  OBVIOUS
<1> USE DEF LastIsLast, TypeOK
<1>1. ASSUME NEW c \in Spans, NEW k, NEW s, Started(c, k, s, pc) PROVE LastIsLast'
  BY <1>1 DEF Started
<1>2. ASSUME NEW s \in Spans, NEW c \in Spans, Call(s, c) PROVE LastIsLast'
  BY <1>2 DEF Call, Early, Started
<1>3. ASSUME NEW s \in Spans, NEW st, Ending(s, st), pc[s] \in {"handler", "waiting"},
             last' \in {last, last \cup {s}}
      PROVE  LastIsLast'
  BY <1>3 DEF Ending
<1>4. ASSUME NEW s \in Spans, Finish(s) PROVE LastIsLast'
  BY <1>4 DEF Finish, owners
<1>5. ASSUME NEW s \in Spans, pc[s] = "submit", AfterFinish(s), last' = last PROVE LastIsLast'
  BY <1>5 DEF AfterFinish
<1>6. CASE UNCHANGED <<pc, last>>
  BY <1>6
<1>7. \/ \E c \in Spans : \E k, s : Started(c, k, s, pc)
      \/ \E s, c \in Spans : Call(s, c)
      \/ \E s \in Spans : \E st : /\ Ending(s, st) /\ pc[s] \in {"handler", "waiting"}
                                  /\ last' \in {last, last \cup {s}}
      \/ \E s \in Spans : Finish(s) \/ (pc[s] = "submit" /\ AfterFinish(s) /\ last' = last)
      \/ UNCHANGED <<pc, last>>
  BY DEF Next, Request, StartLocal, Reply, Deadline, CallFails, AfterCall, RecvEof, RecvError,
         HandlerReturns, Early, Submitted, SubmitFails, FlushBegin, FlushOk, FlushFails, Arrive,
         vars, owners
<1>8. QED
  BY <1>1, <1>2, <1>3, <1>4, <1>5, <1>6, <1>7

\* A step that starts no span and leaves calls and ends alone.
LEMMA AwaitedStays ==
  ASSUME Awaited, UNCHANGED <<kind, caller, last, callee>>, abandoned \subseteq abandoned',
         \A d \in Spans : pc[d] = "done" => pc'[d] = "done"
  PROVE  Awaited'
BY DEF Awaited

LEMMA AwaitedInductive == TypeOK /\ LastIsLast /\ Awaited /\ [Next]_vars => Awaited'
<1> SUFFICES ASSUME TypeOK, LastIsLast, Awaited, [Next]_vars PROVE Awaited'
  OBVIOUS
<1>1. ASSUME NEW c \in Spans, Request(c) PROVE Awaited'
  BY <1>1 DEF Request, Started, Awaited, TypeOK
<1>2. ASSUME NEW s \in Spans, NEW c \in Spans, StartLocal(s, c) PROVE Awaited'
  <2>1. s \notin last
    BY <1>2 DEF StartLocal, LastIsLast
  <2>2. QED
    BY <1>2, <2>1 DEF StartLocal, Started, Awaited, TypeOK
<1>3. ASSUME NEW s \in Spans, NEW c \in Spans, Call(s, c) PROVE Awaited'
  <2>1. /\ callee[s] = NoSpan /\ pc[s] = "handler" /\ pc[c] = "none"
        /\ kind' = [kind EXCEPT ![c] = "server"] /\ caller' = [caller EXCEPT ![c] = s]
        /\ callee' = [callee EXCEPT ![s] = c] /\ last' = last /\ abandoned' = abandoned
    BY <1>3 DEF Call, Early, Started, TypeOK
  <2>2. \A d \in Spans \ {c} : pc[d] = "done" => pc'[d] = "done"
    BY <1>3, <2>1 DEF Call, Started, TypeOK
  <2>3. ASSUME NEW d \in Spans \ abandoned, caller'[d] # NoSpan, pc'[d] # "done"
        PROVE  IF kind'[d] = "local" THEN caller'[d] \notin last ELSE callee'[caller'[d]] = d
    <3>1. CASE d = c
      BY <2>1, <3>1 DEF TypeOK
    <3>2. CASE d # c
      <4>1. kind'[d] = kind[d] /\ caller'[d] = caller[d] /\ caller[d] \in Spans /\ pc[d] # "done"
        BY <2>1, <2>2, <2>3, <3>2 DEF TypeOK
      <4>2. IF kind[d] = "local" THEN caller[d] \notin last ELSE callee[caller[d]] = d
        BY <2>3, <4>1 DEF Awaited
      <4>3. kind[d] = "local" \/ caller[d] # s
        BY <2>1, <4>2, NoSpanAssumption
      <4>4. QED
        BY <2>1, <4>1, <4>2, <4>3 DEF TypeOK
    <3>3. QED
      BY <3>1, <3>2
  <2>4. QED
    BY <2>1, <2>3 DEF Awaited
\* The end of a call, or of waiting for it.
<1>4. ASSUME NEW s \in Spans, NEW st, Ending(s, st), pc[s] \in {"handler", "waiting"}
      PROVE  /\ UNCHANGED <<kind, caller>>
             /\ \A d \in Spans : pc[d] = "done" => pc'[d] = "done"
  BY <1>4 DEF Ending, TypeOK
<1>5. ASSUME NEW s \in Spans, NEW isError, AfterCall(s, isError),
             pc[s] \in {"handler", "waiting"}, abandoned \subseteq abandoned',
             callee[s] \in abandoned' \cup {NoSpan} \/ pc[callee[s]] = "done"
      PROVE  Awaited'
  <2>1. /\ UNCHANGED <<kind, caller, last>> /\ callee' = [callee EXCEPT ![s] = NoSpan]
        /\ \A d \in Spans : pc[d] = "done" => pc'[d] = "done"
    BY <1>4, <1>5 DEF AfterCall
  <2>2. ASSUME NEW d \in Spans \ abandoned', caller[d] # NoSpan, pc'[d] # "done",
               kind[d] # "local"
        PROVE  callee'[caller[d]] = d
    <3>1. callee[caller[d]] = d /\ pc[d] # "done" /\ caller[d] \in Spans /\ d # NoSpan
      BY <1>5, <2>1, <2>2, NoSpanAssumption DEF Awaited, TypeOK
    <3>2. caller[d] # s
      BY <1>5, <2>2, <3>1
    <3>3. QED
      BY <2>1, <3>1, <3>2 DEF TypeOK
  <2>3. ASSUME NEW d \in Spans \ abandoned', caller[d] # NoSpan, pc'[d] # "done",
               kind[d] = "local"
        PROVE  caller[d] \notin last
    BY <1>5, <2>1, <2>3 DEF Awaited
  <2>4. QED
    BY <2>1, <2>2, <2>3 DEF Awaited
<1>6. ASSUME NEW s \in Spans, Reply(s) \/ Deadline(s) \/ CallFails(s) PROVE Awaited'
  BY <1>5, <1>6 DEF Reply, Deadline, CallFails, Early, TypeOK
\* An owner ends when the parts of its work have, and is not waiting then.
<1>7. ASSUME NEW s \in Spans, NEW isError, HandlerReturns(s, isError) PROVE Awaited'
  <2>1. /\ UNCHANGED <<kind, caller, callee, abandoned>> /\ last' = last \cup {s}
        /\ \A d \in Spans : pc[d] = "done" => pc'[d] = "done"
        /\ \A d \in Spans : caller[d] = s /\ kind[d] = "local" => pc[d] = "done"
    BY <1>4, <1>7 DEF HandlerReturns
  <2>2. QED
    BY <2>1 DEF Awaited
<1>8. ASSUME NEW s \in Spans, RecvEof(s) PROVE Awaited'
  BY <1>4, <1>8, AwaitedStays DEF RecvEof, Early
<1>9. ASSUME UNCHANGED owners, \A d \in Spans : pc[d] = "done" => pc'[d] = "done" PROVE Awaited'
  BY <1>9, AwaitedStays DEF owners
<1>10. ASSUME NEW s \in Spans, pc[s] = "submit" \/ pc[s] = "finish", UNCHANGED owners,
              \E x : pc' = [pc EXCEPT ![s] = x]
       PROVE  Awaited'
  BY <1>9, <1>10 DEF TypeOK
<1>11. ASSUME NEW s \in Spans, Finish(s) \/ Submitted(s) \/ SubmitFails(s) PROVE Awaited'
  BY <1>10, <1>11 DEF Finish, Submitted, SubmitFails, AfterFinish
<1>12. CASE UNCHANGED <<owners, pc>>
  BY <1>9, <1>12
<1>13. \/ \E s \in Spans :
            \/ Request(s) \/ \E c \in Spans : StartLocal(s, c) \/ Call(s, c)
            \/ Reply(s) \/ Deadline(s) \/ CallFails(s) \/ RecvEof(s)
            \/ \E isError : HandlerReturns(s, isError)
            \/ Finish(s) \/ Submitted(s) \/ SubmitFails(s)
       \/ UNCHANGED <<owners, pc>>
  BY DEF Next, RecvError, FlushBegin, FlushOk, FlushFails, Arrive, vars
<1>14. QED
  BY <1>1, <1>2, <1>3, <1>6, <1>7, <1>8, <1>11, <1>12, <1>13

(* A span ends for the last time after everything that was done for it on  *)
(* any service and not given up (interceptor.go:27-111): for trees of      *)
(* calls and local work of any size and depth.                             *)
THEOREM CallersEndLast == Spec => []ChildrenEndFirst
<1>1. Init => LastIsLast /\ Awaited
  BY DEF Init, LastIsLast, Awaited
<1>2. TypeOK /\ LastIsLast /\ Awaited => ChildrenEndFirst
  <2> SUFFICES ASSUME TypeOK, LastIsLast, Awaited, NEW c \in Spans \ abandoned,
                      caller[c] # NoSpan, pc[caller[c]] = "done", pc[c] # "done"
               PROVE  FALSE
    BY DEF ChildrenEndFirst
  <2>1. caller[c] \in Spans /\ caller[c] \in last /\ callee[caller[c]] = NoSpan
    BY DEF TypeOK, LastIsLast
  <2>2. QED
    BY <2>1, NoSpanAssumption DEF Awaited
<1>3. QED
  BY <1>1, <1>2, TypeCorrect, LastInductive, AwaitedInductive, PTL DEF Spec
=============================================================================
