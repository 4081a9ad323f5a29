---------------------------- MODULE TracerProofs ----------------------------
(***************************************************************************)
(* Proofs about the tracer and its two parts, for any number of            *)
(* goroutines, any buffer of at least one span, and any breaker with a     *)
(* threshold and half-open slots of at least one: first the circuit        *)
(* breaker, then the span buffer, then the tracer around them.             *)
(***************************************************************************)
EXTENDS Tracer, FiniteSetTheorems, SequenceTheorems, WellFoundedInduction, TLAPS

USE DEF Phases, States, cb, counts, breaker

(* The breaker's fields and the callers' phases keep their types; in       *)
(* particular the half-open counters stay within the slot limit, although  *)
(* calls admitted while Closed also count as half-open successes.          *)
BreakerTypes == BreakerTypeOK /\ (state = "HalfOpen" => halfOpenSuccessCount < HalfOpenMaxCalls)

LEMMA BreakerTypesInit == BreakerInit => BreakerTypes
  BY ThresholdAssumption, MaxCallsAssumption DEF BreakerInit, BreakerTypes, BreakerTypeOK

LEMMA BreakerTypesStep == BreakerTypes /\ [BreakerNext]_breaker => BreakerTypes'
<1> SUFFICES ASSUME BreakerTypes, [BreakerNext]_breaker PROVE BreakerTypes'
  OBVIOUS
<1> USE ThresholdAssumption, MaxCallsAssumption DEF BreakerTypes, BreakerTypeOK
<1>1. CASE UNCHANGED breaker
  BY <1>1
<1>2. ASSUME NEW c \in Callers, ReadState(c) PROVE BreakerTypes'
  BY <1>2 DEF ReadState, Goto, Seen
<1>3. ASSUME NEW c \in Callers, HalfOpenNow(c) PROVE BreakerTypes'
  BY <1>3 DEF HalfOpenNow, Goto
<1>4. ASSUME NEW c \in Callers, RejectOpen(c) \/ RejectHalfOpen(c) PROVE BreakerTypes'
  BY <1>4 DEF RejectOpen, RejectHalfOpen, Goto
<1>5. ASSUME NEW c \in Callers, TakeSlot(c) PROVE BreakerTypes'
  BY <1>5 DEF TakeSlot, Goto
<1>6. ASSUME NEW c \in Callers, Succeed(c) PROVE BreakerTypes'
  <2>1. pc' \in [Callers -> Phases]
    BY <1>6 DEF Succeed, Return
  <2>2. QED
    BY <1>6, <2>1 DEF Succeed, recordSuccess
<1>7. ASSUME NEW c \in Callers, Fail(c) PROVE BreakerTypes'
  <2>1. pc' \in [Callers -> Phases]
    BY <1>7 DEF Fail, Return
  <2>2. CASE state = "Closed"
    <3>1. /\ failureCount' = failureCount + 1
          /\ state' \in {"Open", "Closed"}
          /\ elapsed' \in BOOLEAN
      BY <1>7, <2>2 DEF Fail, recordFailure, Trip
    <3>2. QED
      BY <1>7, <2>1, <3>1 DEF Fail, recordFailure
  <2>3. CASE state # "Closed"
    <3>1. state' \in {"Open"} /\ elapsed' \in BOOLEAN /\ failureCount' = failureCount
      BY <1>7, <2>3 DEF Fail, recordFailure, Trip
    <3>2. QED
      BY <1>7, <2>1, <3>1 DEF Fail, recordFailure
  <2>4. QED
    BY <2>2, <2>3
<1>8. CASE TimeoutElapses
  BY <1>8 DEF TimeoutElapses
<1>9. QED
  BY <1>1, <1>2, <1>3, <1>4, <1>5, <1>6, <1>7, <1>8
     DEF BreakerNext, InExecute, CheckTimeout, Admit

(* Type correctness (lines 227-237 and the phases of Execute). *)
THEOREM BreakerTypeCorrect == BreakerSpec => []BreakerTypeOK
<1>1. BreakerTypes => BreakerTypeOK
  BY DEF BreakerTypes
<1>2. QED
  BY <1>1, BreakerTypesInit, BreakerTypesStep, PTL DEF BreakerSpec
-----------------------------------------------------------------------------
(* How a step of one caller changes the set of trial calls in flight. *)
LEMMA TrialsFinite == IsFiniteSet(Trials) /\ Cardinality(Trials) \in Nat
<1>1. IsFiniteSet(Trials)
  BY CallersFinite, FS_Subset DEF Trials
<1>2. QED
  BY <1>1, FS_CardinalityType

LEMMA TrialsNonEmpty == Cardinality(Trials) > 0 => Trials # {}
  BY FS_EmptySet

LEMMA SlotsStep ==
  BreakerTypes /\ BreakerTypes' /\ SlotsAccounted /\ [BreakerNext]_breaker => SlotsAccounted'
<1> SUFFICES ASSUME BreakerTypes, BreakerTypes', SlotsAccounted, [BreakerNext]_breaker,
                    state' = "HalfOpen"
             PROVE  /\ halfOpenSuccessCount' < HalfOpenMaxCalls
                    /\ halfOpenCallCount' <= halfOpenSuccessCount' + Cardinality(Trials')
  BY DEF SlotsAccounted
<1>1. halfOpenSuccessCount' < HalfOpenMaxCalls
  BY DEF BreakerTypes
<1>a. Cardinality(Trials) \in Nat /\ IsFiniteSet(Trials)
  BY TrialsFinite
<1>b. IsFiniteSet(Trials') /\ Cardinality(Trials') \in Nat
  <2>1. IsFiniteSet(Trials')
    BY CallersFinite, FS_Subset DEF Trials
  <2>2. QED
    BY <2>1, FS_CardinalityType
<1>c. /\ halfOpenCallCount \in Nat /\ halfOpenSuccessCount \in Nat
      /\ halfOpenCallCount' \in Nat /\ halfOpenSuccessCount' \in Nat
  BY ThresholdAssumption, MaxCallsAssumption DEF BreakerTypes, BreakerTypeOK
<1> DEFINE Bound == halfOpenCallCount' <= halfOpenSuccessCount' + Cardinality(Trials')
<1>2. Bound
  <2>1. CASE UNCHANGED breaker
    BY <2>1, <1>a DEF SlotsAccounted, Trials
  <2>2. ASSUME NEW c \in Callers, ReadState(c) PROVE Bound
    <3>1. pc[c] # "trial" /\ pc'[c] # "trial" /\ \A d \in Callers \ {c} : pc'[d] = pc[d]
      BY <2>2 DEF ReadState, Goto, Seen, BreakerTypes, BreakerTypeOK
    <3>2. Trials' = Trials /\ UNCHANGED cb
      BY <2>2, <3>1 DEF ReadState, Trials
    <3>3. QED
      BY <3>2, <1>a, <1>c DEF SlotsAccounted
  <2>3. ASSUME NEW c \in Callers, HalfOpenNow(c) PROVE Bound
    BY <2>3, <1>b DEF HalfOpenNow
  <2>4. ASSUME NEW c \in Callers, RejectOpen(c) \/ RejectHalfOpen(c) PROVE Bound
    <3>1. Trials' = Trials /\ UNCHANGED cb
      BY <2>4 DEF RejectOpen, RejectHalfOpen, Goto, Trials, BreakerTypes, BreakerTypeOK
    <3>2. QED
      BY <3>1, <1>a, <1>c DEF SlotsAccounted
  <2>5. ASSUME NEW c \in Callers, TakeSlot(c) PROVE Bound
    <3>1. c \notin Trials /\ Trials' = Trials \cup {c}
      BY <2>5 DEF TakeSlot, Goto, Trials, BreakerTypes, BreakerTypeOK
    <3>2. Cardinality(Trials') = Cardinality(Trials) + 1
      BY <3>1, <1>a, FS_AddElement
    <3>3. QED
      BY <2>5, <3>2, <1>a, <1>c DEF TakeSlot, SlotsAccounted
  <2>6. ASSUME NEW c \in Callers, Succeed(c) PROVE Bound
    <3>1. state = "HalfOpen"
      BY <2>6 DEF Succeed, recordSuccess
    <3>2. /\ halfOpenSuccessCount' = halfOpenSuccessCount + 1
          /\ halfOpenCallCount' = halfOpenCallCount
      BY <2>6, <3>1 DEF Succeed, recordSuccess
    <3>3. Trials' = Trials \ {c}
      BY <2>6 DEF Succeed, Return, Trials, BreakerTypes, BreakerTypeOK
    <3>4. Cardinality(Trials') >= Cardinality(Trials) - 1
      <4>1. Cardinality(Trials \ {c}) = IF c \in Trials THEN Cardinality(Trials) - 1
                                                        ELSE Cardinality(Trials)
        BY <1>a, FS_RemoveElement
      <4>2. CASE c \in Trials
        BY <4>1, <4>2, <3>3, <1>a, <1>b
      <4>3. CASE c \notin Trials
        BY <4>1, <4>3, <3>3, <1>a, <1>b
      <4>4. QED
        BY <4>2, <4>3
    <3>5. QED
      BY <3>1, <3>2, <3>4, <1>a, <1>b, <1>c DEF SlotsAccounted
  <2>7. ASSUME NEW c \in Callers, Fail(c) PROVE Bound
    <3>1. state' # "HalfOpen"
      BY <2>7 DEF Fail, recordFailure, Trip, BreakerTypes, BreakerTypeOK
    <3>2. QED
      BY <3>1
  <2>8. CASE TimeoutElapses
    BY <2>8, <1>a DEF TimeoutElapses, SlotsAccounted, Trials
  <2>9. QED
    BY <2>1, <2>2, <2>3, <2>4, <2>5, <2>6, <2>7, <2>8
       DEF BreakerNext, InExecute, CheckTimeout, Admit
<1>3. QED
  BY <1>1, <1>2

LEMMA SlotsInit == BreakerInit => SlotsAccounted
  BY DEF BreakerInit, SlotsAccounted

LEMMA SlotsUse == BreakerTypes /\ SlotsAccounted => NotWedged
<1> SUFFICES ASSUME BreakerTypes, SlotsAccounted, Saturated PROVE Trials # {}
  BY DEF NotWedged
<1>1. Cardinality(Trials) > 0
  BY TrialsFinite, ThresholdAssumption, MaxCallsAssumption
     DEF SlotsAccounted, Saturated, BreakerTypes, BreakerTypeOK
<1>2. QED
  BY <1>1, TrialsNonEmpty

(* Every half-open slot handed out is answered or still held. *)
THEOREM SlotsCorrect == BreakerSpec => []SlotsAccounted
  BY SlotsInit, BreakerTypesInit, BreakerTypesStep, SlotsStep, PTL DEF BreakerSpec

(* A saturated half-open breaker always has a trial call in flight whose   *)
(* result will decide: Execute cannot wedge itself by leaking slots.       *)
THEOREM NeverWedged == BreakerSpec => []NotWedged
  BY SlotsInit, SlotsUse, BreakerTypesInit, BreakerTypesStep, SlotsStep, PTL DEF BreakerSpec
-----------------------------------------------------------------------------
LEMMA ThresholdInit == BreakerInit => ClosedBelowThreshold
  BY ThresholdAssumption, MaxCallsAssumption DEF BreakerInit, ClosedBelowThreshold

LEMMA ThresholdStep ==
  BreakerTypes /\ ClosedBelowThreshold /\ [BreakerNext]_breaker => ClosedBelowThreshold'
<1> SUFFICES ASSUME BreakerTypes, ClosedBelowThreshold, [BreakerNext]_breaker, state' = "Closed"
             PROVE  failureCount' < Threshold
  BY DEF ClosedBelowThreshold
<1> USE ThresholdAssumption, MaxCallsAssumption DEF ClosedBelowThreshold, BreakerTypes, BreakerTypeOK
<1>1. ASSUME NEW c \in Callers, Succeed(c) PROVE failureCount' < Threshold
  BY <1>1 DEF Succeed, recordSuccess
<1>2. ASSUME NEW c \in Callers, Fail(c) PROVE failureCount' < Threshold
  BY <1>2 DEF Fail, recordFailure, Trip
<1>3. CASE UNCHANGED <<state, failureCount>>
  BY <1>3
<1>4. QED
  BY <1>1, <1>2, <1>3 DEF BreakerNext, InExecute, CheckTimeout, Admit, ReadState,
     HalfOpenNow, RejectOpen, TakeSlot, RejectHalfOpen, TimeoutElapses

(* Closed with a failure count at the threshold is unreachable: the count  *)
(* is reset on every way into Closed, whatever it was while HalfOpen.      *)
THEOREM ThresholdRespected == BreakerSpec => []ClosedBelowThreshold
  BY ThresholdInit, BreakerTypesInit, BreakerTypesStep, ThresholdStep, PTL DEF BreakerSpec

LEMMA ContractInit == BreakerInit => Contract!Init
  BY DEF BreakerInit, Contract!Init

LEMMA ContractStep ==
  BreakerTypes /\ [BreakerNext]_breaker => [Contract!Next]_(Contract!vars)
<1> SUFFICES ASSUME BreakerTypes, [BreakerNext]_breaker
             PROVE  Contract!Next \/ UNCHANGED <<state, elapsed>>
  BY DEF Contract!vars
<1>1. ASSUME NEW c \in Callers, HalfOpenNow(c) PROVE Contract!Probe
  BY <1>1 DEF HalfOpenNow, Contract!Probe
<1>2. ASSUME NEW c \in Callers, Succeed(c)
      PROVE  Contract!Close \/ UNCHANGED <<state, elapsed>>
  BY <1>2 DEF Succeed, recordSuccess, Contract!Close
<1>3. ASSUME NEW c \in Callers, Fail(c)
      PROVE  Contract!Trip \/ UNCHANGED <<state, elapsed>>
  BY <1>3 DEF Fail, recordFailure, Trip, Contract!Trip
<1>4. CASE TimeoutElapses
  BY <1>4 DEF TimeoutElapses, Contract!Next, Contract!Tick
<1>5. CASE UNCHANGED <<state, elapsed>>
  BY <1>5
<1>6. QED
  BY <1>1, <1>2, <1>3, <1>4, <1>5 DEF BreakerNext, InExecute, CheckTimeout, Admit,
     ReadState, RejectOpen, TakeSlot, RejectHalfOpen, Contract!Next

(* The breaker with its callers, slots and counters implements the         *)
(* contract: every step probes after the timeout, trips, closes, lets time *)
(* pass, or changes nothing the contract sees.                             *)
THEOREM BreakerKeepsContract == BreakerSpec => ContractKept
  BY ContractInit, ContractStep, BreakerTypesInit, BreakerTypesStep, PTL
     DEF BreakerSpec, ContractKept, Contract!Spec
-----------------------------------------------------------------------------
\* IsPrefix, element by element.
Starts(s, t) == Len(s) <= Len(t) /\ \A i \in 1..Len(s) : s[i] = t[i]

Distinct(t) == \A i, j \in 1..Len(t) : t[i] = t[j] => i = j

\* Everything in rest comes from t and has not moved away from the front.
LeftOf(t, rest) ==
  /\ rest \in Seq(Spans) /\ Len(rest) <= Len(t)
  /\ \A i \in 1..Len(rest) : \E j \in i..Len(t) : rest[i] = t[j]
  /\ Distinct(t) => Distinct(rest)

LEMMA ToSetOfSeq ==
  ASSUME NEW t \in Seq(Spans), NEW x
  PROVE  x \in ToSet(t) <=> \E i \in 1..Len(t) : x = t[i]
  BY DEF ToSet

LEMMA StartsIsPrefix ==
  ASSUME NEW s \in Seq(Spans), NEW t \in Seq(Spans), Starts(s, t)
  PROVE  IsPrefix(s, t)
<1>1. /\ SubSeq(s, 1, Len(s)) \in Seq(Spans)
      /\ SubSeq(t, 1, Len(s)) \in Seq(Spans)
      /\ Len(SubSeq(s, 1, Len(s))) = Len(s)
      /\ Len(SubSeq(t, 1, Len(s))) = Len(s)
      /\ \A i \in 1..Len(s) : SubSeq(s, 1, Len(s))[i] = s[i]
      /\ \A i \in 1..Len(s) : SubSeq(t, 1, Len(s))[i] = t[i]
  BY DEF Starts
<1>2. SubSeq(s, 1, Len(s)) = SubSeq(t, 1, Len(s))
  BY <1>1, SeqEqual DEF Starts
<1>3. QED
  BY <1>2 DEF IsPrefix, Starts

LEMMA AppendElements ==
  ASSUME NEW t \in Seq(Spans), NEW s \in Spans
  PROVE  /\ Append(t, s) \in Seq(Spans)
         /\ Len(Append(t, s)) = Len(t) + 1
         /\ Append(t, s)[Len(t) + 1] = s
         /\ \A i \in 1..Len(t) : Append(t, s)[i] = t[i]
         /\ ToSet(Append(t, s)) = ToSet(t) \cup {s}
<1>1. /\ Append(t, s) \in Seq(Spans) /\ Len(Append(t, s)) = Len(t) + 1
      /\ \A i \in 1..Len(t) : Append(t, s)[i] = t[i]
      /\ Append(t, s)[Len(t) + 1] = s
  OBVIOUS
<1>2. DOMAIN Append(t, s) = 1..(Len(t) + 1) /\ DOMAIN t = 1..Len(t)
  BY <1>1
<1>3. ToSet(Append(t, s)) = ToSet(t) \cup {s}
  BY <1>1, <1>2 DEF ToSet
<1>4. QED
  BY <1>1, <1>3

LEMMA TailElements ==
  ASSUME NEW t \in Seq(Spans), t # <<>>
  PROVE  /\ LeftOf(t, Tail(t)) /\ Len(Tail(t)) = Len(t) - 1
         /\ ToSet(t) = ToSet(Tail(t)) \cup {Head(t)}
<1>1. /\ Tail(t) \in Seq(Spans) /\ Len(Tail(t)) = Len(t) - 1
      /\ Len(t) \in Nat \ {0} /\ Head(t) = t[1]
      /\ \A i \in 1..(Len(t) - 1) : Tail(t)[i] = t[i + 1]
  BY HeadTailProperties
<1>2. LeftOf(t, Tail(t))
  BY <1>1 DEF LeftOf, Distinct
<1>3. \A i \in 1..Len(t) : i = 1 \/ (i - 1 \in 1..(Len(t) - 1) /\ Tail(t)[i - 1] = t[i])
  BY <1>1
<1>4. DOMAIN Tail(t) = 1..(Len(t) - 1) /\ DOMAIN t = 1..Len(t)
  BY <1>1
<1>5. ToSet(t) \subseteq ToSet(Tail(t)) \cup {Head(t)}
  <2>1. \A i \in 1..Len(t) : i = 1 \/ t[i] \in ToSet(Tail(t))
    BY <1>3, <1>4 DEF ToSet
  <2>2. QED
    BY <1>1, <1>4, <2>1 DEF ToSet
<1>6. ToSet(Tail(t)) \cup {Head(t)} \subseteq ToSet(t)
  BY <1>1, <1>4 DEF ToSet
<1>7. QED
  BY <1>1, <1>2, <1>5, <1>6

\* What line 116 leaves: the elements of t beyond the first k.
LEMMA CutElements ==
  ASSUME NEW t \in Seq(Spans), NEW k \in 0..Len(t)
  PROVE  LET rest == SubSeq(t, k + 1, Len(t))
         IN  /\ LeftOf(t, rest)
             /\ \A i \in 1..Len(rest) : \E j \in (k + 1)..Len(t) : rest[i] = t[j]
             /\ \A j \in (k + 1)..Len(t) : t[j] \in ToSet(rest)
<1> DEFINE rest == SubSeq(t, k + 1, Len(t))
<1>1. /\ rest \in Seq(Spans) /\ Len(rest) = Len(t) - k
      /\ \A i \in 1..(Len(t) - k) : rest[i] = t[k + i]
  BY SubSeqProperties
<1> HIDE DEF rest
<1>2. LeftOf(t, rest)
  <2>1. \A i \in 1..Len(rest) : k + i \in i..Len(t) /\ rest[i] = t[k + i]
    BY <1>1
  <2>2. Distinct(t) => Distinct(rest)
    BY <1>1 DEF Distinct
  <2>3. QED
    BY <1>1, <2>1, <2>2 DEF LeftOf
<1>3. ASSUME NEW j \in (k + 1)..Len(t) PROVE t[j] \in ToSet(rest)
  <2>1. j - k \in 1..Len(rest) /\ rest[j - k] = t[j]
    BY <1>1
  <2>2. QED
    BY <1>1, <2>1, ToSetOfSeq
<1>4. \A i \in 1..Len(rest) : \E j \in (k + 1)..Len(t) : rest[i] = t[j]
  <2>1. \A i \in 1..Len(rest) : k + i \in (k + 1)..Len(t) /\ rest[i] = t[k + i]
    BY <1>1
  <2>2. QED
    BY <2>1
<1>5. QED
  BY <1>2, <1>3, <1>4 DEF rest
-----------------------------------------------------------------------------
\* Induction over the natural numbers, for a set of them.
LEMMA NatSetInduction ==
  ASSUME NEW S, 0 \in S, \A n \in Nat : n \in S => n + 1 \in S
  PROVE  Nat \subseteq S
<1> SUFFICES ASSUME Nat \ S # {} PROVE FALSE
  OBVIOUS
<1> DEFINE R == OpToRel(<, Nat)
<1>1. PICK x \in Nat \ S : \A y \in Nat \ S : ~(<<y, x>> \in R)
  <2>1. IsWellFoundedOn(R, Nat)
    BY NatLessThanWellFounded
  <2>2. Nat \ S \subseteq Nat
    OBVIOUS
  <2> HIDE DEF R
  <2>3. QED
    BY <2>1, <2>2, WFMin
<1>2. x # 0 /\ x - 1 \in Nat /\ x - 1 < x /\ (x - 1) + 1 = x
  OBVIOUS
<1>3. x - 1 \notin S
  BY <1>2
<1>4. <<x - 1, x>> \in R
  BY <1>2 DEF OpToRel
<1>5. QED
  BY <1>1, <1>2, <1>3, <1>4

\* The recursion of Without, and that a function follows it up to k.
Loop(s, sent, left, n) ==
  IF n = 0 THEN <<>>
  ELSE IF s[n] \in sent THEN left[n - 1] ELSE Append(left[n - 1], s[n])

Follows(s, sent, left, k) == left = [n \in 0..k |-> Loop(s, sent, left, n)]

LEMMA LoopExists ==
  ASSUME NEW s, NEW sent, NEW N \in Nat
  PROVE  \E left : Follows(s, sent, left, N)
<1> DEFINE S == {k \in Nat : \E left : Follows(s, sent, left, k)}
<1>1. 0 \in S
  <2>1. Follows(s, sent, [n \in 0..0 |-> <<>>], 0)
    BY DEF Follows, Loop
  <2>2. QED
    BY <2>1
<1>2. ASSUME NEW k \in Nat, k \in S PROVE k + 1 \in S
  <2>1. PICK g : Follows(s, sent, g, k)
    BY <1>2
  <2> DEFINE h == [n \in 0..(k + 1) |-> IF n <= k THEN g[n] ELSE Loop(s, sent, g, k + 1)]
  <2>2. \A n \in 0..k : g[n] = Loop(s, sent, g, n) /\ h[n] = g[n]
    BY <2>1 DEF Follows
  <2>3. h[k + 1] = Loop(s, sent, g, k + 1) /\ h = [n \in 0..(k + 1) |-> h[n]]
    OBVIOUS
  <2> HIDE DEF h
  <2>4. ASSUME NEW n \in 0..(k + 1) PROVE Loop(s, sent, g, n) = Loop(s, sent, h, n)
    <3>1. n = 0 \/ n - 1 \in 0..k
      OBVIOUS
    <3>2. QED
      BY <3>1, <2>2 DEF Loop
  <2>5. \A n \in 0..(k + 1) : h[n] = Loop(s, sent, h, n)
    <3>1. \A n \in 0..(k + 1) : n \in 0..k \/ n = k + 1
      OBVIOUS
    <3>2. QED
      BY <3>1, <2>2, <2>3, <2>4
  <2>6. Follows(s, sent, h, k + 1)
    BY <2>3, <2>5 DEF Follows
  <2>7. QED
    BY <2>6
<1>3. N \in S
  <2> HIDE DEF S
  <2>1. QED
    BY <1>1, <1>2, NatSetInduction
<1>4. QED
  BY <1>3

\* What the first n elements of t have left after n turns of the loop.
LeftAfter(t, sent, rest, n) ==
  /\ rest \in Seq(Spans) /\ Len(rest) <= n
  /\ \A i \in 1..Len(rest) : \E j \in i..n : rest[i] = t[j] /\ t[j] \notin sent
  /\ \A j \in 1..n : t[j] \in sent \/ \E i \in 1..Len(rest) : rest[i] = t[j]
  /\ Distinct(t) => Distinct(rest)

LEMMA LoopStep ==
  ASSUME NEW t \in Seq(Spans), NEW sent, NEW n \in Nat, n + 1 \in 1..Len(t),
         NEW rest, LeftAfter(t, sent, rest, n)
  PROVE  LeftAfter(t, sent, IF t[n + 1] \in sent THEN rest ELSE Append(rest, t[n + 1]), n + 1)
<1>1. CASE t[n + 1] \in sent
  BY <1>1 DEF LeftAfter
<1>2. CASE t[n + 1] \notin sent
  <2> DEFINE more == Append(rest, t[n + 1])
  <2>1. rest \in Seq(Spans) /\ t[n + 1] \in Spans /\ Len(rest) \in Nat /\ Len(rest) <= n
    BY DEF LeftAfter
  <2>2. /\ more \in Seq(Spans) /\ Len(more) = Len(rest) + 1 /\ more[Len(rest) + 1] = t[n + 1]
        /\ \A i \in 1..Len(rest) : more[i] = rest[i]
    BY <2>1, AppendElements
  <2> HIDE DEF more
  <2>3. \A i \in 1..Len(more) : \E j \in i..(n + 1) : more[i] = t[j] /\ t[j] \notin sent
    <3>1. ASSUME NEW i \in 1..Len(rest)
          PROVE  \E j \in i..(n + 1) : more[i] = t[j] /\ t[j] \notin sent
      BY <2>1, <2>2 DEF LeftAfter
    <3>2. n + 1 \in (Len(rest) + 1)..(n + 1)
      BY <2>1
    <3>3. ASSUME NEW i \in 1..Len(more), i = Len(rest) + 1
          PROVE  \E j \in i..(n + 1) : more[i] = t[j] /\ t[j] \notin sent
      <4>1. more[i] = t[n + 1] /\ n + 1 \in i..(n + 1)
        BY <2>2, <3>2, <3>3
      <4>2. QED
        BY <1>2, <4>1
    <3>4. \A i \in 1..Len(more) : i \in 1..Len(rest) \/ i = Len(rest) + 1
      BY <2>1, <2>2
    <3>5. QED
      BY <3>1, <3>3, <3>4
  <2>4. \A j \in 1..(n + 1) : t[j] \in sent \/ \E i \in 1..Len(more) : more[i] = t[j]
    <3>1. \A j \in 1..n : t[j] \in sent \/ \E i \in 1..Len(rest) : rest[i] = t[j]
      BY DEF LeftAfter
    <3>2. 1..Len(rest) \subseteq 1..Len(more) /\ Len(rest) + 1 \in 1..Len(more)
      BY <2>1, <2>2
    <3>3. \A j \in 1..(n + 1) : j \in 1..n \/ j = n + 1
      OBVIOUS
    <3>4. QED
      BY <2>2, <3>1, <3>2, <3>3
  <2>5. ASSUME Distinct(t) PROVE Distinct(more)
    <3>1. Distinct(rest) /\ \A i \in 1..Len(rest) : \E j \in 1..n : rest[i] = t[j]
      BY <2>1, <2>5 DEF LeftAfter
    <3>2. \A i \in 1..Len(rest) : rest[i] # t[n + 1]
      BY <2>5, <3>1 DEF Distinct
    <3>3. \A i \in 1..Len(more) : i \in 1..Len(rest) \/ i = Len(rest) + 1
      BY <2>1, <2>2
    <3>4. QED
      BY <2>2, <3>1, <3>2, <3>3 DEF Distinct
  <2>6. LeftAfter(t, sent, more, n + 1)
    BY <2>1, <2>2, <2>3, <2>4, <2>5 DEF LeftAfter
  <2>7. QED
    BY <1>2, <2>6 DEF more
<1>3. QED
  BY <1>1, <1>2

\* What lines 119-130 leave: the elements of t that were not sent.
LEMMA WithoutElements ==
  ASSUME NEW t \in Seq(Spans), NEW sent
  PROVE  LeftAfter(t, sent, Without(t, sent), Len(t))
<1> DEFINE left == CHOOSE g : Follows(t, sent, g, Len(t))
<1>1. Len(t) \in Nat
  OBVIOUS
<1>2. Follows(t, sent, left, Len(t))
  <2>1. \E g : Follows(t, sent, g, Len(t))
    BY <1>1, LoopExists
  <2>2. QED
    BY <2>1, Zenon
<1>3. Without(t, sent) = left[Len(t)]
  BY Zenon DEF Without, Follows, Loop
<1> HIDE DEF left
<1>4. \A n \in 0..Len(t) : left[n] = Loop(t, sent, left, n)
  BY <1>2 DEF Follows
<1> DEFINE S == {n \in Nat : n <= Len(t) => LeftAfter(t, sent, left[n], n)}
<1>5. 0 \in S
  <2>1. left[0] = <<>>
    BY <1>1, <1>4 DEF Loop
  <2>2. LeftAfter(t, sent, <<>>, 0)
    BY DEF LeftAfter, Distinct
  <2>3. QED
    BY <2>1, <2>2
<1>6. ASSUME NEW n \in Nat, n \in S PROVE n + 1 \in S
  <2> SUFFICES ASSUME n + 1 <= Len(t) PROVE LeftAfter(t, sent, left[n + 1], n + 1)
    OBVIOUS
  <2>1. n + 1 \in 1..Len(t) /\ LeftAfter(t, sent, left[n], n)
    BY <1>1, <1>6
  <2>2. left[n + 1] = IF t[n + 1] \in sent THEN left[n] ELSE Append(left[n], t[n + 1])
    BY <1>1, <1>4, <2>1 DEF Loop
  <2>3. QED
    BY <2>1, <2>2, LoopStep
<1>7. Len(t) \in S
  <2> HIDE DEF S
  <2>1. QED
    BY <1>1, <1>5, <1>6, NatSetInduction
<1>8. QED
  BY <1>3, <1>7
-----------------------------------------------------------------------------
Aligned == \A f \in InFlight \ overtaken : Starts(batch[f], spans)

AnsweredIsSettled ==
  \A f \in Flushers : flushPc[f] = "answered" =>
                        ToSet(batch[f]) \subseteq received \cup rejected

(* A batch that was not overtaken is the front of the buffer and an        *)
(* answered batch is with the collector, so that the cut of a flush that   *)
(* was not overtaken removes settled spans only.                           *)
BufferInv ==
  /\ BufferTypeOK /\ Aligned /\ AnsweredIsSettled
  /\ ~misaligned => added \subseteq Settled

USE DEF history, cuts

LEMMA BufferInvInit == BufferInit => BufferInv
<1> SUFFICES ASSUME BufferInit PROVE BufferInv
  OBVIOUS
<1>1. <<>> \in Seq(Spans) /\ Len(<<>>) = 0
  OBVIOUS
<1>2. BufferTypeOK
  <2>1. spans \in Seq(Spans) /\ Len(spans) <= Size
    BY <1>1, SizeAssumption, BatchSizeAssumption DEF BufferInit
  <2>2. batch \in [Flushers -> Seq(Spans)]
    BY <1>1 DEF BufferInit
  <2>3. QED
    BY <2>1, <2>2 DEF BufferInit, BufferTypeOK
<1>3. Aligned /\ AnsweredIsSettled
  BY DEF BufferInit, Aligned, AnsweredIsSettled, InFlight
<1>4. QED
  BY <1>2, <1>3 DEF BufferInit, BufferInv

\* What Add makes of the buffer.
LEMMA AddElements ==
  ASSUME BufferTypeOK, NEW s \in Spans, Add(s)
  PROVE  /\ LeftOf(spans, Kept) /\ Len(Kept) < Size
         /\ spans' = Append(Kept, s) /\ spans' \in Seq(Spans)
         /\ Len(spans') = Len(Kept) + 1
         /\ ToSet(spans') = ToSet(Kept) \cup {s}
         /\ ToSet(spans) \cup dropped \cup {s} \subseteq ToSet(spans') \cup dropped'
         /\ dropped' \subseteq Spans
<1> USE DEF Add, BufferTypeOK
<1>1. CASE Full
  <2>1. spans # <<>>
    BY <1>1, SizeAssumption, BatchSizeAssumption DEF Full
  <2>2. /\ LeftOf(spans, Tail(spans)) /\ Len(Tail(spans)) = Len(spans) - 1
        /\ ToSet(spans) = ToSet(Tail(spans)) \cup {Head(spans)}
    BY <2>1, TailElements
  <2>3. Kept = Tail(spans) /\ dropped' = dropped \cup {Head(spans)}
    BY <1>1 DEF Kept
  <2>4. /\ spans' \in Seq(Spans) /\ Len(spans') = Len(Tail(spans)) + 1
        /\ ToSet(spans') = ToSet(Tail(spans)) \cup {s}
    BY <2>2, <2>3, AppendElements DEF LeftOf
  <2>5. Len(Tail(spans)) < Size /\ Head(spans) \in Spans
    BY <1>1, <2>1, <2>2, SizeAssumption, BatchSizeAssumption, HeadTailProperties DEF Full
  <2>6. QED
    BY <2>2, <2>3, <2>4, <2>5
<1>2. CASE ~Full
  <2>1. Kept = spans /\ dropped' = dropped
    BY <1>2 DEF Kept
  <2>2. /\ spans' \in Seq(Spans) /\ Len(spans') = Len(spans) + 1
        /\ ToSet(spans') = ToSet(spans) \cup {s}
    BY <2>1, AppendElements
  <2>3. LeftOf(spans, spans)
    <3>1. \A i \in 1..Len(spans) : i \in i..Len(spans)
      OBVIOUS
    <3>2. QED
      BY <3>1 DEF LeftOf
  <2>4. Len(spans) < Size
    BY <1>2, SizeAssumption, BatchSizeAssumption DEF Full
  <2>5. QED
    BY <2>1, <2>2, <2>3, <2>4
<1>3. QED
  BY <1>1, <1>2

LEMMA AddStep ==
  ASSUME BufferInv, NEW s \in Spans, Add(s)
  PROVE  BufferInv'
<1> USE DEF Add, BufferInv
<1>1. /\ spans' = Append(Kept, s) /\ spans' \in Seq(Spans)
      /\ Len(Kept) < Size /\ Len(spans') = Len(Kept) + 1
      /\ ToSet(spans) \cup dropped \cup {s} \subseteq ToSet(spans') \cup dropped'
      /\ dropped' \subseteq Spans /\ Kept \in Seq(Spans)
  BY AddElements DEF LeftOf
<1>2. BufferTypeOK'
  <2>1. Len(spans') <= Size
    BY <1>1, SizeAssumption, BatchSizeAssumption
  <2>2. overtaken' \subseteq Flushers
    BY DEF BufferTypeOK, InFlight
  <2>3. QED
    BY <1>1, <2>1, <2>2 DEF BufferTypeOK
<1>3. Aligned'
  <2>1. CASE Full
    BY <2>1 DEF Aligned, InFlight
  <2>2. CASE ~Full
    <3>1. /\ spans' = Append(spans, s) /\ Len(spans') = Len(spans) + 1
          /\ \A i \in 1..Len(spans) : spans'[i] = spans[i]
      BY <1>1, <2>2, AppendElements DEF Kept, BufferTypeOK
    <3>2. ASSUME NEW f \in InFlight' \ overtaken' PROVE Starts(batch[f], spans')
      <4>1. Starts(batch[f], spans) /\ batch[f] \in Seq(Spans) /\ spans \in Seq(Spans)
        BY <2>2, <3>2 DEF Aligned, InFlight, BufferTypeOK
      <4>2. QED
        BY <3>1, <4>1 DEF Starts
    <3>3. QED
      BY <3>2 DEF Aligned, Starts
  <2>3. QED
    BY <2>1, <2>2
<1>4. AnsweredIsSettled'
  BY DEF AnsweredIsSettled
<1>5. (~misaligned => added \subseteq Settled)'
  BY <1>1 DEF Settled
<1>6. QED
  BY <1>2, <1>3, <1>4, <1>5

\* The batch of a flush is the front of the buffer.
LEMMA BatchElements ==
  ASSUME BufferTypeOK, NEW f \in Flushers, NEW n \in Nat, FlushBegin(f, n)
  PROVE  /\ batch'[f] \in Seq(Spans) /\ Starts(batch'[f], spans)
         /\ \A g \in Flushers \ {f} : batch'[g] = batch[g]
<1> DEFINE k == IF n < Len(spans) THEN n ELSE Len(spans)
<1>1. k \in 0..Len(spans) /\ spans \in Seq(Spans) /\ Len(spans) \in Nat
  BY DEF BufferTypeOK
<1>2. batch' = [batch EXCEPT ![f] = SubSeq(spans, 1, k)]
  BY DEF FlushBegin
<1> HIDE DEF k
<1>3. /\ SubSeq(spans, 1, k) \in Seq(Spans) /\ Len(SubSeq(spans, 1, k)) = k
      /\ \A i \in 1..k : SubSeq(spans, 1, k)[i] = spans[i]
  BY <1>1, SubSeqProperties
<1>4. QED
  BY <1>1, <1>2, <1>3 DEF Starts, BufferTypeOK

LEMMA BeginStep ==
  ASSUME BufferInv, NEW f \in Flushers, NEW n \in Nat, FlushBegin(f, n)
  PROVE  BufferInv'
<1> USE DEF FlushBegin, BufferInv
<1>1. /\ batch'[f] \in Seq(Spans) /\ Starts(batch'[f], spans)
      /\ \A g \in Flushers \ {f} : batch'[g] = batch[g]
  BY BatchElements
<1>2. BufferTypeOK'
  BY <1>1 DEF BufferTypeOK
<1>3. Aligned'
  <2>1. ASSUME NEW g \in InFlight' \ overtaken' PROVE Starts(batch'[g], spans')
    <3>1. CASE g = f
      BY <1>1, <3>1
    <3>2. CASE g # f
      <4>1. batch'[g] = batch[g] /\ g \in InFlight \ overtaken
        BY <1>1, <2>1, <3>2 DEF InFlight, BufferTypeOK
      <4>2. QED
        BY <4>1 DEF Aligned
    <3>3. QED
      BY <3>1, <3>2
  <2>2. QED
    BY <2>1 DEF Aligned, Starts
<1>4. AnsweredIsSettled'
  <2>1. \A g \in Flushers : flushPc'[g] = "answered" =>
          batch'[g] = batch[g] /\ flushPc[g] = "answered"
    BY <1>1 DEF BufferTypeOK
  <2>2. QED
    BY <2>1 DEF AnsweredIsSettled
<1>5. (~misaligned => added \subseteq Settled)'
  BY DEF Settled
<1>6. QED
  BY <1>2, <1>3, <1>4, <1>5

LEMMA AnswerStep ==
  ASSUME BufferInv, NEW f \in Flushers, Answer(f)
  PROVE  BufferInv'
<1> USE DEF Answer, BufferInv
<1>1. PICK failed \in SUBSET ToSet(batch[f]) :
        /\ received' = received \cup (ToSet(batch[f]) \ failed)
        /\ rejected' = rejected \cup failed
  OBVIOUS
<1>2. BufferTypeOK'
  <2>1. ToSet(batch[f]) \subseteq Spans
    BY DEF BufferTypeOK, ToSet
  <2>2. received' \subseteq Spans /\ rejected' \subseteq Spans
    BY <1>1, <2>1 DEF BufferTypeOK
  <2>3. QED
    BY <2>2 DEF BufferTypeOK
<1>3. Aligned'
  BY DEF Aligned, InFlight, BufferTypeOK, Starts
<1>4. AnsweredIsSettled'
  <2>1. ASSUME NEW g \in Flushers, flushPc'[g] = "answered"
        PROVE  ToSet(batch[g]) \subseteq received' \cup rejected'
    <3>1. CASE g = f
      BY <1>1, <3>1
    <3>2. CASE g # f
      BY <1>1, <2>1, <3>2 DEF AnsweredIsSettled, BufferTypeOK
    <3>3. QED
      BY <3>1, <3>2
  <2>2. QED
    BY <2>1 DEF AnsweredIsSettled
<1>5. (~misaligned => added \subseteq Settled)'
  BY <1>1 DEF Settled
<1>6. QED
  BY <1>2, <1>3, <1>4, <1>5

\* The other flushes after one of f has ended.
LEMMA OthersInFlight ==
  ASSUME BufferTypeOK, NEW f \in Flushers, FlushFail(f) \/ FlushOk(f)
  PROVE  /\ batch' \in [Flushers -> Seq(Spans)]
         /\ flushPc' \in [Flushers -> {"idle", "sending", "answered"}]
         /\ \A g \in Flushers : flushPc'[g] # "idle" =>
              g # f /\ batch'[g] = batch[g] /\ flushPc'[g] = flushPc[g]
<1>1. <<>> \in Seq(Spans)
  OBVIOUS
<1>2. QED
  BY <1>1 DEF FlushFail, FlushOk, BufferTypeOK

LEMMA FailStep ==
  ASSUME BufferInv, NEW f \in Flushers, FlushFail(f)
  PROVE  BufferInv'
<1> USE OthersInFlight DEF FlushFail, BufferInv
<1>1. BufferTypeOK'
  BY DEF BufferTypeOK
<1>2. Aligned'
  BY DEF Aligned, InFlight, Starts
<1>3. AnsweredIsSettled'
  BY DEF AnsweredIsSettled
<1>4. QED
  BY <1>1, <1>2, <1>3 DEF Settled

\* What FlushOk makes of the buffer.
LEMMA RemainingElements ==
  ASSUME BufferTypeOK, NEW f \in Flushers
  PROVE  LeftOf(spans, Remaining(f))
<1>1. batch[f] \in Seq(Spans) /\ spans \in Seq(Spans) /\ Len(batch[f]) \in Nat
  BY DEF BufferTypeOK
<1>2. CASE Len(spans) >= Len(batch[f])
  BY <1>1, <1>2, CutElements DEF Remaining
<1>3. CASE ~(Len(spans) >= Len(batch[f]))
  BY <1>1, <1>3, WithoutElements DEF Remaining, LeftAfter, LeftOf
<1>4. QED
  BY <1>2, <1>3

LEMMA OkStep ==
  ASSUME BufferInv, NEW f \in Flushers, FlushOk(f)
  PROVE  BufferInv'
<1> USE OthersInFlight DEF FlushOk, BufferInv
<1>1. BufferTypeOK'
  <2>1. spans' \in Seq(Spans) /\ Len(spans') <= Len(spans)
    BY RemainingElements DEF LeftOf
  <2>2. Len(spans') <= Size
    BY <2>1, SizeAssumption, BatchSizeAssumption DEF BufferTypeOK
  <2>3. overtaken' \subseteq Flushers /\ misaligned' \in BOOLEAN
    BY DEF BufferTypeOK, InFlight
  <2>4. QED
    BY <2>1, <2>2, <2>3 DEF BufferTypeOK
<1>2. Aligned'
  BY DEF Aligned, InFlight, BufferTypeOK
<1>3. AnsweredIsSettled'
  BY DEF AnsweredIsSettled
<1>4. ASSUME ~misaligned' PROVE added' \subseteq Settled'
  <2>1. ~misaligned /\ f \notin overtaken
    BY <1>4
  <2>2. /\ Starts(batch[f], spans) /\ batch[f] \in Seq(Spans) /\ spans \in Seq(Spans)
        /\ ToSet(batch[f]) \subseteq received \cup rejected
    BY <2>1 DEF Aligned, AnsweredIsSettled, InFlight, BufferTypeOK
  <2>3. spans' = SubSeq(spans, Len(batch[f]) + 1, Len(spans))
    BY <2>2 DEF Remaining, Starts
  <2>4. \A j \in (Len(batch[f]) + 1)..Len(spans) : spans[j] \in ToSet(spans')
    BY <2>2, <2>3, CutElements DEF Starts
  <2>5. ASSUME NEW x \in ToSet(spans) PROVE x \in ToSet(batch[f]) \cup ToSet(spans')
    <3>1. PICK j \in 1..Len(spans) : x = spans[j]
      BY <2>2, <2>5, ToSetOfSeq
    <3>2. CASE j \in 1..Len(batch[f])
      BY <2>2, <3>1, <3>2, ToSetOfSeq DEF Starts
    <3>3. CASE j \notin 1..Len(batch[f])
      BY <2>2, <2>4, <3>1, <3>3
    <3>4. QED
      BY <3>2, <3>3
  <2>6. QED
    BY <2>1, <2>2, <2>5 DEF Settled
<1>5. QED
  BY <1>1, <1>2, <1>3, <1>4

LEMMA BufferStutters == BufferInv /\ UNCHANGED buffer => BufferInv'
  BY DEF buffer, BufferInv, BufferTypeOK, Aligned, InFlight, Starts,
     AnsweredIsSettled, Settled

LEMMA BufferStep == BufferInv /\ [BufferNext]_buffer => BufferInv'
<1> SUFFICES ASSUME BufferInv, [BufferNext]_buffer PROVE BufferInv'
  OBVIOUS
<1>1. CASE UNCHANGED buffer
  BY <1>1, BufferStutters DEF buffer
<1>2. ASSUME NEW s \in Spans, Add(s) PROVE BufferInv'
  BY <1>2, AddStep
<1>3. ASSUME NEW f \in Flushers, NEW n \in 0..Size, FlushBegin(f, n) PROVE BufferInv'
  <2>1. n \in Nat
    OBVIOUS
  <2>2. QED
    BY <1>3, <2>1, BeginStep
<1>4. ASSUME NEW f \in Flushers, Answer(f) PROVE BufferInv'
  BY <1>4, AnswerStep
<1>5. ASSUME NEW f \in Flushers, FlushFail(f) PROVE BufferInv'
  BY <1>5, FailStep
<1>6. ASSUME NEW f \in Flushers, FlushOk(f) PROVE BufferInv'
  BY <1>6, OkStep
<1>7. QED
  BY <1>1, <1>2, <1>3, <1>4, <1>5, <1>6 DEF BufferNext

(* The types of the buffer and its flushes; the buffer keeps to its size,  *)
(* whatever overlaps (lines 55-60).                                        *)
THEOREM BufferTypeCorrect == BufferSpec => []BufferTypeOK
<1>1. BufferInv => BufferTypeOK
  BY DEF BufferInv
<1>2. QED
  BY <1>1, BufferInvInit, BufferStep, PTL DEF BufferSpec

(* For every buffer size and any number of overlapping Adds and flushes:   *)
(* spans leave the buffer because they reached the collector or because it *)
(* was full, unless an overtaken flush has cut it.                         *)
THEOREM NoUnexplainedLoss == BufferSpec => []LossOnlyWhenOvertaken
<1>1. BufferInv => LossOnlyWhenOvertaken
  BY DEF BufferInv, LossOnlyWhenOvertaken
<1>2. QED
  BY <1>1, BufferInvInit, BufferStep, PTL DEF BufferSpec

(* Every flush that nothing has overtaken still holds the front of the     *)
(* buffer, so that the cut of line 116 removes what was sent.              *)
THEOREM PrefixStable == BufferSpec => []BatchIsPrefix
<1>1. BufferInv => BatchIsPrefix
  <2> SUFFICES ASSUME BufferInv, NEW f \in InFlight \ overtaken
               PROVE  IsPrefix(batch[f], spans)
    BY DEF BatchIsPrefix
  <2>1. Starts(batch[f], spans) /\ batch[f] \in Seq(Spans) /\ spans \in Seq(Spans)
    BY DEF BufferInv, Aligned, BufferTypeOK, InFlight
  <2>2. QED
    BY <2>1, StartsIsPrefix DEF IsPrefix, IsPrefix
<1>2. QED
  BY <1>1, BufferInvInit, BufferStep, PTL DEF BufferSpec
-----------------------------------------------------------------------------
USE DEF buffer, callers, closing, ghosts, vars, Elsewhere

\* What a goroutine holds: a span that has arrived is with the collector, and
\* no span is lost between the hands and the buffer.
Arrived == \A c \in Callers : submit[c] = "arrived" => own[c] \in received

Held == finished \subseteq InHand \cup added \cup received

\* A span is with one goroutine until it is added to the buffer, and is added
\* once.
Owned ==
  /\ added \subseteq finished /\ received \subseteq finished
  /\ \A c \in Callers : own[c] # NoSpan =>
       /\ own[c] \in finished \ added
       /\ \A d \in Callers : own[d] = own[c] => c = d

Buffered ==
  /\ Distinct(spans) /\ ToSet(spans) \subseteq added
  /\ \A f \in Flushers : ToSet(batch[f]) \subseteq added

\* The buffer has not moved back against a batch taken from it.
NotBehind ==
  \A f \in InFlight : \A i \in 1..Len(spans), j \in 1..Len(batch[f]) :
    spans[i] = batch[f][j] => i <= j

\* What may still be sent has not been stored, unless it was retried.
Unsent(s) == s \in received => s \in retried

Fresh ==
  /\ \A c \in Callers : submit[c] \in {"execute", "executing", "add"} => Unsent(own[c])
  /\ \A f \in Flushers : flushPc[f] = "sending" => \A s \in ToSet(batch[f]) : Unsent(s)
  /\ \A s \in ToSet(spans) :
       \/ Unsent(s)
       \/ \E f \in Flushers : flushPc[f] = "answered" /\ s \in ToSet(batch[f])

Shared ==
  \A f, g \in InFlight : f # g => ToSet(batch[f]) \cap ToSet(batch[g]) \subseteq retried

DeliveryInv ==
  /\ Arrived /\ Held /\ Owned /\ Buffered /\ NotBehind /\ Fresh /\ Shared
  /\ DuplicatesExplained

IInv == TypeOK /\ BreakerTypes /\ BufferInv /\ DeliveryInv

LEMMA InitIInv == Init => IInv
<1> SUFFICES ASSUME Init PROVE IInv
  OBVIOUS
<1>1. BreakerTypes /\ BufferInv
  BY BreakerTypesInit, BufferInvInit DEF Init
<1>2. TypeOK
  BY <1>1, NoSpanAssumption, SizeAssumption, BatchSizeAssumption DEF Init, TypeOK, BreakerTypes, BufferInv, BreakerInit
<1>3. spans = <<>> /\ \A f \in Flushers : batch[f] = <<>> /\ flushPc[f] = "idle"
  BY DEF Init, BufferInit
<1>4. ToSet(<<>>) = {} /\ Len(<<>>) = 0
  BY DEF ToSet
<1>5. DeliveryInv
  BY <1>3, <1>4 DEF Init, BufferInit, DeliveryInv, Arrived, Held, Owned, Buffered, Distinct,
     NotBehind, InFlight, Fresh, Shared, DuplicatesExplained
<1>6. QED
  BY <1>1, <1>2, <1>5 DEF IInv

\* Every step of the tracer is one of its breaker, or leaves it alone.
LEMMA StepOfBreaker == [Next]_vars => [BreakerNext]_breaker
<1> SUFFICES ASSUME Next PROVE BreakerNext \/ UNCHANGED breaker
  OBVIOUS
<1>1. ASSUME NEW c \in Callers, Caller(c) PROVE BreakerNext \/ UNCHANGED breaker
  BY <1>1 DEF Caller, Enter, Proceed, Rejected, Arrive, Submitted, SubmitFails, AddToBuffer,
     BreakerNext, InExecute, CheckTimeout, Admit
<1>2. ASSUME NEW c \in Callers, NEW s \in Spans, Finish(c, s) PROVE UNCHANGED breaker
  BY <1>2 DEF Finish
<1>3. ASSUME NEW f \in Flushers, InFlush(f) PROVE UNCHANGED breaker
  BY <1>3 DEF InFlush, AnswerFlush, EndFlush, FailFlush
<1>4. CASE Worker \/ Close
  BY <1>4 DEF Worker, WorkerConnect, WorkerCheck, WorkerFlush, BeginFlush, Close, CloseBegin,
     CloseFlush, CloseLog
<1>5. CASE Environment
  BY <1>5 DEF Environment, BreakerNext
<1>6. QED
  BY <1>1, <1>2, <1>3, <1>4, <1>5 DEF Next

\* The steps by what they do to spans on their way.
LEMMA Cases ==
  ASSUME TypeOK, [Next]_vars
  PROVE  \/ \E c \in Callers, s \in Spans \ finished : Finish(c, s)
         \/ \E c \in Callers : \/ Enter(c) \/ Rejected(c) \/ Arrive(c) \/ Submitted(c)
                               \/ SubmitFails(c) \/ AddToBuffer(c)
         \/ \E f \in Flushers : \/ AnswerFlush(f) \/ EndFlush(f) \/ FailFlush(f)
                                \/ \E n \in Nat : BeginFlush(f, n)
         \/ UNCHANGED <<buffer, callers, ghosts>>
<1>1. "worker" \in Flushers /\ "close" \in Flushers /\ MaxBatchSize \in Nat /\ closeSize \in Nat
  BY FlushersAssumption, SizeAssumption, BatchSizeAssumption DEF TypeOK
<1>2. QED
  BY <1>1 DEF Next, Caller, Proceed, InFlush, Worker, WorkerConnect, WorkerCheck, WorkerFlush,
     Close, CloseBegin, CloseFlush, CloseLog, Environment

\* Who has a span: the goroutines that are not idle.
LEMMA HasSpan ==
  ASSUME TypeOK, NEW c \in Callers, submit[c] # "idle"
  PROVE  own[c] \in Spans /\ own[c] \in InHand
  BY DEF TypeOK, InHand

LEMMA BufferPart == IInv /\ [Next]_vars => BufferInv'
<1> SUFFICES ASSUME IInv, [Next]_vars PROVE BufferInv'
  OBVIOUS
<1>0. TypeOK /\ BufferInv
  BY DEF IInv
<1>1. ASSUME NEW c \in Callers, Arrive(c) PROVE BufferInv'
  <2>1. own[c] \in Spans
    BY <1>0, <1>1, HasSpan DEF Arrive, Step
  <2>2. QED
    BY <1>0, <1>1, <2>1 DEF Arrive, BufferInv, BufferTypeOK, Aligned, InFlight,
       Starts, AnsweredIsSettled, Settled
<1>2. ASSUME NEW c \in Callers, AddToBuffer(c) PROVE BufferInv'
  BY <1>0, <1>2, HasSpan, AddStep DEF AddToBuffer, Step
<1>3. ASSUME NEW f \in Flushers, AnswerFlush(f) \/ EndFlush(f) \/ FailFlush(f) PROVE BufferInv'
  BY <1>0, <1>3, AnswerStep, OkStep, FailStep DEF AnswerFlush, EndFlush, FailFlush
<1>4. ASSUME NEW f \in Flushers, NEW n \in Nat, BeginFlush(f, n) PROVE BufferInv'
  BY <1>0, <1>4, BeginStep DEF BeginFlush
<1>5. CASE UNCHANGED buffer
  BY <1>0, <1>5, BufferStutters
<1>6. QED
  BY <1>0, <1>1, <1>2, <1>3, <1>4, <1>5, Cases DEF Finish, Enter, Rejected, Submitted, SubmitFails

LEMMA TypeStep == IInv /\ [Next]_vars => TypeOK' /\ BreakerTypes'
<1> SUFFICES ASSUME IInv, [Next]_vars PROVE TypeOK' /\ BreakerTypes'
  OBVIOUS
<1>0. BreakerTypes' /\ BreakerTypeOK' /\ BufferTypeOK'
  BY StepOfBreaker, BreakerTypesStep, BufferPart DEF IInv, BreakerTypes, BufferInv
<1>00. TypeOK /\ BreakerTypeOK /\ BufferTypeOK /\ NoSpan \notin Spans
  BY NoSpanAssumption DEF IInv, TypeOK
<1> HIDE DEF vars
<1> USE <1>0, <1>00 DEF vars, TypeOK, BreakerTypeOK
<1>1. ASSUME NEW c \in Callers, NEW s \in Spans, Finish(c, s) PROVE TypeOK'
  BY <1>1 DEF Finish, Step
<1>2. ASSUME NEW c \in Callers, Enter(c) PROVE TypeOK'
  BY <1>2 DEF Enter, Step, ReadState, Goto
<1>3. ASSUME NEW c \in Callers, Proceed(c) PROVE TypeOK'
  BY <1>3 DEF Proceed, HalfOpenNow, TakeSlot, Goto
<1>4. ASSUME NEW c \in Callers, Rejected(c) PROVE TypeOK'
  BY <1>4 DEF Rejected, Step, RejectOpen, RejectHalfOpen, Goto
<1>5. ASSUME NEW c \in Callers, Arrive(c) PROVE TypeOK'
  BY <1>5 DEF Arrive, Step
<1>6. ASSUME NEW c \in Callers, Submitted(c) PROVE TypeOK'
  BY <1>6 DEF Submitted, Step, Succeed, Return
<1>7. ASSUME NEW c \in Callers, SubmitFails(c) PROVE TypeOK'
  BY <1>7 DEF SubmitFails, Fail, Return
<1>8. ASSUME NEW c \in Callers, AddToBuffer(c) PROVE TypeOK'
  BY <1>8 DEF AddToBuffer, Step
<1>9. ASSUME NEW f \in Flushers, InFlush(f) PROVE TypeOK'
  <2>1. ToSet(batch[f]) \subseteq Spans
    BY DEF BufferTypeOK, ToSet
  <2>2. QED
    BY <1>9, <2>1 DEF InFlush, AnswerFlush, EndFlush, FailFlush, Returned
<1>10. CASE Worker \/ Close
  <2>1. ASSUME NEW f \in Flushers, NEW n \in Nat, BeginFlush(f, n) PROVE retried' \subseteq Spans
    <3>1. ToSet(batch'[f]) \subseteq Spans
      BY <2>1, BatchElements DEF BeginFlush, ToSet
    <3>2. QED
      BY <2>1, <3>1 DEF BeginFlush, InBoth
  <2>2. CASE Worker
    BY <2>1, <2>2, FlushersAssumption, SizeAssumption, BatchSizeAssumption
       DEF Worker, WorkerConnect, WorkerCheck, WorkerFlush, BeginFlush
  <2>3. Len(spans) \in 0..Size /\ closeSize \in Nat /\ ToSet(spans) \subseteq Spans
    BY SizeAssumption, BatchSizeAssumption DEF BufferTypeOK, ToSet
  <2>4. CASE Close
    BY <2>1, <2>3, <2>4, FlushersAssumption
       DEF Close, CloseBegin, CloseFlush, CloseLog, BeginFlush
  <2>5. QED
    BY <1>10, <2>2, <2>4
<1>11. CASE Environment \/ UNCHANGED vars
  BY <1>11 DEF Environment, TimeoutElapses
<1>12. QED
  BY <1>1, <1>2, <1>3, <1>4, <1>5, <1>6, <1>7, <1>8, <1>9, <1>10, <1>11 DEF Next, Caller
-----------------------------------------------------------------------------
LEMMA FinishDelivery ==
  ASSUME IInv, NEW c \in Callers, NEW s \in Spans \ finished, Finish(c, s)
  PROVE  DeliveryInv'
<1> USE NoSpanAssumption DEF IInv, DeliveryInv, Finish, Step
<1>1. own[c] = NoSpan /\ own'[c] = s /\ \A d \in Callers \ {c} : own'[d] = own[d]
  BY DEF TypeOK
<1>2. /\ submit'[c] \in {"add", "execute"} /\ \A d \in Callers \ {c} : submit'[d] = submit[d]
      /\ UNCHANGED <<buffer, twice, retried>> /\ finished' = finished \cup {s}
  BY DEF TypeOK
<1>3. Arrived'
  BY <1>1, <1>2 DEF Arrived
<1>4. Held'
  <2>1. InHand \subseteq InHand' /\ s \in InHand'
    BY <1>1 DEF InHand
  <2>2. QED
    BY <1>2, <2>1 DEF Held
<1>5. Owned'
  BY <1>1, <1>2 DEF Owned
<1>6. Buffered' /\ NotBehind' /\ Shared' /\ DuplicatesExplained'
  BY <1>2 DEF Buffered, NotBehind, InFlight, Shared, DuplicatesExplained, Distinct
<1>7. Fresh'
  <2>1. Unsent(s)' /\ \A x : Unsent(x) <=> Unsent(x)'
    BY <1>2 DEF Owned, Unsent
  <2>2. QED
    BY <1>1, <1>2, <2>1 DEF Fresh
<1>8. QED
  BY <1>3, <1>4, <1>5, <1>6, <1>7

\* Enter and Rejected move a goroutine on, but not its span.
LEMMA MoveDelivery ==
  ASSUME IInv, NEW c \in Callers, Enter(c) \/ Rejected(c)
  PROVE  DeliveryInv'
<1> USE DEF IInv, DeliveryInv, Enter, Rejected, Step
<1>1. /\ submit[c] \in {"execute", "executing"} /\ submit'[c] \in {"executing", "add"}
      /\ \A d \in Callers \ {c} : submit'[d] = submit[d]
      /\ UNCHANGED <<buffer, own, ghosts>>
  BY DEF TypeOK
<1>2. Arrived' /\ Held' /\ Owned'
  BY <1>1 DEF Arrived, Held, InHand, Owned
<1>3. Buffered' /\ NotBehind' /\ Shared' /\ DuplicatesExplained'
  BY <1>1 DEF Buffered, NotBehind, InFlight, Shared, DuplicatesExplained, Distinct
<1>4. Fresh'
  BY <1>1 DEF Fresh, Unsent
<1>5. QED
  BY <1>2, <1>3, <1>4

LEMMA ArriveDelivery ==
  ASSUME IInv, NEW c \in Callers, Arrive(c)
  PROVE  DeliveryInv'
<1> USE DEF IInv, DeliveryInv, Arrive, Step
<1>1. /\ submit[c] = "executing" /\ submit'[c] = "arrived"
      /\ \A d \in Callers \ {c} : submit'[d] = submit[d]
      /\ received' = received \cup {own[c]} /\ twice' = twice \cup ({own[c]} \cap received)
      /\ UNCHANGED <<own, finished, retried, spans, flushPc, batch, added>>
  BY DEF TypeOK
<1>2. own[c] # NoSpan /\ own[c] \in finished \ added /\ Unsent(own[c])
  BY <1>1, HasSpan, NoSpanAssumption DEF Owned, Fresh
<1>3. Arrived' /\ Held' /\ Owned'
  BY <1>1, <1>2 DEF Arrived, Held, InHand, Owned
<1>4. Buffered' /\ NotBehind' /\ Shared'
  BY <1>1 DEF Buffered, NotBehind, InFlight, Shared, Distinct
<1>5. DuplicatesExplained'
  BY <1>1, <1>2 DEF DuplicatesExplained, Unsent
<1>6. Fresh'
  <2>1. \A s : s # own[c] => (Unsent(s) <=> Unsent(s)')
    BY <1>1 DEF Unsent
  <2>2. \A d \in Callers \ {c} : submit[d] # "idle" => own[d] # own[c]
    BY <1>2 DEF Owned, TypeOK
  <2>3. own[c] \notin ToSet(spans) /\ \A f \in Flushers : own[c] \notin ToSet(batch[f])
    BY <1>2 DEF Buffered
  <2>4. QED
    BY <1>1, <2>1, <2>2, <2>3 DEF Fresh
<1>7. QED
  BY <1>3, <1>4, <1>5, <1>6

LEMMA SubmittedDelivery ==
  ASSUME IInv, NEW c \in Callers, Submitted(c)
  PROVE  DeliveryInv'
<1> USE DEF IInv, DeliveryInv, Submitted, Step
<1>1. /\ submit[c] = "arrived" /\ submit'[c] = "idle" /\ own'[c] = NoSpan
      /\ \A d \in Callers \ {c} : submit'[d] = submit[d] /\ own'[d] = own[d]
      /\ UNCHANGED <<buffer, ghosts>>
  BY DEF TypeOK
<1>2. Arrived' /\ Owned'
  BY <1>1 DEF Arrived, Owned
<1>3. Held'
  <2>1. InHand \subseteq InHand' \cup {own[c]} /\ own[c] \in received
    BY <1>1 DEF InHand, Arrived
  <2>2. QED
    BY <1>1, <2>1 DEF Held
<1>4. Buffered' /\ NotBehind' /\ Shared' /\ DuplicatesExplained'
  BY <1>1 DEF Buffered, NotBehind, InFlight, Shared, DuplicatesExplained, Distinct
<1>5. Fresh'
  BY <1>1 DEF Fresh, Unsent
<1>6. QED
  BY <1>2, <1>3, <1>4, <1>5

LEMMA SubmitFailsDelivery ==
  ASSUME IInv, NEW c \in Callers, SubmitFails(c)
  PROVE  DeliveryInv'
<1> USE DEF IInv, DeliveryInv, SubmitFails
<1>1. /\ submit'[c] = "add" /\ \A d \in Callers \ {c} : submit'[d] = submit[d]
      /\ retried' = retried \cup {own[c]}
      /\ UNCHANGED <<buffer, own, finished, twice>>
  BY DEF TypeOK
<1>2. Arrived' /\ Held' /\ Owned'
  BY <1>1 DEF Arrived, Held, InHand, Owned
<1>3. Buffered' /\ NotBehind' /\ Shared' /\ DuplicatesExplained'
  BY <1>1 DEF Buffered, NotBehind, InFlight, Shared, DuplicatesExplained, Distinct
<1>4. Fresh'
  BY <1>1 DEF Fresh, Unsent
<1>5. QED
  BY <1>2, <1>3, <1>4

LEMMA AddDelivery ==
  ASSUME IInv, NEW c \in Callers, AddToBuffer(c)
  PROVE  DeliveryInv'
<1> USE DEF IInv, DeliveryInv, AddToBuffer, Step
<1>1. /\ submit[c] = "add" /\ submit'[c] = "idle" /\ own'[c] = NoSpan
      /\ \A d \in Callers \ {c} : submit'[d] = submit[d] /\ own'[d] = own[d]
      /\ added' = added \cup {own[c]}
      /\ UNCHANGED <<flushPc, batch, received, finished, twice, retried>>
  BY DEF TypeOK, Add
<1>2. own[c] \in Spans /\ own[c] \in finished \ added /\ Unsent(own[c])
  BY <1>1, HasSpan, NoSpanAssumption DEF Owned, Fresh
<1> DEFINE s == own[c]
           n == Len(Kept)
<1>3. /\ Kept \in Seq(Spans) /\ LeftOf(spans, Kept) /\ spans \in Seq(Spans)
      /\ spans' = Append(Kept, s) /\ spans' \in Seq(Spans) /\ Len(spans') = n + 1
      /\ ToSet(spans') = ToSet(Kept) \cup {s}
  BY <1>2, AddElements DEF TypeOK, BufferTypeOK, LeftOf
<1>4. n \in Nat /\ spans'[n + 1] = s /\ \A i \in 1..n : spans'[i] = Kept[i]
  BY <1>2, <1>3, AppendElements
<1>5. \A i \in 1..n : \E j \in i..Len(spans) : spans'[i] = spans[j]
  BY <1>3, <1>4 DEF LeftOf
<1>6. ToSet(Kept) \subseteq ToSet(spans)
  BY <1>3, ToSetOfSeq DEF LeftOf
<1> HIDE DEF s, n
<1>7. Arrived'
  BY <1>1 DEF Arrived
<1>8. Held'
  <2>1. InHand \subseteq InHand' \cup {s}
    BY <1>1 DEF InHand, s
  <2>2. QED
    BY <1>1, <2>1 DEF Held, s
<1>9. Owned'
  BY <1>1, <1>2 DEF Owned, TypeOK
<1>10. Buffered'
  <2>1. s \notin ToSet(spans)
    BY <1>2 DEF Buffered, s
  <2>2. Distinct(Kept) /\ \A i \in 1..n : Kept[i] # s
    BY <1>3, <1>6, <2>1, ToSetOfSeq DEF LeftOf, Buffered, n
  <2>3. \A i \in 1..(n + 1) : i \in 1..n \/ i = n + 1
    BY <1>4
  <2>4. Distinct(spans')
    BY <1>3, <1>4, <2>2, <2>3 DEF Distinct, n
  <2>5. QED
    BY <1>1, <1>3, <1>6, <2>4 DEF Buffered, s
<1>11. NotBehind'
  <2> SUFFICES ASSUME NEW f \in InFlight, NEW i \in 1..Len(spans'), NEW j \in 1..Len(batch[f]),
                      spans'[i] = batch[f][j]
               PROVE  i <= j
    BY <1>1 DEF NotBehind, InFlight
  <2>1. f \in Flushers /\ batch[f] \in Seq(Spans) /\ Len(batch[f]) \in Nat
    BY DEF InFlight, TypeOK, BufferTypeOK
  <2>2. s # batch[f][j]
    BY <1>2, <2>1, ToSetOfSeq DEF Buffered, s
  <2>3. i \in 1..n
    BY <1>3, <1>4, <2>2
  <2>4. PICK k \in i..Len(spans) : spans'[i] = spans[k]
    BY <1>5, <2>3
  <2>5. k \in 1..Len(spans) /\ i <= k
    BY <1>4, <2>3, <2>4
  <2>6. k <= j
    BY <2>1, <2>4, <2>5 DEF NotBehind
  <2>7. QED
    BY <1>3, <2>1, <2>5, <2>6
<1>12. Fresh'
  <2>1. \A x : Unsent(x) <=> Unsent(x)'
    BY <1>1 DEF Unsent
  <2>2. QED
    BY <1>1, <1>2, <1>3, <1>6, <2>1 DEF Fresh, s
<1>13. Shared' /\ DuplicatesExplained'
  BY <1>1 DEF Shared, InFlight, DuplicatesExplained
<1>14. QED
  BY <1>7, <1>8, <1>9, <1>10, <1>11, <1>12, <1>13

LEMMA BeginDelivery ==
  ASSUME IInv, NEW f \in Flushers, NEW n \in Nat, BeginFlush(f, n)
  PROVE  DeliveryInv'
<1> USE DEF IInv, DeliveryInv, BeginFlush, FlushBegin
<1>1. /\ batch'[f] \in Seq(Spans) /\ Starts(batch'[f], spans) /\ spans \in Seq(Spans)
      /\ \A g \in Flushers \ {f} : batch'[g] = batch[g]
  BY BatchElements DEF TypeOK, BufferTypeOK
<1>2. /\ flushPc[f] = "idle" /\ flushPc'[f] = "sending"
      /\ \A g \in Flushers \ {f} : flushPc'[g] = flushPc[g]
      /\ retried' = retried \cup InBoth(f)
      /\ UNCHANGED <<spans, added, received, finished, twice, own, submit>>
  BY DEF TypeOK, BufferTypeOK
<1>3. ToSet(batch'[f]) \subseteq ToSet(spans)
  <2> SUFFICES ASSUME NEW s \in ToSet(batch'[f]) PROVE s \in ToSet(spans)
    OBVIOUS
  <2>1. PICK i \in 1..Len(batch'[f]) : s = batch'[f][i]
    BY <1>1, ToSetOfSeq
  <2>2. i \in 1..Len(spans) /\ s = spans[i]
    BY <1>1, <2>1 DEF Starts
  <2>3. QED
    BY <1>1, <2>2, ToSetOfSeq
<1>4. \A g \in InFlight : ToSet(batch'[f]) \cap ToSet(batch[g]) \subseteq retried'
  BY <1>2 DEF InBoth
<1>5. Arrived' /\ Held' /\ Owned'
  BY <1>2 DEF Arrived, Held, InHand, Owned
<1>6. Buffered'
  BY <1>1, <1>2, <1>3 DEF Buffered, Distinct
<1>7. NotBehind'
  <2> SUFFICES ASSUME NEW g \in InFlight', NEW i \in 1..Len(spans), NEW j \in 1..Len(batch'[g]),
                      spans[i] = batch'[g][j]
               PROVE  i <= j
    BY <1>2 DEF NotBehind
  <2>1. CASE g = f
    <3>1. j \in 1..Len(spans) /\ batch'[g][j] = spans[j]
      BY <1>1, <2>1 DEF Starts
    <3>2. QED
      BY <3>1 DEF Buffered, Distinct
  <2>2. CASE g # f
    BY <1>1, <1>2, <2>2 DEF NotBehind, InFlight
  <2>3. QED
    BY <2>1, <2>2
<1>8. Fresh'
  <2>1. \A x : Unsent(x) => Unsent(x)'
    BY <1>2 DEF Unsent
  <2>2. \A s \in ToSet(batch'[f]) : Unsent(s)'
    <3> SUFFICES ASSUME NEW s \in ToSet(batch'[f]) PROVE Unsent(s)'
      OBVIOUS
    <3>1. Unsent(s) \/ \E g \in Flushers : flushPc[g] = "answered" /\ s \in ToSet(batch[g])
      BY <1>3 DEF Fresh
    <3>2. ASSUME NEW g \in Flushers, flushPc[g] = "answered", s \in ToSet(batch[g])
          PROVE  s \in retried'
      BY <1>4, <3>2 DEF InFlight
    <3>3. QED
      BY <2>1, <3>1, <3>2 DEF Unsent
  <2>3. (\A c \in Callers : submit[c] \in {"execute", "executing", "add"} => Unsent(own[c]))'
    BY <1>2, <2>1 DEF Fresh
  <2>4. \A g \in Flushers : flushPc'[g] = "sending" => \A s \in ToSet(batch'[g]) : Unsent(s)'
    BY <1>1, <1>2, <2>1, <2>2 DEF Fresh
  <2>5. \A s \in ToSet(spans') :
          Unsent(s)' \/ \E g \in Flushers : flushPc'[g] = "answered" /\ s \in ToSet(batch'[g])
    BY <1>1, <1>2, <2>1 DEF Fresh
  <2>6. QED
    BY <2>3, <2>4, <2>5 DEF Fresh
<1>9. Shared'
  <2>1. \A g \in InFlight' : g = f \/ (g # f /\ g \in InFlight /\ batch'[g] = batch[g])
    BY <1>1, <1>2 DEF InFlight
  <2>2. QED
    BY <1>2, <1>4, <2>1 DEF Shared
<1>10. DuplicatesExplained'
  BY <1>2 DEF DuplicatesExplained
<1>11. QED
  BY <1>5, <1>6, <1>7, <1>8, <1>9, <1>10

LEMMA AnswerDelivery ==
  ASSUME IInv, NEW f \in Flushers, AnswerFlush(f)
  PROVE  DeliveryInv'
<1> USE DEF IInv, DeliveryInv, AnswerFlush, Answer
<1>1. /\ flushPc[f] = "sending" /\ flushPc'[f] = "answered"
      /\ \A g \in Flushers \ {f} : flushPc'[g] = flushPc[g]
      /\ received \subseteq received' /\ received' \subseteq received \cup ToSet(batch[f])
      /\ twice' = twice \cup (ToSet(batch[f]) \cap received)
      /\ UNCHANGED <<spans, batch, added, finished, retried, own, submit>>
  BY DEF TypeOK, BufferTypeOK
<1>2. Arrived' /\ Held' /\ Owned'
  BY <1>1 DEF Arrived, Held, InHand, Owned, Buffered
<1>3. Buffered' /\ NotBehind' /\ Shared'
  BY <1>1 DEF Buffered, Distinct, NotBehind, InFlight, Shared
<1>4. DuplicatesExplained'
  BY <1>1 DEF DuplicatesExplained, Fresh, Unsent
<1>5. Fresh'
  <2>1. \A x : Unsent(x) /\ x \notin ToSet(batch[f]) => Unsent(x)'
    BY <1>1 DEF Unsent
  <2>2. (\A c \in Callers : submit[c] \in {"execute", "executing", "add"} => Unsent(own[c]))'
    <3>1. \A c \in Callers : submit[c] # "idle" => own[c] \notin ToSet(batch[f])
      BY DEF Owned, Buffered, TypeOK
    <3>2. QED
      BY <1>1, <2>1, <3>1 DEF Fresh
  <2>3. \A g \in Flushers : flushPc'[g] = "sending" => \A s \in ToSet(batch'[g]) : Unsent(s)'
    <3> SUFFICES ASSUME NEW g \in Flushers, flushPc'[g] = "sending", NEW s \in ToSet(batch[g])
                 PROVE  Unsent(s)'
      BY <1>1
    <3>1. g # f /\ flushPc[g] = "sending" /\ Unsent(s)
      BY <1>1 DEF Fresh
    <3>2. CASE s \in ToSet(batch[f])
      BY <1>1, <3>1, <3>2 DEF Shared, InFlight, Unsent
    <3>3. QED
      BY <2>1, <3>1, <3>2
  <2>4. \A s \in ToSet(spans') :
          Unsent(s)' \/ \E g \in Flushers : flushPc'[g] = "answered" /\ s \in ToSet(batch'[g])
    BY <1>1, <2>1 DEF Fresh
  <2>5. QED
    BY <2>2, <2>3, <2>4 DEF Fresh
<1>6. QED
  BY <1>2, <1>3, <1>4, <1>5

LEMMA FailsDelivery ==
  ASSUME IInv, NEW f \in Flushers, FailFlush(f)
  PROVE  DeliveryInv'
<1> USE DEF IInv, DeliveryInv, FailFlush, FlushFail
<1>1. /\ flushPc'[f] = "idle" /\ batch'[f] = <<>>
      /\ \A g \in Flushers \ {f} : flushPc'[g] = flushPc[g] /\ batch'[g] = batch[g]
      /\ retried' = retried \cup ToSet(batch[f])
      /\ UNCHANGED <<spans, added, received, finished, twice, own, submit>>
  BY DEF TypeOK, BufferTypeOK
<1>2. ToSet(<<>>) = {}
  BY DEF ToSet
<1>3. Arrived' /\ Held' /\ Owned'
  BY <1>1 DEF Arrived, Held, InHand, Owned
<1>4. Buffered' /\ NotBehind' /\ Shared' /\ DuplicatesExplained'
  BY <1>1, <1>2 DEF Buffered, Distinct, NotBehind, InFlight, Shared, DuplicatesExplained
<1>5. Fresh'
  BY <1>1 DEF Fresh, Unsent
<1>6. QED
  BY <1>3, <1>4, <1>5

LEMMA OkDelivery ==
  ASSUME IInv, NEW f \in Flushers, EndFlush(f)
  PROVE  DeliveryInv'
<1> USE DEF IInv, DeliveryInv, EndFlush, FlushOk
<1>1. /\ flushPc[f] = "answered" /\ flushPc'[f] = "idle" /\ batch'[f] = <<>>
      /\ \A g \in Flushers \ {f} : flushPc'[g] = flushPc[g] /\ batch'[g] = batch[g]
      /\ UNCHANGED <<added, received, finished, twice, retried, own, submit>>
  BY DEF TypeOK, BufferTypeOK
<1>2. ToSet(<<>>) = {}
  BY DEF ToSet
<1>3. /\ LeftOf(spans, spans') /\ spans' \in Seq(Spans) /\ spans \in Seq(Spans)
      /\ batch[f] \in Seq(Spans)
  BY RemainingElements DEF TypeOK, BufferTypeOK, LeftOf
<1>4. \A i \in 1..Len(spans') : \E k \in i..Len(spans) : spans'[i] = spans[k]
  BY <1>3 DEF LeftOf
<1>5. ToSet(spans') \subseteq ToSet(spans)
  BY <1>3, <1>4, ToSetOfSeq
<1>6. Arrived' /\ Held' /\ Owned'
  BY <1>1 DEF Arrived, Held, InHand, Owned
<1>7. Buffered'
  BY <1>1, <1>2, <1>3, <1>5 DEF Buffered, LeftOf
<1>8. NotBehind'
  <2> SUFFICES ASSUME NEW g \in InFlight', NEW i \in 1..Len(spans'), NEW j \in 1..Len(batch'[g]),
                      spans'[i] = batch'[g][j]
               PROVE  i <= j
    BY DEF NotBehind
  <2>1. g \in InFlight /\ batch'[g] = batch[g] /\ Len(batch[g]) \in Nat
    BY <1>1 DEF InFlight, TypeOK, BufferTypeOK
  <2>2. PICK k \in i..Len(spans) : spans'[i] = spans[k]
    BY <1>4
  <2>3. k \in 1..Len(spans) /\ i <= k /\ Len(spans) \in Nat /\ Len(spans') \in Nat
    BY <1>3, <2>2
  <2>4. k <= j
    BY <2>1, <2>2, <2>3 DEF NotBehind
  <2>5. QED
    BY <1>3, <2>1, <2>3, <2>4
<1>9. ToSet(spans') \cap ToSet(batch[f]) = {}
  <2>1. CASE Len(spans) >= Len(batch[f])
    <3> SUFFICES ASSUME NEW i \in 1..Len(spans'), NEW j \in 1..Len(batch[f]),
                        spans'[i] = batch[f][j]
                 PROVE  FALSE
      BY <1>3, ToSetOfSeq
    <3>1. spans' = SubSeq(spans, Len(batch[f]) + 1, Len(spans))
      BY <2>1 DEF Remaining
    <3>0. Len(batch[f]) \in 0..Len(spans)
      BY <1>3, <2>1
    <3>2. LET rest == SubSeq(spans, Len(batch[f]) + 1, Len(spans))
          IN  \A n \in 1..Len(rest) : \E k \in (Len(batch[f]) + 1)..Len(spans) : rest[n] = spans[k]
      BY <1>3, <3>0, CutElements
    <3>3. PICK k \in (Len(batch[f]) + 1)..Len(spans) : spans'[i] = spans[k]
      BY <3>1, <3>2
    <3>4. k \in 1..Len(spans) /\ j < k
      BY <1>3, <3>3
    <3>5. f \in InFlight
      BY <1>1 DEF InFlight
    <3>6. k <= j
      BY <3>3, <3>4, <3>5 DEF NotBehind
    <3>7. QED
      BY <1>3, <3>4, <3>6
  <2>2. CASE ~(Len(spans) >= Len(batch[f]))
    <3>1. spans' = Without(spans, ToSet(batch[f]))
      BY <2>2 DEF Remaining
    <3>2. \A i \in 1..Len(spans') : spans'[i] \notin ToSet(batch[f])
      BY <1>3, <3>1, WithoutElements DEF LeftAfter
    <3>3. QED
      BY <1>3, <3>2, ToSetOfSeq
  <2>3. QED
    BY <2>1, <2>2
<1>10. Fresh'
  <2>1. \A x : Unsent(x) <=> Unsent(x)'
    BY <1>1 DEF Unsent
  <2>2. \A s \in ToSet(spans') :
          Unsent(s)' \/ \E g \in Flushers : flushPc'[g] = "answered" /\ s \in ToSet(batch'[g])
    BY <1>1, <1>5, <1>9, <2>1 DEF Fresh
  <2>3. \A g \in Flushers : flushPc'[g] = "sending" => \A s \in ToSet(batch'[g]) : Unsent(s)'
    BY <1>1, <2>1 DEF Fresh
  <2>4. QED
    BY <1>1, <2>1, <2>2, <2>3 DEF Fresh
<1>11. Shared' /\ DuplicatesExplained'
  BY <1>1, <1>2 DEF Shared, InFlight, DuplicatesExplained
<1>12. QED
  BY <1>6, <1>7, <1>8, <1>10, <1>11

LEMMA DeliveryStutters == IInv /\ UNCHANGED <<buffer, callers, ghosts>> => DeliveryInv'
  BY DEF IInv, DeliveryInv, Arrived, Held, InHand, Owned, Buffered, Distinct, NotBehind,
     InFlight, Fresh, Unsent, Shared, DuplicatesExplained

LEMMA Inductive == IInv /\ [Next]_vars => IInv'
<1> SUFFICES ASSUME IInv, [Next]_vars PROVE IInv'
  OBVIOUS
<1>1. TypeOK' /\ BreakerTypes' /\ BufferInv'
  BY TypeStep, BufferPart
<1>2. DeliveryInv'
  BY Cases, FinishDelivery, MoveDelivery, ArriveDelivery, SubmittedDelivery,
     SubmitFailsDelivery, AddDelivery, BeginDelivery, AnswerDelivery, FailsDelivery,
     OkDelivery, DeliveryStutters DEF IInv
<1>3. QED
  BY <1>1, <1>2 DEF IInv

LEMMA Invariance == Spec => []IInv
  BY InitIInv, Inductive, PTL DEF Spec

(* The tracer's goroutines, worker and Close keep the types of their state *)
(* and of the breaker and buffer they share.                               *)
THEOREM TypeCorrect == Spec => []TypeOK
<1>1. IInv => TypeOK
  BY DEF IInv
<1>2. QED
  BY <1>1, Invariance, PTL

(* A finished span is with its goroutine, in the buffer or at the          *)
(* collector, or fell out of a full buffer, whichever calls the breaker    *)
(* rejects and whichever fail late - until the cut of an overtaken flush.  *)
THEOREM FinishedIsDeliveredOrHeld == Spec => []DeliveredOrHeld
<1>1. IInv => DeliveredOrHeld
  BY DEF IInv, DeliveryInv, Held, BufferInv, Settled, DeliveredOrHeld
<1>2. QED
  BY <1>1, Invariance, PTL

(* The collector stores a span twice only after a call that carried it has *)
(* failed, or while two flushes carry it: overlapping flushes, overflows   *)
(* and cuts at the wrong place resend nothing else.                        *)
THEOREM RetriesExplainDuplicates == Spec => []DuplicatesExplained
<1>1. IInv => DuplicatesExplained
  BY DEF IInv, DeliveryInv
<1>2. QED
  BY <1>1, Invariance, PTL

(* The breaker as the tracer uses it, past its check of IsOpen, does what  *)
(* it does for any callers: every step of the tracer is one of the breaker *)
(* or leaves it alone.  So it keeps its contract, is not wedged half-open  *)
(* and closes below its threshold in the tracer too.                       *)
THEOREM TracerKeepsBreaker ==
  Spec => /\ ContractKept
          /\ [](NotWedged /\ ClosedBelowThreshold)
<1>1. Init => BreakerInit
  BY DEF Init
<1>2. QED
  BY <1>1, StepOfBreaker, BreakerTypesInit, BreakerTypesStep, SlotsInit, SlotsStep, SlotsUse,
     ThresholdInit, ThresholdStep, ContractInit, ContractStep, PTL
     DEF Spec, ContractKept, Contract!Spec

(* The breaker never leaves Open once every goroutine that had passed the  *)
(* IsOpen check is through with Execute's timeout check: no recovery of    *)
(* the collector, no new span, no tick of the worker moves it.             *)
THEOREM OpenIsForEver == Spec => WedgedForever
<1>1. IInv /\ [Next]_vars => [Wedged => Wedged']_vars
  <2> SUFFICES ASSUME TypeOK, Next, Wedged PROVE Wedged'
    BY DEF IInv, Wedged, Stalled
  <2> USE DEF TypeOK, BreakerTypeOK, Wedged, Stalled
  <2>1. state = "Open" /\ \A c \in Callers : submit[c] # "execute" /\ pc[c] # "sawOpen"
    OBVIOUS
  <2>2. ASSUME NEW c \in Callers, NEW s \in Spans, Finish(c, s) PROVE Wedged'
    BY <2>1, <2>2 DEF Finish, Step
  <2>3. ASSUME NEW c \in Callers, Enter(c) PROVE FALSE
    BY <2>1, <2>3 DEF Enter, Step
  <2>4. ASSUME NEW c \in Callers, Proceed(c) \/ Rejected(c) PROVE Wedged'
    BY <2>1, <2>4 DEF Proceed, Rejected, Step, HalfOpenNow, TakeSlot,
       RejectOpen, RejectHalfOpen, Goto
  <2>5. ASSUME NEW c \in Callers, Arrive(c) \/ AddToBuffer(c) PROVE Wedged'
    BY <2>1, <2>5 DEF Arrive, AddToBuffer, Step
  <2>6. ASSUME NEW c \in Callers, Submitted(c) \/ SubmitFails(c) PROVE Wedged'
    <3>1. state' = "Open"
      BY <2>1, <2>6 DEF Submitted, SubmitFails, Succeed, Fail,
         recordSuccess, recordFailure
    <3>2. \A d \in Callers : submit'[d] # "execute" /\ pc'[d] # "sawOpen"
      BY <2>1, <2>6 DEF Submitted, SubmitFails, Step, Succeed, Fail, Return
    <3>3. QED
      BY <3>1, <3>2
  <2>7. CASE UNCHANGED <<state, pc, submit>>
    BY <2>7
  <2>8. QED
    BY <2>2, <2>3, <2>4, <2>5, <2>6, <2>7 DEF Next, Caller, InFlush, AnswerFlush, EndFlush,
       FailFlush, Worker, WorkerConnect, WorkerCheck, WorkerFlush, BeginFlush, Close,
       CloseBegin, CloseFlush, CloseLog, Environment, TimeoutElapses
<1>2. QED
  BY <1>1, Invariance, PTL DEF Spec, WedgedForever
=============================================================================
