--------------------------- MODULE CircuitBreaker ---------------------------
(***************************************************************************)
(* The circuit breaker of pkg/reliability.go (lines 207-339), shared by    *)
(* every goroutine that finishes a span.                                   *)
(*                                                                         *)
(* Execute takes the lock up to three times and drops it in between, so a  *)
(* caller works with a copy of the state that may be stale.  Each locked   *)
(* section is one action here:                                             *)
(*                                                                         *)
(*     ReadState     lines 252-254   copy cb.state under the read lock     *)
(*     CheckTimeout  lines 257-271   the caller saw Open                   *)
(*     Admit         lines 274-282   the caller holds HalfOpen             *)
(*     Succeed, Fail lines 285-295   fn returned; record its result        *)
(*                                                                         *)
(* The clock is abstracted to the one question the code asks of it:        *)
(* elapsed is time.Since(lastFailureTime) > resetTimeout.                  *)
(***************************************************************************)
EXTENDS Integers, FiniteSets

CONSTANTS Callers,            \* goroutines that call Execute
          Threshold,          \* failureThreshold
          HalfOpenMaxCalls    \* halfOpenMaxCalls

ASSUME CallersFinite == IsFiniteSet(Callers)
ASSUME ThresholdAssumption == Threshold \in Nat \ {0}
ASSUME MaxCallsAssumption == HalfOpenMaxCalls \in Nat \ {0}

VARIABLES state,                  \* cb.state
          failureCount,           \* cb.failureCount
          elapsed,                \* resetTimeout has passed since lastFailureTime
          halfOpenCallCount,      \* cb.halfOpenCallCount
          halfOpenSuccessCount,   \* cb.halfOpenSuccessCount
          pc                      \* where each caller is in Execute

counts  == <<failureCount, elapsed, halfOpenCallCount, halfOpenSuccessCount>>
cb      == <<state, counts>>
breaker == <<cb, pc>>

States == {"Closed", "Open", "HalfOpen"}

\* "sawOpen": about to look at the timeout.  "sawHalfOpen": about to ask for
\* a half-open slot.  "calling": inside fn, admitted because it saw Closed.
\* "trial": inside fn, admitted through a half-open slot.
Phases == {"idle", "sawOpen", "sawHalfOpen", "calling", "trial"}

BreakerTypeOK ==
  /\ state \in States
  /\ failureCount \in Nat
  /\ elapsed \in BOOLEAN
  /\ halfOpenCallCount \in 0..HalfOpenMaxCalls
  /\ halfOpenSuccessCount \in 0..HalfOpenMaxCalls
  /\ pc \in [Callers -> Phases]

Trials == {c \in Callers : pc[c] = "trial"}

\* NewCircuitBreaker leaves lastFailureTime at the zero time, which lies
\* further back than any timeout.
BreakerInit ==
  /\ state = "Closed"
  /\ failureCount = 0
  /\ elapsed = TRUE
  /\ halfOpenCallCount = 0
  /\ halfOpenSuccessCount = 0
  /\ pc = [c \in Callers |-> "idle"]

Goto(c, from, to) == pc[c] = from /\ pc' = [pc EXCEPT ![c] = to]
-----------------------------------------------------------------------------
Seen == [Closed |-> "calling", Open |-> "sawOpen", HalfOpen |-> "sawHalfOpen"]

ReadState(c) ==
  /\ Goto(c, "idle", Seen[state])
  /\ UNCHANGED cb

\* Mutants of HalfOpenNow: the timeout is not asked for; the slots of the
\* previous half-open period are not given back.
HalfOpenNow_NoTimeout(c) ==
  /\ Goto(c, "sawOpen", "sawHalfOpen")
  /\ state' = "HalfOpen"
  /\ halfOpenCallCount' = 0
  /\ halfOpenSuccessCount' = 0
  /\ UNCHANGED <<failureCount, elapsed>>

HalfOpenNow_NoReset(c) ==
  /\ elapsed
  /\ Goto(c, "sawOpen", "sawHalfOpen")
  /\ state' = "HalfOpen"
  /\ UNCHANGED counts

\* The caller decides on the timeout alone: it does not look at cb.state
\* again, which other callers may have moved on in the meantime.
HalfOpenNow(c) ==
  /\ elapsed
  /\ Goto(c, "sawOpen", "sawHalfOpen")
  /\ state' = "HalfOpen"
  /\ halfOpenCallCount' = 0
  /\ halfOpenSuccessCount' = 0
  /\ UNCHANGED <<failureCount, elapsed>>

RejectOpen(c) ==
  /\ ~elapsed
  /\ Goto(c, "sawOpen", "idle")
  /\ UNCHANGED cb

CheckTimeout(c) == HalfOpenNow(c) \/ RejectOpen(c)

TakeSlot(c) ==
  /\ halfOpenCallCount < HalfOpenMaxCalls
  /\ Goto(c, "sawHalfOpen", "trial")
  /\ halfOpenCallCount' = halfOpenCallCount + 1
  /\ UNCHANGED <<state, failureCount, elapsed, halfOpenSuccessCount>>

RejectHalfOpen(c) ==
  /\ halfOpenCallCount >= HalfOpenMaxCalls
  /\ Goto(c, "sawHalfOpen", "idle")
  /\ UNCHANGED cb

Admit(c) == TakeSlot(c) \/ RejectHalfOpen(c)
-----------------------------------------------------------------------------
\* recordFailure and recordSuccess switch on the state at the time the call
\* returns, whatever it was when the call was admitted.
Trip ==
  /\ state' = "Open"
  /\ elapsed' = FALSE

recordFailure ==
  /\ \/ /\ state = "Closed"
        /\ failureCount' = failureCount + 1
        /\ IF failureCount' >= Threshold THEN Trip ELSE UNCHANGED <<state, elapsed>>
     \/ state = "HalfOpen" /\ Trip /\ UNCHANGED failureCount
     \/ state = "Open" /\ UNCHANGED <<state, elapsed, failureCount>>
  /\ UNCHANGED <<halfOpenCallCount, halfOpenSuccessCount>>

\* Mutant of recordSuccess: > for >=, the breaker waits for one success more
\* than it hands out slots.
recordSuccess_OffByOne ==
  /\ \/ /\ state = "Closed"
        /\ failureCount' = 0
        /\ UNCHANGED <<state, halfOpenSuccessCount>>
     \/ /\ state = "HalfOpen"
        /\ halfOpenSuccessCount' = halfOpenSuccessCount + 1
        /\ IF halfOpenSuccessCount' > HalfOpenMaxCalls
           THEN state' = "Closed" /\ failureCount' = 0
           ELSE UNCHANGED <<state, failureCount>>
     \/ state = "Open" /\ UNCHANGED <<state, failureCount, halfOpenSuccessCount>>
  /\ UNCHANGED <<elapsed, halfOpenCallCount>>

recordSuccess ==
  /\ \/ /\ state = "Closed"
        /\ failureCount' = 0
        /\ UNCHANGED <<state, halfOpenSuccessCount>>
     \/ /\ state = "HalfOpen"
        /\ halfOpenSuccessCount' = halfOpenSuccessCount + 1
        /\ IF halfOpenSuccessCount' >= HalfOpenMaxCalls
           THEN state' = "Closed" /\ failureCount' = 0
           ELSE UNCHANGED <<state, failureCount>>
     \/ state = "Open" /\ UNCHANGED <<state, failureCount, halfOpenSuccessCount>>
  /\ UNCHANGED <<elapsed, halfOpenCallCount>>

Return(c) ==
  /\ pc[c] \in {"calling", "trial"}
  /\ pc' = [pc EXCEPT ![c] = "idle"]

Succeed(c) == Return(c) /\ recordSuccess
Fail(c)    == Return(c) /\ recordFailure

\* The clock moves past lastFailureTime + resetTimeout.
TimeoutElapses ==
  /\ ~elapsed
  /\ elapsed' = TRUE
  /\ UNCHANGED <<state, failureCount, halfOpenCallCount, halfOpenSuccessCount, pc>>
-----------------------------------------------------------------------------
InExecute(c) == CheckTimeout(c) \/ Admit(c) \/ Succeed(c) \/ Fail(c)

BreakerNext ==
  \/ \E c \in Callers : ReadState(c) \/ InExecute(c)
  \/ TimeoutElapses

\* A caller inside Execute gets on: the lock is only held for a few
\* assignments, and every fn carries a context deadline (2 s in
\* trySubmitSpan).  Nobody has to start a new call.
BreakerFairness == \A c \in Callers : WF_breaker(InExecute(c))

BreakerSpec == BreakerInit /\ [][BreakerNext]_breaker /\ BreakerFairness
-----------------------------------------------------------------------------
Saturated == state = "HalfOpen" /\ halfOpenCallCount >= HalfOpenMaxCalls

(* The half-open slots are never used up by callers that are gone: when    *)
(* every new caller is turned away with "call limit reached" (line 278),   *)
(* some trial call is still running whose result will move the breaker on. *)
(* Needs the counters reset on every Open -> HalfOpen step and the success *)
(* threshold to be equal to the slot limit.                                *)
NotWedged == Saturated => Trials # {}

(* The strengthening that makes NotWedged inductive: every half-open slot  *)
(* handed out has either been answered by a success or is held by a trial  *)
(* call in flight.  Late successes of calls admitted while Closed only     *)
(* lower the left-hand side.                                               *)
SlotsAccounted ==
  state = "HalfOpen" =>
    /\ halfOpenSuccessCount < HalfOpenMaxCalls
    /\ halfOpenCallCount <= halfOpenSuccessCount + Cardinality(Trials)

(* A closed breaker is always below its failure threshold, also after a    *)
(* stale CheckTimeout has moved it Closed -> HalfOpen with failures on the *)
(* count (line 261) and successes have closed it again.                    *)
ClosedBelowThreshold == state = "Closed" => failureCount < Threshold

(* A saturated half-open breaker does not turn callers away forever: the   *)
(* trial calls in flight end and close, reopen or re-admit.                *)
SaturationResolves == Saturated ~> ~Saturated

(* The breaker behaves as its callers may expect (module BreakerContract): *)
(* it leaves Open only by a probe after the timeout, closes only from a    *)
(* probe, and every opening restarts the timeout.                          *)
Contract == INSTANCE BreakerContract
ContractKept == Contract!Spec
=============================================================================
