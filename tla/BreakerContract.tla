-------------------------- MODULE BreakerContract --------------------------
(***************************************************************************)
(* What a caller of the circuit breaker may rely on, with neither callers, *)
(* nor half-open slots, nor a failure count:                               *)
(*   - the breaker opens only on a failure, which restarts the timeout;    *)
(*   - an open breaker blocks until the timeout has elapsed, then probes;  *)
(*   - only a probing breaker closes.                                      *)
(* A probe may also start on a breaker that is not open, because a caller  *)
(* may act on a state it read long ago; even then the timeout has elapsed. *)
(***************************************************************************)
VARIABLES state, elapsed

vars == <<state, elapsed>>

Init == state = "Closed" /\ elapsed = TRUE

Trip  == state # "Open" /\ state' = "Open" /\ elapsed' = FALSE
Probe == elapsed /\ state' = "HalfOpen" /\ UNCHANGED elapsed
Close == state = "HalfOpen" /\ state' = "Closed" /\ UNCHANGED elapsed
Tick  == elapsed' = TRUE /\ UNCHANGED state

Next == Trip \/ Probe \/ Close \/ Tick

Spec == Init /\ [][Next]_vars
=============================================================================
