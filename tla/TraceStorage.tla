---------------------------- MODULE TraceStorage ----------------------------
(***************************************************************************)
(* What pkg/storage.go promises the collector (StorageInterface, lines     *)
(* 14-27), and what MemoryStorage does under its one lock: a StoreTrace    *)
(* takes effect at one instant between its call and its return, an error   *)
(* leaves open whether it did, and pruning removes expired traces only.    *)
(***************************************************************************)
CONSTANTS Writers,   \* goroutines that store traces
          Traces,    \* trace identifiers
          Values,    \* contents of a trace
          Expired,   \* the contents whose EndTime is past the retention
          Absent     \* no such trace

VARIABLES traces,    \* the stored content of every trace
          request,   \* the call each writer is in: {} or a [trace, value]
          stored     \* writers whose call has taken effect

vars == <<traces, request, stored>>

Init ==
  /\ traces = [t \in Traces |-> Absent]
  /\ request = [w \in Writers |-> {}]
  /\ stored = {}

Call(w) ==
  /\ request[w] = {}
  /\ \E t \in Traces, v \in Values :
       request' = [request EXCEPT ![w] = {[trace |-> t, value |-> v]}]
  /\ UNCHANGED <<traces, stored>>

Store(w) ==
  /\ w \notin stored
  /\ \E r \in request[w] : traces' = [traces EXCEPT ![r.trace] = r.value]
  /\ stored' = stored \cup {w}
  /\ UNCHANGED request

Return(w) ==
  /\ w \in stored
  /\ stored' = stored \ {w}
  /\ request' = [request EXCEPT ![w] = {}]
  /\ UNCHANGED traces

\* The call returns an error, before or after it has taken effect.
Fail(w) ==
  /\ request[w] # {}
  /\ stored' = stored \ {w}
  /\ request' = [request EXCEPT ![w] = {}]
  /\ UNCHANGED traces

Prune(t) ==
  /\ traces[t] \in Expired
  /\ traces' = [traces EXCEPT ![t] = Absent]
  /\ UNCHANGED <<request, stored>>

Restart ==
  /\ request' = [w \in Writers |-> {}]
  /\ stored' = {}
  /\ UNCHANGED traces

Next ==
  \/ \E w \in Writers : Call(w) \/ Store(w) \/ Return(w) \/ Fail(w)
  \/ \E t \in Traces : Prune(t)
  \/ Restart

Spec == Init /\ [][Next]_vars
=============================================================================
