\* Two goroutines in persistToDisk, started by the timer and by a flush; a
\* batch of one leaves spans behind to be persisted.  No symmetry: the run
\* checks liveness.
SPECIFICATION Spec
CONSTANTS
  Spans = {s1, s2}
  Size = 2
  Flushers = {worker}
  Rejects = FALSE
  BatchSize = 1
  Persisters = {p1, p2}
  Absent = Absent
  Empty = Empty
  Torn = Torn
INVARIANTS TornOnlyByOverlap 
 
CHECK_DEADLOCK FALSE
