\* Two spans and a buffer of one: the buffer overflows, flushes overlap, the
\* breaker opens while the other caller is past IsOpen, and Close runs, all at
\* once.  The collector stores every span of a batch.  No symmetry, because the
\* run also checks liveness.
SPECIFICATION Spec
CONSTANTS
  Callers = {c1, c2}
  Spans = {s1, s2}
  NoSpan = NoSpan
  Size = 1
  MaxBatchSize = 1
  Flushers = {"worker", "close"}
  Rejects = FALSE
  Threshold = 1
  HalfOpenMaxCalls = 1
INVARIANTS DeliveredOrHeld 
PROPERTIES WedgedForever DrainsUnlessOpen
CHECK_DEADLOCK FALSE
