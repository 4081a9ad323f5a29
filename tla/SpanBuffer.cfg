\* Twice as many spans as fit, so that the buffer overflows while a batch is
\* on its way; the worker and Close overlap.
SPECIFICATION BufferSpec
CONSTANTS
  Spans = {s1, s2, s3, s4}
  Size = 2
  Flushers = {worker, close}
  Rejects = TRUE
SYMMETRY Symmetry
INVARIANTS BatchIsPrefix LossOnlyWhenOvertaken
CHECK_DEADLOCK FALSE
