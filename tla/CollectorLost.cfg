\* Reads never fail and nothing expires: only the handlers race.
SPECIFICATION Spec
CONSTANTS
  h1 = h1
  h2 = h2
  t1 = t1
  t2 = t2
  root = root
  child = child
  other = other
  Handlers = {h1, h2}
  Traces = {t1, t2}
  Spans = {root, child, other}
  Roots = {root}
  TraceOf <- TraceOfDef
  EndOf <- EndOfDef
  Batches <- BatchesDef
  Old = 0
  ReadFaults = FALSE
  MaxReceived = 2

INVARIANTS ConfirmedIsStored
