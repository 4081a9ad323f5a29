\* One handler of RPCs and one processor of log files, three spans of a trace
\* each sent twice, one replica.
SPECIFICATION FairProcessSpec
CONSTANTS
  server = server
  processor = processor
  t1 = t1
  root = root
  child = child
  leaf = leaf
  Handlers = {server, processor}
  Processors = {processor}
  Traces = {t1}
  Spans = {root, child, leaf}
  Roots = {root}
  TraceOf <- TraceOfDef
  EndOf <- EndOfDef
  ParentOf <- ParentOfDef
  Batches <- BatchesDef
  Replicas = {r1}
  Old = 1
  ReadFaults = TRUE
  MaxReceived = 1
INVARIANTS AckedStored MetadataMatch PanicsExplained
PROPERTIES NothingCutOff 
