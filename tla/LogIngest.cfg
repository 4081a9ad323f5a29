SPECIFICATION Spec
CONSTANTS
  Names = {n1}
  Files = {f1, f2}
  NoFile = NoFile
  Spans = {s1, s2}
  NoSpan = NoSpan
  Writers = {w1}
  Processors = {p1, p2}
  MaxProcessors = 2
  MaxCrashes = 1
INVARIANTS RetiredIsStored DuplicatesNeedRereads
PROPERTIES LoggedIsStored
CHECK_DEADLOCK FALSE
