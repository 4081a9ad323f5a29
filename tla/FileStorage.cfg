\* Two stores at once, of one or of two traces, with an expired and a fresh
\* content, and one round of pruning.
SPECIFICATION Spec
CONSTANTS
  Writers = {w1, w2}
  Traces = {t1, t2}
  Values = {old, new}
  Expired = {old}
  Absent = Absent
  Empty = Empty
  Torn = Torn
  MaxPrunes = 1
SYMMETRY Symmetry
INVARIANTS OneHolder  IndexMatchesFiles
PROPERTIES StorageContract
