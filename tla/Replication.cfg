\* Four collectors, two of them with one id, connected without a cycle; the
\* span is submitted at most once to each.
SPECIFICATION Spec
CONSTANTS
  a = a
  b = b
  c = c
  d = d
  Collectors = {a, b, c, d}
  Ids = {1, 2, 3}
  IdOf <- IdOfDef
  Configured <- Loopless
  MaxSubmits = 1
  MaxStores = 8
CHECK_DEADLOCK FALSE
INVARIANTS OneCopyPerPath QuietMeansReplicated
