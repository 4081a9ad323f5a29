\* Two collectors that are each other's replica.
SPECIFICATION Spec
CONSTANTS
  a = a
  b = b
  c = c
  d = d
  Collectors = {a, b, c, d}
  Ids = {1, 2, 3}
  IdOf <- IdOfDef
  Configured <- Mutual
  MaxSubmits = 1
  MaxStores = 8
CHECK_DEADLOCK FALSE
INVARIANTS NoLoops
