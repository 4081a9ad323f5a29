\* A span and two for which it is responsible, directly or not.
SPECIFICATION Spec
CONSTANTS
  Spans = {s1, s2, s3}
  NoSpan = NoSpan
  MaxFinishes = 1
  MaxFailures = 2
  Unlucky = {s1}
SYMMETRY Symmetry
CHECK_DEADLOCK FALSE
INVARIANTS  InOrderWithoutFailures ChildrenEndFirst
