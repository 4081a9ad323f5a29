\* Every trace of up to four spans on two nodes, stored in every order.
SPECIFICATION OrderSpec
CONSTANTS
  Nodes = {n1, n2}
  Spans = {s1, s2, s3, s4}
  NoSpan = NoSpan
  MaxLength = 4
  MaxCopied = 3
  Latencies = {0, 1}
  Statuses = {1, 2}
  MaxReported = 2
  MaxListing = 11
  Outlier = 60
SYMMETRY Symmetry
CHECK_DEADLOCK FALSE
INVARIANTS AncestorsPrecede ClocksCountAncestors OrderIsCausal ConcurrencyFound CriticalPathIsLongest ListingsAgree ReportMatchesSpans RatesOverstate ViewAddsUp 
