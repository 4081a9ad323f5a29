----------------------------- MODULE ReportsMC ------------------------------
(* SpanOrder, TraceAnalysis and Reports for TLC. *)
EXTENDS Reports

Symmetry == Permutations(Spans) \cup Permutations(Nodes)
=============================================================================
