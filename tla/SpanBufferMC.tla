---------------------------- MODULE SpanBufferMC ----------------------------
(* SpanBuffer for TLC: spans and flushers are interchangeable. *)
EXTENDS SpanBuffer, TLC

Symmetry == Permutations(Spans) \cup Permutations(Flushers)
=============================================================================
