----------------------------- MODULE LogIngestMC -----------------------------
(* LogIngest for TLC. *)
EXTENDS LogIngest
=============================================================================
