-------------------------- MODULE MC_RetryBackoff --------------------------
(* RetryBackoff over every retry_backoff_seconds that the parser accepts.  *)
EXTENDS RetryBackoff

MCAllBackoffs == 0 .. 3600
=============================================================================
