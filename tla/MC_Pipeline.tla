---------------------------- MODULE MC_Pipeline ----------------------------
(* Small instances of Pipeline for TLC: one metric that needs an earlier   *)
(* snapshot and one that does not.                                         *)
EXTENDS Pipeline

MCMetricOrder == <<"cpu", "memory">>
MCDeltaMetrics == {"cpu"}
MCSigs == {"SIGINT", "SIGTERM"}
MCOneSig == {"SIGTERM"}
=============================================================================
