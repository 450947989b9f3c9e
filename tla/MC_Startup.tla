----------------------------- MODULE MC_Startup -----------------------------
(* Two metrics are enough: parse_args and set_collect_key treat all four   *)
(* alike.                                                                  *)
EXTENDS Startup

MCMetrics == {"cpu", "memory"}
=============================================================================
