--------------------------- MODULE MC_MetricRates ---------------------------
(* Three devices, one of which is a partition among disks and lo among     *)
(* interfaces.                                                             *)
EXTENDS MetricRates

MCListing == <<"a", "x", "b">>
MCWholeDisks == {"a", "b"}
=============================================================================
