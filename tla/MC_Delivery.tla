---------------------------- MODULE MC_Delivery ----------------------------
(* The instance of Delivery that TLC checks; its constants are numbers,    *)
(* given in the cfg.                                                       *)
EXTENDS Delivery
=============================================================================
