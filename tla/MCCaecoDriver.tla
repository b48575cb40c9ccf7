--------------------------- MODULE MCCaecoDriver ---------------------------
(* Instances of CaecoDriver for TLC; the constants are set in the cfgs.    *)
EXTENDS CaecoDriver
=============================================================================
