------------------------- MODULE MCCaecoHandshake -------------------------
(* Instances of CaecoHandshake for TLC; the constants are set in the cfgs. *)
EXTENDS CaecoHandshake
=============================================================================
