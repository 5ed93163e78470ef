----------------------------- MODULE MCCsmaBus -----------------------------
(* Up to three devices: two in full duplex, or any number in half duplex.  *)
EXTENDS CsmaBus
=============================================================================
