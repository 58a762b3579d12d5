------------------------------ MODULE MCUplink ------------------------------
(* Instances of Uplink for TLC; the bounds are in the configurations.      *)
EXTENDS Uplink
=============================================================================
