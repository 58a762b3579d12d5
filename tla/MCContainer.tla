---------------------------- MODULE MCContainer ----------------------------
(* Container has no model values; its instances differ in their faults.    *)
EXTENDS Container
=============================================================================
