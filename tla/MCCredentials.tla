-------------------------- MODULE MCCredentials --------------------------
(* Two CLI processes beside the service.  There is no symmetry: the run    *)
(* checks a liveness property.                                             *)
EXTENDS Credentials
=============================================================================
