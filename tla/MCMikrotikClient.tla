--------------------------- MODULE MCMikrotikClient ---------------------------
(* Instances of MikrotikClient for TLC. *)
EXTENDS MikrotikClient
=============================================================================
