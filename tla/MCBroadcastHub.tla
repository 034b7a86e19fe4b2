--------------------------- MODULE MCBroadcastHub ---------------------------
(* Instances of BroadcastHub for TLC. *)
EXTENDS BroadcastHub
=============================================================================
