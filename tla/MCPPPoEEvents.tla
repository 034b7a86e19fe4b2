---------------------------- MODULE MCPPPoEEvents ----------------------------
(* Instances of PPPoEEvents for TLC. *)
EXTENDS PPPoEEvents
=============================================================================
