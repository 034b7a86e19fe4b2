----------------------------- MODULE MCPingStream -----------------------------
(* Instances of PingStream for TLC. *)
EXTENDS PingStream
=============================================================================
