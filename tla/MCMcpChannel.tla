---------------------------- MODULE MCMcpChannel ----------------------------
(* Instances of McpChannel for TLC. *)
EXTENDS McpChannel
=============================================================================
