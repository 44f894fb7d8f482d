--------------------------- MODULE MCMcpLifecycle ---------------------------
(***************************************************************************)
(* Instances of McpLifecycle for TLC.                                      *)
(***************************************************************************)
EXTENDS McpLifecycle

=============================================================================
