----------------------------- MODULE MCMcpStdio -----------------------------
(***************************************************************************)
(* Small instances of McpStdio for TLC.                                    *)
(***************************************************************************)
EXTENDS McpStdio

=============================================================================
