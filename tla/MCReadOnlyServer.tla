-------------------------- MODULE MCReadOnlyServer --------------------------
(***************************************************************************)
(* A small instance of ReadOnlyServer for TLC: the registrations of        *)
(* MCPathwayRegistry, with a reader beside them.                           *)
(***************************************************************************)
EXTENDS MCPathwayRegistry, ReadOnlyServer

=============================================================================
