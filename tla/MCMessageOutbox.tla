-------------------------- MODULE MCMessageOutbox --------------------------
(***************************************************************************)
(* Small instances of MessageOutbox for TLC.                               *)
(***************************************************************************)
EXTENDS MessageOutbox, TLC

CONSTANTS k1, k2, d1, d2, d3

Req(k, d, kind) == [key |-> k, print |-> d, kind |-> kind]

\* Two good messages that compete for a key, one that is refused with and one
\* without a stored failure, and one that asks for another action.
MCRequests == {Req(k1, d1, "ok"), Req(k1, d2, "ok"),
               Req(k2, d1, "blank"), Req(k2, d2, "missing"), Req(k2, d3, "other")}

Perms == Permutations(Procs)

=============================================================================
