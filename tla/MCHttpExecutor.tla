--------------------------- MODULE MCHttpExecutor ---------------------------
(***************************************************************************)
(* Instances of HttpExecutor: two mutations under one key, one under       *)
(* another, and requests of each kind that is refused.                     *)
(***************************************************************************)
EXTENDS HttpExecutor

CONSTANTS k1, k2

Req(key, body, kind) == [key |-> key, body |-> body, kind |-> kind]

AllRequests ==
  {Req(k1, 1, "ok"), Req(k1, 2, "ok"), Req(k2, 1, "ok"),
   Req(k2, 2, "invalid"), Req(k2, 2, "early"), Req(k1, 1, "other")}
=============================================================================
