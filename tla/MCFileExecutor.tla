--------------------------- MODULE MCFileExecutor ---------------------------
(***************************************************************************)
(* Instances of FileExecutor: an update from one text to the next and back *)
(* under two keys, the same key with another text, and requests that are   *)
(* refused.                                                                *)
(***************************************************************************)
EXTENDS FileExecutor, TLC

CONSTANTS k1, k2, t1, t2

Req(key, text, expected, kind) == [key |-> key, text |-> text, expected |-> expected, kind |-> kind]

AllRequests ==
  {Req(k1, t2, t1, "ok"), Req(k2, t1, t2, "ok"), Req(k1, t1, None, "ok"),
   Req(k2, t1, None, "outside"), Req(k2, t2, None, "other")}

Perms == Permutations(Executors)
=============================================================================
