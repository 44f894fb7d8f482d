------------------------- MODULE MCPathwayRuntime -------------------------
(***************************************************************************)
(* Small instances of PathwayRuntime for TLC.                              *)
(***************************************************************************)
EXTENDS PathwayRuntime

CONSTANTS a1, a2, k1, k2, d1, d2, exec, appr, stop, steward

Req(a, k, d) == [attempt |-> a, key |-> k, print |-> d]

\* One request per attempt.
MCRequests1 == {Req(a1, k1, d1)}
MCRequests2 == {Req(a1, k1, d1), Req(a2, k2, d1)}

\* A caller also reuses an attempt id and its key for other data, and an attempt id
\* for data that is not strict JSON.
MCRequestsMixed == MCRequests2 \cup {Req(a2, k2, d2), Req(a1, k2, d2)}
MCMalformed     == {r \in Requests : r.attempt = a1 /\ r.print = d2}

\* The steward holds repair, evidence, resume and residual ownership.
MCDefinition == [role \in Roles |-> CASE role = "execution_actor" -> exec
                                      [] role = "approval_authority" -> appr
                                      [] role = "stop_authority" -> stop
                                      [] OTHER -> steward]

=============================================================================
