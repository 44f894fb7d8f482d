---------------------------- MODULE MCBackupSet ----------------------------
(***************************************************************************)
(* A small instance of BackupSet for TLC.                                  *)
(***************************************************************************)
EXTENDS BackupSet, TLC

CONSTANTS a1, a2, k1, k2, d1, exec, appr, stop, steward

Req(a, k) == [attempt |-> a, key |-> k, print |-> d1]

MCRequests == {Req(a1, k1), Req(a2, k2)}

\* The steward holds repair, evidence, resume and residual ownership.
MCDefinition == [role \in Roles |-> CASE role = "execution_actor" -> exec
                                      [] role = "approval_authority" -> appr
                                      [] role = "stop_authority" -> stop
                                      [] OTHER -> steward]

\* The two directories play the same part.
MCDirectories == Permutations(Destinations)

=============================================================================
