--------------------------- MODULE PathwayStates ---------------------------
(***************************************************************************)
(* The canonical pathway state machine of _generated_transitions.py and    *)
(* the authority rules of authority.py.  Everything here is a constant     *)
(* operator; the modules that keep state extend it.                        *)
(***************************************************************************)

CONSTANTS
  Actors,      \* identities that may call the runtime
  NoActor,     \* approval_authority when the definition declares none
  Definition   \* the registered PathwayDefinition: role -> actor

\* The roles of a PathwayDefinition that authority.py, repair.py and diagnostics.py
\* consult.
Roles == {"decision_owner", "execution_actor", "approval_authority", "stop_authority", "repair_owner",
          "evidence_owner", "resume_authority", "residual_owner"}

\* Only the approval authority is optional.
ASSUME DefinitionAssumption ==
  /\ NoActor \notin Actors
  /\ Definition \in [Roles -> Actors \cup {NoActor}]
  /\ \A role \in Roles \ {"approval_authority"} : Definition[role] \in Actors

PathwayState ==
  {"proposed", "awaiting_approval", "approved", "running", "held", "human_gate",
   "stopped", "partially_completed", "write_status_unknown", "repair_required",
   "ready_to_resume", "completed", "denied", "aborted"}

ALLOWED_TRANSITIONS ==
  [s \in PathwayState |->
     CASE s = "proposed"             -> {"awaiting_approval", "approved", "denied"}
       [] s = "awaiting_approval"    -> {"approved", "denied", "human_gate"}
       [] s = "approved"             -> {"running", "held", "aborted"}
       [] s = "running"              -> {"completed", "stopped", "partially_completed",
                                         "write_status_unknown", "repair_required"}
       [] s = "held"                 -> {"human_gate", "approved", "aborted"}
       [] s = "human_gate"           -> {"approved", "denied", "aborted"}
       [] s = "stopped"              -> {"repair_required", "aborted"}
       [] s = "partially_completed"  -> {"repair_required"}
       [] s = "write_status_unknown" -> {"completed", "repair_required"}
       [] s = "repair_required"      -> {"ready_to_resume", "aborted"}
       [] s = "ready_to_resume"      -> {"running", "aborted"}
       [] OTHER                      -> {}]

TERMINAL_STATES == {"completed", "denied", "aborted"}

\* ensure_transition returns; it raises InvalidTransition otherwise.
ensure_transition(current, target) == target \in ALLOWED_TRANSITIONS[current]

authorize_execution_access(actor) == actor = Definition["execution_actor"]

authorize_reconciliation_access(actor) ==
  actor \in {Definition["repair_owner"], Definition["evidence_owner"]}

\* The actors a generic transition to target accepts when RUNNING, ABORTED and
\* the completion of an unknown write are set aside; a missing approval
\* authority accepts nobody, a target without a rule accepts anybody.
required_authority(target) ==
  CASE target = "approved"                          -> {Definition["approval_authority"]} \ {NoActor}
    [] target \in {"stopped", "held", "human_gate"} -> {Definition["stop_authority"]}
    [] target \in {"repair_required", "ready_to_resume"} -> {Definition["repair_owner"]}
    [] target \in {"completed", "partially_completed", "write_status_unknown"}
                                                    -> {Definition["execution_actor"]}
    [] OTHER                                        -> Actors

\* States from which the resume authority may also enter RUNNING.
ResumableStates == {"ready_to_resume", "stopped", "held"}

authorize_transition(current, target, actor) ==
  /\ ~ (current = "write_status_unknown" /\ target = "completed")
  /\ target # "aborted"
  /\ IF target = "running"
     THEN \/ actor = Definition["execution_actor"]
          \/ current \in ResumableStates /\ actor = Definition["resume_authority"]
     ELSE actor \in required_authority(target)

=============================================================================
