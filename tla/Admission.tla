----------------------------- MODULE Admission -----------------------------
(***************************************************************************)
(* How registration decides the first state of a pathway: the inspection   *)
(* of inspection.py, the answers of a responsibility-pathway evaluator     *)
(* (rpe.py) and their combination in runtime.py.  A definition keeps of    *)
(* its texts only whether they are there.                                  *)
(***************************************************************************)
EXTENDS Naturals

ActionClass == {"observe_only", "suggest_only", "approval_required",
                "reversible_external", "high_impact", "emergency_stop"}

EnvironmentTrust == {"trusted_internal", "semi_trusted", "untrusted_public", "adversarial"}

RuntimeDecision == {"allow", "hold", "human_gate", "deny"}

\* approval:  the approval_authority is None, a blank text, or named.
\* complete:  every required text is there.
\* route:     no responsibility route; a sound one; a sound one that returns to a
\*            human; one whose receiver must be reevaluated; one with a blank
\*            field, no actions, another residual owner or an ineligible receiver.
\* returns:   there is a human_return_point.
\* separated: the stop authority is not the execution actor.
Features == [class : ActionClass, trust : EnvironmentTrust,
             approval : {"none", "blank", "named"}, complete : BOOLEAN,
             route : {"none", "sound", "human", "reevaluate", "defective"},
             returns : BOOLEAN, separated : BOOLEAN]

approval_needed(d) == d.class \in {"approval_required", "reversible_external", "high_impact"}

\* _inspect_responsibility_route reports an error.
RouteErrors(d) == d.route = "defective" \/ (d.route = "human" /\ ~ d.returns)

\* inspect_pathway reports an error.
Invalid(d) ==
  \/ ~ d.complete
  \/ RouteErrors(d)
  \/ approval_needed(d) /\ d.approval # "named"
  \/ d.class = "high_impact" /\ ~ (d.returns /\ d.separated)

\* The decision of inspect_pathway.
inspect_pathway(d) ==
  CASE Invalid(d) \/ d.route = "reevaluate" \/ d.trust = "adversarial" -> "hold"
    [] ~ (Invalid(d) \/ d.route = "reevaluate" \/ d.trust = "adversarial")
         /\ d.class = "high_impact"                                    -> "human_gate"
    [] OTHER                                                           -> "allow"

\* What asking the evaluator leads to: a decision, a response that breaks the
\* contract, no evaluator or one that fails, or an exception no adapter catches.
RpeAnswers == RuntimeDecision \cup {"contract_error", "unavailable", "raises"}

\* The decision register goes on with; it does not go on when evaluate raises.
rpe_decision(answer) == IF answer \in RuntimeDecision THEN answer ELSE "hold"

order == [d \in RuntimeDecision |->
            CASE d = "allow" -> 0 [] d = "hold" -> 1 [] d = "human_gate" -> 2 [] d = "deny" -> 3]

\* Mutant: the milder decision wins.
combine_mild(left, right) == IF order[left] <= order[right] THEN left ELSE right

combine(left, right) == IF order[left] >= order[right] THEN left ELSE right

\* Mutant: a held pathway goes to a human.
initial_state_escalates(decision, approval_configured) ==
  CASE decision = "deny"                   -> "denied"
    [] decision \in {"human_gate", "hold"} -> "human_gate"
    [] OTHER -> IF approval_configured THEN "awaiting_approval" ELSE "approved"

initial_state(decision, approval_configured) ==
  CASE decision = "deny"       -> "denied"
    [] decision = "human_gate" -> "human_gate"
    [] decision = "hold"       -> "held"
    [] OTHER -> IF approval_configured THEN "awaiting_approval" ELSE "approved"

\* The state register creates the pathway in.
first_state(d, answer) ==
  initial_state(combine(inspect_pathway(d), rpe_decision(answer)), d.approval # "none")

=============================================================================
