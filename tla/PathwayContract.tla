-------------------------- MODULE PathwayContract --------------------------
(***************************************************************************)
(* What the runtime promises of one pathway, without processes, databases  *)
(* or crashes: the state moves along the canonical table, and the executor *)
(* is invoked at most once for each attempt, never before the pathway was  *)
(* admitted to RUNNING.                                                    *)
(***************************************************************************)
EXTENDS PathwayStates, Naturals

CONSTANTS Attempts, InitialStates

VARIABLES
  state,   \* the pathway's state
  count    \* attempt -> invocations of the executor

contractVars == <<state, count>>

\* The states a pathway can be in before it ran; ABORTED is on both sides.
NotStarted == {"proposed", "awaiting_approval", "approved", "held", "human_gate", "denied"}

ContractInit ==
  /\ state \in InitialStates
  /\ count = [a \in Attempts |-> 0]

Move ==
  /\ state' \in ALLOWED_TRANSITIONS[state]
  /\ UNCHANGED count

DispatchOnce(a) ==
  /\ state \notin NotStarted
  /\ count[a] = 0
  /\ count' = [count EXCEPT ![a] = 1]
  /\ UNCHANGED state

ContractNext == Move \/ \E a \in Attempts : DispatchOnce(a)

ContractSpec == ContractInit /\ [][ContractNext]_contractVars

=============================================================================
