-------------------------- MODULE ExecutorContract --------------------------
(***************************************************************************)
(* What an executor promises to the runtime that dispatches attempts to it *)
(* (Executor and ExecutionResult in executor.py), whatever it acts on: an  *)
(* idempotency key is acted on once, FAILED is answered while nothing was  *)
(* attempted, SUCCEEDED when the effect is known, and a success is final.  *)
(* A request is excused when its execution met what the executor has no    *)
(* answer for; each executor says which these are.                         *)
(***************************************************************************)
EXTENDS Naturals

CONSTANTS
  Requests,   \* records with a key
  Persistent  \* what was done and answered survives a restart

VARIABLES
  tries,   \* request -> how often its effect was attempted
  done,    \* requests whose effect is known to have taken place
  said,    \* request -> the statuses answered for it
  excused  \* requests the promises leave out

contractVars == <<tries, done, said, excused>>

ExecutionStatus == {"succeeded", "failed", "write_status_unknown"}

\* An executor that nothing was asked of.
New ==
  /\ tries = [r \in Requests |-> 0]
  /\ done = {}
  /\ said = [r \in Requests |-> {}]
  /\ excused = {}

\* The effect of r is attempted, the first under its key.
Try(r) ==
  /\ \A q \in Requests : q.key = r.key /\ tries[q] > 0 => q \in excused
  /\ tries' = [tries EXCEPT ![r] = @ + 1]
  /\ done' \in {done, done \cup {r}}
  /\ UNCHANGED <<said, excused>>

\* r is answered, and its effect may become known with that or its excuse arise.
Say(r, status) ==
  /\ done' \in {done, done \cup {r}} /\ excused' \in {excused, excused \cup {r}}
  /\ r \in done' => tries[r] > 0
  /\ r \notin excused' =>
       /\ status = "succeeded" => r \in done'
       /\ status = "failed" => tries[r] = 0
       /\ "succeeded" \in said[r] => status = "succeeded"
  /\ said' = [said EXCEPT ![r] = @ \cup {status}]
  /\ UNCHANGED tries

\* An execution ends without an answer.
Raise(r) ==
  /\ excused' = excused \cup {r}
  /\ UNCHANGED <<tries, done, said>>

\* A restart of an executor that keeps everything in memory.
Restart == ~ Persistent /\ New'

ContractNext ==
  \/ \E r \in Requests : Try(r) \/ Raise(r) \/ \E status \in ExecutionStatus : Say(r, status)
  \/ Restart

ContractSpec == New /\ [][ContractNext]_contractVars

=============================================================================
