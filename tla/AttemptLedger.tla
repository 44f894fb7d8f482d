--------------------------- MODULE AttemptLedger ---------------------------
(***************************************************************************)
(* The persistent execution-attempt ledger of attempts.py.  Each action    *)
(* below is one BEGIN IMMEDIATE ... COMMIT transaction on the ledger       *)
(* database, which is a different database from the pathway store.         *)
(***************************************************************************)
EXTENDS Integers

CONSTANTS
  Attempts,   \* attempt identifiers
  Keys,       \* idempotency keys
  Prints,     \* request fingerprints (operation, action and parameters)
  Requests,   \* the ExecutionRequests callers submit for the pathway
  Malformed,  \* those of them whose data is not strict JSON within the bounds
  None        \* no attempt, no request, no row, no state

ASSUME LedgerAssumption ==
  /\ Requests \subseteq [attempt : Attempts, key : Keys, print : Prints]
  /\ Malformed \subseteq Requests
  /\ None \notin Attempts \cup Requests

VARIABLE ledger   \* attempt id -> its row, or None

\* What an ExecutionResult says: a success with or without verified readback,
\* a failure, or WRITE_STATUS_UNKNOWN.
Results == {"verified", "unverified", "failed", "unknown"}

\* A classified result no longer admits observation by reconciliation.
Classified == Results \ {"unknown"}

\* The evidence of a result: within the bounds of the evidence store's redaction
\* policy, beyond them but within the wider ones of the ledger, or beyond both.
Shapes == {"plain", "large", "foreign"}

\* _strict_result_json accepts the result; RedactionPolicy.redact accepts the event.
Persistable(shape) == shape # "foreign"
Recordable(shape)  == shape = "plain"

\* A row is "started" while its result_json is NULL.
Rows == [key : Keys, print : Prints, status : {"started"} \cup Results, shape : Shapes]

NoRow == [key |-> None, print |-> None, status |-> None, shape |-> None]

LedgerTypeOK == ledger \in [Attempts -> Rows \cup {NoRow}]

LedgerInit == ledger = [a \in Attempts |-> NoRow]

Present(a) == ledger[a] # NoRow

\* The rows begin's SELECT matches: by attempt id, or by idempotency key.
Matching(r) == {a \in Attempts : Present(a) /\ (a = r.attempt \/ ledger[a].key = r.key)}

\* The request has a fingerprint; begin raises AttemptFingerprintError otherwise.
fingerprint(r) == r \notin Malformed

\* begin raises AttemptConflictError when the row it fetched has other data;
\* which of two matching rows is fetched is left to SQLite.
Replays(r, a) == fingerprint(r) /\ a \in Matching(r) /\ ledger[a].print = r.print
Conflicts(r)  == ~ fingerprint(r) \/ \E a \in Matching(r) : ledger[a].print # r.print

\* begin inserts a fresh "started" row.
begin_insert(r) ==
  /\ fingerprint(r)
  /\ Matching(r) = {}
  /\ ledger' = [ledger EXCEPT ![r.attempt] =
                  [key |-> r.key, print |-> r.print, status |-> "started", shape |-> "plain"]]

\* Mutant of finish: the row count of the UPDATE is not checked.
finish_unchecked(a, result, shape) ==
  ledger' = [ledger EXCEPT ![a].status = result, ![a].shape = shape]

\* finish and mark_result_persistence_unknown overwrite whatever the row holds;
\* they raise KeyError when there is no row.
finish(a, result, shape) ==
  /\ Present(a)
  /\ ledger' = [ledger EXCEPT ![a].status = result, ![a].shape = shape]

\* mark_result_persistence_unknown writes an unknown without evidence.
mark_result_persistence_unknown(a) == finish(a, "unknown", "plain")

\* Mutant of Discardable: the DELETE has no condition on the status.
DiscardableAlways(a) == Present(a)

\* discard_started deletes a row only while it is "started" without a result.
Discardable(a) == ledger[a].status = "started"

discard_started(a) ==
  ledger' = IF Discardable(a) THEN [ledger EXCEPT ![a] = NoRow] ELSE ledger

=============================================================================
