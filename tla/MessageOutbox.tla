--------------------------- MODULE MessageOutbox ---------------------------
(***************************************************************************)
(* OutboundMessageExecutor and SQLiteOutbox (message_executor.py): several *)
(* processes send messages through one durable outbox.  The intent is      *)
(* recorded before the transport is called and the receipt after it; a     *)
(* process can crash between any two steps.                                *)
(***************************************************************************)
EXTENDS Integers, FiniteSets

CONSTANTS
  Procs,       \* processes with an executor
  Keys,        \* idempotency keys
  Prints,      \* fingerprints of action and parameters
  Requests,    \* the requests callers submit
  Faults,      \* the exceptions that are not OSErrors: of the "transport", of "storage"
  MaxCrashes,  \* bound on crashes
  None

\* "blank" has an empty recipient or body, "missing" has none, "other" asks for
\* another action.
Kinds == {"ok", "blank", "missing", "other"}

ASSUME OutboxAssumption ==
  /\ Requests \subseteq [key : Keys, print : Prints, kind : Kinds]
  /\ \A r, q \in Requests : r.key = q.key /\ r.print = q.print => r.kind = q.kind
  /\ Faults \subseteq {"transport", "storage"}
  /\ MaxCrashes \in Nat
  /\ None \notin Requests /\ None \notin Prints /\ None \notin {"durable", "weak"}

VARIABLES
  outbox,     \* key -> its row, or NoRow
  call,       \* what each process has in memory
  sent,       \* request -> how often the transport was called for it
  delivered,  \* requests whose message was delivered
  answers,    \* request -> the statuses returned for it so far
  faulted,    \* requests of which an execution met an exception that is no OSError
  crashes

vars == <<outbox, call, sent, delivered, answers, faulted, crashes>>

\* A receipt is durable when it is accepted, durable and names a message.
Receipts == {"durable", "weak"}
Statuses == {"succeeded", "failed", "write_status_unknown"}

Rows  == [print : Prints, status : {"prepared", "failed", "finished"}, receipt : Receipts \cup {None}]
NoRow == [print |-> None, status |-> None, receipt |-> None]

Idle == [pc |-> "idle", req |-> None, receipt |-> None]

TypeOK ==
  /\ outbox \in [Keys -> Rows \cup {NoRow}]
  /\ call \in [Procs -> [pc : {"idle", "begin", "refuse", "send", "sending", "finish"},
                         req : Requests \cup {None}, receipt : Receipts \cup {None}]]
  /\ sent \in [Requests -> Nat]
  /\ delivered \subseteq Requests
  /\ answers \in [Requests -> SUBSET Statuses]
  /\ faulted \subseteq Requests
  /\ crashes \in 0..MaxCrashes

Init ==
  /\ outbox = [k \in Keys |-> NoRow]
  /\ call = [p \in Procs |-> Idle]
  /\ sent = [r \in Requests |-> 0]
  /\ delivered = {}
  /\ answers = [r \in Requests |-> {}]
  /\ faulted = {}
  /\ crashes = 0

At(p, label)   == call[p].pc = label
Goto(p, label) == call' = [call EXCEPT ![p].pc = label]

\* execute returns an ExecutionResult with this status for r.
Answer(p, r, status) ==
  /\ call' = [call EXCEPT ![p] = Idle]
  /\ answers' = [answers EXCEPT ![r] = @ \cup {status}]

\* Mutant: a receipt that is not durable is taken for a failure.
from_receipt_pessimist(receipt) == IF receipt = "durable" THEN "succeeded" ELSE "failed"

\* _from_receipt
from_receipt(receipt) == IF receipt = "durable" THEN "succeeded" ELSE "write_status_unknown"

Execute(p, r) ==
  /\ At(p, "idle")
  /\ IF r.kind = "other" THEN Answer(p, r, "failed")
     ELSE /\ call' = [call EXCEPT ![p] = [Idle EXCEPT !.pc = "begin", !.req = r]]
          /\ UNCHANGED answers
  /\ UNCHANGED <<outbox, sent, delivered, crashes, faulted>>

\* outbox.begin inserts the intent; the parameters are looked at afterwards.
BeginFresh(p) ==
  LET r == call[p].req
  IN  /\ At(p, "begin")
      /\ outbox[r.key] = NoRow
      /\ outbox' = [outbox EXCEPT ![r.key] =
                      [print |-> r.print, status |-> "prepared", receipt |-> None]]
      /\ CASE r.kind = "ok"    -> Goto(p, "send") /\ UNCHANGED answers
           [] r.kind = "blank" -> Goto(p, "refuse") /\ UNCHANGED answers
           [] OTHER            -> Answer(p, r, "failed")
      /\ UNCHANGED <<sent, delivered, crashes, faulted>>

\* Mutant: a prepared row without a receipt is sent again.
BeginResend(p) ==
  LET r == call[p].req row == outbox[call[p].req.key]
  IN  /\ At(p, "begin")
      /\ row # NoRow
      /\ IF row.print = r.print /\ row.receipt = None THEN Goto(p, "send") /\ UNCHANGED answers
         ELSE Answer(p, r, IF row.print = r.print THEN from_receipt(row.receipt) ELSE "failed")
      /\ UNCHANGED <<outbox, sent, delivered, crashes, faulted>>

\* outbox.begin finds the key: a replay, or a conflict with other data.
BeginReplay(p) ==
  LET r == call[p].req row == outbox[call[p].req.key]
  IN  /\ At(p, "begin")
      /\ row # NoRow
      /\ Answer(p, r, CASE row.print # r.print   -> "failed"
                        [] row.print = r.print /\ row.receipt = None -> "write_status_unknown"
                        [] OTHER                 -> from_receipt(row.receipt))
      /\ UNCHANGED <<outbox, sent, delivered, crashes, faulted>>

\* outbox.finish
finish(key, status, receipt) ==
  outbox' = [outbox EXCEPT ![key].status = status, ![key].receipt = receipt]

Refuse(p) ==
  /\ At(p, "refuse")
  /\ finish(call[p].req.key, "failed", None)
  /\ Answer(p, call[p].req, "failed")
  /\ UNCHANGED <<sent, delivered, crashes, faulted>>

\* transport.send is external: the message is delivered or not.
Send(p) ==
  /\ At(p, "send")
  /\ sent' = [sent EXCEPT ![call[p].req] = @ + 1]
  /\ delivered' \in {delivered, delivered \cup {call[p].req}}
  /\ Goto(p, "sending")
  /\ UNCHANGED <<outbox, answers, crashes, faulted>>

\* It returns a receipt (a durable one tells the truth), or raises.
SendReturns(p) ==
  /\ At(p, "sending")
  /\ \E receipt \in Receipts :
       /\ receipt = "durable" => call[p].req \in delivered
       /\ call' = [call EXCEPT ![p].pc = "finish", ![p].receipt = receipt]
  /\ UNCHANGED <<outbox, sent, delivered, answers, crashes, faulted>>

SendRaises(p) ==
  /\ At(p, "sending")
  /\ \/ Answer(p, call[p].req, "write_status_unknown") /\ UNCHANGED faulted
     \/ /\ "transport" \in Faults
        /\ Answer(p, call[p].req, "failed")
        /\ faulted' = faulted \cup {call[p].req}
  /\ UNCHANGED <<outbox, sent, delivered, crashes>>

\* Mutant: the receipt is not stored.
FinishForgets(p) ==
  /\ At(p, "finish")
  /\ finish(call[p].req.key, "finished", None)
  /\ Answer(p, call[p].req, from_receipt(call[p].receipt))
  /\ UNCHANGED <<sent, delivered, crashes, faulted>>

Finish(p) ==
  /\ At(p, "finish")
  /\ finish(call[p].req.key, "finished", call[p].receipt)
  /\ Answer(p, call[p].req, from_receipt(call[p].receipt))
  /\ UNCHANGED <<sent, delivered, crashes, faulted>>

\* sqlite3.Error is no OSError: execute answers FAILED wherever it comes from.
StorageFails(p) ==
  /\ "storage" \in Faults
  /\ call[p].pc \in {"begin", "refuse", "finish"}
  /\ Answer(p, call[p].req, "failed")
  /\ faulted' = faulted \cup {call[p].req}
  /\ UNCHANGED <<outbox, sent, delivered, crashes>>

Crash(p) ==
  /\ ~ At(p, "idle")
  /\ crashes < MaxCrashes
  /\ crashes' = crashes + 1
  /\ call' = [call EXCEPT ![p] = Idle]
  /\ UNCHANGED <<outbox, sent, delivered, answers, faulted>>

Next ==
  \E p \in Procs :
    \/ \E r \in Requests : Execute(p, r)
    \/ BeginFresh(p) \/ BeginReplay(p) \/ Refuse(p)
    \/ Send(p) \/ SendReturns(p) \/ SendRaises(p) \/ Finish(p)
    \/ StorageFails(p) \/ Crash(p)

Spec == Init /\ [][Next]_vars

-----------------------------------------------------------------------------
\* The transport is called at most once for an idempotency key, by whatever
\* process and after whatever crash (outbox.begin before transport.send).
SentAtMostOnce ==
  \A r, q \in Requests : r.key = q.key /\ sent[r] > 0 /\ sent[q] > 0 => r = q /\ sent[r] = 1

\* FAILED is only returned for a message the transport was never asked to send,
\* so that a repaired attempt may send it again (the except clauses of execute):
\* the one way round it is an exception that is no OSError.
FailedIsUnsent ==
  \A r \in Requests \ faulted : "failed" \in answers[r] => sent[r] = 0

\* All processes and their successors together keep ExecutorContract: a key is sent
\* once, FAILED is answered before the transport is called, SUCCEEDED for what is
\* delivered and ever after, since the receipt is stored before the answer is given.
\* Excused is a request of which an execution met an exception that is no OSError.
Promise == INSTANCE ExecutorContract
           WITH Persistent <- TRUE, tries <- sent, done <- delivered, said <- answers,
                excused <- faulted

ImplementsExecutor == Promise!ContractSpec

=============================================================================
