---------------------------- MODULE HttpExecutor ----------------------------
(***************************************************************************)
(* HttpMutationExecutor (http_executor.py): one JSON mutation over HTTP,   *)
(* its readback, and the results kept in memory by idempotency key.  The   *)
(* network may lose the request or the response, the server may apply the  *)
(* mutation and still answer with an error, and the process may crash.     *)
(***************************************************************************)
EXTENDS Integers, FiniteSets

CONSTANTS
  Keys,        \* idempotency keys
  Requests,    \* the requests callers submit
  Faults,      \* what else can go wrong, of the following
  MaxCalls,    \* bound on the calls of execute
  MaxCrashes,  \* bound on crashes
  None

\* verify of the readback raises a ValueError, KeyError or TypeError; urlopen raises a
\* ValueError for the Location of a redirect, or an http.client exception.
AllFaults == {"verify_raises", "redirect_error", "protocol_error"}

\* body tells apart two mutations under one key.  "early" is refused by a return
\* before the request is sent (method, header), "invalid" by an exception (url,
\* origin, missing field), "other" asks for another action.
ASSUME HttpAssumption ==
  /\ Requests \subseteq [key : Keys, body : Nat, kind : {"ok", "early", "invalid", "other"}]
  /\ Faults \subseteq AllFaults
  /\ MaxCalls \in Nat /\ MaxCrashes \in Nat
  /\ None \notin Requests

Statuses == {"succeeded", "failed", "write_status_unknown"}

VARIABLES
  cache,     \* _results: key -> the request (its fingerprint) and the status kept
  pc, req,   \* where execute is and for which request
  fate,      \* what became of the request that was sent: see Sent
  sent,      \* request -> how often this process sent it
  observed,  \* requests the readback has verified
  answers,   \* request -> the statuses this process returned for it
  raised,    \* requests whose execute raised
  misread,   \* requests whose answer raised what an invalid request would
  ncalls, crashes

vars == <<cache, pc, req, fate, sent, observed, answers, raised, misread, ncalls, crashes>>

NoResult == [print |-> None, status |-> None]

Init ==
  /\ cache = [k \in Keys |-> NoResult]
  /\ pc = "idle" /\ req = None /\ fate = None
  /\ sent = [r \in Requests |-> 0]
  /\ answers = [r \in Requests |-> {}]
  /\ observed = {} /\ raised = {} /\ misread = {}
  /\ ncalls = 0 /\ crashes = 0

\* execute returns without recording the result.
Answer(r, status) ==
  /\ answers' = [answers EXCEPT ![r] = @ \cup {status}]
  /\ pc' = "idle" /\ req' = None /\ fate' = None

\* Mutant: only a success is worth keeping.
RecordSuccess(status) ==
  /\ Answer(req, status)
  /\ cache' = IF status = "succeeded"
                THEN [cache EXCEPT ![req.key] = [print |-> req, status |-> status]]
                ELSE cache

\* self._results[key] = (fingerprint, result); return result.
Record(status) ==
  /\ Answer(req, status)
  /\ cache' = [cache EXCEPT ![req.key] = [print |-> req, status |-> status]]

-----------------------------------------------------------------------------

\* The result kept for this key, or a conflict when it was another request's.
Replay(r) == IF cache[r.key].print = r THEN cache[r.key].status ELSE "failed"

\* execute up to the request: replay, action, method, headers.
Execute(r) ==
  /\ pc = "idle" /\ ncalls < MaxCalls /\ ncalls' = ncalls + 1
  /\ UNCHANGED observed
  /\ \/ /\ cache[r.key] # NoResult
        /\ Answer(r, Replay(r))
     \/ /\ cache[r.key] = NoResult /\ r.kind \in {"other", "early"}
        /\ Answer(r, "failed")
     \/ /\ cache[r.key] = NoResult /\ r.kind \in {"ok", "invalid"}
        /\ pc' = "open" /\ req' = r
        /\ UNCHANGED <<answers, fate>>
  /\ UNCHANGED <<cache, sent, raised, misread, crashes>>

\* _validate_url and the building of the request raise ValueError, KeyError, TypeError.
Refuse ==
  /\ pc = "open" /\ req.kind = "invalid"
  /\ UNCHANGED <<sent, observed, raised, misread, ncalls, crashes>>
  /\ Record("failed")

\* urlopen puts the request on the wire.  Whether the server applies the mutation the
\* client cannot tell; it gets a response, an HTTPError, another OSError (URLError,
\* timeout), or, where that fault is allowed, one of the other exceptions.
Fates == {"response", "http_error", "os_error"} \cup (Faults \ {"verify_raises"})

Send ==
  /\ pc = "open" /\ req.kind = "ok"
  /\ sent' = [sent EXCEPT ![req] = @ + 1]
  /\ fate' \in Fates
  /\ pc' = "answered"
  /\ UNCHANGED <<cache, req, observed, answers, raised, misread, ncalls, crashes>>

\* Mutant: an HTTP error is taken for a failure.
UnknownAsFailed ==
  /\ pc = "answered" /\ fate \in {"response", "http_error", "os_error"}
  /\ UNCHANGED <<sent, observed, raised, misread, ncalls, crashes>>
  /\ Record(IF fate = "http_error" THEN "failed" ELSE "write_status_unknown")

\* The handlers of HTTPError and of the other OSErrors, and a body that is too large
\* or cannot be read.
Unknown ==
  /\ pc = "answered" /\ fate \in {"response", "http_error", "os_error"}
  /\ UNCHANGED <<sent, observed, raised, misread, ncalls, crashes>>
  /\ Record("write_status_unknown")

\* SUCCEEDED only if the readback verified.
ReadbackStatus(verified) == IF verified THEN "succeeded" ELSE "write_status_unknown"

\* readback.verify compares a field of the response with the parameter expected; what
\* the response says is the server's choice.
Verify ==
  /\ pc = "answered" /\ fate = "response"
  /\ \E verified \in BOOLEAN :
       /\ observed' = IF verified THEN observed \cup {req} ELSE observed
       /\ Record(ReadbackStatus(verified))
  /\ UNCHANGED <<sent, raised, misread, ncalls, crashes>>

\* readback.verify raises a ValueError, KeyError or TypeError, or urlopen a ValueError
\* because the server redirects to what is no URL: the last handler, meant for a request
\* that could not be built, answers.
Misread ==
  /\ pc = "answered"
  /\ \/ fate = "response" /\ "verify_raises" \in Faults
     \/ fate = "redirect_error"
  /\ misread' = misread \cup {req}
  /\ UNCHANGED <<sent, observed, raised, ncalls, crashes>>
  /\ Record("failed")

\* No handler matches an http.client exception (a bad status line, an incomplete
\* read): execute raises and nothing is kept.
ProtocolError ==
  /\ pc = "answered" /\ fate = "protocol_error"
  /\ raised' = raised \cup {req}
  /\ pc' = "idle" /\ req' = None /\ fate' = None
  /\ UNCHANGED <<cache, sent, observed, answers, misread, ncalls, crashes>>

\* The process dies and another one starts with an empty _results.
Crash ==
  /\ crashes < MaxCrashes /\ crashes' = crashes + 1
  /\ cache' = [k \in Keys |-> NoResult]
  /\ pc' = "idle" /\ req' = None /\ fate' = None
  /\ sent' = [r \in Requests |-> 0] /\ raised' = {} /\ misread' = {}
  /\ answers' = [r \in Requests |-> {}] /\ observed' = {}
  /\ UNCHANGED ncalls

\* Every call has been made and has returned.
Finished ==
  /\ ncalls = MaxCalls /\ pc = "idle"
  /\ UNCHANGED vars

Next ==
  \/ \E r \in Requests : Execute(r)
  \/ Refuse \/ Send \/ Unknown \/ Verify \/ Misread \/ ProtocolError
  \/ Crash \/ Finished

Spec == Init /\ [][Next]_vars

-----------------------------------------------------------------------------

TypeOK ==
  /\ cache \in [Keys -> [print : Requests, status : Statuses] \cup {NoResult}]
  /\ pc \in {"idle", "open", "answered"}
  /\ req \in Requests \cup {None} /\ fate \in Fates \cup {None}
  /\ (pc = "idle") = (req = None)
  /\ sent \in [Requests -> 0..MaxCalls]
  /\ observed \subseteq Requests /\ raised \subseteq Requests /\ misread \subseteq Requests
  /\ answers \in [Requests -> SUBSET Statuses]

\* In the life of one process no idempotency key is sent twice, not even for a request
\* that came to nothing known, except for a request whose execute raised.
SentOnceUnlessRaised ==
  \A r, s \in Requests :
    sent[r] > 0 /\ sent[s] > 0 /\ r.key = s.key /\ (r # s \/ sent[r] > 1)
      => r \in raised \/ s \in raised

\* From one start of the process to the next the executor keeps ExecutorContract:
\* SUCCEEDED is only answered to a request that a readback verified, in this call or in
\* the one it replays, and is answered ever after; FAILED never to a request that was put
\* on the wire, whose mutation may have been made.  Excused are requests whose answer was
\* misread, by the readback or as a redirect, which are answered FAILED and replayed so,
\* and those whose execute raised and left nothing to replay.
Promise == INSTANCE ExecutorContract
           WITH Persistent <- FALSE, tries <- sent, done <- observed, said <- answers,
                excused <- raised \cup misread

ImplementsExecutor == Promise!ContractSpec

=============================================================================
