---------------------------- MODULE FileExecutor ----------------------------
(***************************************************************************)
(* LocalFileExecutor (executor.py): replacing the text of one file under   *)
(* the executor's root.  Each executor remembers its results by            *)
(* idempotency key in memory only; several executors, and other programs,  *)
(* share the file.  A check, the replacement and the readback are separate *)
(* steps, and an executor can crash between them.                          *)
(***************************************************************************)
EXTENDS Integers, FiniteSets

CONSTANTS
  Executors,   \* processes, each with its own LocalFileExecutor
  Keys,        \* idempotency keys
  Texts,       \* contents of the file
  Requests,    \* the requests callers submit
  MaxCalls,    \* bound on the calls of execute
  MaxCrashes,  \* bound on crashes
  MaxOthers,   \* bound on the writes and deletions by other programs
  None

\* "outside" names a path out of the root, "other" asks for another action.
ASSUME FileAssumption ==
  /\ Requests \subseteq [key : Keys, text : Texts, expected : Texts \cup {None},
                         kind : {"ok", "outside", "other"}]
  /\ MaxCalls \in Nat /\ MaxCrashes \in Nat /\ MaxOthers \in Nat
  /\ None \notin Texts /\ None \notin Requests

Statuses == {"succeeded", "failed", "write_status_unknown"}

VARIABLES
  file,     \* the text of the target, or None
  cache,    \* executor -> key -> the request (its fingerprint) and the result kept
  call,     \* executor -> where its call is, for which request, and whether some
            \* other one wrote the file since its check
  wrote,    \* executor -> request -> how often it wrote the file for it since it started
  answers,  \* executor -> request -> the statuses it returned for it since it started
  lost,     \* a replacement was made whose precondition did not hold, although no one
            \* wrote the file after the check
  ncalls, crashes, others

vars == <<file, cache, call, wrote, answers, lost, ncalls, crashes, others>>

NoResult == [print |-> None, status |-> None]
Idle     == [pc |-> "idle", req |-> None, touched |-> FALSE]

\* _fingerprint hashes all of a request but its key; here the request is its own print.
Init ==
  /\ file \in Texts \cup {None}
  /\ cache = [e \in Executors |-> [k \in Keys |-> NoResult]]
  /\ call = [e \in Executors |-> Idle]
  /\ wrote = [e \in Executors |-> [r \in Requests |-> 0]]
  /\ answers = [e \in Executors |-> [r \in Requests |-> {}]]
  /\ lost = FALSE
  /\ ncalls = 0 /\ crashes = 0 /\ others = 0

\* What executor f has in memory once someone else has written the file.
Touched(f) == [call[f] EXCEPT !.touched = call[f].pc # "idle"]

\* execute returns without recording the result.
Answer(e, r, status) ==
  /\ call' = [call EXCEPT ![e] = Idle]
  /\ answers' = [answers EXCEPT ![e][r] = @ \cup {status}]

\* Mutant: the result of the exception path is returned at once.
RecordDefinite(e, status) ==
  /\ Answer(e, call[e].req, status)
  /\ cache' = IF status = "write_status_unknown" THEN cache
              ELSE [cache EXCEPT ![e][call[e].req.key] = [print |-> call[e].req, status |-> status]]

\* self._results[key] = (fingerprint, result); return result.
Record(e, status) ==
  /\ Answer(e, call[e].req, status)
  /\ cache' = [cache EXCEPT ![e][call[e].req.key] = [print |-> call[e].req, status |-> status]]

-----------------------------------------------------------------------------

\* The result kept for this key, or a conflict when it was another request's.
Replay(e, r) == IF cache[e][r.key].print = r THEN cache[e][r.key].status ELSE "failed"

\* execute up to the end of the replay and action checks.
Execute(e, r) ==
  /\ call[e].pc = "idle" /\ ncalls < MaxCalls /\ ncalls' = ncalls + 1
  /\ IF cache[e][r.key] # NoResult
       THEN Answer(e, r, Replay(e, r))
       ELSE IF r.kind = "other"
              THEN Answer(e, r, "failed")
              ELSE /\ call' = [call EXCEPT ![e] = [pc |-> "check", req |-> r, touched |-> FALSE]]
                   /\ UNCHANGED answers
  /\ UNCHANGED <<file, cache, wrote, lost, crashes, others>>

\* Mutant: the precondition is not looked at.
precondition_ignored(r) == FALSE

\* expected_sha256 is given, the target exists, and it holds something else.
precondition_failed(r) == r.expected # None /\ file # None /\ file # r.expected

\* _resolve and the precondition.
Check(e) ==
  LET r == call[e].req
  IN  /\ call[e].pc = "check"
      /\ \/ r.kind = "outside" /\ Record(e, "write_status_unknown")
         \/ r.kind = "ok" /\ precondition_failed(r) /\ Answer(e, r, "failed") /\ UNCHANGED cache
         \/ r.kind = "ok" /\ ~precondition_failed(r)
            /\ call' = [call EXCEPT ![e] = [@ EXCEPT !.pc = "replace", !.touched = FALSE]]
            /\ UNCHANGED <<cache, answers>>
  /\ UNCHANGED <<file, wrote, lost, ncalls, crashes, others>>

\* The temporary file is written and flushed and replaces the target in one step.
Replace(e) ==
  LET r == call[e].req
  IN  /\ call[e].pc = "replace"
      /\ file' = r.text
      /\ wrote' = [wrote EXCEPT ![e][r] = @ + 1]
      /\ lost' = (lost \/ (r.expected # None /\ file \notin {None, r.expected} /\ ~ call[e].touched))
      /\ call' = [f \in Executors |-> IF f = e THEN [call[f] EXCEPT !.pc = "readback"] ELSE Touched(f)]
  /\ UNCHANGED <<cache, answers, ncalls, crashes, others>>

\* SUCCEEDED when the file read back has the hash of what was written.
ReadbackResult(e) ==
  IF file = call[e].req.text THEN "succeeded" ELSE "write_status_unknown"

Readback(e) ==
  /\ call[e].pc = "readback"
  /\ Record(e, ReadbackResult(e))
  /\ UNCHANGED <<file, wrote, lost, ncalls, crashes, others>>

\* An OSError of any operation on the file system, before or after the replacement.
OSFails(e) ==
  /\ call[e].pc \in {"check", "replace", "readback"}
  /\ Record(e, "write_status_unknown")
  /\ UNCHANGED <<file, wrote, lost, ncalls, crashes, others>>

\* The process dies and another one starts with an empty _results.
Crash(e) ==
  /\ crashes < MaxCrashes /\ crashes' = crashes + 1
  /\ call' = [call EXCEPT ![e] = Idle]
  /\ cache' = [cache EXCEPT ![e] = [k \in Keys |-> NoResult]]
  /\ wrote' = [wrote EXCEPT ![e] = [r \in Requests |-> 0]]
  /\ answers' = [answers EXCEPT ![e] = [r \in Requests |-> {}]]
  /\ UNCHANGED <<file, lost, ncalls, others>>

\* Another program writes the file or deletes it.
Other ==
  /\ others < MaxOthers /\ others' = others + 1
  /\ file' \in Texts \cup {None}
  /\ call' = [f \in Executors |-> Touched(f)]
  /\ UNCHANGED <<cache, wrote, answers, lost, ncalls, crashes>>

\* Every call has been made and has returned.
Finished ==
  /\ ncalls = MaxCalls /\ \A e \in Executors : call[e] = Idle
  /\ UNCHANGED vars

Next ==
  \/ \E e \in Executors :
       \/ \E r \in Requests : Execute(e, r)
       \/ Check(e) \/ Replace(e) \/ Readback(e) \/ OSFails(e) \/ Crash(e)
  \/ Other \/ Finished

Spec == Init /\ [][Next]_vars

-----------------------------------------------------------------------------

TypeOK ==
  /\ file \in Texts \cup {None}
  /\ cache \in [Executors -> [Keys -> [print : Requests, status : Statuses] \cup {NoResult}]]
  /\ call \in [Executors -> [pc : {"idle", "check", "replace", "readback"},
                             req : Requests \cup {None}, touched : BOOLEAN]]
  /\ wrote \in [Executors -> [Requests -> Nat]]
  /\ answers \in [Executors -> [Requests -> SUBSET Statuses]]

\* Every executor keeps ExecutorContract from one start to the next: it writes once for a
\* key, whatever text comes under it and whatever became of the first call; a request it has
\* written the file for is never answered FAILED, although a retry would find its own
\* text where it expected the old one; SUCCEEDED is only answered to a request whose text
\* this executor itself wrote, in this call or in the one it replays, and is answered
\* ever after.
Promise(e) == INSTANCE ExecutorContract
              WITH Persistent <- FALSE, tries <- wrote[e], said <- answers[e],
                   done <- {r \in Requests : wrote[e][r] > 0}, excused <- {}

ImplementsExecutor ==
  /\ \A e \in Executors : Promise(e)!New
  /\ [][\A e \in Executors : UNCHANGED <<wrote[e], answers[e]>> \/ Promise(e)!ContractNext]_vars

\* An executor never replaces a text other than the one the caller expected, also
\* after a crash and a retry, unless someone else writes between its check and its
\* replacement.
PreconditionHonoured == ~lost
=============================================================================
