----------------------------- MODULE HttpProofs -----------------------------
(***************************************************************************)
(* In the life of one process no idempotency key is sent twice unless an   *)
(* execute raised, and the executor keeps ExecutorContract from one start  *)
(* to the next, for all requests, faults and bounds.                       *)
(***************************************************************************)
EXTENDS HttpExecutor, TLAPS

KeptResult == [print : Requests, status : Statuses]

\* The types, with the number of sends bounded by the number of calls.
HttpTypes ==
  /\ cache \in [Keys -> KeptResult \cup {NoResult}]
  /\ pc \in {"idle", "open", "answered"}
  /\ req \in Requests \cup {None} /\ fate \in Fates \cup {None}
  /\ (pc = "idle") = (req = None)
  /\ sent \in [Requests -> Nat] /\ ncalls \in 0..MaxCalls
  /\ \A r \in Requests : sent[r] <= ncalls /\ (pc = "open" => sent[r] < ncalls)
  /\ observed \subseteq Requests /\ raised \subseteq Requests /\ misread \subseteq Requests
  /\ answers \in [Requests -> SUBSET Statuses]

\* A request under way has no result kept for its key.
UnderWay == pc # "idle" => cache[req.key] = NoResult

\* A result kept under a key is one of a request with that key, and grounded.
KeptGrounded ==
  \A k \in Keys : cache[k] # NoResult =>
    /\ cache[k].print.key = k
    /\ cache[k].status = "succeeded" => cache[k].print \in observed
    /\ cache[k].status = "failed" /\ sent[cache[k].print] > 0 => cache[k].print \in raised \cup misread

\* A request that was sent raised, or its result is kept, or it is under way.
Accounted ==
  \A r \in Requests : sent[r] > 0 =>
    \/ r \in raised
    \/ cache[r.key] # NoResult /\ cache[r.key].print = r
    \/ pc = "answered" /\ req = r

\* Only a request that raised is sent again.
SentAgain == \A r \in Requests : sent[r] > 1 => r \in raised

\* What was read back, or will be, was sent.
Seen ==
  /\ \A r \in observed : sent[r] > 0
  /\ pc = "answered" => sent[req] > 0

\* An answered success is kept.
SuccessKept ==
  \A r \in Requests : "succeeded" \in answers[r] =>
    cache[r.key] # NoResult /\ cache[r.key].print = r /\ cache[r.key].status = "succeeded"

\* The inductive invariant.
HttpInv ==
  HttpTypes /\ UnderWay /\ KeptGrounded /\ Accounted /\ SentAgain /\ Seen /\ SuccessKept

\* A request has a key, and None is none of its kinds of data.
LEMMA RequestShape ==
  ASSUME NEW r \in Requests
  PROVE  r.key \in Keys /\ r # None
  BY HttpAssumption

\* A kept result is not the absence of one.
LEMMA KeptIsKept ==
  ASSUME NEW r \in Requests, NEW s \in Statuses
  PROVE  /\ [print |-> r, status |-> s] \in KeptResult
         /\ [print |-> r, status |-> s] # NoResult
  BY HttpAssumption DEF KeptResult, NoResult

\* A new process satisfies the invariant.
LEMMA HttpInitially == Init => HttpInv
  BY HttpAssumption
  DEF Init, HttpInv, HttpTypes, UnderWay, KeptGrounded, Accounted, SentAgain, Seen, SuccessKept,
      NoResult, KeptResult

\* What an answer changes.
LEMMA Answered ==
  ASSUME HttpTypes, NEW r \in Requests, NEW status \in Statuses, Answer(r, status)
  PROVE  /\ answers' \in [Requests -> SUBSET Statuses]
         /\ \A q \in Requests : answers'[q] = IF q = r THEN answers[q] \cup {status} ELSE answers[q]
         /\ pc' = "idle" /\ req' = None /\ fate' = None
  BY DEF HttpTypes, Answer

\* Recording a grounded result of the request under way keeps the invariant.
LEMMA RecordKeeps ==
  ASSUME HttpInv, NEW status \in Statuses, pc # "idle", Record(status),
         UNCHANGED <<sent, raised, ncalls>>,
         observed' \in {observed, observed \cup {req}}, sent[req] > 0 \/ UNCHANGED observed,
         misread' \subseteq Requests, misread \subseteq misread',
         status = "succeeded" => req \in observed',
         status = "failed" /\ sent[req] > 0 => req \in raised' \cup misread'
  PROVE  HttpInv'
  <1> DEFINE kept == [print |-> req, status |-> status]
  <1>1. req \in Requests /\ req.key \in Keys
    BY RequestShape DEF HttpInv, HttpTypes
  <1>2. kept \in KeptResult /\ kept # NoResult /\ kept.print = req /\ kept.status = status
    BY <1>1, KeptIsKept
  <1>3. cache' = [cache EXCEPT ![req.key] = kept]
    BY DEF Record
  <1> HIDE DEF kept
  <1>4. /\ pc' = "idle" /\ req' = None /\ fate' = None
        /\ answers' \in [Requests -> SUBSET Statuses]
        /\ \A q \in Requests : answers'[q] = IF q = req THEN answers[q] \cup {status} ELSE answers[q]
    BY <1>1, Answered DEF HttpInv, Record
  <1>5. observed' \subseteq Requests /\ observed \subseteq observed' /\ Seen'
    BY <1>1, <1>4 DEF HttpInv, HttpTypes, Seen
  <1>6. HttpTypes'
    BY <1>1, <1>2, <1>3, <1>4, <1>5 DEF HttpInv, HttpTypes
  <1>7. \A k \in Keys : cache'[k] = IF k = req.key THEN kept ELSE cache[k]
    BY <1>1, <1>3 DEF HttpInv, HttpTypes
  <1>8. UnderWay'
    BY <1>4 DEF UnderWay
  <1>9. KeptGrounded'
    BY <1>1, <1>2, <1>7 DEF HttpInv, KeptGrounded
  <1>10. Accounted'
    <2> SUFFICES ASSUME NEW r \in Requests, sent[r] > 0, r \notin raised
                 PROVE  cache'[r.key] # NoResult /\ cache'[r.key].print = r
      BY DEF Accounted
    <2>1. r.key \in Keys
      BY RequestShape
    <2>2. CASE r = req
      BY <1>2, <1>7, <2>1, <2>2
    <2>3. CASE r # req
      <3>1. cache[r.key] # NoResult /\ cache[r.key].print = r
        BY <2>3 DEF HttpInv, Accounted
      <3>2. r.key # req.key
        BY <3>1 DEF HttpInv, UnderWay
      <3> QED
        BY <1>7, <2>1, <3>1, <3>2
    <2> QED
      BY <2>2, <2>3
  <1>11. SentAgain'
    BY DEF HttpInv, SentAgain
  <1>12. SuccessKept'
    <2> SUFFICES ASSUME NEW r \in Requests, "succeeded" \in answers'[r]
                 PROVE  /\ cache'[r.key] # NoResult /\ cache'[r.key].print = r
                        /\ cache'[r.key].status = "succeeded"
      BY DEF SuccessKept
    <2>1. r.key \in Keys
      BY RequestShape
    <2>2. CASE "succeeded" \in answers[r]
      <3>1. r.key # req.key
        BY <2>2 DEF HttpInv, SuccessKept, UnderWay
      <3> QED
        BY <1>7, <2>1, <2>2, <3>1 DEF HttpInv, SuccessKept
    <2>3. CASE "succeeded" \notin answers[r]
      <3>1. r = req /\ status = "succeeded"
        BY <1>4, <2>3
      <3> QED
        BY <1>2, <1>7, <2>1, <3>1
    <2> QED
      BY <2>2, <2>3
  <1> QED
    BY <1>5, <1>6, <1>8, <1>9, <1>10, <1>11, <1>12 DEF HttpInv

\* Every step keeps the invariant.
LEMMA HttpStep == HttpInv /\ [Next]_vars => HttpInv'
  <1> SUFFICES ASSUME HttpInv, [Next]_vars PROVE HttpInv'
    OBVIOUS
  <1> USE DEF HttpInv
  <1>0. \A r \in Requests : r.key \in Keys /\ r # None
    BY RequestShape
  <1>1. ASSUME NEW r \in Requests, Execute(r) PROVE HttpInv'
    <2>1. /\ pc = "idle" /\ ncalls' = ncalls + 1 /\ ncalls < MaxCalls
          /\ UNCHANGED <<cache, sent, observed, raised, misread>>
      BY <1>1 DEF Execute
    <2>2. ncalls' \in 0..MaxCalls /\ \A s \in Requests : sent[s] < ncalls'
      BY <2>1, HttpAssumption DEF HttpTypes
    <2>3. KeptGrounded' /\ SentAgain'
      BY <2>1 DEF KeptGrounded, SentAgain
    <2>4. ASSUME NEW status \in Statuses, Answer(r, status),
                 status = "succeeded" => cache[r.key] # NoResult /\ cache[r.key].print = r
                                         /\ cache[r.key].status = "succeeded"
          PROVE  HttpInv'
      <3>1. /\ answers' \in [Requests -> SUBSET Statuses]
            /\ \A q \in Requests : answers'[q] = IF q = r THEN answers[q] \cup {status} ELSE answers[q]
            /\ pc' = "idle" /\ req' = None /\ fate' = None
        BY <2>4, Answered
      <3>2. SuccessKept'
        BY <2>1, <2>4, <3>1 DEF SuccessKept
      <3>3. HttpTypes'
        BY <2>1, <2>2, <3>1 DEF HttpTypes
      <3>4. UnderWay' /\ Accounted' /\ Seen'
        BY <2>1, <3>1 DEF UnderWay, Accounted, Seen
      <3> QED
        BY <2>3, <3>2, <3>3, <3>4
    <2>5. CASE cache[r.key] # NoResult /\ Answer(r, Replay(r))
      <3>1. cache[r.key] \in KeptResult
        BY <1>0, <2>5 DEF HttpTypes
      <3>2. Replay(r) \in Statuses
        BY <3>1 DEF Replay, KeptResult, Statuses
      <3>3. Replay(r) = "succeeded" => cache[r.key].print = r /\ cache[r.key].status = "succeeded"
        BY DEF Replay
      <3> QED
        BY <2>4, <2>5, <3>2, <3>3
    <2>6. CASE cache[r.key] = NoResult /\ Answer(r, "failed")
      BY <2>4, <2>6 DEF Statuses
    <2>7. CASE cache[r.key] = NoResult /\ pc' = "open" /\ req' = r /\ UNCHANGED <<answers, fate>>
      <3>1. HttpTypes'
        BY <1>0, <2>1, <2>2, <2>7 DEF HttpTypes
      <3>2. UnderWay' /\ Accounted'
        BY <2>1, <2>7 DEF UnderWay, Accounted
      <3>3. SuccessKept' /\ Seen'
        BY <2>1, <2>7 DEF SuccessKept, Seen
      <3> QED
        BY <2>3, <3>1, <3>2, <3>3
    <2> QED
      BY <1>1, <2>5, <2>6, <2>7 DEF Execute
  <1>2. CASE Refuse
    <2>1. sent[req] > 0 => req \in raised
      BY <1>0, <1>2 DEF Refuse, Accounted, UnderWay, HttpTypes
    <2> QED
      BY <1>2, <2>1, RecordKeeps DEF Refuse, Statuses, HttpTypes
  <1>3. CASE Send
    <2>1. /\ pc = "open" /\ pc' = "answered" /\ fate' \in Fates /\ req \in Requests
          /\ sent' = [sent EXCEPT ![req] = @ + 1]
          /\ UNCHANGED <<cache, req, observed, answers, raised, misread, ncalls>>
      BY <1>3 DEF Send, HttpTypes
    <2>2. \A r \in Requests : sent'[r] = IF r = req THEN sent[r] + 1 ELSE sent[r]
      BY <2>1 DEF HttpTypes
    <2>3. sent' \in [Requests -> Nat] /\ \A r \in Requests : sent'[r] <= ncalls'
      BY <2>1, <2>2 DEF HttpTypes
    <2>4. HttpTypes'
      BY <2>1, <2>3 DEF HttpTypes
    <2>5. UnderWay' /\ SuccessKept' /\ Seen'
      BY <2>1, <2>2 DEF UnderWay, SuccessKept, Seen, HttpTypes
    <2>6. KeptGrounded'
      <3> SUFFICES ASSUME NEW k \in Keys, cache[k] # NoResult
                   PROVE  /\ cache[k].print.key = k
                          /\ cache[k].status = "succeeded" => cache[k].print \in observed
                          /\ cache[k].status = "failed" /\ sent'[cache[k].print] > 0
                               => cache[k].print \in raised \cup misread
        BY <2>1 DEF KeptGrounded
      <3>1. cache[k].print \in Requests
        BY DEF HttpTypes, KeptResult
      <3>2. cache[k].print # req
        BY <2>1 DEF KeptGrounded, UnderWay
      <3> QED
        BY <2>2, <3>1, <3>2 DEF KeptGrounded
    <2>7. Accounted'
      BY <2>1, <2>2 DEF Accounted
    <2>8. SentAgain'
      BY <2>1, <2>2 DEF SentAgain, Accounted, UnderWay, HttpTypes
    <2> QED
      BY <2>4, <2>5, <2>6, <2>7, <2>8
  <1>4. CASE Unknown
    BY <1>4, RecordKeeps DEF Unknown, Statuses, HttpTypes
  <1>5. CASE Verify
    <2>1. PICK verified \in BOOLEAN :
            /\ observed' = IF verified THEN observed \cup {req} ELSE observed
            /\ Record(ReadbackStatus(verified))
      BY <1>5 DEF Verify
    <2>2. req \in Requests
      BY <1>5 DEF Verify, HttpTypes
    <2>3. /\ ReadbackStatus(verified) \in Statuses
          /\ ReadbackStatus(verified) = "succeeded" => req \in observed'
          /\ ReadbackStatus(verified) # "failed"
          /\ sent[req] > 0
      BY <1>5, <2>1 DEF ReadbackStatus, Statuses, Seen, Verify
    <2> QED
      BY <1>5, <2>1, <2>2, <2>3, RecordKeeps DEF Verify, HttpTypes
  <1>6. CASE Misread
    <2>1. req \in Requests
      BY <1>6 DEF Misread, HttpTypes
    <2> QED
      BY <1>6, <2>1, RecordKeeps DEF Misread, Statuses, HttpTypes
  <1>7. CASE ProtocolError
    <2>1. /\ pc = "answered" /\ pc' = "idle" /\ req' = None /\ fate' = None
          /\ req \in Requests /\ raised' = raised \cup {req}
          /\ UNCHANGED <<cache, sent, observed, answers, misread, ncalls>>
      BY <1>7 DEF ProtocolError, HttpTypes
    <2>2. HttpTypes'
      BY <2>1 DEF HttpTypes
    <2>3. UnderWay' /\ KeptGrounded' /\ SentAgain' /\ Seen' /\ SuccessKept'
      BY <2>1 DEF UnderWay, KeptGrounded, SentAgain, Seen, SuccessKept
    <2>4. Accounted'
      BY <2>1 DEF Accounted
    <2> QED
      BY <2>2, <2>3, <2>4
  <1>8. CASE Crash
    <2>1. \A k \in Keys : cache'[k] = NoResult
      BY <1>8 DEF Crash
    <2>2. \A r \in Requests : sent'[r] = 0
      BY <1>8 DEF Crash
    <2>3. HttpTypes'
      BY <1>8, <2>2 DEF Crash, HttpTypes
    <2> QED
      BY <1>8, <2>1, <2>2, <2>3
      DEF Crash, UnderWay, KeptGrounded, Accounted, SentAgain, Seen, SuccessKept
  <1>9. CASE UNCHANGED vars
    BY <1>9 DEF vars, HttpTypes, UnderWay, KeptGrounded, Accounted, SentAgain, Seen, SuccessKept
  <1> QED
    BY <1>1, <1>2, <1>3, <1>4, <1>5, <1>6, <1>7, <1>8, <1>9 DEF Next, Finished

\* HttpInv holds in every behaviour of the executor.
THEOREM HttpInvHolds == Spec => []HttpInv
  BY HttpInitially, HttpStep, PTL DEF Spec

\* The types of the executor's state, with no more sends than calls.
THEOREM HttpTypeCorrect == Spec => []TypeOK
  <1>1. HttpInv => TypeOK
    BY HttpAssumption DEF HttpInv, HttpTypes, TypeOK, KeptResult
  <1> QED
    BY <1>1, HttpInvHolds, PTL

\* In the life of one process no idempotency key is sent twice, except for a request
\* whose execute raised (the replay of HttpMutationExecutor.execute).
THEOREM SentOnceUnlessRaisedHolds == Spec => []SentOnceUnlessRaised
  <1>1. HttpInv => SentOnceUnlessRaised
    <2> SUFFICES ASSUME HttpInv, NEW r \in Requests, NEW s \in Requests,
                        sent[r] > 0, sent[s] > 0, r.key = s.key, r # s \/ sent[r] > 1,
                        r \notin raised, s \notin raised
                 PROVE  FALSE
      BY DEF SentOnceUnlessRaised
    <2>1. r # s
      BY DEF HttpInv, SentAgain
    <2> QED
      BY <2>1 DEF HttpInv, Accounted, UnderWay
  <1> QED
    BY <1>1, HttpInvHolds, PTL

\* The first attempt under a key, or one after an execute that raised (urlopen).
LEMMA SendTries ==
  ASSUME HttpInv, Send
  PROVE  \E r \in Requests : Promise!Try(r)
  <1>1. /\ pc = "open" /\ req \in Requests /\ cache[req.key] = NoResult
        /\ sent' = [sent EXCEPT ![req] = @ + 1]
        /\ UNCHANGED <<observed, answers, raised, misread>>
    BY DEF Send, HttpInv, HttpTypes, UnderWay
  <1>2. \A q \in Requests : q.key = req.key /\ sent[q] > 0 => q \in raised
    BY <1>1 DEF HttpInv, Accounted
  <1> QED
    BY <1>1, <1>2 DEF Promise!Try

\* An answer that the contract allows: nothing is sent, and at most the request that is
\* answered is read back or excused.
LEMMA AnswerSays ==
  ASSUME HttpInv, NEW r \in Requests, NEW status \in Statuses, Answer(r, status), UNCHANGED sent,
         observed' \in {observed, observed \cup {r}}, observed' = observed \/ sent[r] > 0,
         (raised \cup misread)' \in {raised \cup misread, raised \cup misread \cup {r}},
         status = "succeeded" => r \in observed',
         status = "failed" /\ sent[r] > 0 => r \in (raised \cup misread)',
         "succeeded" \in answers[r] => status = "succeeded"
  PROVE  Promise!Say(r, status) /\ status \in Promise!ExecutionStatus
  <1>1. r \in observed' => sent[r] > 0
    BY DEF HttpInv, Seen
  <1>2. answers' = [answers EXCEPT ![r] = @ \cup {status}]
    BY DEF Answer
  <1>3. sent[r] = 0 \/ sent[r] > 0
    BY DEF HttpInv, HttpTypes
  <1> QED
    BY <1>1, <1>2, <1>3 DEF Promise!Say, Promise!ExecutionStatus, Statuses

\* A result that is recorded was never answered otherwise.
LEMMA RecordSays ==
  ASSUME HttpInv, pc # "idle", NEW status \in Statuses, Record(status), UNCHANGED sent,
         observed' \in {observed, observed \cup {req}}, observed' = observed \/ sent[req] > 0,
         (raised \cup misread)' \in {raised \cup misread, raised \cup misread \cup {req}},
         status = "succeeded" => req \in observed',
         status = "failed" /\ sent[req] > 0 => req \in (raised \cup misread)'
  PROVE  \E r \in Requests : \E s \in Promise!ExecutionStatus : Promise!Say(r, s)
  <1>1. req \in Requests /\ "succeeded" \notin answers[req]
    BY DEF HttpInv, HttpTypes, UnderWay, SuccessKept
  <1>2. Promise!Say(req, status) /\ status \in Promise!ExecutionStatus
    BY <1>1, AnswerSays DEF Record
  <1> QED
    BY <1>1, <1>2

\* The answers of execute before anything is opened: replays, conflicts and refusals.
LEMMA ExecuteSays ==
  ASSUME HttpInv, NEW r \in Requests, Execute(r)
  PROVE  \/ UNCHANGED <<sent, observed, answers, raised, misread>>
         \/ \E s \in Promise!ExecutionStatus : Promise!Say(r, s)
  <1>1. pc = "idle" /\ UNCHANGED <<cache, sent, observed, raised, misread>> /\ r.key \in Keys
    BY RequestShape DEF Execute
  <1>2. CASE cache[r.key] # NoResult /\ Answer(r, Replay(r))
    <2>1. cache[r.key] \in KeptResult
      BY <1>1, <1>2 DEF HttpInv, HttpTypes
    <2>2. Replay(r) \in Statuses
      BY <2>1 DEF Replay, KeptResult, Statuses
    <2>3. Replay(r) = "succeeded" => r \in observed
      BY <1>1, <1>2 DEF Replay, HttpInv, KeptGrounded
    <2>4. Replay(r) = "failed" /\ sent[r] > 0 => r \in raised \cup misread
      BY <1>1, <1>2 DEF Replay, HttpInv, KeptGrounded, Accounted
    <2>5. "succeeded" \in answers[r] => Replay(r) = "succeeded"
      BY DEF Replay, HttpInv, SuccessKept
    <2> QED
      BY <1>1, <1>2, <2>2, <2>3, <2>4, <2>5, AnswerSays
  <1>3. CASE cache[r.key] = NoResult /\ Answer(r, "failed")
    <2>1. sent[r] > 0 => r \in raised
      BY <1>1, <1>3 DEF HttpInv, Accounted
    <2>2. "succeeded" \notin answers[r]
      BY <1>3 DEF HttpInv, SuccessKept
    <2> QED
      BY <1>1, <1>3, <2>1, <2>2, AnswerSays DEF Statuses
  <1> QED
    BY <1>1, <1>2, <1>3 DEF Execute

\* The executor keeps ExecutorContract from one start of the process to the next
\* (HttpMutationExecutor): a key is on the wire once, SUCCEEDED is only answered to a
\* request that a readback verified and ever after, FAILED never to one on the wire,
\* apart from answers that were misread and executes that raised.
THEOREM ImplementsExecutorHolds == Spec => ImplementsExecutor
  <1>1. Init => Promise!New
    BY DEF Init, Promise!New
  <1>2. HttpInv /\ [Next]_vars => [Promise!ContractNext]_(Promise!contractVars)
    <2> SUFFICES ASSUME HttpInv, [Next]_vars PROVE Promise!ContractNext \/ UNCHANGED Promise!contractVars
      OBVIOUS
    <2>0. ASSUME \E r \in Requests : \E s \in Promise!ExecutionStatus : Promise!Say(r, s)
          PROVE  Promise!ContractNext
      BY <2>0 DEF Promise!ContractNext
    <2>1. ASSUME NEW r \in Requests, Execute(r) PROVE Promise!ContractNext \/ UNCHANGED Promise!contractVars
      BY <2>0, <2>1, ExecuteSays DEF Promise!contractVars
    <2>2. CASE Refuse
      <3>1. sent[req] > 0 => req \in raised
        BY <2>2, RequestShape DEF Refuse, HttpInv, Accounted, UnderWay, HttpTypes
      <3> QED
        BY <2>0, <2>2, <3>1, RecordSays DEF Refuse, Statuses
    <2>3. CASE Send
      BY <2>3, SendTries DEF Promise!ContractNext
    <2>4. CASE Unknown
      BY <2>0, <2>4, RecordSays DEF Unknown, Statuses
    <2>5. CASE Verify
      <3>1. PICK verified \in BOOLEAN :
              /\ observed' = IF verified THEN observed \cup {req} ELSE observed
              /\ Record(ReadbackStatus(verified))
        BY <2>5 DEF Verify
      <3>2. /\ ReadbackStatus(verified) \in Statuses
            /\ ReadbackStatus(verified) = "succeeded" => req \in observed'
            /\ ReadbackStatus(verified) # "failed"
        BY <3>1 DEF ReadbackStatus, Statuses
      <3>3. sent[req] > 0 /\ pc # "idle" /\ UNCHANGED <<sent, raised, misread>>
        BY <2>5 DEF Verify, HttpInv, Seen
      <3> QED
        BY <2>0, <3>1, <3>2, <3>3, RecordSays
    <2>6. CASE Misread
      <3>1. /\ pc # "idle" /\ Record("failed") /\ "failed" \in Statuses /\ UNCHANGED <<sent, observed>>
            /\ (raised \cup misread)' = raised \cup misread \cup {req}
        BY <2>6 DEF Misread, Statuses
      <3> QED
        BY <2>0, <3>1, RecordSays
    <2>7. CASE ProtocolError
      <3>1. /\ req \in Requests /\ (raised \cup misread)' = raised \cup misread \cup {req}
            /\ UNCHANGED <<sent, observed, answers>>
        BY <2>7 DEF ProtocolError, HttpInv, HttpTypes
      <3>2. Promise!Raise(req)
        BY <3>1 DEF Promise!Raise
      <3> QED
        BY <3>1, <3>2 DEF Promise!ContractNext
    <2>8. CASE Crash
      BY <2>8 DEF Crash, Promise!ContractNext, Promise!Restart, Promise!New
    <2>9. CASE UNCHANGED vars
      BY <2>9 DEF vars, Promise!contractVars
    <2> QED
      BY <2>1, <2>2, <2>3, <2>4, <2>5, <2>6, <2>7, <2>8, <2>9 DEF Next, Finished
  <1> QED
    BY <1>1, <1>2, HttpInvHolds, PTL DEF Spec, ImplementsExecutor, Promise!ContractSpec

=============================================================================
