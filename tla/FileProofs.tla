----------------------------- MODULE FileProofs -----------------------------
(***************************************************************************)
(* While an executor lives it writes once per key, keeps ExecutorContract  *)
(* and replaces only what was expected, for all executors, requests and    *)
(* bounds, and whatever crashes or writes beside it.                       *)
(***************************************************************************)
EXTENDS FileExecutor, TLAPS

KeptResult == [print : Requests, status : Statuses]
CallType ==
  [pc : {"idle", "check", "replace", "readback"}, req : Requests \cup {None}, touched : BOOLEAN]

\* A request under way has no result kept for its key, and was written before it is
\* read back.
UnderWay ==
  \A e \in Executors : call[e].pc # "idle" =>
    /\ call[e].req \in Requests
    /\ cache[e][call[e].req.key] = NoResult
    /\ call[e].pc = "readback" => wrote[e][call[e].req] > 0

\* A result kept under a key is one of a request with that key; a success was written,
\* and a failure is never kept.
KeptTrue ==
  \A e \in Executors, k \in Keys : cache[e][k] # NoResult =>
    /\ cache[e][k].print.key = k
    /\ cache[e][k].status = "succeeded" => wrote[e][cache[e][k].print] > 0
    /\ cache[e][k].status # "failed"

\* A request that was written has its result kept, or is about to be read back, and
\* was written once.
Accounted ==
  \A e \in Executors, r \in Requests : wrote[e][r] > 0 =>
    /\ wrote[e][r] = 1
    /\ \/ cache[e][r.key] # NoResult /\ cache[e][r.key].print = r
       \/ call[e].pc = "readback" /\ call[e].req = r

\* An answered success is kept.
SuccessKept ==
  \A e \in Executors, r \in Requests : "succeeded" \in answers[e][r] =>
    /\ cache[e][r.key] # NoResult
    /\ cache[e][r.key].print = r /\ cache[e][r.key].status = "succeeded"

\* About to replace a file nobody touched since the check, an executor finds there
\* what it checked.
CheckStands ==
  \A e \in Executors : call[e].pc = "replace" /\ ~ call[e].touched =>
    call[e].req.expected = None \/ file \in {None, call[e].req.expected}

\* The inductive invariant.
FileInv ==
  TypeOK /\ UnderWay /\ KeptTrue /\ Accounted /\ CheckStands /\ SuccessKept /\ PreconditionHonoured

\* The parts of a request.
LEMMA RequestShape ==
  ASSUME NEW r \in Requests
  PROVE  r.key \in Keys /\ r.text \in Texts /\ r.expected \in Texts \cup {None} /\ r # None
  BY FileAssumption

\* A kept result is not the absence of one.
LEMMA KeptIsKept ==
  ASSUME NEW r \in Requests, NEW s \in Statuses
  PROVE  /\ [print |-> r, status |-> s] \in KeptResult
         /\ [print |-> r, status |-> s] # NoResult
  BY FileAssumption DEF KeptResult, NoResult

\* New executors satisfy the invariant.
LEMMA FileInitially == Init => FileInv
  BY DEF Init, FileInv, TypeOK, UnderWay, KeptTrue, Accounted, CheckStands, SuccessKept,
         PreconditionHonoured, Idle, NoResult

\* The one entry of answers that changes.
Adds(e, r, status) ==
  /\ answers' \in [Executors -> [Requests -> SUBSET Statuses]]
  /\ answers'[e][r] = answers[e][r] \cup {status}
  /\ \A f \in Executors, q \in Requests : f # e \/ q # r => answers'[f][q] = answers[f][q]

\* What an answer changes.
LEMMA Answered ==
  ASSUME TypeOK, NEW e \in Executors, NEW r \in Requests, NEW status \in Statuses, Answer(e, r, status)
  PROVE  Adds(e, r, status)
  <1>1. /\ answers \in [Executors -> [Requests -> SUBSET Statuses]]
        /\ answers' = [answers EXCEPT ![e] = [answers[e] EXCEPT ![r] = @ \cup {status}]]
    BY DEF TypeOK, Answer
  <1> DEFINE new == [answers[e] EXCEPT ![r] = @ \cup {status}]
  <1>2. /\ new \in [Requests -> SUBSET Statuses]
        /\ new[r] = answers[e][r] \cup {status}
        /\ \A q \in Requests \ {r} : new[q] = answers[e][q]
    BY <1>1
  <1> HIDE DEF new
  <1>3. answers' = [answers EXCEPT ![e] = new]
    BY <1>1 DEF new
  <1>4. /\ answers' \in [Executors -> [Requests -> SUBSET Statuses]] /\ answers'[e] = new
        /\ \A f \in Executors \ {e} : answers'[f] = answers[f]
    BY <1>1, <1>2, <1>3
  <1> QED
    BY <1>2, <1>4 DEF Adds

\* Recording the result of the request under way keeps the invariant.
LEMMA RecordKeeps ==
  ASSUME FileInv, NEW e \in Executors, NEW status \in {"succeeded", "write_status_unknown"},
         call[e].pc # "idle", Record(e, status), UNCHANGED <<file, wrote, lost>>,
         status = "succeeded" => wrote[e][call[e].req] > 0
  PROVE  FileInv'
  <1> DEFINE r == call[e].req
             kept == [print |-> r, status |-> status]
  <1>1. r \in Requests /\ r.key \in Keys /\ cache[e][r.key] = NoResult /\ status \in Statuses
    BY RequestShape DEF FileInv, UnderWay, Statuses
  <1>2. kept \in KeptResult /\ kept # NoResult /\ kept.print = r /\ kept.status = status
    BY <1>1, KeptIsKept
  <1>3. cache' = [cache EXCEPT ![e][r.key] = kept] /\ call' = [call EXCEPT ![e] = Idle]
    BY DEF Record, Answer
  <1> HIDE DEF kept
  <1>4. Adds(e, r, status)
    <2>1. TypeOK /\ Answer(e, r, status)
      BY DEF FileInv, Record
    <2> QED
      BY <1>1, <2>1, Answered
  <1>5. /\ cache \in [Executors -> [Keys -> KeptResult \cup {NoResult}]]
        /\ call \in [Executors -> CallType]
    BY DEF FileInv, TypeOK, KeptResult, CallType
  <1>6. Idle \in CallType /\ Idle.pc = "idle"
    BY DEF Idle, CallType
  <1>7. /\ cache' \in [Executors -> [Keys -> KeptResult \cup {NoResult}]]
        /\ call' \in [Executors -> CallType]
    BY <1>1, <1>2, <1>3, <1>5, <1>6
  <1>8. TypeOK'
    BY <1>4, <1>7 DEF FileInv, TypeOK, KeptResult, CallType, Adds
  <1>9. /\ \A f \in Executors : call'[f] = IF f = e THEN Idle ELSE call[f]
        /\ \A f \in Executors, k \in Keys :
             cache'[f][k] = IF f = e /\ k = r.key THEN kept ELSE cache[f][k]
    BY <1>1, <1>3, <1>5
  <1>10. UnderWay'
    <2> SUFFICES ASSUME NEW f \in Executors, call'[f].pc # "idle"
                 PROVE  /\ call'[f].req \in Requests
                        /\ cache'[f][call'[f].req.key] = NoResult
                        /\ call'[f].pc = "readback" => wrote[f][call'[f].req] > 0
      BY DEF UnderWay
    <2>1. f # e /\ call'[f] = call[f]
      BY <1>6, <1>9
    <2>2. call[f].req \in Requests /\ call[f].req.key \in Keys
      BY <2>1, RequestShape DEF FileInv, UnderWay
    <2> QED
      BY <1>9, <2>1, <2>2 DEF FileInv, UnderWay
  <1>11. KeptTrue'
    BY <1>1, <1>2, <1>9 DEF FileInv, KeptTrue
  <1>12. Accounted'
    <2> SUFFICES ASSUME NEW f \in Executors, NEW q \in Requests, wrote[f][q] > 0
                 PROVE  /\ wrote[f][q] = 1
                        /\ \/ cache'[f][q.key] # NoResult /\ cache'[f][q.key].print = q
                           \/ call'[f].pc = "readback" /\ call'[f].req = q
      BY DEF Accounted
    <2>1. q.key \in Keys /\ wrote[f][q] = 1
      BY RequestShape DEF FileInv, Accounted
    <2>2. CASE f # e
      BY <1>9, <2>1, <2>2 DEF FileInv, Accounted
    <2>3. CASE f = e /\ q = r
      BY <1>2, <1>9, <2>1, <2>3
    <2>4. CASE f = e /\ q # r
      BY <1>1, <1>9, <2>1, <2>4 DEF FileInv, Accounted
    <2> QED
      BY <2>2, <2>3, <2>4
  <1>13. CheckStands' /\ PreconditionHonoured'
    BY <1>6, <1>9 DEF FileInv, CheckStands, PreconditionHonoured
  <1>14. SuccessKept'
    <2> SUFFICES ASSUME NEW f \in Executors, NEW q \in Requests, "succeeded" \in answers'[f][q]
                 PROVE  /\ cache'[f][q.key] # NoResult
                        /\ cache'[f][q.key].print = q /\ cache'[f][q.key].status = "succeeded"
      BY DEF SuccessKept
    <2>1. q.key \in Keys
      BY RequestShape
    <2>2. CASE "succeeded" \in answers[f][q]
      <3>1. ~ (f = e /\ q.key = r.key)
        BY <1>1, <2>2 DEF FileInv, SuccessKept
      <3> QED
        BY <1>9, <2>1, <2>2, <3>1 DEF FileInv, SuccessKept
    <2>3. CASE "succeeded" \notin answers[f][q]
      <3>1. f = e /\ q = r /\ status = "succeeded"
        BY <1>4, <2>3 DEF Adds
      <3> QED
        BY <1>2, <1>9, <2>1, <3>1
    <2> QED
      BY <2>2, <2>3
  <1> QED
    BY <1>8, <1>10, <1>11, <1>12, <1>13, <1>14 DEF FileInv

\* Returning without a record keeps the invariant.
LEMMA AnswerKeeps ==
  ASSUME FileInv, NEW e \in Executors, NEW r \in Requests, NEW status \in Statuses,
         call[e].pc # "readback", Answer(e, r, status), UNCHANGED <<file, cache, wrote, lost>>,
         status = "succeeded" => /\ cache[e][r.key] # NoResult
                                 /\ cache[e][r.key].print = r /\ cache[e][r.key].status = "succeeded"
  PROVE  FileInv'
  <1>1. Adds(e, r, status)
    BY Answered DEF FileInv
  <1>2. Idle \in CallType /\ Idle.pc = "idle"
    BY DEF Idle, CallType
  <1>3. call \in [Executors -> CallType] /\ call' = [call EXCEPT ![e] = Idle]
    BY DEF FileInv, TypeOK, CallType, Answer
  <1>4. call' \in [Executors -> CallType] /\ \A f \in Executors : call'[f] = IF f = e THEN Idle ELSE call[f]
    BY <1>2, <1>3
  <1>5. TypeOK'
    BY <1>1, <1>4 DEF FileInv, TypeOK, CallType, Adds
  <1>6. UnderWay' /\ KeptTrue' /\ CheckStands' /\ PreconditionHonoured'
    BY <1>2, <1>4 DEF FileInv, UnderWay, KeptTrue, CheckStands, PreconditionHonoured
  <1>7. Accounted'
    BY <1>2, <1>4 DEF FileInv, Accounted
  <1>8. ASSUME NEW f \in Executors, NEW q \in Requests, "succeeded" \in answers'[f][q]
        PROVE  /\ cache[f][q.key] # NoResult
               /\ cache[f][q.key].print = q /\ cache[f][q.key].status = "succeeded"
    <2>1. CASE "succeeded" \in answers[f][q]
      BY <2>1 DEF FileInv, SuccessKept
    <2>2. CASE "succeeded" \notin answers[f][q]
      <3>1. f = e /\ q = r /\ status = "succeeded"
        BY <1>1, <1>8, <2>2 DEF Adds
      <3> QED
        BY <3>1
    <2> QED
      BY <2>1, <2>2
  <1>9. SuccessKept'
    BY <1>8 DEF SuccessKept
  <1> QED
    BY <1>5, <1>6, <1>7, <1>9 DEF FileInv

\* While no request is read back under its key, a request without a kept result has not
\* been written.
LEMMA Unwritten ==
  ASSUME FileInv, NEW e \in Executors, NEW r \in Requests,
         cache[e][r.key] = NoResult \/ cache[e][r.key].print # r,
         call[e].pc # "readback"
  PROVE  wrote[e][r] = 0
  <1>1. wrote[e][r] \in Nat /\ ~ (wrote[e][r] > 0)
    BY DEF FileInv, TypeOK, Accounted
  <1> QED
    BY <1>1

\* Every step keeps the invariant.
LEMMA FileStep == FileInv /\ [Next]_vars => FileInv'
  <1> SUFFICES ASSUME FileInv, [Next]_vars PROVE FileInv'
    OBVIOUS
  <1>0. /\ cache \in [Executors -> [Keys -> KeptResult \cup {NoResult}]]
        /\ call \in [Executors -> CallType]
        /\ wrote \in [Executors -> [Requests -> Nat]]
        /\ answers \in [Executors -> [Requests -> SUBSET Statuses]]
        /\ file \in Texts \cup {None}
    BY DEF FileInv, TypeOK, KeptResult, CallType
  <1>1. ASSUME NEW e \in Executors, NEW r \in Requests, Execute(e, r) PROVE FileInv'
    <2>1. call[e].pc = "idle" /\ r.key \in Keys /\ UNCHANGED <<file, cache, wrote, lost>>
      BY <1>1, RequestShape DEF Execute
    <2>2. CASE cache[e][r.key] # NoResult /\ Answer(e, r, Replay(e, r))
      <3>1. cache[e][r.key] \in KeptResult
        BY <1>0, <2>1, <2>2
      <3>2. Replay(e, r) \in Statuses
        BY <3>1 DEF Replay, KeptResult, Statuses
      <3>3. Replay(e, r) = "succeeded" => cache[e][r.key].print = r /\ cache[e][r.key].status = "succeeded"
        BY DEF Replay
      <3> QED
        BY <2>1, <2>2, <3>2, <3>3, AnswerKeeps
    <2>3. CASE cache[e][r.key] = NoResult /\ Answer(e, r, "failed")
      BY <2>1, <2>3, AnswerKeeps DEF Statuses
    <2>4. CASE /\ cache[e][r.key] = NoResult
               /\ call' = [call EXCEPT ![e] = [pc |-> "check", req |-> r, touched |-> FALSE]]
               /\ UNCHANGED answers
      <3> DEFINE started == [pc |-> "check", req |-> r, touched |-> FALSE]
      <3>1. started \in CallType /\ started.pc = "check" /\ started.req = r
        BY DEF CallType
      <3> HIDE DEF started
      <3>2. /\ call' \in [Executors -> CallType]
            /\ \A f \in Executors : call'[f] = IF f = e THEN started ELSE call[f]
        BY <1>0, <2>4, <3>1 DEF started
      <3>3. TypeOK'
        BY <2>1, <2>4, <3>2 DEF FileInv, TypeOK, CallType
      <3>4. UnderWay' /\ KeptTrue' /\ CheckStands' /\ PreconditionHonoured' /\ SuccessKept'
        BY <2>1, <2>4, <3>1, <3>2
        DEF FileInv, UnderWay, KeptTrue, CheckStands, PreconditionHonoured, SuccessKept
      <3>5. Accounted'
        BY <2>1, <3>1, <3>2 DEF FileInv, Accounted
      <3> QED
        BY <3>3, <3>4, <3>5 DEF FileInv
    <2> QED
      BY <1>1, <2>2, <2>3, <2>4 DEF Execute
  <1>2. ASSUME NEW e \in Executors, Check(e) PROVE FileInv'
    <2> DEFINE r == call[e].req
    <2>1. /\ call[e].pc = "check" /\ UNCHANGED <<file, wrote, lost>>
          /\ r \in Requests /\ r.key \in Keys /\ cache[e][r.key] = NoResult
      BY <1>2, RequestShape DEF Check, FileInv, UnderWay
    <2>2. CASE Record(e, "write_status_unknown")
      BY <2>1, <2>2, RecordKeeps
    <2>3. CASE Answer(e, r, "failed") /\ UNCHANGED cache
      BY <2>1, <2>3, AnswerKeeps DEF Statuses
    <2>4. CASE /\ ~ precondition_failed(r)
               /\ call' = [call EXCEPT ![e] = [@ EXCEPT !.pc = "replace", !.touched = FALSE]]
               /\ UNCHANGED <<cache, answers>>
      <3> DEFINE checked == [call[e] EXCEPT !.pc = "replace", !.touched = FALSE]
      <3>1. checked \in CallType /\ checked.pc = "replace" /\ checked.req = r
        BY <1>0 DEF CallType
      <3> HIDE DEF checked
      <3>2. /\ call' \in [Executors -> CallType]
            /\ \A f \in Executors : call'[f] = IF f = e THEN checked ELSE call[f]
        BY <1>0, <2>4, <3>1 DEF checked
      <3>3. TypeOK'
        BY <2>1, <2>4, <3>2 DEF FileInv, TypeOK, CallType
      <3>4. UnderWay' /\ KeptTrue' /\ PreconditionHonoured' /\ SuccessKept'
        BY <2>1, <2>4, <3>1, <3>2
        DEF FileInv, UnderWay, KeptTrue, PreconditionHonoured, SuccessKept
      <3>5. Accounted'
        BY <2>1, <2>4, <3>1, <3>2 DEF FileInv, Accounted
      <3>6. r.expected = None \/ file \in {None, r.expected}
        BY <2>4 DEF precondition_failed
      <3>7. CheckStands'
        BY <2>1, <3>1, <3>2, <3>6 DEF FileInv, CheckStands
      <3> QED
        BY <3>3, <3>4, <3>5, <3>7 DEF FileInv
    <2> QED
      BY <1>2, <2>2, <2>3, <2>4 DEF Check
  <1>3. ASSUME NEW e \in Executors, Replace(e) PROVE FileInv'
    <2> DEFINE r == call[e].req
               written == [call[e] EXCEPT !.pc = "readback"]
    <2>1. /\ call[e].pc = "replace" /\ UNCHANGED <<cache, answers>>
          /\ r \in Requests /\ r.key \in Keys /\ r.text \in Texts /\ cache[e][r.key] = NoResult
          /\ r.expected \in Texts \cup {None}
      BY <1>3, RequestShape DEF Replace, FileInv, UnderWay
    <2>2. file' = r.text /\ wrote' = [wrote EXCEPT ![e] = [wrote[e] EXCEPT ![r] = @ + 1]]
      BY <1>3 DEF Replace
    <2>3. written \in CallType /\ written.pc = "readback" /\ written.req = r
      BY <1>0 DEF CallType
    <2>4. \A f \in Executors :
            /\ Touched(f) \in CallType
            /\ Touched(f).pc = call[f].pc /\ Touched(f).req = call[f].req
            /\ Touched(f).touched = (call[f].pc # "idle")
      BY <1>0 DEF Touched, CallType
    <2>5. call' = [f \in Executors |-> IF f = e THEN written ELSE Touched(f)]
      BY <1>3 DEF Replace
    <2> HIDE DEF written
    <2>6. /\ call' \in [Executors -> CallType]
          /\ \A f \in Executors : call'[f] = IF f = e THEN written ELSE Touched(f)
      BY <2>3, <2>4, <2>5
    <2>7. /\ wrote' \in [Executors -> [Requests -> Nat]] /\ wrote'[e][r] = 1
          /\ \A f \in Executors, q \in Requests : f # e \/ q # r => wrote'[f][q] = wrote[f][q]
          /\ \A f \in Executors, q \in Requests : wrote[f][q] > 0 => wrote'[f][q] > 0
      <3> DEFINE new == [wrote[e] EXCEPT ![r] = @ + 1]
      <3>0. wrote[e][r] = 0
        BY <2>1, Unwritten
      <3>1. /\ new \in [Requests -> Nat] /\ new[r] = 1
            /\ \A q \in Requests \ {r} : new[q] = wrote[e][q]
        BY <1>0, <2>1, <3>0
      <3> HIDE DEF new
      <3>2. wrote' = [wrote EXCEPT ![e] = new]
        BY <2>2 DEF new
      <3>3. /\ wrote' \in [Executors -> [Requests -> Nat]] /\ wrote'[e] = new
            /\ \A f \in Executors \ {e} : wrote'[f] = wrote[f]
        BY <1>0, <3>1, <3>2
      <3>4. \A f \in Executors, q \in Requests : f # e \/ q # r => wrote'[f][q] = wrote[f][q]
        BY <3>1, <3>3
      <3> QED
        BY <3>0, <3>1, <3>3, <3>4
    <2>8. TypeOK'
      BY <2>1, <2>2, <2>6, <2>7 DEF FileInv, TypeOK, CallType
    <2>9. UnderWay'
      <3>1. wrote'[e][r] > 0
        BY <2>7
      <3> QED
        BY <2>1, <2>3, <2>4, <2>6, <2>7, <3>1 DEF FileInv, UnderWay
    <2>10. KeptTrue'
      <3>1. \A f \in Executors, k \in Keys : cache[f][k] # NoResult => cache[f][k].print \in Requests
        BY <1>0 DEF KeptResult
      <3> QED
        BY <2>1, <2>7, <3>1 DEF FileInv, KeptTrue
    <2>11. Accounted'
      <3>2. ASSUME NEW f \in Executors, NEW q \in Requests, wrote'[f][q] > 0
            PROVE  /\ wrote'[f][q] = 1
                   /\ \/ cache[f][q.key] # NoResult /\ cache[f][q.key].print = q
                      \/ call'[f].pc = "readback" /\ call'[f].req = q
        <4>1. CASE f = e /\ q = r
          BY <2>3, <2>6, <2>7, <4>1
        <4>2. CASE ~ (f = e /\ q = r)
          <5>1. /\ wrote'[f][q] = 1
                /\ \/ cache[f][q.key] # NoResult /\ cache[f][q.key].print = q
                   \/ call[f].pc = "readback" /\ call[f].req = q
            BY <2>7, <3>2, <4>2 DEF FileInv, Accounted
          <5> QED
            BY <2>1, <2>4, <2>6, <5>1
        <4> QED
          BY <4>1, <4>2
      <3> QED
        BY <2>1, <3>2 DEF Accounted
    <2>12. CheckStands'
      BY <2>3, <2>4, <2>6 DEF CheckStands
    <2>13. SuccessKept'
      BY <2>1 DEF FileInv, SuccessKept
    <2>14. PreconditionHonoured'
      BY <1>3, <2>1 DEF Replace, FileInv, CheckStands, PreconditionHonoured
    <2> QED
      BY <2>8, <2>9, <2>10, <2>11, <2>12, <2>13, <2>14 DEF FileInv
  <1>4. ASSUME NEW e \in Executors, Readback(e) PROVE FileInv'
    BY <1>4, RecordKeeps DEF Readback, ReadbackResult, FileInv, UnderWay
  <1>5. ASSUME NEW e \in Executors, OSFails(e) PROVE FileInv'
    BY <1>5, RecordKeeps DEF OSFails
  <1>6. ASSUME NEW e \in Executors, Crash(e) PROVE FileInv'
    <2> DEFINE empty   == [k \in Keys |-> NoResult]
               nothing == [r \in Requests |-> 0]
               silence == [r \in Requests |-> {}]
    <2>1. /\ call' = [call EXCEPT ![e] = Idle] /\ cache' = [cache EXCEPT ![e] = empty]
          /\ wrote' = [wrote EXCEPT ![e] = nothing] /\ answers' = [answers EXCEPT ![e] = silence]
          /\ UNCHANGED <<file, lost>>
      BY <1>6 DEF Crash
    <2>2. Idle \in CallType /\ Idle.pc = "idle" /\ empty \in [Keys -> KeptResult \cup {NoResult}]
      BY DEF Idle, CallType
    <2>3. /\ \A k \in Keys : empty[k] = NoResult
          /\ nothing \in [Requests -> Nat] /\ \A r \in Requests : nothing[r] = 0
          /\ silence \in [Requests -> SUBSET Statuses] /\ \A r \in Requests : silence[r] = {}
      OBVIOUS
    <2> HIDE DEF empty, nothing, silence
    <2>4. \A f \in Executors :
            /\ call'[f] = IF f = e THEN Idle ELSE call[f]
            /\ cache'[f] = IF f = e THEN empty ELSE cache[f]
            /\ wrote'[f] = IF f = e THEN nothing ELSE wrote[f]
            /\ answers'[f] = IF f = e THEN silence ELSE answers[f]
      BY <1>0, <2>1
    <2>5. /\ cache' \in [Executors -> [Keys -> KeptResult \cup {NoResult}]]
          /\ call' \in [Executors -> CallType]
          /\ wrote' \in [Executors -> [Requests -> Nat]]
          /\ answers' \in [Executors -> [Requests -> SUBSET Statuses]]
      BY <1>0, <2>1, <2>2, <2>3
    <2>6. TypeOK'
      BY <2>1, <2>5 DEF FileInv, TypeOK, KeptResult, CallType
    <2>7. UnderWay' /\ KeptTrue'
      BY <2>2, <2>3, <2>4 DEF FileInv, UnderWay, KeptTrue
    <2>8. Accounted' /\ CheckStands'
      BY <2>1, <2>2, <2>3, <2>4 DEF FileInv, Accounted, CheckStands
    <2>9. SuccessKept' /\ PreconditionHonoured'
      BY <2>1, <2>3, <2>4 DEF FileInv, SuccessKept, PreconditionHonoured
    <2> QED
      BY <2>6, <2>7, <2>8, <2>9 DEF FileInv
  <1>7. CASE Other
    <2>1. file' \in Texts \cup {None} /\ UNCHANGED <<cache, wrote, answers, lost>>
      BY <1>7 DEF Other
    <2>2. \A f \in Executors :
            /\ Touched(f) \in CallType
            /\ Touched(f).pc = call[f].pc /\ Touched(f).req = call[f].req
            /\ Touched(f).touched = (call[f].pc # "idle")
      BY <1>0 DEF Touched, CallType
    <2>3. call' \in [Executors -> CallType] /\ \A f \in Executors : call'[f] = Touched(f)
      BY <1>7, <2>2 DEF Other
    <2>4. TypeOK'
      BY <2>1, <2>3 DEF FileInv, TypeOK, CallType
    <2>5. UnderWay' /\ KeptTrue' /\ Accounted'
      BY <2>1, <2>2, <2>3 DEF FileInv, UnderWay, KeptTrue, Accounted
    <2>6. CheckStands'
      BY <2>2, <2>3 DEF CheckStands
    <2>7. SuccessKept' /\ PreconditionHonoured'
      BY <2>1 DEF FileInv, SuccessKept, PreconditionHonoured
    <2> QED
      BY <2>4, <2>5, <2>6, <2>7 DEF FileInv
  <1>8. CASE UNCHANGED vars
    BY <1>8 DEF vars, FileInv, TypeOK, UnderWay, KeptTrue, Accounted, CheckStands, SuccessKept,
                PreconditionHonoured
  <1> QED
    BY <1>1, <1>2, <1>3, <1>4, <1>5, <1>6, <1>7, <1>8 DEF Next, Finished

\* FileInv, with the types, holds in every behaviour of the executors.
THEOREM FileInvHolds == Spec => []FileInv
  BY FileInitially, FileStep, PTL DEF Spec

\* Only a text that was expected is replaced, other writers between the check and the
\* replacement aside.
THEOREM PreconditionHonouredHolds == Spec => []PreconditionHonoured
  BY FileInvHolds, PTL DEF FileInv


-----------------------------------------------------------------------------
\* What the contract sees of executor e.
Seen(e)  == <<wrote[e], answers[e]>>
Keeps(e) == UNCHANGED Seen(e) \/ Promise(e)!ContractNext

\* An attempt that the contract allows.
LEMMA TryKeeps ==
  ASSUME NEW e \in Executors, NEW r \in Requests, Promise(e)!Try(r)
  PROVE  Keeps(e)
  BY DEF Keeps, Promise!ContractNext

\* A replacement is the first attempt under its key.
LEMMA ReplaceTries ==
  ASSUME FileInv, NEW e \in Executors, Replace(e)
  PROVE  Keeps(e)
  <1>0. PICK r \in Requests : r = call[e].req
    BY DEF Replace, FileInv, UnderWay
  <1> DEFINE was == {q \in Requests : wrote[e][q] > 0}
             is  == {q \in Requests : wrote'[e][q] > 0}
  <1>1. /\ cache[e][r.key] = NoResult /\ call[e].pc = "replace"
        /\ answers' = answers /\ wrote' = [wrote EXCEPT ![e][r] = @ + 1]
    BY <1>0 DEF Replace, FileInv, UnderWay
  <1>2. \A q \in Requests : q.key = r.key => ~ (wrote[e][q] > 0)
    BY <1>1 DEF FileInv, Accounted
  <1>3. wrote'[e] = [wrote[e] EXCEPT ![r] = @ + 1] /\ wrote[e] \in [Requests -> Nat]
    BY <1>1 DEF FileInv, TypeOK
  <1>4. is = was \cup {r}
    BY <1>1, <1>3
  <1>5. Promise(e)!Try(r)
    BY <1>1, <1>2, <1>3, <1>4 DEF Promise!Try
  <1> QED
    BY <1>5, TryKeeps

\* An answer that the contract allows.
LEMMA AnswerSays ==
  ASSUME FileInv, NEW e \in Executors, NEW r \in Requests, NEW status \in Statuses,
         Answer(e, r, status), UNCHANGED wrote,
         status = "succeeded" => wrote[e][r] > 0,
         status = "failed" => wrote[e][r] = 0,
         "succeeded" \in answers[e][r] => status = "succeeded"
  PROVE  Keeps(e)
  <1>1. answers'[e] = [answers[e] EXCEPT ![r] = @ \cup {status}]
    BY DEF FileInv, TypeOK, Answer
  <1>2. Promise(e)!Say(r, status) /\ status \in Promise(e)!ExecutionStatus
    BY <1>1 DEF Promise!Say, Promise!ExecutionStatus, Statuses
  <1> QED
    BY <1>2 DEF Keeps, Promise!ContractNext

\* What executor e does itself.
LEMMA OwnStep ==
  ASSUME FileInv, NEW e \in Executors,
         \/ \E r \in Requests : Execute(e, r)
         \/ Check(e) \/ Replace(e) \/ Readback(e) \/ OSFails(e) \/ Crash(e)
  PROVE  Keeps(e)
  <1>1. ASSUME NEW r \in Requests, Execute(e, r) PROVE Keeps(e)
    <2>1. call[e].pc = "idle" /\ r.key \in Keys /\ UNCHANGED wrote
      BY <1>1, RequestShape DEF Execute
    <2>2. CASE cache[e][r.key] # NoResult /\ Answer(e, r, Replay(e, r))
      <3>1. cache[e][r.key].status \in Statuses
        BY <2>1, <2>2 DEF FileInv, TypeOK
      <3>2. Replay(e, r) \in Statuses
        BY <3>1 DEF Replay, Statuses
      <3>3. Replay(e, r) = "succeeded" => wrote[e][r] > 0
        BY <2>1, <2>2 DEF Replay, FileInv, KeptTrue
      <3>4. Replay(e, r) = "failed" => wrote[e][r] = 0
        BY <2>1, <2>2, Unwritten DEF Replay, FileInv, KeptTrue
      <3>5. "succeeded" \in answers[e][r] => Replay(e, r) = "succeeded"
        BY DEF Replay, FileInv, SuccessKept
      <3> QED
        BY <2>1, <2>2, <3>2, <3>3, <3>4, <3>5, AnswerSays
    <2>3. CASE cache[e][r.key] = NoResult /\ Answer(e, r, "failed")
      <3>1. wrote[e][r] = 0 /\ "succeeded" \notin answers[e][r]
        BY <2>1, <2>3, Unwritten DEF FileInv, SuccessKept
      <3> QED
        BY <2>1, <2>3, <3>1, AnswerSays DEF Statuses
    <2>4. CASE UNCHANGED answers
      BY <2>1, <2>4 DEF Keeps, Seen
    <2> QED
      BY <1>1, <2>2, <2>3, <2>4 DEF Execute
  <1>2. ASSUME call[e].pc # "idle", UNCHANGED wrote,
               NEW status \in Statuses, Answer(e, call[e].req, status),
               status = "succeeded" => wrote[e][call[e].req] > 0,
               status = "failed" => wrote[e][call[e].req] = 0
        PROVE  Keeps(e)
    <2>1. call[e].req \in Requests /\ "succeeded" \notin answers[e][call[e].req]
      BY <1>2 DEF FileInv, UnderWay, SuccessKept
    <2> QED
      BY <1>2, <2>1, AnswerSays
  <1>3. CASE Check(e)
    <2>1. call[e].pc = "check" /\ UNCHANGED wrote /\ call[e].req \in Requests
          /\ cache[e][call[e].req.key] = NoResult
      BY <1>3 DEF Check, FileInv, UnderWay
    <2>2. CASE Record(e, "write_status_unknown")
      BY <1>2, <2>1, <2>2 DEF Record, Statuses
    <2>3. CASE Answer(e, call[e].req, "failed")
      BY <1>2, <2>1, <2>3, Unwritten DEF Statuses
    <2>4. CASE UNCHANGED answers
      BY <2>1, <2>4 DEF Keeps, Seen
    <2> QED
      BY <1>3, <2>2, <2>3, <2>4 DEF Check
  <1>4. CASE Replace(e)
    BY <1>4, ReplaceTries
  <1>5. CASE Readback(e)
    <2>1. wrote[e][call[e].req] > 0 /\ UNCHANGED wrote /\ call[e].pc # "idle"
      BY <1>5 DEF Readback, FileInv, UnderWay
    <2>2. ReadbackResult(e) \in Statuses /\ ReadbackResult(e) # "failed"
      BY DEF ReadbackResult, Statuses
    <2> QED
      BY <1>2, <1>5, <2>1, <2>2 DEF Readback, Record
  <1>6. CASE OSFails(e)
    BY <1>2, <1>6 DEF OSFails, Record, Statuses
  <1>7. CASE Crash(e)
    <2>1. wrote'[e] = [r \in Requests |-> 0] /\ answers'[e] = [r \in Requests |-> {}]
      BY <1>7 DEF Crash, FileInv, TypeOK
    <2>2. {r \in Requests : wrote'[e][r] > 0} = {}
      BY <2>1
    <2>3. Promise(e)!Restart
      BY <2>1, <2>2 DEF Promise!Restart, Promise!New
    <2> QED
      BY <2>3 DEF Keeps, Promise!ContractNext
  <1> QED
    BY <1>1, <1>3, <1>4, <1>5, <1>6, <1>7

\* What another executor or another program does.
LEMMA OthersStep ==
  ASSUME FileInv, NEW e \in Executors, NEW f \in Executors \ {e},
         \/ \E r \in Requests : Execute(f, r)
         \/ Check(f) \/ Replace(f) \/ Readback(f) \/ OSFails(f) \/ Crash(f)
  PROVE  UNCHANGED Seen(e)
  <1>1. wrote \in [Executors -> [Requests -> Nat]] /\ answers \in [Executors -> [Requests -> SUBSET Statuses]]
    BY DEF FileInv, TypeOK
  <1>2. \A r, status : Answer(f, r, status) => answers'[e] = answers[e]
    BY <1>1 DEF Answer
  <1>3. \/ UNCHANGED wrote
        \/ \E w : wrote' = [wrote EXCEPT ![f] = w]
    BY DEF Execute, Check, Replace, Readback, OSFails, Crash
  <1>4. \/ UNCHANGED answers
        \/ \E r, status : Answer(f, r, status)
        \/ \E a : answers' = [answers EXCEPT ![f] = a]
    BY DEF Execute, Check, Replace, Readback, OSFails, Crash, Record
  <1> QED
    BY <1>1, <1>2, <1>3, <1>4 DEF Seen

\* Every executor keeps ExecutorContract from one start to the next, whatever the others
\* and other programs do to the file (LocalFileExecutor): it writes once for a key, FAILED
\* is answered while it has not, SUCCEEDED when it has and ever after.
THEOREM ImplementsExecutorHolds == Spec => ImplementsExecutor
  <1>1. Init => \A e \in Executors : Promise(e)!New
    BY DEF Init, Promise!New
  <1>2. FileInv /\ [Next]_vars =>
          [\A e \in Executors : UNCHANGED <<wrote[e], answers[e]>> \/ Promise(e)!ContractNext]_vars
    <2> SUFFICES ASSUME FileInv, [Next]_vars, NEW e \in Executors PROVE Keeps(e)
      BY DEF Keeps, Seen
    <2>1. CASE \E f \in Executors : \/ \E r \in Requests : Execute(f, r)
                                   \/ Check(f) \/ Replace(f) \/ Readback(f) \/ OSFails(f) \/ Crash(f)
      BY <2>1, OwnStep, OthersStep DEF Keeps
    <2>2. CASE Other \/ UNCHANGED vars
      BY <2>2 DEF Other, vars, Keeps, Seen
    <2> QED
      BY <2>1, <2>2 DEF Next, Finished
  <1> QED
    BY <1>1, <1>2, FileInvHolds, PTL DEF Spec, ImplementsExecutor

=============================================================================
