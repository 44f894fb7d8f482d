---------------------------- MODULE OutboxProofs ----------------------------
(***************************************************************************)
(* However many processes share the outbox and crash, no idempotency key   *)
(* is sent twice, and FAILED is answered only for what was never sent      *)
(* unless an exception that is no OSError was met.  SUCCEEDED is answered  *)
(* for what was delivered, and alike ever after: together the processes    *)
(* implement ExecutorContract.                                             *)
(***************************************************************************)
EXTENDS MessageOutbox, TLAPS

\* What a process holds in memory fits the outbox o: past begin, the row of its
\* key is its own request's.
Fits(c, o) ==
  /\ c.pc # "idle" => c.req \in Requests
  /\ c.pc = "refuse" => c.req.kind = "blank"
  /\ c.pc \in {"send", "sending", "finish"} => c.req.kind = "ok"
  /\ c.pc \in {"refuse", "send", "sending", "finish"} =>
       o[c.req.key] # NoRow /\ o[c.req.key].print = c.req.print
  /\ c.pc = "finish" => c.receipt \in Receipts

\* The process that inserted the intent is the only one about to send under this
\* key, and nothing was sent under it.
Exclusive ==
  /\ \A p \in Procs : call[p].pc = "send" => \A r \in Requests : r.key = call[p].req.key => sent[r] = 0
  /\ \A p, q \in Procs :
       call[p].pc = "send" /\ call[q].pc = "send" /\ call[p].req.key = call[q].req.key => p = q

\* What was sent has a row, was good and was sent once.
Sent(r, o, s) ==
  s[r] > 0 => r.kind = "ok" /\ s[r] = 1 /\ o[r.key] # NoRow /\ o[r.key].print = r.print

\* A request that will never be sent: a bad one, or one whose key has other data.
Hopeless(r, o) == r.kind # "ok" \/ (o[r.key] # NoRow /\ o[r.key].print # r.print)

\* The inductive invariant.
OutboxInv ==
  /\ TypeOK
  /\ \A p \in Procs : Fits(call[p], outbox)
  /\ Exclusive
  /\ \A r \in Requests : Sent(r, outbox, sent)
  /\ \A r \in Requests \ faulted : "failed" \in answers[r] => Hopeless(r, outbox)

\* Rows are never removed and never change hands.
Grows == \A k \in Keys : outbox[k] # NoRow => outbox'[k] # NoRow /\ outbox'[k].print = outbox[k].print

\* Requests and their keys and fingerprints.
LEMMA RequestType ==
  ASSUME NEW r \in Requests
  PROVE  r.key \in Keys /\ r.print \in Prints /\ r.kind \in Kinds
  BY OutboxAssumption

\* A step of one process that sends nothing and does not become about to send.
LEMMA FrameStep ==
  ASSUME OutboxInv, NEW p \in Procs, NEW c, call' = [call EXCEPT ![p] = c],
         Fits(c, outbox'), c.pc # "send", Grows, UNCHANGED sent, TypeOK',
         \A r \in Requests \ faulted' :
           "failed" \in answers'[r] => Hopeless(r, outbox') \/ ("failed" \in answers[r] /\ r \notin faulted)
  PROVE  OutboxInv'
  <1>1. call'[p] = c /\ \A q \in Procs \ {p} : call'[q] = call[q]
    BY DEF OutboxInv, TypeOK
  <1>2. ASSUME NEW q \in Procs PROVE Fits(call[q], outbox) => (q # p => Fits(call'[q], outbox'))
    BY <1>1, RequestType DEF Fits, Grows
  <1>3. \A q \in Procs : Fits(call'[q], outbox')
    BY <1>1, <1>2 DEF OutboxInv
  <1>4. Exclusive'
    BY <1>1 DEF OutboxInv, Exclusive
  <1>5. \A r \in Requests : Sent(r, outbox', sent')
    BY RequestType DEF OutboxInv, Sent, Grows
  <1>6. \A r \in Requests : Hopeless(r, outbox) => Hopeless(r, outbox')
    BY RequestType DEF Hopeless, Grows
  <1>7. \A r \in Requests \ faulted' : "failed" \in answers'[r] => Hopeless(r, outbox')
    BY <1>6 DEF OutboxInv
  <1> QED BY <1>3, <1>4, <1>5, <1>7 DEF OutboxInv

\* An idle process fits any outbox.
LEMMA IdleFits == Idle.pc = "idle" /\ \A o : Fits(Idle, o)
  BY DEF Idle, Fits

\* Answering types.
LEMMA AnswerType ==
  ASSUME OutboxInv, NEW p \in Procs, NEW r \in Requests, NEW status \in Statuses, Answer(p, r, status)
  PROVE  /\ call' = [call EXCEPT ![p] = Idle]
         /\ call' \in [Procs -> [pc : {"idle", "begin", "refuse", "send", "sending", "finish"},
                                 req : Requests \cup {None}, receipt : Receipts \cup {None}]]
         /\ answers' \in [Requests -> SUBSET Statuses]
         /\ answers'[r] = answers[r] \cup {status}
         /\ \A q \in Requests \ {r} : answers'[q] = answers[q]
  BY DEF OutboxInv, TypeOK, Answer, Idle

\* A process that answers and sends nothing: FAILED is for the hopeless only.
LEMMA AnswerStep ==
  ASSUME OutboxInv, NEW p \in Procs, NEW r \in Requests, NEW status \in Statuses, Answer(p, r, status),
         Grows, outbox' \in [Keys -> Rows \cup {NoRow}], UNCHANGED <<sent, delivered, crashes>>,
         \/ UNCHANGED faulted /\ (status = "failed" => Hopeless(r, outbox'))
         \/ faulted' = faulted \cup {r}
  PROVE  OutboxInv'
  <1>1. TypeOK'
    BY AnswerType DEF OutboxInv, TypeOK
  <1>2. \A q \in Requests \ faulted' :
          "failed" \in answers'[q] => Hopeless(q, outbox') \/ ("failed" \in answers[q] /\ q \notin faulted)
    BY AnswerType
  <1> QED BY <1>1, <1>2, AnswerType, IdleFits, FrameStep

-----------------------------------------------------------------------------
\* execute up to begin.
LEMMA ExecuteStep ==
  ASSUME OutboxInv, NEW p \in Procs, NEW r \in Requests, Execute(p, r)
  PROVE  OutboxInv'
  <1>0. Grows /\ outbox' \in [Keys -> Rows \cup {NoRow}] /\ UNCHANGED <<outbox, sent, delivered, crashes, faulted>>
    BY DEF OutboxInv, TypeOK, Execute, Grows
  <1>1. CASE r.kind = "other"
    <2>1. Answer(p, r, "failed") /\ Hopeless(r, outbox') /\ "failed" \in Statuses
      BY <1>1 DEF Execute, Hopeless, Statuses
    <2> QED BY <1>0, <2>1, AnswerStep
  <1>2. CASE r.kind # "other"
    <2> DEFINE c == [Idle EXCEPT !.pc = "begin", !.req = r]
    <2>1. call' = [call EXCEPT ![p] = c] /\ UNCHANGED answers
      BY <1>2 DEF Execute
    <2>2. c.pc = "begin" /\ Fits(c, outbox')
      BY DEF Idle, Fits
    <2>3. TypeOK'
      BY <1>0, <2>1 DEF OutboxInv, TypeOK, Idle
    <2> QED BY <1>0, <2>1, <2>2, <2>3, FrameStep
  <1> QED BY <1>1, <1>2

\* outbox.begin inserts: whoever does is alone with the key.
LEMMA BeginFreshStep ==
  ASSUME OutboxInv, NEW p \in Procs, BeginFresh(p)
  PROVE  OutboxInv'
  <1> DEFINE r == call[p].req
             w == [print |-> r.print, status |-> "prepared", receipt |-> None]
  <1>0. r \in Requests /\ r.key \in Keys /\ r.print \in Prints /\ call[p].pc = "begin" /\ outbox[r.key] = NoRow
    BY RequestType DEF OutboxInv, Fits, BeginFresh, At
  <1>1. outbox' = [outbox EXCEPT ![r.key] = w] /\ UNCHANGED <<sent, delivered, crashes, faulted>>
    BY DEF BeginFresh
  <1>2. w \in Rows /\ w # NoRow /\ w.print = r.print
    BY <1>0, OutboxAssumption DEF Rows, NoRow
  <1>3. outbox' \in [Keys -> Rows \cup {NoRow}] /\ Grows /\ outbox'[r.key] = w
    BY <1>0, <1>1, <1>2 DEF OutboxInv, TypeOK, Grows
  <1>4. CASE r.kind \notin {"ok", "blank"}
    <2>1. Answer(p, r, "failed") /\ Hopeless(r, outbox') /\ "failed" \in Statuses
      BY <1>4 DEF BeginFresh, Hopeless, Statuses
    <2> QED BY <1>0, <1>1, <1>3, <2>1, AnswerStep
  <1>5. CASE r.kind = "blank"
    <2> DEFINE c == [call[p] EXCEPT !.pc = "refuse"]
    <2>1. call' = [call EXCEPT ![p] = c] /\ UNCHANGED answers
      BY <1>5 DEF BeginFresh, Goto
    <2>2. c.pc = "refuse" /\ c.req = r
      BY DEF OutboxInv, TypeOK
    <2>3. Fits(c, outbox')
      BY <1>0, <1>2, <1>3, <1>5, <2>2 DEF Fits
    <2>4. TypeOK'
      BY <1>1, <1>3, <2>1 DEF OutboxInv, TypeOK
    <2> QED BY <1>1, <1>3, <2>1, <2>2, <2>3, <2>4, FrameStep
  <1>6. CASE r.kind = "ok"
    <2> DEFINE c == [call[p] EXCEPT !.pc = "send"]
    <2>1. call' = [call EXCEPT ![p] = c] /\ UNCHANGED answers
      BY <1>6 DEF BeginFresh, Goto
    <2>2. c.pc = "send" /\ c.req = r /\ call'[p] = c /\ \A q \in Procs \ {p} : call'[q] = call[q]
      BY <2>1 DEF OutboxInv, TypeOK
    <2>3. TypeOK'
      BY <1>1, <1>3, <2>1 DEF OutboxInv, TypeOK
    <2>4. ASSUME NEW q \in Procs \ {p} PROVE Fits(call'[q], outbox')
      BY <1>3, <2>2, RequestType DEF OutboxInv, Fits, Grows
    <2>5. Fits(c, outbox')
      BY <1>0, <1>2, <1>3, <1>6, <2>2 DEF Fits
    <2>6. \A s \in Requests : s.key = r.key => sent[s] = 0
      BY <1>0 DEF OutboxInv, TypeOK, Sent
    <2>7. \A q \in Procs \ {p} : call[q].pc = "send" => call[q].req.key # r.key
      BY <1>0 DEF OutboxInv, Fits
    <2>8. Exclusive'
      <3>1. ASSUME NEW q \in Procs, call'[q].pc = "send", NEW s \in Requests, s.key = call'[q].req.key
            PROVE  sent'[s] = 0
        <4>1. CASE q = p
          BY <4>1, <3>1, <1>1, <2>2, <2>6
        <4>2. CASE q # p
          BY <4>2, <3>1, <1>1, <2>2 DEF OutboxInv, Exclusive
        <4> QED BY <4>1, <4>2
      <3>2. ASSUME NEW q \in Procs, NEW t \in Procs, call'[q].pc = "send", call'[t].pc = "send",
                   call'[q].req.key = call'[t].req.key
            PROVE  q = t
        <4>1. CASE q = p \/ t = p
          BY ZenonT(30), <4>1, <3>2, <2>2, <2>7
        <4>2. CASE q # p /\ t # p
          BY <4>2, <3>2, <2>2 DEF OutboxInv, Exclusive
        <4> QED BY <4>1, <4>2
      <3> QED BY <3>1, <3>2 DEF Exclusive
    <2>9. \A s \in Requests : Sent(s, outbox', sent')
      BY <1>1, <1>3, RequestType DEF OutboxInv, Sent, Grows
    <2>10. \A s \in Requests \ faulted' : "failed" \in answers'[s] => Hopeless(s, outbox')
      BY <1>1, <1>3, <2>1, RequestType DEF OutboxInv, Hopeless, Grows
    <2> QED BY <2>2, <2>3, <2>4, <2>5, <2>8, <2>9, <2>10 DEF OutboxInv
  <1> QED BY <1>4, <1>5, <1>6

\* outbox.begin replays: FAILED means that the key has other data.
LEMMA BeginReplayStep ==
  ASSUME OutboxInv, NEW p \in Procs, BeginReplay(p)
  PROVE  OutboxInv'
  <1> DEFINE r == call[p].req
             row == outbox[r.key]
  <1>0. /\ r \in Requests /\ r.key \in Keys /\ row # NoRow /\ row \in Rows
        /\ Grows /\ outbox' \in [Keys -> Rows \cup {NoRow}] /\ UNCHANGED <<outbox, sent, delivered, crashes, faulted>>
    BY RequestType DEF OutboxInv, TypeOK, Fits, BeginReplay, At, Grows
  <1>1. CASE row.print # r.print
    <2>1. Answer(p, r, "failed") /\ Hopeless(r, outbox') /\ "failed" \in Statuses
      BY <1>0, <1>1 DEF BeginReplay, Hopeless, Statuses
    <2> QED BY <1>0, <2>1, AnswerStep
  <1>2. CASE row.print = r.print
    <2>1. PICK status \in {"succeeded", "write_status_unknown"} : Answer(p, r, status)
      BY <1>2 DEF BeginReplay, from_receipt
    <2>2. status \in Statuses /\ status # "failed"
      BY <2>1 DEF Statuses
    <2> QED BY <1>0, <2>1, <2>2, AnswerStep
  <1> QED BY <1>1, <1>2

\* outbox.finish changes neither the holder nor the presence of a row.
LEMMA FinishGrows ==
  ASSUME OutboxInv, NEW k \in Keys, outbox[k] # NoRow, NEW status \in {"failed", "finished"},
         NEW receipt \in Receipts \cup {None}, finish(k, status, receipt)
  PROVE  outbox' \in [Keys -> Rows \cup {NoRow}] /\ Grows
  <1>1. outbox[k] \in Rows
    BY DEF OutboxInv, TypeOK
  <1> DEFINE w == [outbox[k] EXCEPT !.status = status, !.receipt = receipt]
  <1>2. outbox' = [outbox EXCEPT ![k] = w]
    BY DEF finish, OutboxInv, TypeOK
  <1>3. w \in Rows /\ w # NoRow /\ w.print = outbox[k].print
    BY <1>1, OutboxAssumption DEF Rows, NoRow
  <1> QED BY <1>2, <1>3 DEF OutboxInv, TypeOK, Grows

\* Refusing a blank message, and storing a receipt.
LEMMA FinishSteps ==
  ASSUME OutboxInv, NEW p \in Procs, Refuse(p) \/ Finish(p)
  PROVE  OutboxInv'
  <1> DEFINE r == call[p].req
  <1>0. r \in Requests /\ r.key \in Keys /\ outbox[r.key] # NoRow /\ UNCHANGED <<sent, delivered, crashes, faulted>>
    BY RequestType DEF OutboxInv, Fits, Refuse, Finish, At
  <1>1. CASE Refuse(p)
    <2>1. r.kind = "blank" /\ finish(r.key, "failed", None) /\ Answer(p, r, "failed")
      BY <1>1 DEF Refuse, OutboxInv, Fits, At
    <2>2. outbox' \in [Keys -> Rows \cup {NoRow}] /\ Grows
      BY <1>0, <2>1, FinishGrows
    <2>3. Hopeless(r, outbox') /\ "failed" \in Statuses
      BY <2>1 DEF Hopeless, Statuses
    <2> QED BY <1>0, <2>1, <2>2, <2>3, AnswerStep
  <1>2. CASE Finish(p)
    <2>1. /\ call[p].receipt \in Receipts /\ finish(r.key, "finished", call[p].receipt)
          /\ Answer(p, r, from_receipt(call[p].receipt))
      BY <1>2 DEF Finish, OutboxInv, Fits, At
    <2>2. outbox' \in [Keys -> Rows \cup {NoRow}] /\ Grows
      BY <1>0, <2>1, FinishGrows
    <2>3. from_receipt(call[p].receipt) \in Statuses /\ from_receipt(call[p].receipt) # "failed"
      BY DEF from_receipt, Statuses
    <2> QED BY <1>0, <2>1, <2>2, <2>3, AnswerStep
  <1> QED BY <1>1, <1>2

\* transport.send: the one step that sends.
LEMMA SendStep ==
  ASSUME OutboxInv, NEW p \in Procs, Send(p)
  PROVE  OutboxInv'
  <1> DEFINE r == call[p].req
             c == [call[p] EXCEPT !.pc = "sending"]
  <1>0. /\ r \in Requests /\ r.kind = "ok" /\ call[p].pc = "send"
        /\ outbox[r.key] # NoRow /\ outbox[r.key].print = r.print
    BY DEF OutboxInv, Fits, Send, At
  <1>1. /\ sent' = [sent EXCEPT ![r] = sent[r] + 1] /\ call' = [call EXCEPT ![p] = c]
        /\ delivered' \in {delivered, delivered \cup {r}} /\ UNCHANGED <<outbox, answers, crashes, faulted>>
    BY DEF Send, Goto
  <1>2. c.pc = "sending" /\ c.req = r /\ call'[p] = c /\ \A q \in Procs \ {p} : call'[q] = call[q]
    BY <1>1 DEF OutboxInv, TypeOK
  <1>3. sent[r] = 0
    BY <1>0 DEF OutboxInv, Exclusive
  <1>4. sent'[r] = 1 /\ \A s \in Requests \ {r} : sent'[s] = sent[s]
    BY <1>0, <1>1, <1>3 DEF OutboxInv, TypeOK
  <1>5. TypeOK'
    BY <1>0, <1>1 DEF OutboxInv, TypeOK
  <1>6. \A q \in Procs : Fits(call'[q], outbox')
    BY <1>0, <1>1, <1>2 DEF OutboxInv, Fits
  <1>7. Exclusive'
    <2>1. ASSUME NEW q \in Procs, call'[q].pc = "send"
          PROVE  q # p /\ call'[q] = call[q] /\ call[q].req.key # r.key
      <3>1. q # p BY <2>1, <1>2
      <3>2. call'[q] = call[q] BY <3>1, <1>2
      <3> QED BY <3>1, <3>2, <2>1, <1>0 DEF OutboxInv, Exclusive
    <2>2. ASSUME NEW q \in Procs, call'[q].pc = "send", NEW s \in Requests, s.key = call'[q].req.key
          PROVE  sent'[s] = 0
      <3>1. s # r /\ sent'[s] = sent[s]
        BY <2>1, <2>2, <1>4
      <3> QED BY <3>1, <2>1, <2>2 DEF OutboxInv, Exclusive
    <2>3. ASSUME NEW q \in Procs, NEW t \in Procs, call'[q].pc = "send", call'[t].pc = "send",
                 call'[q].req.key = call'[t].req.key
          PROVE  q = t
      BY <2>1, <2>3 DEF OutboxInv, Exclusive
    <2> QED BY <2>2, <2>3 DEF Exclusive
  <1>8. \A s \in Requests : Sent(s, outbox', sent')
    BY <1>0, <1>1, <1>4 DEF OutboxInv, Sent
  <1> QED BY <1>1, <1>5, <1>6, <1>7, <1>8 DEF OutboxInv

\* The rest of a send, a failing database, and a crash.
LEMMA OtherSteps ==
  ASSUME OutboxInv, NEW p \in Procs,
         SendReturns(p) \/ SendRaises(p) \/ StorageFails(p) \/ Crash(p)
  PROVE  OutboxInv'
  <1> DEFINE r == call[p].req
  <1>0. UNCHANGED <<outbox, sent, delivered>> /\ Grows /\ outbox' \in [Keys -> Rows \cup {NoRow}]
    BY DEF OutboxInv, TypeOK, SendReturns, SendRaises, StorageFails, Crash, Grows
  <1>1. CASE SendReturns(p)
    <2>1. PICK receipt \in Receipts : call' = [call EXCEPT ![p].pc = "finish", ![p].receipt = receipt]
      BY <1>1 DEF SendReturns
    <2> DEFINE c == [call[p] EXCEPT !.pc = "finish", !.receipt = receipt]
    <2>2. call' = [call EXCEPT ![p] = c]
      BY <2>1 DEF OutboxInv, TypeOK
    <2>3. c.pc = "finish" /\ c.req = r /\ c.receipt = receipt
      BY DEF OutboxInv, TypeOK
    <2>4. Fits(c, outbox')
      BY <1>0, <1>1, <2>1, <2>3 DEF OutboxInv, Fits, SendReturns, At
    <2>5. UNCHANGED <<answers, faulted, crashes>>
      BY <1>1 DEF SendReturns
    <2>6. call' \in [Procs -> [pc : {"idle", "begin", "refuse", "send", "sending", "finish"},
                               req : Requests \cup {None}, receipt : Receipts \cup {None}]]
      BY <2>2 DEF OutboxInv, TypeOK
    <2>7. TypeOK'
      BY <1>0, <2>5, <2>6 DEF OutboxInv, TypeOK
    <2> QED BY <1>0, <2>2, <2>3, <2>4, <2>5, <2>7, FrameStep
  <1>2. CASE SendRaises(p)
    <2>1. r \in Requests /\ UNCHANGED crashes /\ "failed" \in Statuses /\ "write_status_unknown" \in Statuses
      BY <1>2 DEF SendRaises, OutboxInv, Fits, At, Statuses
    <2>2. \/ Answer(p, r, "write_status_unknown") /\ UNCHANGED faulted
          \/ Answer(p, r, "failed") /\ faulted' = faulted \cup {r}
      BY <1>2 DEF SendRaises
    <2>3. CASE Answer(p, r, "write_status_unknown") /\ UNCHANGED faulted
      BY <1>0, <2>1, <2>3, AnswerStep
    <2>4. CASE Answer(p, r, "failed") /\ faulted' = faulted \cup {r}
      BY <1>0, <2>1, <2>4, AnswerStep
    <2> QED BY <2>2, <2>3, <2>4
  <1>3. CASE StorageFails(p)
    <2>1. /\ r \in Requests /\ UNCHANGED crashes /\ "failed" \in Statuses
          /\ Answer(p, r, "failed") /\ faulted' = faulted \cup {r}
      BY <1>3 DEF StorageFails, OutboxInv, Fits, Statuses
    <2> QED BY <1>0, <2>1, AnswerStep
  <1>4. CASE Crash(p)
    <2>1. call' = [call EXCEPT ![p] = Idle] /\ UNCHANGED <<answers, faulted>>
      BY <1>4 DEF Crash
    <2>2. crashes' \in 0..MaxCrashes
      BY <1>4, OutboxAssumption DEF Crash, OutboxInv, TypeOK
    <2>3. TypeOK'
      BY <1>0, <2>1, <2>2 DEF OutboxInv, TypeOK, Idle
    <2> QED BY <1>0, <2>1, <2>3, IdleFits, FrameStep
  <1> QED BY <1>1, <1>2, <1>3, <1>4

-----------------------------------------------------------------------------
\* The invariant is inductive.
LEMMA OutboxInvariant == Spec => []OutboxInv
  <1>1. Init => OutboxInv
    <2> SUFFICES ASSUME Init PROVE OutboxInv OBVIOUS
    <2>1. TypeOK
      BY OutboxAssumption DEF Init, TypeOK, Idle
    <2>2. \A p \in Procs : call[p].pc = "idle" /\ Fits(call[p], outbox)
      BY IdleFits DEF Init
    <2>3. \A r \in Requests : sent[r] = 0 /\ answers[r] = {}
      BY DEF Init
    <2> QED BY <2>1, <2>2, <2>3 DEF OutboxInv, Exclusive, Sent
  <1>2. OutboxInv /\ [Next]_vars => OutboxInv'
    <2> SUFFICES ASSUME OutboxInv, [Next]_vars PROVE OutboxInv' OBVIOUS
    <2>1. CASE UNCHANGED vars
      BY <2>1 DEF vars, OutboxInv, TypeOK, Exclusive
    <2>2. CASE Next
      BY <2>2, ExecuteStep, BeginFreshStep, BeginReplayStep, FinishSteps, SendStep, OtherSteps DEF Next
    <2> QED BY <2>1, <2>2
  <1> QED BY <1>1, <1>2, PTL DEF Spec

\* Rows, calls, answers and counts keep their types (message_executor.py).
THEOREM OutboxTypeCorrect == Spec => []TypeOK
  BY OutboxInvariant, PTL DEF OutboxInv

\* The transport is called at most once for an idempotency key, by whatever
\* process and after whatever crash or fault (outbox.begin before transport.send).
THEOREM SentAtMostOnceHolds == Spec => []SentAtMostOnce
  <1>1. OutboxInv => SentAtMostOnce
    <2> SUFFICES ASSUME OutboxInv, NEW r \in Requests, NEW q \in Requests, r.key = q.key,
                        sent[r] > 0, sent[q] > 0
                 PROVE  r = q /\ sent[r] = 1
      BY DEF SentAtMostOnce
    <2>1. r.kind = "ok" /\ q.kind = "ok" /\ r.print = q.print /\ sent[r] = 1
      BY DEF OutboxInv, Sent
    <2>2. r \in [key : Keys, print : Prints, kind : Kinds] /\ q \in [key : Keys, print : Prints, kind : Kinds]
      BY OutboxAssumption
    <2> QED BY <2>1, <2>2
  <1> QED BY <1>1, OutboxInvariant, PTL

\* FAILED is only answered for a message that was never sent, unless one of its
\* executions met an exception that is no OSError (the except clauses of execute).
THEOREM FailedIsUnsentHolds == Spec => []FailedIsUnsent
  <1>1. OutboxInv => FailedIsUnsent
    <2> SUFFICES ASSUME OutboxInv, NEW r \in Requests \ faulted, "failed" \in answers[r]
                 PROVE  sent[r] = 0
      BY DEF FailedIsUnsent
    <2>1. ~ (sent[r] > 0)
      BY DEF OutboxInv, Sent, Hopeless
    <2> QED BY <2>1 DEF OutboxInv, TypeOK
  <1> QED BY <1>1, OutboxInvariant, PTL

-----------------------------------------------------------------------------
\* A process that inserted the intent of its key and has not finished with it.
Holding(c) == c.pc \in {"refuse", "send", "sending", "finish"}

\* A durable receipt is stored for a request.
Durable(o, r) == o[r.key] # NoRow /\ o[r.key].print = r.print /\ o[r.key].receipt = "durable"

\* The inductive invariant, beside OutboxInv: whoever holds a key is alone and its
\* row has no receipt yet; a durable receipt tells the truth; and SUCCEEDED is only
\* answered for what has one.
SuccessInv ==
  /\ \A p \in Procs : Holding(call[p]) => outbox[call[p].req.key].receipt = None
  /\ \A p, q \in Procs :
       Holding(call[p]) /\ Holding(call[q]) /\ call[p].req.key = call[q].req.key => p = q
  /\ \A p \in Procs : call[p].pc = "finish" /\ call[p].receipt = "durable" => call[p].req \in delivered
  /\ \A r \in Requests : Durable(outbox, r) => r.kind = "ok" /\ r \in delivered
  /\ \A r \in Requests : "succeeded" \in answers[r] => Durable(outbox, r)

\* A fingerprint and a key determine the request.
LEMMA SameRequest ==
  ASSUME NEW r \in Requests, NEW q \in Requests, r.key = q.key, r.print = q.print
  PROVE  r = q
  <1>1. r \in [key : Keys, print : Prints, kind : Kinds] /\ q \in [key : Keys, print : Prints, kind : Kinds]
        /\ r.kind = q.kind
    BY OutboxAssumption
  <1> QED BY <1>1

\* The answers a process gives.
LEMMA Answered ==
  ASSUME OutboxInv, NEW p \in Procs, NEW r \in Requests, NEW status, Answer(p, r, status)
  PROVE  /\ call' = [call EXCEPT ![p] = Idle] /\ ~ Holding(Idle)
         /\ answers'[r] = answers[r] \cup {status}
         /\ \A q \in Requests \ {r} : answers'[q] = answers[q]
  BY DEF OutboxInv, TypeOK, Answer, Idle, Holding

\* A step of one process that writes nothing to the outbox.
LEMMA SuccessFrame ==
  ASSUME OutboxInv, SuccessInv, NEW p \in Procs, NEW c, call' = [call EXCEPT ![p] = c],
         UNCHANGED outbox, delivered \subseteq delivered',
         Holding(c) => Holding(call[p]) /\ c.req = call[p].req,
         c.pc = "finish" /\ c.receipt = "durable" => c.req \in delivered',
         \A r \in Requests : "succeeded" \in answers'[r] => "succeeded" \in answers[r] \/ Durable(outbox, r)
  PROVE  SuccessInv'
  <1>1. call'[p] = c /\ \A q \in Procs \ {p} : call'[q] = call[q]
    BY DEF OutboxInv, TypeOK
  <1>2. \A q \in Procs : Holding(call'[q]) => Holding(call[q]) /\ call'[q].req = call[q].req
    BY <1>1
  <1>3. \A q \in Procs : call'[q].pc = "finish" /\ call'[q].receipt = "durable" => call'[q].req \in delivered'
    BY <1>1 DEF SuccessInv
  <1>4. \A r \in Requests : Durable(outbox', r) => r.kind = "ok" /\ r \in delivered'
    BY DEF SuccessInv
  <1>5. \A r \in Requests : "succeeded" \in answers'[r] => Durable(outbox', r)
    BY DEF SuccessInv
  <1>6. \A q \in Procs : Holding(call[q])' = Holding(call'[q])
    BY DEF Holding
  <1> QED BY <1>2, <1>3, <1>4, <1>5, <1>6 DEF SuccessInv

\* An answer that leaves the outbox as it is.
LEMMA SuccessAnswer ==
  ASSUME OutboxInv, SuccessInv, NEW p \in Procs, NEW r \in Requests, NEW status, Answer(p, r, status),
         UNCHANGED <<outbox, delivered>>, status = "succeeded" => Durable(outbox, r)
  PROVE  SuccessInv'
  <1>1. \A q \in Requests : "succeeded" \in answers'[q] => "succeeded" \in answers[q] \/ Durable(outbox, q)
    BY Answered
  <1> QED BY <1>1, Answered, SuccessFrame DEF Idle

\* outbox.begin inserts: nobody else holds the key.
LEMMA SuccessFresh ==
  ASSUME OutboxInv, SuccessInv, NEW p \in Procs, BeginFresh(p)
  PROVE  SuccessInv'
  <1> DEFINE r == call[p].req
             w == [print |-> r.print, status |-> "prepared", receipt |-> None]
  <1>0. r \in Requests /\ r.key \in Keys /\ call[p].pc = "begin" /\ outbox[r.key] = NoRow
    BY RequestType DEF OutboxInv, Fits, BeginFresh, At
  <1>1. outbox' = [outbox EXCEPT ![r.key] = w] /\ UNCHANGED delivered
    BY DEF BeginFresh
  <1>2. w.receipt = None /\ "durable" # None
    BY OutboxAssumption
  <1> HIDE DEF w
  <1>3. outbox'[r.key] = w /\ \A k \in Keys \ {r.key} : outbox'[k] = outbox[k]
    BY <1>0, <1>1 DEF OutboxInv, TypeOK
  <1>4. PICK c : /\ call' = [call EXCEPT ![p] = c] /\ c.pc # "finish"
                 /\ Holding(c) => c.req = r
                 /\ UNCHANGED answers \/ Answer(p, r, "failed")
    <2>1. CASE r.kind = "ok"
      <3> DEFINE c == [call[p] EXCEPT !.pc = "send"]
      <3>1. call' = [call EXCEPT ![p] = c] /\ UNCHANGED answers
        BY <2>1 DEF BeginFresh, Goto
      <3>2. c.pc = "send" /\ c.req = r
        BY DEF OutboxInv, TypeOK
      <3> QED BY <3>1, <3>2
    <2>2. CASE r.kind = "blank"
      <3> DEFINE c == [call[p] EXCEPT !.pc = "refuse"]
      <3>1. call' = [call EXCEPT ![p] = c] /\ UNCHANGED answers
        BY <2>2 DEF BeginFresh, Goto
      <3>2. c.pc = "refuse" /\ c.req = r
        BY DEF OutboxInv, TypeOK
      <3> QED BY <3>1, <3>2
    <2>3. CASE r.kind \notin {"ok", "blank"}
      <3>1. Answer(p, r, "failed")
        BY <2>3 DEF BeginFresh
      <3> QED BY <1>0, <3>1, Answered DEF Idle
    <2> QED BY <2>1, <2>2, <2>3
  <1>5. call'[p] = c /\ \A q \in Procs \ {p} : call'[q] = call[q]
    BY <1>4 DEF OutboxInv, TypeOK
  <1>6. ASSUME NEW q \in Procs \ {p}, Holding(call[q])
        PROVE  call[q].req \in Requests /\ call[q].req.key \in Keys /\ call[q].req.key # r.key
    BY <1>0, <1>6, RequestType DEF OutboxInv, Fits, Holding
  <1>7. \A q \in Procs : Holding(call'[q]) => outbox'[call'[q].req.key].receipt = None
    <2>1. ASSUME NEW q \in Procs, Holding(call'[q]) PROVE outbox'[call'[q].req.key].receipt = None
      <3>1. CASE q = p BY <1>2, <1>3, <1>4, <1>5, <2>1, <3>1
      <3>2. CASE q # p BY <1>3, <1>5, <1>6, <2>1, <3>2 DEF SuccessInv
      <3> QED BY <3>1, <3>2
    <2> QED BY <2>1
  <1>8. \A q, t \in Procs :
          Holding(call'[q]) /\ Holding(call'[t]) /\ call'[q].req.key = call'[t].req.key => q = t
    <2>1. ASSUME NEW q \in Procs, NEW t \in Procs, Holding(call'[q]), Holding(call'[t]),
                 call'[q].req.key = call'[t].req.key
          PROVE  q = t
      <3>1. CASE q = p /\ t # p BY <1>4, <1>5, <1>6, <2>1, <3>1
      <3>2. CASE q # p /\ t = p BY <1>4, <1>5, <1>6, <2>1, <3>2
      <3>3. CASE q # p /\ t # p BY <1>5, <2>1, <3>3 DEF SuccessInv
      <3> QED BY <3>1, <3>2, <3>3
    <2> QED BY <2>1
  <1>9. \A q \in Procs : call'[q].pc = "finish" /\ call'[q].receipt = "durable" => call'[q].req \in delivered'
    BY <1>1, <1>4, <1>5 DEF SuccessInv
  <1>10. \A s \in Requests : Durable(outbox', s) <=> Durable(outbox, s)
    <2>1. ASSUME NEW s \in Requests PROVE Durable(outbox', s) <=> Durable(outbox, s)
      <3>1. CASE s.key = r.key BY <1>0, <1>2, <1>3, <3>1 DEF Durable
      <3>2. CASE s.key # r.key BY <1>3, <3>2, RequestType DEF Durable
      <3> QED BY <3>1, <3>2
    <2> QED BY <2>1
  <1>11. \A s \in Requests : "succeeded" \in answers'[s] => "succeeded" \in answers[s]
    <2>1. CASE UNCHANGED answers BY <2>1
    <2>2. CASE Answer(p, r, "failed") BY <1>0, <2>2, Answered
    <2> QED BY <1>4, <2>1, <2>2
  <1>12. \A q \in Procs : Holding(call[q])' = Holding(call'[q])
    BY DEF Holding
  <1> QED BY <1>1, <1>7, <1>8, <1>9, <1>10, <1>11, <1>12 DEF SuccessInv

\* outbox.finish: the holder stores what it knows and holds the key no longer.
LEMMA SuccessFinish ==
  ASSUME OutboxInv, SuccessInv, NEW p \in Procs, Refuse(p) \/ Finish(p)
  PROVE  SuccessInv'
  <1> DEFINE r == call[p].req
  <1>0. /\ r \in Requests /\ r.key \in Keys /\ outbox[r.key] \in Rows /\ outbox[r.key].print = r.print
        /\ Holding(call[p]) /\ UNCHANGED delivered
    BY RequestType DEF OutboxInv, TypeOK, Fits, Refuse, Finish, At, Holding
  <1>1. PICK status \in {"failed", "finished"}, receipt \in Receipts \cup {None}, answer \in Statuses :
          /\ finish(r.key, status, receipt) /\ Answer(p, r, answer)
          /\ answer = "succeeded" => receipt = "durable"
          /\ receipt = "durable" => r.kind = "ok" /\ r \in delivered
    <2>1. CASE Refuse(p)
      BY <2>1, OutboxAssumption DEF Refuse, Statuses
    <2>2. CASE Finish(p)
      <3>1. /\ call[p].receipt \in Receipts /\ finish(r.key, "finished", call[p].receipt)
            /\ Answer(p, r, from_receipt(call[p].receipt)) /\ r.kind = "ok"
            /\ call[p].receipt = "durable" => r \in delivered
        BY <2>2 DEF Finish, OutboxInv, Fits, At, SuccessInv
      <3>2. /\ from_receipt(call[p].receipt) \in Statuses
            /\ from_receipt(call[p].receipt) = "succeeded" => call[p].receipt = "durable"
        BY DEF from_receipt, Statuses
      <3> QED BY <3>1, <3>2
    <2> QED BY <2>1, <2>2
  <1> DEFINE w == [outbox[r.key] EXCEPT !.status = status, !.receipt = receipt]
  <1>2. outbox' = [outbox EXCEPT ![r.key] = w]
    BY <1>0, <1>1 DEF finish, OutboxInv, TypeOK
  <1>3. w \in Rows /\ w # NoRow /\ w.print = r.print /\ w.receipt = receipt
    BY <1>0, OutboxAssumption DEF Rows, NoRow
  <1> HIDE DEF w
  <1>4. outbox'[r.key] = w /\ \A k \in Keys \ {r.key} : outbox'[k] = outbox[k]
    BY <1>0, <1>2 DEF OutboxInv, TypeOK
  <1>5. call'[p] = Idle /\ ~ Holding(Idle) /\ Idle.pc # "finish" /\ \A q \in Procs \ {p} : call'[q] = call[q]
    BY <1>0, <1>1, Answered DEF OutboxInv, TypeOK, Idle
  <1>6. ASSUME NEW q \in Procs, Holding(call'[q])
        PROVE  /\ q # p /\ call'[q] = call[q] /\ Holding(call[q])
               /\ call[q].req.key \in Keys /\ call[q].req.key # r.key
    <2>1. q # p /\ call'[q] = call[q] /\ Holding(call[q])
      BY <1>5, <1>6
    <2>2. call[q].req \in Requests
      BY <2>1 DEF OutboxInv, Fits, Holding
    <2>3. call[q].req.key # r.key
      BY <1>0, <2>1 DEF SuccessInv
    <2> QED BY <2>1, <2>2, <2>3, RequestType
  <1>7. \A q \in Procs : Holding(call'[q]) => outbox'[call'[q].req.key].receipt = None
    BY <1>4, <1>6 DEF SuccessInv
  <1>8. \A q, t \in Procs :
          Holding(call'[q]) /\ Holding(call'[t]) /\ call'[q].req.key = call'[t].req.key => q = t
    BY <1>6 DEF SuccessInv
  <1>9. \A q \in Procs : call'[q].pc = "finish" /\ call'[q].receipt = "durable" => call'[q].req \in delivered'
    BY <1>0, <1>5 DEF SuccessInv
  <1>10. \A s \in Requests : s.key # r.key => (Durable(outbox', s) <=> Durable(outbox, s))
    BY <1>4, RequestType DEF Durable
  <1>11. ASSUME NEW s \in Requests, s.key = r.key
         PROVE  /\ Durable(outbox', s) <=> s = r /\ receipt = "durable"
                /\ ~ Durable(outbox, s)
    <2>1. ~ Durable(outbox, s)
      BY <1>0, <1>11, OutboxAssumption DEF Durable, SuccessInv
    <2>2. s.print = r.print => s = r
      BY <1>0, <1>11, SameRequest
    <2> QED BY <1>3, <1>4, <1>11, <2>1, <2>2 DEF Durable
  <1>12. \A s \in Requests : Durable(outbox', s) => s.kind = "ok" /\ s \in delivered'
    BY <1>0, <1>1, <1>10, <1>11 DEF SuccessInv
  <1>13. ASSUME NEW s \in Requests, "succeeded" \in answers'[s] PROVE Durable(outbox', s)
    <2>1. CASE s = r /\ "succeeded" \notin answers[r]
      <3>1. answer = "succeeded"
        BY <1>0, <1>1, <1>13, <2>1, Answered
      <3> QED BY <1>0, <1>1, <1>11, <2>1, <3>1
    <2>2. CASE s # r \/ "succeeded" \in answers[r]
      <3>1. "succeeded" \in answers[s]
        BY <1>0, <1>1, <1>13, <2>2, Answered
      <3>2. Durable(outbox, s)
        BY <3>1 DEF SuccessInv
      <3> QED BY <3>2, <1>10, <1>11
    <2> QED BY <2>1, <2>2
  <1>14. \A q \in Procs : Holding(call[q])' = Holding(call'[q])
    BY DEF Holding
  <1> QED BY <1>7, <1>8, <1>9, <1>12, <1>13, <1>14 DEF SuccessInv

\* The steps that leave the outbox alone.
LEMMA SuccessOther ==
  ASSUME OutboxInv, SuccessInv, NEW p \in Procs,
         \/ \E r \in Requests : Execute(p, r)
         \/ BeginReplay(p) \/ Send(p) \/ SendReturns(p) \/ SendRaises(p) \/ StorageFails(p) \/ Crash(p)
  PROVE  SuccessInv'
  <1> DEFINE r == call[p].req
  <1>1. ASSUME NEW q \in Requests, Execute(p, q) PROVE SuccessInv'
    <2>1. CASE q.kind = "other"
      BY <1>1, <2>1, SuccessAnswer DEF Execute
    <2>2. CASE q.kind # "other"
      <3> DEFINE c == [Idle EXCEPT !.pc = "begin", !.req = q]
      <3>1. call' = [call EXCEPT ![p] = c] /\ UNCHANGED <<outbox, delivered, answers>>
        BY <1>1, <2>2 DEF Execute
      <3>2. c.pc = "begin"
        BY DEF Idle
      <3> HIDE DEF c
      <3> QED BY <3>1, <3>2, SuccessFrame DEF Holding
    <2> QED BY <2>1, <2>2
  <1>2. CASE BeginReplay(p)
    <2>0. r \in Requests /\ outbox[r.key] # NoRow /\ UNCHANGED <<outbox, delivered>>
      BY <1>2 DEF BeginReplay, At, OutboxInv, Fits
    <2> DEFINE old == outbox[r.key]
               status == CASE old.print # r.print   -> "failed"
                           [] old.print = r.print /\ old.receipt = None -> "write_status_unknown"
                           [] OTHER                 -> from_receipt(old.receipt)
    <2>1. Answer(p, r, status)
      BY <1>2 DEF BeginReplay
    <2>2. status = "succeeded" => old.print = r.print /\ old.receipt = "durable"
      <3>1. CASE old.print # r.print
        BY <3>1
      <3>2. CASE old.print = r.print /\ old.receipt = None
        BY <3>2
      <3>3. CASE old.print = r.print /\ old.receipt # None
        BY <3>3 DEF from_receipt
      <3> QED BY <3>1, <3>2, <3>3
    <2>3. status = "succeeded" => Durable(outbox, r)
      BY <2>0, <2>2 DEF Durable
    <2> HIDE DEF status
    <2> QED BY <2>0, <2>1, <2>3, SuccessAnswer
  <1>3. CASE Send(p)
    <2> DEFINE c == [call[p] EXCEPT !.pc = "sending"]
    <2>1. call' = [call EXCEPT ![p] = c] /\ UNCHANGED <<outbox, answers>> /\ delivered \subseteq delivered'
      BY <1>3 DEF Send, Goto
    <2>2. c.pc = "sending" /\ c.req = r /\ Holding(call[p])
      BY <1>3 DEF OutboxInv, TypeOK, Send, At, Holding
    <2> HIDE DEF c
    <2> QED BY <2>1, <2>2, SuccessFrame
  <1>4. CASE SendReturns(p)
    <2>1. PICK receipt \in Receipts :
            /\ receipt = "durable" => r \in delivered
            /\ call' = [call EXCEPT ![p].pc = "finish", ![p].receipt = receipt]
      BY <1>4 DEF SendReturns
    <2> DEFINE c == [call[p] EXCEPT !.pc = "finish", !.receipt = receipt]
    <2>2. call' = [call EXCEPT ![p] = c] /\ UNCHANGED <<outbox, delivered, answers>>
      BY <1>4, <2>1 DEF OutboxInv, TypeOK, SendReturns
    <2>3. c.pc = "finish" /\ c.req = r /\ c.receipt = receipt /\ Holding(call[p])
      BY <1>4 DEF OutboxInv, TypeOK, SendReturns, At, Holding
    <2> HIDE DEF c
    <2> QED BY <2>1, <2>2, <2>3, SuccessFrame
  <1>5. CASE SendRaises(p) \/ StorageFails(p)
    <2>1. r \in Requests /\ UNCHANGED <<outbox, delivered>>
          /\ (Answer(p, r, "write_status_unknown") \/ Answer(p, r, "failed"))
      BY <1>5 DEF SendRaises, StorageFails, At, OutboxInv, Fits
    <2> QED BY <2>1, SuccessAnswer
  <1>6. CASE Crash(p)
    <2>1. call' = [call EXCEPT ![p] = Idle] /\ UNCHANGED <<outbox, delivered, answers>>
      BY <1>6 DEF Crash
    <2> QED BY <2>1, SuccessFrame DEF Idle, Holding
  <1> QED BY <1>1, <1>2, <1>3, <1>4, <1>5, <1>6

\* What a step can answer to a request that succeeded.
LEMMA SuccessStays ==
  ASSUME OutboxInv, SuccessInv, [Next]_vars, NEW r \in Requests, "succeeded" \in answers[r]
  PROVE  r \in delivered /\ (answers'[r] = answers[r] \/ r \in faulted')
  <1>1. Durable(outbox, r) /\ r.kind = "ok" /\ r \in delivered
    BY DEF SuccessInv
  <1>2. ASSUME NEW p \in Procs, NEW status, Answer(p, r, status), status = "succeeded" \/ r \in faulted'
        PROVE  answers'[r] = answers[r] \/ r \in faulted'
    BY SMTT(30), <1>2, Answered
  <1>3. ASSUME NEW p \in Procs, NEW q \in Requests \ {r}, NEW status, Answer(p, q, status)
        PROVE  answers'[r] = answers[r]
    BY <1>3, Answered
  <1>4. ASSUME NEW p \in Procs, Holding(call[p]) PROVE call[p].req # r
    BY <1>1, <1>4, OutboxAssumption DEF SuccessInv, Durable
  <1>5. ASSUME NEW p \in Procs, NEW q \in Requests, Execute(p, q) PROVE answers'[r] = answers[r]
    <2>1. CASE q.kind = "other"
      BY <1>1, <1>3, <1>5, <2>1 DEF Execute
    <2>2. CASE q.kind # "other"
      BY <1>5, <2>2 DEF Execute
    <2> QED BY <2>1, <2>2
  <1>6. ASSUME NEW p \in Procs, BeginFresh(p) PROVE answers'[r] = answers[r]
    <2>1. call[p].req \in Requests /\ call[p].req # r
      BY <1>1, <1>6 DEF BeginFresh, At, OutboxInv, Fits, Durable
    <2>2. UNCHANGED answers \/ Answer(p, call[p].req, "failed")
      BY <1>6 DEF BeginFresh
    <2> QED BY <1>3, <2>1, <2>2
  <1>7. ASSUME NEW p \in Procs, BeginReplay(p) PROVE answers'[r] = answers[r] \/ r \in faulted'
    <2>1. call[p].req \in Requests
      BY <1>7 DEF BeginReplay, At, OutboxInv, Fits
    <2>2. CASE call[p].req # r
      <3>1. PICK status : Answer(p, call[p].req, status)
        BY <1>7 DEF BeginReplay
      <3> QED BY <1>3, <2>1, <2>2, <3>1
    <2>3. CASE call[p].req = r
      <3>1. Answer(p, r, "succeeded")
        BY <1>1, <1>7, <2>3, OutboxAssumption DEF BeginReplay, from_receipt, Durable
      <3> QED BY <1>2, <3>1
    <2> QED BY <2>2, <2>3
  <1>8. ASSUME NEW p \in Procs, Refuse(p) \/ Finish(p) \/ SendRaises(p) PROVE answers'[r] = answers[r]
    <2>1. Holding(call[p]) /\ call[p].req \in Requests
      BY <1>8 DEF Refuse, Finish, SendRaises, At, OutboxInv, Fits, Holding
    <2>2. PICK status : Answer(p, call[p].req, status)
      BY <1>8 DEF Refuse, Finish, SendRaises
    <2> QED BY <1>3, <1>4, <2>1, <2>2
  <1>9. ASSUME NEW p \in Procs, StorageFails(p) PROVE answers'[r] = answers[r] \/ r \in faulted'
    <2>1. /\ call[p].req \in Requests /\ Answer(p, call[p].req, "failed")
          /\ faulted' = faulted \cup {call[p].req}
      BY <1>9 DEF StorageFails, OutboxInv, Fits
    <2> QED BY <1>3, <2>1
  <1>10. ASSUME NEW p \in Procs, Send(p) \/ SendReturns(p) \/ Crash(p) PROVE answers'[r] = answers[r]
    BY <1>10 DEF Send, SendReturns, Crash
  <1> QED BY <1>1, <1>5, <1>6, <1>7, <1>8, <1>9, <1>10 DEF Next, vars

\* Only the process that inserted the intent ever stores a receipt, and it does
\* before it answers.
LEMMA SuccessInvariant == Spec => []SuccessInv
  <1>1. Init => SuccessInv
    <2> SUFFICES ASSUME Init PROVE SuccessInv OBVIOUS
    <2>1. \A p \in Procs : ~ Holding(call[p]) /\ call[p].pc # "finish"
      BY DEF Init, Idle, Holding
    <2>2. \A r \in Requests : answers[r] = {} /\ ~ Durable(outbox, r)
      BY RequestType DEF Init, Durable
    <2> QED BY <2>1, <2>2 DEF SuccessInv
  <1>2. OutboxInv /\ SuccessInv /\ [Next]_vars => SuccessInv'
    <2> SUFFICES ASSUME OutboxInv, SuccessInv, [Next]_vars PROVE SuccessInv' OBVIOUS
    <2>1. CASE UNCHANGED vars
      BY <2>1 DEF vars, SuccessInv, Holding
    <2>2. CASE Next
      BY <2>2, SuccessFresh, SuccessFinish, SuccessOther DEF Next
    <2> QED BY <2>1, <2>2
  <1> QED BY <1>1, <1>2, OutboxInvariant, PTL DEF Spec

-----------------------------------------------------------------------------
\* What was delivered was sent.
Delivered == \A r \in Requests : r \in delivered => sent[r] > 0

\* The transport is asked for a message that nothing was sent under the key of.
LEMMA SendTries ==
  ASSUME OutboxInv, NEW p \in Procs, Send(p)
  PROVE  \E r \in Requests : Promise!Try(r)
  <1>1. call[p].pc = "send" /\ call[p].req \in Requests
    BY DEF Send, At, OutboxInv, Fits
  <1>2. PICK r \in Requests : r = call[p].req
    BY <1>1
  <1>3. /\ sent' = [sent EXCEPT ![r] = @ + 1] /\ delivered' \in {delivered, delivered \cup {r}}
        /\ UNCHANGED <<answers, faulted>>
    BY <1>2 DEF Send
  <1>4. \A q \in Requests : q.key = r.key => ~ (sent[q] > 0)
    BY <1>1, <1>2 DEF OutboxInv, Exclusive
  <1> QED BY <1>3, <1>4 DEF Promise!Try

\* Whatever is answered without sending is what the contract allows.
LEMMA AnswerSays ==
  ASSUME OutboxInv, OutboxInv', SuccessInv, SuccessInv', Delivered, [Next]_vars,
         NEW p \in Procs, NEW r \in Requests, NEW status \in Statuses, Answer(p, r, status),
         UNCHANGED <<sent, delivered>>, faulted' \in {faulted, faulted \cup {r}}
  PROVE  Promise!ContractNext \/ UNCHANGED Promise!contractVars
  <1>1. answers' = [answers EXCEPT ![r] = @ \cup {status}] /\ status \in answers'[r]
    BY DEF Answer, OutboxInv, TypeOK
  <1>2. CASE "succeeded" \in answers[r] /\ r \notin faulted'
    <2>1. answers'[r] = answers[r]
      BY <1>2, SuccessStays
    <2>2. UNCHANGED answers
      BY <1>1, <2>1 DEF OutboxInv, TypeOK
    <2>3. UNCHANGED faulted
      BY <1>2
    <2> QED BY <2>2, <2>3 DEF Promise!contractVars
  <1>3. CASE "succeeded" \notin answers[r] \/ r \in faulted'
    <2>1. r \in delivered' => sent[r] > 0
      BY DEF Delivered
    <2>2. status = "succeeded" => r \in delivered'
      <3>1. status = "succeeded" => "succeeded" \in answers'[r]
        BY <1>1
      <3> QED BY <3>1 DEF SuccessInv
    <2>3. status = "failed" /\ r \notin faulted' => sent[r] = 0
      <3> SUFFICES ASSUME status = "failed", r \notin faulted' PROVE sent[r] = 0
        OBVIOUS
      <3>1. Hopeless(r, outbox')
        BY <1>1 DEF OutboxInv
      <3>2. ~ (sent[r] > 0)
        BY <3>1 DEF OutboxInv, Sent, Hopeless
      <3> QED BY <3>2 DEF OutboxInv, TypeOK
    <2>4. status \in Promise!ExecutionStatus
      BY DEF Statuses, Promise!ExecutionStatus
    <2>5. Promise!Say(r, status)
      BY <1>1, <1>3, <2>1, <2>2, <2>3 DEF Promise!Say
    <2> QED BY <2>4, <2>5 DEF Promise!ContractNext
  <1> QED BY <1>2, <1>3

\* A step of a process sends, answers, or is none that the contract sees.
LEMMA StepKinds ==
  ASSUME OutboxInv, NEW p \in Procs,
         \/ \E r \in Requests : Execute(p, r)
         \/ BeginFresh(p) \/ BeginReplay(p) \/ Refuse(p) \/ SendReturns(p) \/ SendRaises(p)
         \/ Finish(p) \/ StorageFails(p) \/ Crash(p)
  PROVE  \/ UNCHANGED <<sent, delivered, answers, faulted>>
         \/ \E r \in Requests : \E status \in Statuses :
              /\ Answer(p, r, status) /\ UNCHANGED <<sent, delivered>>
              /\ faulted' \in {faulted, faulted \cup {r}}
  <1> DEFINE r == call[p].req
  <1>0. call[p].pc # "idle" => r \in Requests
    BY DEF OutboxInv, Fits
  <1>1. CASE \E q \in Requests : Execute(p, q)
    BY <1>1 DEF Execute, Statuses
  <1>2. CASE BeginFresh(p)
    <2>1. r \in Requests /\ UNCHANGED <<sent, delivered, faulted>>
      BY <1>0, <1>2 DEF BeginFresh, At
    <2>2. UNCHANGED answers \/ Answer(p, r, "failed")
      BY <1>2 DEF BeginFresh
    <2> QED BY <2>1, <2>2 DEF Statuses
  <1>3. CASE BeginReplay(p)
    <2>1. r \in Requests /\ UNCHANGED <<sent, delivered, faulted>>
      BY <1>0, <1>3 DEF BeginReplay, At
    <2>2. \E status \in Statuses : Answer(p, r, status)
      BY <1>3 DEF BeginReplay, from_receipt, Statuses
    <2> QED BY <2>1, <2>2
  <1>4. CASE Refuse(p) \/ SendRaises(p) \/ StorageFails(p)
    <2>1. r \in Requests /\ UNCHANGED <<sent, delivered>> /\ faulted' \in {faulted, faulted \cup {r}}
      BY <1>0, <1>4 DEF Refuse, SendRaises, StorageFails, At
    <2>2. Answer(p, r, "failed") \/ Answer(p, r, "write_status_unknown")
      BY <1>4 DEF Refuse, SendRaises, StorageFails
    <2> QED BY <2>1, <2>2 DEF Statuses
  <1>5. CASE Finish(p)
    <2>1. r \in Requests /\ UNCHANGED <<sent, delivered, faulted>>
          /\ Answer(p, r, from_receipt(call[p].receipt))
      BY <1>0, <1>5 DEF Finish, At
    <2>2. from_receipt(call[p].receipt) \in Statuses
      BY DEF from_receipt, Statuses
    <2> QED BY <2>1, <2>2
  <1>6. CASE SendReturns(p) \/ Crash(p)
    BY <1>6 DEF SendReturns, Crash
  <1> QED BY <1>1, <1>2, <1>3, <1>4, <1>5, <1>6

\* The processes keep ExecutorContract together, through crashes: a key is sent once,
\* FAILED is answered only for what was never sent, SUCCEEDED for what was delivered
\* and ever after, apart from exceptions that are no OSError (outbox.begin and finish
\* around transport.send in execute).
THEOREM ImplementsExecutorHolds == Spec => ImplementsExecutor
  <1>1. Init => Promise!New /\ Delivered
    BY DEF Init, Promise!New, Delivered
  <1>2. OutboxInv /\ Delivered /\ [Next]_vars => Delivered'
    <2> SUFFICES ASSUME OutboxInv, Delivered, [Next]_vars PROVE Delivered' OBVIOUS
    <2>1. ASSUME NEW p \in Procs, Send(p) PROVE Delivered'
      <3>1. call[p].req \in Requests
        BY <2>1 DEF Send, At, OutboxInv, Fits
      <3> QED BY <2>1, <3>1 DEF Send, Delivered, OutboxInv, TypeOK
    <2>2. ASSUME UNCHANGED <<sent, delivered>> PROVE Delivered'
      BY <2>2 DEF Delivered
    <2>3. (\E p \in Procs : Send(p)) \/ UNCHANGED <<sent, delivered>>
      BY DEF Next, vars, Execute, BeginFresh, BeginReplay, Refuse, SendReturns, SendRaises, Finish,
             StorageFails, Crash
    <2> QED BY <2>1, <2>2, <2>3
  <1>3. /\ OutboxInv /\ OutboxInv' /\ SuccessInv /\ SuccessInv' /\ Delivered /\ [Next]_vars
        => [Promise!ContractNext]_(Promise!contractVars)
    <2> SUFFICES ASSUME OutboxInv, OutboxInv', SuccessInv, SuccessInv', Delivered, [Next]_vars
                 PROVE  Promise!ContractNext \/ UNCHANGED Promise!contractVars
      OBVIOUS
    <2>1. CASE UNCHANGED vars
      BY <2>1 DEF vars, Promise!contractVars
    <2>2. ASSUME NEW p \in Procs, Send(p) PROVE Promise!ContractNext
      BY <2>2, SendTries DEF Promise!ContractNext
    <2>3. ASSUME NEW p \in Procs,
                 \/ \E r \in Requests : Execute(p, r)
                 \/ BeginFresh(p) \/ BeginReplay(p) \/ Refuse(p) \/ SendReturns(p) \/ SendRaises(p)
                 \/ Finish(p) \/ StorageFails(p) \/ Crash(p)
          PROVE  Promise!ContractNext \/ UNCHANGED Promise!contractVars
      <3>1. CASE UNCHANGED <<sent, delivered, answers, faulted>>
        BY <3>1 DEF Promise!contractVars
      <3>2. CASE \E r \in Requests : \E status \in Statuses :
                   /\ Answer(p, r, status) /\ UNCHANGED <<sent, delivered>>
                   /\ faulted' \in {faulted, faulted \cup {r}}
        BY <3>2, AnswerSays
      <3> QED BY <2>3, <3>1, <3>2, StepKinds
    <2> QED BY <2>1, <2>2, <2>3 DEF Next
  <1> QED BY <1>1, <1>2, <1>3, OutboxInvariant, SuccessInvariant, PTL
          DEF Spec, ImplementsExecutor, Promise!ContractSpec

=============================================================================
