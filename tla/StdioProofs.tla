----------------------------- MODULE StdioProofs -----------------------------
(***************************************************************************)
(* For any number of calls, any split of the server's output into reads,   *)
(* and any server that answers what it was asked, once at most: a result   *)
(* rests on its answer to the very request, and a framing error is final.  *)
(***************************************************************************)
EXTENDS McpStdio, FiniteSetTheorems, SequenceTheorems, TLAPS

\* What is on its way to the server: the pipe, and what is still to be written.
sent == stdin \o unsent

\* A request is in at most one place: its line on its way, its place among what the
\* server has not answered, or its answer; and it was begun.
Flow ==
  /\ \A j, k \in Ends(sent) : sent[j].msg.id = sent[k].msg.id => j = k
  /\ \A j, k \in DOMAIN server.pending : server.pending[j] = server.pending[k] => j = k
  /\ \A j \in Ends(sent) :
       /\ sent[j].msg.id \in 1..current /\ answered[sent[j].msg.id] = None
       /\ \A k \in DOMAIN server.pending : server.pending[k] # sent[j].msg.id
  /\ \A k \in DOMAIN server.pending :
       server.pending[k] \in 1..current /\ answered[server.pending[k]] = None
  /\ \A i \in Ids : answered[i] # None => i <= current

\* A line that ends in s and names a request is the server's answer to it.
Honest(s) ==
  \A k \in Ends(s) :
    LET m == s[k].msg
    IN  m.id \in Ids => answered[m.id] = m.body /\ (m.body = "ok" => m.id \in applied)

\* The inductive invariant.
StdioInv ==
  /\ TypeOK
  /\ pc # "idle" => current \in Ids
  /\ pc # "write" => unsent = <<>>
  /\ Flow
  /\ Honest(stdout) /\ Honest(codec.buffer)
  /\ pc = "observe" => answered[current] = "ok"
  /\ OwnAnswer
  /\ garbled => codec.poisoned
  /\ codec.poisoned => pc = "idle"

-----------------------------------------------------------------------------
\* A sequence cut in two.
LEMMA Cut ==
  ASSUME NEW S, NEW s \in Seq(S), NEW n \in 0..Len(s)
  PROVE  /\ SubSeq(s, 1, n) \in Seq(S) /\ Len(SubSeq(s, 1, n)) = n
         /\ \A i \in 1..n : SubSeq(s, 1, n)[i] = s[i]
         /\ SubSeq(s, n + 1, Len(s)) \in Seq(S) /\ Len(SubSeq(s, n + 1, Len(s))) = Len(s) - n
         /\ \A i \in 1..(Len(s) - n) : SubSeq(s, n + 1, Len(s))[i] = s[n + i]
  <1>1. Len(s) \in Nat /\ \A i \in 1..Len(s) : s[i] \in S
    OBVIOUS
  <1>2. /\ SubSeq(s, 1, n) \in Seq(S) /\ Len(SubSeq(s, 1, n)) = (IF 1 <= n THEN n - 1 + 1 ELSE 0)
        /\ \A i \in 1..(n - 1 + 1) : SubSeq(s, 1, n)[i] = s[1 + i - 1]
    BY <1>1, SubSeqProperties
  <1> DEFINE m == n + 1
             l == Len(s)
  <1>3. m \in Int /\ l \in Int /\ \A i \in m..l : s[i] \in S
    BY <1>1
  <1>4. /\ SubSeq(s, m, l) \in Seq(S) /\ Len(SubSeq(s, m, l)) = (IF m <= l THEN l - m + 1 ELSE 0)
        /\ \A i \in 1..(l - m + 1) : SubSeq(s, m, l)[i] = s[m + i - 1]
    <2> HIDE DEF m, l
    <2> QED BY <1>3, SubSeqProperties
  <1> QED BY <1>1, <1>2, <1>4

\* The elements of a concatenation.
LEMMA Joined ==
  ASSUME NEW S, NEW s \in Seq(S), NEW t \in Seq(S)
  PROVE  /\ s \o t \in Seq(S) /\ Len(s \o t) = Len(s) + Len(t)
         /\ \A i \in 1..Len(s) : (s \o t)[i] = s[i]
         /\ \A i \in 1..Len(t) : (s \o t)[Len(s) + i] = t[i]
         /\ \A i \in 1..(Len(s) + Len(t)) : i > Len(s) => (s \o t)[i] = t[i - Len(s)] /\ i - Len(s) \in 1..Len(t)
  BY ConcatProperties

\* Concatenation of tokens is associative.
LEMMA Associative ==
  ASSUME NEW s \in Seq(Tokens), NEW t \in Seq(Tokens), NEW u \in Seq(Tokens)
  PROVE  (s \o t) \o u = s \o (t \o u)
  BY ConcatAssociative

\* A write moves tokens from one side of what is on its way to the other.
LEMMA Written ==
  ASSUME NEW s \in Seq(Tokens), NEW u \in Seq(Tokens), NEW n \in 1..Len(u)
  PROVE  (s \o SubSeq(u, 1, n)) \o SubSeq(u, n + 1, Len(u)) = s \o u
  <1> DEFINE a == SubSeq(u, 1, n)
             b == SubSeq(u, n + 1, Len(u))
  <1>1. a \in Seq(Tokens) /\ b \in Seq(Tokens)
    BY Cut
  <1>2. a \o b = u
    <2>1. a \o b = SubSeq(u, 1, Len(u))
      BY ConcatAdjacentSubSeq
    <2> QED BY <2>1, SubSeqFull
  <1> HIDE DEF a, b
  <1>3. (s \o a) \o b = s \o (a \o b)
    BY <1>1, Associative
  <1>4. (s \o a) \o b = s \o u
    BY <1>2, <1>3
  <1> QED BY <1>4 DEF a, b

\* A line of a message is two tokens, and the second one ends it.
LEMMA LineOfTwo ==
  ASSUME NEW m \in Messages
  PROVE  /\ Line(m) \in Seq(Tokens) /\ Len(Line(m)) = 2 /\ Line(m) # <<>>
         /\ ~ Line(m)[1].tail /\ Line(m)[2].tail /\ Line(m)[2].msg = m
  BY DEF Line, Head_, Tail_, Tokens

\* What is left in the buffer is the end of what was in it.
LEMMA RestIsSuffix ==
  ASSUME NEW buf \in Seq(Tokens)
  PROVE  \E n \in 0..Len(buf) : Rest(buf) = SubSeq(buf, n + 1, Len(buf))
  <1> DEFINE after == {k \in 1..Len(buf) : \A j \in k..Len(buf) : ~ buf[j].tail}
             c == Cardinality(after)
  <1>1. IsFiniteSet(1..Len(buf)) /\ Cardinality(1..Len(buf)) = Len(buf)
    <2> DEFINE l == Len(buf)
    <2>1. l \in Nat /\ l \in Int /\ 1 \in Int
      OBVIOUS
    <2> HIDE DEF l
    <2>2. IsFiniteSet(1..l) /\ Cardinality(1..l) = l
      BY <2>1, FS_Interval
    <2> QED BY <2>2 DEF l
  <1>2. IsFiniteSet(after) /\ c <= Len(buf) /\ c \in Nat
    BY <1>1, FS_Subset, FS_CardinalityType
  <1>3. Len(buf) - c \in 0..Len(buf)
    BY <1>2
  <1>4. Rest(buf) = SubSeq(buf, (Len(buf) - c) + 1, Len(buf))
    BY DEF Rest
  <1> QED BY <1>3, <1>4

-----------------------------------------------------------------------------
\* Whatever a sequence is cut to, it stays honest, and so does what is joined.
LEMMA HonestParts ==
  ASSUME NEW s \in Seq(Tokens), Honest(s), NEW n \in 0..Len(s)
  PROVE  Honest(SubSeq(s, 1, n)) /\ Honest(SubSeq(s, n + 1, Len(s)))
  <1>1. \A k \in Ends(SubSeq(s, 1, n)) : k \in Ends(s) /\ SubSeq(s, 1, n)[k] = s[k]
    BY Cut DEF Ends
  <1>2. \A k \in Ends(SubSeq(s, n + 1, Len(s))) : n + k \in Ends(s) /\ SubSeq(s, n + 1, Len(s))[k] = s[n + k]
    BY Cut DEF Ends
  <1> QED BY ZenonT(30), <1>1, <1>2 DEF Honest

LEMMA HonestJoin ==
  ASSUME NEW s \in Seq(Tokens), Honest(s), NEW t \in Seq(Tokens), Honest(t)
  PROVE  Honest(s \o t)
  <1>1. \A k \in Ends(s \o t) :
           \/ k \in Ends(s) /\ (s \o t)[k] = s[k]
           \/ k - Len(s) \in Ends(t) /\ (s \o t)[k] = t[k - Len(s)]
    <2> SUFFICES ASSUME NEW k \in Ends(s \o t)
                 PROVE  \/ k \in Ends(s) /\ (s \o t)[k] = s[k]
                        \/ k - Len(s) \in Ends(t) /\ (s \o t)[k] = t[k - Len(s)]
      OBVIOUS
    <2>1. k \in 1..(Len(s) + Len(t)) /\ (s \o t)[k].tail
      BY Joined DEF Ends
    <2>2. CASE k <= Len(s)
      BY <2>1, <2>2, Joined DEF Ends
    <2>3. CASE k > Len(s)
      BY <2>1, <2>3, Joined DEF Ends
    <2> QED BY <2>1, <2>2, <2>3
  <1> QED BY <1>1 DEF Honest

\* What the client does to the current message keeps the flow in order.
LEMMA FlowTruncated ==
  ASSUME TypeOK, Flow, unsent' = <<>>, UNCHANGED <<stdin, server, answered, next_id>>
  PROVE  Flow'
  <1>1. sent' = stdin \o <<>> /\ sent = stdin \o unsent
    BY DEF sent
  <1>2. /\ stdin \in Seq(Tokens) /\ unsent \in Seq(Tokens) /\ <<>> \in Seq(Tokens)
    BY DEF TypeOK
  <1>3. \A k \in Ends(sent') : k \in Ends(sent) /\ sent'[k] = sent[k]
    BY <1>1, <1>2, Joined DEF Ends
  <1> QED BY <1>3 DEF Flow, current

\* execute returns with a status that is true of the request.
LEMMA ReturnStep ==
  ASSUME StdioInv, pc # "idle", NEW status \in Statuses, Return(status),
         status = "succeeded" => answered[current] = "ok" /\ current \in applied,
         status = "failed" => answered[current] = "tool_error",
         UNCHANGED <<require_readback, next_id, stdin, world>>,
         stdout' \in Seq(Tokens), Honest(stdout'), stderr' \in BOOLEAN, eof' \in BOOLEAN, garbled' \in BOOLEAN,
         codec' \in [buffer : Seq(Tokens), poisoned : BOOLEAN], Honest(codec'.buffer),
         garbled' => codec'.poisoned
  PROVE  StdioInv'
  <1>1. /\ outcome' = [outcome EXCEPT ![current] = status] /\ pc' = "idle" /\ unsent' = <<>> /\ used' = 0
        /\ UNCHANGED <<server, noise, drained, applied, answered>>
    BY DEF Return, world
  <1>2. current \in Ids
    BY DEF StdioInv
  <1>3. TypeOK'
    <2>1. outcome' \in [Ids -> Statuses \cup {None}]
      BY <1>1, <1>2 DEF StdioInv, TypeOK
    <2>2. used' \in 0..MaxEvents /\ unsent' \in Seq(Tokens)
      BY <1>1, StdioAssumption
    <2> QED BY <1>1, <2>1, <2>2 DEF StdioInv, TypeOK
  <1>4. Flow'
    BY <1>1, FlowTruncated DEF StdioInv
  <1>5. OwnAnswer'
    <2> SUFFICES ASSUME NEW i \in Ids
                 PROVE  /\ outcome'[i] = "succeeded" => answered[i] = "ok" /\ i \in applied
                        /\ outcome'[i] = "failed" => answered[i] = "tool_error"
      BY <1>1 DEF OwnAnswer
    <2>1. CASE i = current
      BY <1>1, <1>2, <2>1 DEF StdioInv, TypeOK
    <2>2. CASE i # current
      BY <1>1, <1>2, <2>2 DEF StdioInv, TypeOK, OwnAnswer
    <2> QED BY <2>1, <2>2
  <1>6. Honest(stdout)' /\ Honest(codec.buffer)'
    BY <1>1 DEF Honest
  <1> QED BY <1>1, <1>3, <1>4, <1>5, <1>6 DEF StdioInv

\* The exchange goes on, or its answer is about to be observed.
LEMMA ReadStep ==
  ASSUME StdioInv, pc = "read", pc' \in {"read", "observe"},
         pc' = "observe" => answered[current] = "ok",
         UNCHANGED <<require_readback, next_id, unsent, stdin, world, outcome, garbled, eof>>,
         used' \in 0..MaxEvents, stderr' \in BOOLEAN,
         stdout' \in Seq(Tokens), Honest(stdout'),
         codec' \in [buffer : Seq(Tokens), poisoned : BOOLEAN], Honest(codec'.buffer),
         codec'.poisoned = codec.poisoned
  PROVE  StdioInv'
  <1>1. UNCHANGED <<server, noise, drained, applied, answered>> /\ current' = current
    BY DEF world, current
  <1>2. TypeOK'
    BY <1>1 DEF StdioInv, TypeOK
  <1>3. Flow'
    BY <1>1 DEF StdioInv, Flow, sent
  <1>4. Honest(stdout)' /\ Honest(codec.buffer)' /\ OwnAnswer'
    BY <1>1 DEF StdioInv, Honest, OwnAnswer
  <1> QED BY <1>1, <1>2, <1>3, <1>4 DEF StdioInv

-----------------------------------------------------------------------------
\* Initially nothing was said.
LEMMA InitStdio == Init => StdioInv
  <1> SUFFICES ASSUME Init PROVE StdioInv
    OBVIOUS
  <1>1. TypeOK
    <2>1. /\ <<>> \in Seq(Tokens) /\ <<>> \in Seq(Ids) /\ 1 \in 1..(MaxCalls + 1)
          /\ 0 \in 0..MaxEvents /\ 0 \in 0..MaxNoise /\ 0 \in 0..Len(<<>>)
      BY StdioAssumption
    <2>2. /\ [buffer |-> <<>>, poisoned |-> FALSE] \in [buffer : Seq(Tokens), poisoned : BOOLEAN]
          /\ [alive |-> TRUE, pending |-> <<>>] \in [alive : BOOLEAN, pending : Seq(Ids)]
      BY <2>1
    <2>3. /\ [i \in Ids |-> None] \in [Ids -> Bodies \cup {None}]
          /\ [i \in Ids |-> None] \in [Ids -> Statuses \cup {None}]
      OBVIOUS
    <2>4. eof \in BOOLEAN /\ stderr \in BOOLEAN /\ garbled \in BOOLEAN
      BY DEF Init
    <2> QED BY <2>1, <2>2, <2>3, <2>4 DEF Init, TypeOK
  <1>2. Ends(<<>>) = {} /\ <<>> \o <<>> = <<>>
    BY DEF Ends
  <1>3. Flow
    BY <1>2 DEF Init, Flow, sent
  <1>4. Honest(stdout) /\ Honest(codec.buffer)
    BY <1>2 DEF Init, Honest
  <1>5. OwnAnswer
    BY StdioAssumption DEF Init, OwnAnswer, Statuses
  <1> QED BY <1>1, <1>3, <1>4, <1>5 DEF Init, StdioInv

\* A new request has an id that was never used.
LEMMA ExecuteStep == StdioInv /\ Execute => StdioInv'
  <1> SUFFICES ASSUME StdioInv, Execute PROVE StdioInv'
    OBVIOUS
  <1>0. /\ pc = "idle" /\ next_id \in Ids /\ next_id' = next_id + 1 /\ current' = next_id
        /\ current = next_id - 1
        /\ unsent = <<>> /\ UNCHANGED <<require_readback, used, eof, pipes, world>>
    BY StdioAssumption DEF StdioInv, TypeOK, Execute, Ids, current
  <1>1. UNCHANGED <<stdin, stdout, stderr, server, noise, drained, applied, answered>>
    BY <1>0 DEF pipes, world
  <1>2. ASSUME outcome' = [outcome EXCEPT ![next_id] = "write_status_unknown"],
               IF eof \/ codec.poisoned THEN UNCHANGED <<codec, garbled>> ELSE fail,
               UNCHANGED <<pc, unsent>>
        PROVE  StdioInv'
    <2>1. /\ codec' \in [buffer : Seq(Tokens), poisoned : BOOLEAN] /\ garbled' \in BOOLEAN
          /\ (garbled' => codec'.poisoned) /\ Honest(codec'.buffer)
      <3>1. CASE UNCHANGED <<codec, garbled>>
        BY <3>1 DEF StdioInv, TypeOK
      <3>2. CASE codec' = [buffer |-> <<>>, poisoned |-> TRUE] /\ garbled' = TRUE
        <4>1. <<>> \in Seq(Tokens) /\ Honest(<<>>)
          BY DEF Honest, Ends
        <4>2. codec'.buffer = <<>> /\ codec'.poisoned = TRUE /\ codec' = [buffer |-> codec'.buffer, poisoned |-> TRUE]
          BY <3>2
        <4>3. Honest(codec'.buffer)
          BY <4>1, <4>2
        <4> QED BY <3>2, <4>1, <4>2, <4>3
      <3> QED BY <1>2, <3>1, <3>2 DEF fail
    <2>2. TypeOK'
      <3>1. outcome' \in [Ids -> Statuses \cup {None}]
        BY <1>0, <1>2 DEF StdioInv, TypeOK, Statuses
      <3>2. next_id' \in 1..(MaxCalls + 1)
        BY <1>0, StdioAssumption DEF Ids
      <3> QED BY <1>0, <1>1, <1>2, <2>1, <3>1, <3>2 DEF StdioInv, TypeOK
    <2>3. Flow'
      <3>1. sent' = sent /\ UNCHANGED <<server, answered>> /\ 1..current \subseteq 1..current'
        BY <1>0, <1>1, <1>2 DEF sent, Ids
      <3>2. \A i \in Ids : i <= current => i <= current'
        BY <1>0 DEF Ids
      <3> QED BY <3>1, <3>2 DEF StdioInv, Flow
    <2>4. OwnAnswer'
      BY <1>0, <1>1, <1>2 DEF StdioInv, TypeOK, OwnAnswer
    <2>5. Honest(stdout)' /\ Honest(codec.buffer)'
      BY <1>0, <1>1, <2>1 DEF StdioInv, Honest
    <2> QED BY <1>0, <1>2, <2>1, <2>2, <2>3, <2>4, <2>5 DEF StdioInv
  <1>3. ASSUME ~ eof, ~ codec.poisoned,
               pc' = "write", unsent' = Line(Msg(next_id, "request")), UNCHANGED <<outcome, codec, garbled>>
        PROVE  StdioInv'
    <2> DEFINE m == Msg(next_id, "request")
    <2>1. pc' = "write" /\ unsent' = Line(m) /\ UNCHANGED <<outcome, codec, garbled>>
      BY <1>3
    <2>2. m \in Messages /\ m.id = next_id
      BY <1>0 DEF Msg, Messages
    <2> HIDE DEF m
    <2>3. /\ Line(m) \in Seq(Tokens) /\ Len(Line(m)) = 2
          /\ ~ Line(m)[1].tail /\ Line(m)[2].tail /\ Line(m)[2].msg = m
      BY <2>2, LineOfTwo
    <2>4. TypeOK'
      <3>1. next_id' \in 1..(MaxCalls + 1)
        BY <1>0, StdioAssumption DEF Ids
      <3> QED BY <1>0, <1>1, <2>1, <2>3, <3>1 DEF StdioInv, TypeOK
    <2>5. Flow'
      <3>1. stdin \in Seq(Tokens) /\ <<>> \in Seq(Tokens) /\ Len(stdin) \in Nat /\ Len(<<>>) = 0
        BY DEF StdioInv, TypeOK
      <3>2. sent = stdin \o <<>> /\ sent' = stdin \o Line(m)
        BY <1>0, <1>1, <2>1 DEF sent
      <3>3. \A k \in Ends(stdin) : k \in Ends(sent) /\ sent[k] = stdin[k]
        BY <3>1, <3>2, Joined DEF Ends
      <3>4. \A k \in Ends(sent') :
               \/ k \in Ends(stdin) /\ sent'[k] = stdin[k]
               \/ k = Len(stdin) + 2 /\ sent'[k].msg = m
        <4> SUFFICES ASSUME NEW k \in Ends(sent')
                     PROVE  \/ k \in Ends(stdin) /\ sent'[k] = stdin[k]
                            \/ k = Len(stdin) + 2 /\ sent'[k].msg = m
          OBVIOUS
        <4> DEFINE t == Line(m)
        <4>0. t \in Seq(Tokens) /\ Len(t) = 2 /\ sent' = stdin \o t
          BY <2>3, <3>2
        <4>1. k \in 1..(Len(stdin) + 2) /\ sent'[k].tail
          <5> HIDE DEF t
          <5>1. Len(stdin \o t) = Len(stdin) + Len(t)
            BY ZenonT(30), <3>1, <4>0, Joined
          <5> QED BY <4>0, <5>1 DEF Ends
        <4>2. CASE k <= Len(stdin)
          BY <2>3, <3>1, <3>2, <4>1, <4>2, Joined DEF Ends
        <4>3. CASE k > Len(stdin)
          <5>1. k - Len(stdin) \in 1..2 /\ sent'[k] = t[k - Len(stdin)]
            <6> HIDE DEF t
            <6>1. k \in 1..(Len(stdin) + Len(t)) /\ k > Len(stdin)
              BY <4>0, <4>1, <4>3
            <6>2. (stdin \o t)[k] = t[k - Len(stdin)] /\ k - Len(stdin) \in 1..Len(t)
              BY <3>1, <4>0, <6>1, Joined
            <6> QED BY <4>0, <6>2
          <5>2. k - Len(stdin) = 2
            BY <2>3, <4>1, <5>1
          <5> QED BY <2>3, <3>1, <4>1, <5>1, <5>2
        <4> QED BY <3>1, <4>1, <4>2, <4>3
      <3>5. \A k \in Ends(sent') :
               \/ k \in Ends(sent) /\ sent'[k] = sent[k]
               \/ k = Len(stdin) + 2 /\ sent'[k].msg.id = next_id
        BY <2>2, <3>3, <3>4
      <3>6. /\ current \in Nat /\ next_id = current + 1 /\ answered[next_id] = None
            /\ \A i \in 1..current : i # next_id /\ i \in 1..next_id
        BY <1>0, StdioAssumption DEF StdioInv, Flow, Ids
      <3>7. \A k \in Ends(sent) : sent[k].msg.id # next_id
        BY <3>6 DEF StdioInv, Flow
      <3>8. \A j, k \in Ends(sent') : sent'[j].msg.id = sent'[k].msg.id => j = k
        BY <3>5, <3>7 DEF StdioInv, Flow
      <3>9. \A j \in Ends(sent') :
               /\ sent'[j].msg.id \in 1..next_id /\ answered[sent'[j].msg.id] = None
               /\ \A k \in DOMAIN server.pending : server.pending[k] # sent'[j].msg.id
        BY <1>0, <3>5, <3>6 DEF StdioInv, Flow, Ids
      <3> QED BY <1>0, <1>1, <3>6, <3>8, <3>9 DEF StdioInv, Flow
    <2>6. OwnAnswer' /\ Honest(stdout)' /\ Honest(codec.buffer)'
      BY <1>0, <1>1, <2>1 DEF StdioInv, OwnAnswer, Honest
    <2> QED BY <1>0, <1>3, <2>1, <2>4, <2>5, <2>6 DEF StdioInv
  <1> QED BY <1>2, <1>3 DEF Execute

\* A write, whole or in part.
LEMMA WriteStep == StdioInv /\ Write => StdioInv'
  <1> SUFFICES ASSUME StdioInv, Write PROVE StdioInv'
    OBVIOUS
  <1>1. PICK n \in 1..Len(unsent) :
          /\ stdin' = stdin \o SubSeq(unsent, 1, n)
          /\ unsent' = SubSeq(unsent, n + 1, Len(unsent))
    BY DEF Write
  <1>2. /\ pc = "write" /\ pc' \in {"read", "write"} /\ (pc' # "write" => unsent' = <<>>)
        /\ UNCHANGED <<require_readback, next_id, used, codec, eof, stdout, stderr, world, outcome, garbled>>
    BY DEF Write
  <1>3. UNCHANGED <<server, noise, drained, applied, answered>> /\ current' = current
    BY <1>2 DEF world, current
  <1>4. stdin \in Seq(Tokens) /\ unsent \in Seq(Tokens)
    BY DEF StdioInv, TypeOK
  <1>5. stdin' \in Seq(Tokens) /\ unsent' \in Seq(Tokens)
    BY <1>1, <1>4, Cut, Joined
  <1>6. sent' = sent
    BY <1>1, <1>4, Written DEF sent
  <1>7. TypeOK'
    <2>1. Len(stdin') = Len(stdin) + n
      BY <1>1, <1>4, Cut, Joined
    <2>2. drained' \in 0..Len(stdin')
      BY <1>3, <1>4, <2>1 DEF StdioInv, TypeOK
    <2> QED BY <1>2, <1>3, <1>5, <2>2 DEF StdioInv, TypeOK
  <1>8. Flow'
    BY <1>3, <1>6 DEF StdioInv, Flow
  <1>9. OwnAnswer' /\ Honest(stdout)' /\ Honest(codec.buffer)'
    BY <1>2, <1>3 DEF StdioInv, OwnAnswer, Honest
  <1> QED BY <1>2, <1>3, <1>7, <1>8, <1>9 DEF StdioInv

\* A read of stdout and what the codec makes of it.
LEMMA ReadStdoutStep == StdioInv /\ ReadStdout => StdioInv'
  <1> SUFFICES ASSUME StdioInv, ReadStdout PROVE StdioInv'
    OBVIOUS
  <1> DEFINE Buf(n) == codec.buffer \o SubSeq(stdout, 1, n)
             After(n, buf) ==
               IF FeedFails(buf) THEN fail /\ Return("write_status_unknown")
               ELSE /\ codec' = [codec EXCEPT !.buffer = Rest(buf)]
                    /\ UNCHANGED garbled
                    /\ CASE Ends(buf) = {} -> used' = used + 1 /\ UNCHANGED <<pc, unsent, outcome>>
                         [] Cardinality(Ends(buf)) = 1 -> \E m \in {buf[k].msg : k \in Ends(buf)} : Respond(m)
                         [] OTHER -> Return("write_status_unknown")
  <1>1. PICK n \in 1..Len(stdout) : stdout' = SubSeq(stdout, n + 1, Len(stdout)) /\ After(n, Buf(n))
    BY DEF ReadStdout
  <1> DEFINE buf == Buf(n)
  <1>2. /\ pc = "read" /\ used < MaxEvents
        /\ UNCHANGED <<require_readback, next_id, eof, stdin, stderr, world>>
        /\ current \in Ids
    BY DEF ReadStdout, MayRead, StdioInv
  <1>3. /\ stdout \in Seq(Tokens) /\ codec \in [buffer : Seq(Tokens), poisoned : BOOLEAN]
        /\ garbled \in BOOLEAN /\ eof \in BOOLEAN /\ stderr \in BOOLEAN /\ used \in 0..MaxEvents
        /\ ~ codec.poisoned /\ ~ garbled
        /\ Honest(stdout) /\ Honest(codec.buffer) /\ unsent = <<>>
    BY <1>2 DEF StdioInv, TypeOK
  <1>4. /\ SubSeq(stdout, 1, n) \in Seq(Tokens) /\ Honest(SubSeq(stdout, 1, n))
        /\ stdout' \in Seq(Tokens) /\ Honest(stdout')
    BY <1>1, <1>3, Cut, HonestParts
  <1>5. buf \in Seq(Tokens) /\ Honest(buf)
    BY <1>3, <1>4, Joined, HonestJoin
  <1>6. After(n, buf)
    BY <1>1
  <1> HIDE DEF Buf, buf
  <1>7. Rest(buf) \in Seq(Tokens) /\ Honest(Rest(buf))
    <2>1. PICK l \in 0..Len(buf) : Rest(buf) = SubSeq(buf, l + 1, Len(buf))
      BY <1>5, RestIsSuffix
    <2> QED BY <1>5, <2>1, Cut, HonestParts
  <1>8. <<>> \in Seq(Tokens) /\ Honest(<<>>)
    BY DEF Honest, Ends
  <1>9. stderr' \in BOOLEAN /\ eof' \in BOOLEAN /\ "write_status_unknown" \in Statuses
    BY <1>2, <1>3 DEF Statuses
  <1>a. CASE FeedFails(buf)
    <2>1. codec' = [buffer |-> <<>>, poisoned |-> TRUE] /\ garbled' = TRUE /\ Return("write_status_unknown")
      BY <1>6, <1>a DEF fail
    <2> QED BY <2>1, <1>2, <1>4, <1>8, <1>9, ReturnStep
  <1>b. CASE ~ FeedFails(buf)
    <2>1. /\ codec' = [codec EXCEPT !.buffer = Rest(buf)] /\ UNCHANGED garbled
          /\ \/ used' = used + 1 /\ UNCHANGED <<pc, unsent, outcome>>
             \/ \E m \in {buf[k].msg : k \in Ends(buf)} : Respond(m)
             \/ Return("write_status_unknown")
      BY <1>6, <1>b
    <2>2. /\ codec' \in [buffer : Seq(Tokens), poisoned : BOOLEAN] /\ codec'.buffer = Rest(buf)
          /\ Honest(codec'.buffer) /\ codec'.poisoned = codec.poisoned
          /\ garbled' \in BOOLEAN /\ (garbled' => codec'.poisoned)
      BY <1>3, <1>7, <2>1
    <2>3. CASE Return("write_status_unknown")
      BY <2>2, <2>3, <1>2, <1>4, <1>9, ReturnStep
    <2>4. CASE used' = used + 1 /\ UNCHANGED <<pc, unsent, outcome>>
      <3>1. used' \in 0..MaxEvents
        BY <1>2, <1>3, <2>4, StdioAssumption
      <3> QED BY <2>1, <2>2, <2>4, <3>1, <1>2, <1>4, <1>9, ReadStep
    <2>5. ASSUME NEW k \in Ends(buf), Respond(buf[k].msg) PROVE StdioInv'
      <3> DEFINE m == buf[k].msg
      <3>1. m.id = current => answered[current] = m.body /\ (m.body = "ok" => current \in applied)
        BY <1>2, <1>5 DEF Honest
      <3>2. Respond(m)
        BY <2>5
      <3> HIDE DEF m
      <3>3. CASE ~ validate_response(m)
        <4>1. Return("write_status_unknown")
          BY <3>2, <3>3 DEF Respond
        <4> QED BY <2>3, <4>1
      <3>4. CASE validate_response(m)
        <4>1. /\ m.id = current /\ m.body \in {"ok", "tool_error"}
              /\ \/ m.body = "tool_error" /\ Return("failed")
                 \/ m.body = "ok" /\ Return("succeeded")
                 \/ m.body = "ok" /\ pc' = "observe" /\ UNCHANGED <<unsent, used, outcome>>
          BY <3>2, <3>4 DEF Respond, validate_response
        <4>2. CASE m.body = "tool_error" /\ Return("failed")
          <5>1. "failed" \in Statuses
            BY DEF Statuses
          <5> QED BY <2>2, <3>1, <4>1, <4>2, <5>1, <1>2, <1>4, <1>9, ReturnStep
        <4>3. CASE m.body = "ok" /\ Return("succeeded")
          <5>1. "succeeded" \in Statuses
            BY DEF Statuses
          <5> QED BY <2>2, <3>1, <4>1, <4>3, <5>1, <1>2, <1>4, <1>9, ReturnStep
        <4>4. CASE m.body = "ok" /\ pc' = "observe" /\ UNCHANGED <<unsent, used, outcome>>
          <5>1. used' \in 0..MaxEvents
            BY <1>3, <4>4
          <5> QED BY <2>1, <2>2, <3>1, <4>1, <4>4, <5>1, <1>2, <1>4, <1>9, ReadStep
        <4> QED BY <4>1, <4>2, <4>3, <4>4
      <3> QED BY <3>3, <3>4
    <2> QED BY <2>1, <2>3, <2>4, <2>5
  <1> QED BY <1>a, <1>b

\* The other steps of the client; a broken pipe is one way for a write to fail.
LEMMA ClientSteps ==
  StdioInv /\ (WriteFails \/ ReadStderr \/ ReadEof \/ ReadTimeout \/ ReadFails \/ TooManyEvents \/ Observe)
    => StdioInv'
  <1> SUFFICES ASSUME StdioInv,
                      WriteFails \/ ReadStderr \/ ReadEof \/ ReadTimeout \/ ReadFails \/ TooManyEvents \/ Observe
               PROVE  StdioInv'
    OBVIOUS
  <1>1. /\ stdout \in Seq(Tokens) /\ codec \in [buffer : Seq(Tokens), poisoned : BOOLEAN]
        /\ garbled \in BOOLEAN /\ eof \in BOOLEAN /\ stderr \in BOOLEAN /\ used \in 0..MaxEvents
        /\ (pc # "idle" => ~ codec.poisoned /\ ~ garbled)
        /\ Honest(stdout) /\ Honest(codec.buffer)
        /\ "write_status_unknown" \in Statuses /\ "succeeded" \in Statuses
    BY DEF StdioInv, TypeOK, Statuses
  <1>2. ASSUME pc # "idle", Return("write_status_unknown"),
               UNCHANGED <<require_readback, next_id, codec, eof, pipes, world, garbled>>
        PROVE  StdioInv'
    BY <1>1, <1>2, ReturnStep DEF pipes
  <1>3. CASE ReadStderr
    <2>1. /\ pc = "read" /\ used' = used + 1 /\ used < MaxEvents /\ stderr' = FALSE
          /\ UNCHANGED <<require_readback, next_id, pc, unsent, codec, eof, stdin, stdout, world, outcome, garbled>>
      BY <1>3 DEF ReadStderr, MayRead
    <2>2. used' \in 0..MaxEvents /\ stderr' \in BOOLEAN
      <3>1. used' \in 0..MaxEvents
        <4>1. used \in 0..MaxEvents /\ used' = used + 1 /\ used < MaxEvents /\ MaxEvents \in Nat
          BY <1>1, <2>1, StdioAssumption
        <4> QED BY <4>1
      <3>2. stderr' \in BOOLEAN
        BY <2>1
      <3> QED BY <3>1, <3>2
    <2> QED BY <1>1, <2>1, <2>2, ReadStep
  <1>4. CASE ReadEof
    <2>1. /\ pc = "read" /\ eof' = TRUE /\ Return("write_status_unknown")
          /\ UNCHANGED <<require_readback, next_id, pipes, world>>
          /\ \/ codec' = [buffer |-> <<>>, poisoned |-> TRUE] /\ garbled' = TRUE
             \/ UNCHANGED <<codec, garbled>>
      BY <1>4 DEF ReadEof, MayRead, fail
    <2>2. /\ codec' \in [buffer : Seq(Tokens), poisoned : BOOLEAN] /\ garbled' \in BOOLEAN
          /\ (garbled' => codec'.poisoned) /\ Honest(codec'.buffer)
      <3>1. <<>> \in Seq(Tokens) /\ Honest(<<>>)
        BY DEF Honest, Ends
      <3>2. CASE codec' = [buffer |-> <<>>, poisoned |-> TRUE] /\ garbled' = TRUE
        <4>1. codec'.buffer = <<>> /\ codec'.poisoned = TRUE /\ garbled' \in BOOLEAN
          BY <3>2
        <4> QED BY <3>1, <3>2, <4>1
      <3>3. CASE UNCHANGED <<codec, garbled>>
        BY <1>1, <2>1, <3>3
      <3> QED BY <2>1, <3>2, <3>3
    <2> QED BY <1>1, <2>1, <2>2, ReturnStep DEF pipes
  <1>5. CASE Observe
    <2>1. /\ pc = "observe" /\ UNCHANGED <<require_readback, next_id, codec, eof, pipes, world, garbled>>
          /\ \/ current \in applied /\ Return("succeeded")
             \/ Return("write_status_unknown")
      BY <1>5 DEF Observe
    <2>2. CASE current \in applied /\ Return("succeeded")
      <3>1. answered[current] = "ok"
        BY <2>1 DEF StdioInv
      <3> QED BY <1>1, <2>1, <2>2, <3>1, ReturnStep DEF pipes
    <2> QED BY <1>2, <2>1, <2>2
  <1> QED BY <1>2, <1>3, <1>4, <1>5 DEF WriteFails, ReadTimeout, ReadFails, TooManyEvents, MayRead

-----------------------------------------------------------------------------
\* The server takes the first line from the pipe.
LEMMA ServerReadStep == StdioInv /\ ServerRead => StdioInv'
  <1> SUFFICES ASSUME StdioInv, ServerRead PROVE StdioInv'
    OBVIOUS
  <1>1. PICK k \in Ends(stdin) :
          /\ k <= drained /\ drained' = drained - k
          /\ stdin' = SubSeq(stdin, k + 1, Len(stdin))
          /\ server' = IF Decodes(SubSeq(stdin, 1, k))
                       THEN [server EXCEPT !.pending = Append(@, stdin[k].msg.id)] ELSE server
    BY DEF ServerRead
  <1>2. UNCHANGED <<client, stdout, stderr, noise, applied, answered, outcome, garbled>>
    BY DEF ServerRead
  <1>3. UNCHANGED <<require_readback, next_id, pc, unsent, used, codec, eof>> /\ current' = current
    BY <1>2 DEF client, current
  <1> DEFINE id == stdin[k].msg.id
  <1>4. /\ stdin \in Seq(Tokens) /\ unsent \in Seq(Tokens) /\ k \in 1..Len(stdin) /\ stdin[k].tail
        /\ server \in [alive : BOOLEAN, pending : Seq(Ids)]
        /\ k \in 0..Len(stdin) /\ Len(stdin) \in Nat /\ k \in Nat /\ Len(unsent) \in Nat
    BY DEF StdioInv, TypeOK, Ends
  <1>5. /\ stdin' \in Seq(Tokens) /\ Len(stdin') = Len(stdin) - k
        /\ \A i \in 1..(Len(stdin) - k) : stdin'[i] = stdin[k + i]
    BY <1>1, <1>4, Cut
  <1>6. /\ sent = stdin \o unsent /\ sent' = stdin' \o unsent
        /\ Len(sent) = Len(stdin) + Len(unsent) /\ Len(sent') = Len(sent) - k
        /\ k \in Ends(sent) /\ sent[k] = stdin[k]
    <2>1. sent = stdin \o unsent /\ sent' = stdin' \o unsent
      BY <1>3 DEF sent
    <2>2. Len(sent) = Len(stdin) + Len(unsent) /\ sent[k] = stdin[k]
      BY <1>4, <2>1, Joined
    <2>3. Len(sent') = Len(stdin') + Len(unsent)
      BY <1>4, <1>5, <2>1, Joined
    <2>4. k \in Ends(sent)
      BY <1>4, <2>2 DEF Ends
    <2> QED BY <1>4, <1>5, <2>1, <2>2, <2>3, <2>4
  <1>7. ASSUME NEW j \in Ends(sent') PROVE k + j \in Ends(sent) /\ sent'[j] = sent[k + j] /\ k + j # k
    <2>1. j \in 1..(Len(stdin') + Len(unsent)) /\ sent'[j].tail
      BY <1>5, <1>4, <1>6, <1>7 DEF Ends
    <2>2. CASE j <= Len(stdin')
      <3>1. sent'[j] = stdin'[j] /\ stdin'[j] = stdin[k + j]
        BY <1>4, <1>5, <1>6, <2>1, <2>2, Joined
      <3>2. k + j \in 1..Len(stdin) /\ sent[k + j] = stdin[k + j]
        BY <1>4, <1>5, <1>6, <2>1, <2>2, Joined
      <3> QED BY <1>4, <1>6, <2>1, <3>1, <3>2 DEF Ends
    <2>3. CASE j > Len(stdin')
      <3>1. sent'[j] = unsent[j - Len(stdin')]
        BY <1>4, <1>5, <1>6, <2>1, <2>3, Joined
      <3>2. k + j \in 1..(Len(stdin) + Len(unsent)) /\ k + j > Len(stdin)
            /\ (k + j) - Len(stdin) = j - Len(stdin')
        BY <1>4, <1>5, <2>1, <2>3
      <3>3. sent[k + j] = unsent[(k + j) - Len(stdin)]
        BY <1>4, <1>6, <3>2, Joined
      <3> QED BY SMTT(30), <1>4, <1>6, <2>1, <3>1, <3>2, <3>3 DEF Ends
    <2> QED BY <1>4, <1>5, <2>1, <2>2, <2>3
  <1>8. /\ id \in 1..current /\ id \in Ids /\ answered[id] = None
        /\ \A j \in DOMAIN server.pending : server.pending[j] # id
        /\ \A j \in Ends(sent') : sent'[j].msg.id # id
    <2>1. id \in 1..current /\ answered[id] = None /\ \A j \in DOMAIN server.pending : server.pending[j] # id
      <3>1. \A j \in Ends(sent) :
              /\ sent[j].msg.id \in 1..current /\ answered[sent[j].msg.id] = None
              /\ \A i \in DOMAIN server.pending : server.pending[i] # sent[j].msg.id
        BY DEF StdioInv, Flow
      <3> QED BY <1>6, <3>1
    <2>2. 1..current \subseteq Ids
      BY StdioAssumption DEF StdioInv, TypeOK, current, Ids
    <2>3. ASSUME NEW j \in Ends(sent') PROVE sent'[j].msg.id # id
      <3>1. k + j \in Ends(sent) /\ sent'[j] = sent[k + j] /\ k + j # k
        BY <1>7
      <3>2. sent[k + j].msg.id # sent[k].msg.id
        BY <1>6, <3>1 DEF StdioInv, Flow
      <3> QED BY <1>6, <3>1, <3>2
    <2> QED BY <2>1, <2>2, <2>3
  <1> HIDE DEF id
  <1>9. /\ server' \in [alive : BOOLEAN, pending : Seq(Ids)]
        /\ \/ server'.pending = server.pending
           \/ server'.pending = Append(server.pending, id)
    <2>1. CASE server' = server
      BY <1>4, <2>1
    <2>2. CASE server' = [server EXCEPT !.pending = Append(server.pending, id)]
      <3>1. server.pending \in Seq(Ids)
        BY <1>4
      <3>2. Append(server.pending, id) \in Seq(Ids)
        BY <1>8, <3>1
      <3> QED BY <1>4, <2>2, <3>2
    <2> QED BY <1>1, <2>1, <2>2 DEF id
  <1>a. TypeOK'
    <2>1. drained' \in 0..Len(stdin')
      <3>1. drained \in 0..Len(stdin)
        BY DEF StdioInv, TypeOK
      <3>2. k <= drained /\ drained' = drained - k
        BY <1>1
      <3>3. Len(stdin') = Len(stdin) - k /\ Len(stdin) \in Nat /\ k \in Nat
        BY <1>4, <1>5
      <3> QED BY <3>1, <3>2, <3>3
    <2>2. TypeOK
      BY DEF StdioInv
    <2>3. /\ stdin' \in Seq(Tokens)
          /\ server' \in [alive : BOOLEAN, pending : Seq(Ids)]
          /\ UNCHANGED <<stdout, stderr, noise, applied, answered, outcome, garbled>>
      BY <1>2, <1>5, <1>9
    <2>4. /\ require_readback' \in Modes /\ next_id' \in 1..(MaxCalls + 1)
          /\ pc' \in {"idle", "write", "read", "observe"} /\ used' \in 0..MaxEvents
          /\ unsent' \in Seq(Tokens) /\ codec' \in [buffer : Seq(Tokens), poisoned : BOOLEAN]
          /\ eof' \in BOOLEAN
      BY <1>3, <2>2 DEF TypeOK
    <2>5. /\ stdout' \in Seq(Tokens) /\ stderr' \in BOOLEAN /\ garbled' \in BOOLEAN
          /\ noise' \in 0..MaxNoise /\ applied' \subseteq Ids
          /\ answered' \in [Ids -> Bodies \cup {None}] /\ outcome' \in [Ids -> Statuses \cup {None}]
      BY <2>2, <2>3 DEF TypeOK
    <2> QED BY <2>1, <2>3, <2>4, <2>5 DEF TypeOK
  <1>b. Flow'
    <2>1. \A j, i \in Ends(sent') : sent'[j].msg.id = sent'[i].msg.id => j = i
      <3> SUFFICES ASSUME NEW j \in Ends(sent'), NEW i \in Ends(sent'), sent'[j].msg.id = sent'[i].msg.id
                   PROVE  j = i
        OBVIOUS
      <3>1. k + j \in Ends(sent) /\ k + i \in Ends(sent) /\ sent[k + j].msg.id = sent[k + i].msg.id
        BY <1>7
      <3>2. k + j = k + i
        BY <3>1 DEF StdioInv, Flow
      <3>3. j \in Nat /\ i \in Nat
        BY DEF Ends
      <3> QED BY <1>4, <3>2, <3>3
    <2>2. \A j \in DOMAIN server'.pending :
             \/ j \in DOMAIN server.pending /\ server'.pending[j] = server.pending[j]
             \/ j = Len(server.pending) + 1 /\ server'.pending[j] = id
      <3>1. server.pending \in Seq(Ids)
        BY <1>4
      <3> QED BY SMTT(30), <1>8, <1>9, <3>1
    <2>3. \A j, i \in DOMAIN server'.pending : server'.pending[j] = server'.pending[i] => j = i
      BY <1>8, <2>2 DEF StdioInv, Flow
    <2>4. \A j \in Ends(sent') :
             /\ sent'[j].msg.id \in 1..current /\ answered[sent'[j].msg.id] = None
             /\ \A i \in DOMAIN server'.pending : server'.pending[i] # sent'[j].msg.id
      BY <1>7, <1>8, <2>2 DEF StdioInv, Flow
    <2>5. \A j \in DOMAIN server'.pending :
             server'.pending[j] \in 1..current /\ answered[server'.pending[j]] = None
      BY <1>8, <2>2 DEF StdioInv, Flow
    <2> QED BY <1>2, <1>3, <2>1, <2>3, <2>4, <2>5 DEF StdioInv, Flow
  <1>c. OwnAnswer' /\ Honest(stdout)' /\ Honest(codec.buffer)'
    BY <1>2, <1>3 DEF StdioInv, OwnAnswer, Honest
  <1> QED BY <1>2, <1>3, <1>a, <1>b, <1>c DEF StdioInv

\* The server answers the request it has had longest, for the first time.
LEMMA ServerAnswerStep == StdioInv /\ ServerAnswer => StdioInv'
  <1> SUFFICES ASSUME StdioInv, ServerAnswer PROVE StdioInv'
    OBVIOUS
  <1> DEFINE i == Head(server.pending)
  <1>1. PICK body \in Bodies :
          /\ stdout' = stdout \o Line(Msg(i, body))
          /\ answered' = [answered EXCEPT ![i] = body]
          /\ \/ applied' = applied \cup {i}
             \/ body # "ok" /\ applied' = applied
    BY DEF ServerAnswer
  <1>2. /\ server.pending # <<>> /\ server' = [server EXCEPT !.pending = Tail(server.pending)]
        /\ UNCHANGED <<client, stdin, stderr, noise, drained, outcome, garbled>>
    BY DEF ServerAnswer
  <1>3. UNCHANGED <<require_readback, next_id, pc, unsent, used, codec, eof, sent>> /\ current' = current
    BY <1>2 DEF client, current, sent
  <1>4. /\ server \in [alive : BOOLEAN, pending : Seq(Ids)] /\ server.pending \in Seq(Ids)
        /\ stdout \in Seq(Tokens) /\ answered \in [Ids -> Bodies \cup {None}] /\ applied \subseteq Ids
    BY DEF StdioInv, TypeOK
  <1>5. /\ i = server.pending[1] /\ 1 \in DOMAIN server.pending
        /\ Tail(server.pending) \in Seq(Ids)
        /\ \A k \in DOMAIN Tail(server.pending) :
             k + 1 \in DOMAIN server.pending /\ Tail(server.pending)[k] = server.pending[k + 1] /\ k \in Nat /\ k # 0
    BY <1>2, <1>4, HeadTailProperties
  <1>6. /\ i \in Ids /\ answered[i] = None /\ i \in 1..current
        /\ \A k \in DOMAIN Tail(server.pending) : Tail(server.pending)[k] # i
        /\ \A j \in Ends(sent) : sent[j].msg.id # i
    <2>1. i \in 1..current /\ answered[i] = None /\ i \in Ids
      BY <1>4, <1>5 DEF StdioInv, Flow
    <2>2. \A k \in DOMAIN Tail(server.pending) : Tail(server.pending)[k] # i
      BY <1>5 DEF StdioInv, Flow
    <2> QED BY <1>5, <2>1, <2>2 DEF StdioInv, Flow
  <1> DEFINE m == Msg(i, body)
  <1>7. m \in Messages /\ m.id = i /\ m.body = body
    BY <1>6 DEF Msg, Messages
  <1>8. /\ Line(m) \in Seq(Tokens) /\ Len(Line(m)) = 2
        /\ ~ Line(m)[1].tail /\ Line(m)[2].tail /\ Line(m)[2].msg = m
    BY <1>7, LineOfTwo
  <1>9. stdout' = stdout \o Line(m)
    BY <1>1
  <1> HIDE DEF m, i
  <1>a. /\ answered' \in [Ids -> Bodies \cup {None}] /\ answered'[i] = body
        /\ \A h \in Ids \ {i} : answered'[h] = answered[h]
        /\ applied' \subseteq Ids /\ applied \subseteq applied' /\ (body = "ok" => i \in applied')
        /\ body # None /\ \A h \in Ids : answered[h] # None => h # i /\ answered'[h] = answered[h]
    BY <1>1, <1>4, <1>6, StdioAssumption
  <1>b. TypeOK'
    <2>1. server' \in [alive : BOOLEAN, pending : Seq(Ids)]
      BY <1>2, <1>4, <1>5
    <2>2. stdout' \in Seq(Tokens)
      BY <1>4, <1>8, <1>9, Joined
    <2> QED BY <1>2, <1>3, <1>a, <2>1, <2>2 DEF StdioInv, TypeOK
  <1>c. Flow'
    <2>1. server'.pending = Tail(server.pending)
      BY <1>2, <1>4
    <2>2. \A j, k \in DOMAIN server'.pending : server'.pending[j] = server'.pending[k] => j = k
      <3> SUFFICES ASSUME NEW j \in DOMAIN Tail(server.pending), NEW k \in DOMAIN Tail(server.pending),
                          Tail(server.pending)[j] = Tail(server.pending)[k]
                   PROVE  j = k
        BY <2>1
      <3>1. server.pending[j + 1] = server.pending[k + 1]
        BY <1>5
      <3>2. j + 1 = k + 1
        BY <1>5, <3>1 DEF StdioInv, Flow
      <3> QED BY <1>5, <3>2
    <2>3. \A j \in Ends(sent) :
             /\ sent[j].msg.id \in 1..current /\ sent[j].msg.id \in Ids
             /\ answered'[sent[j].msg.id] = None
             /\ \A k \in DOMAIN server'.pending : server'.pending[k] # sent[j].msg.id
      <3>1. 1..current \subseteq Ids
        BY StdioAssumption DEF StdioInv, TypeOK, current, Ids
      <3> QED BY <1>5, <1>6, <1>a, <2>1, <3>1 DEF StdioInv, Flow
    <2>4. \A k \in DOMAIN server'.pending :
             server'.pending[k] \in 1..current /\ answered'[server'.pending[k]] = None
      <3>1. 1..current \subseteq Ids
        BY StdioAssumption DEF StdioInv, TypeOK, current, Ids
      <3> SUFFICES ASSUME NEW k \in DOMAIN Tail(server.pending)
                   PROVE  /\ Tail(server.pending)[k] \in 1..current
                          /\ answered'[Tail(server.pending)[k]] = None
        BY <2>1
      <3> DEFINE h == Tail(server.pending)[k]
      <3>2. h = server.pending[k + 1] /\ k + 1 \in DOMAIN server.pending /\ h # i
        BY <1>5, <1>6
      <3>3. h \in 1..current /\ answered[h] = None
        BY <3>2 DEF StdioInv, Flow
      <3> HIDE DEF h
      <3>4. answered'[h] = None
        BY <1>a, <3>1, <3>2, <3>3
      <3> QED BY <3>3, <3>4 DEF h
    <2>5. \A h \in Ids : answered'[h] # None => h <= current
      BY <1>6, <1>a DEF StdioInv, Flow
    <2> QED BY <1>3, <2>2, <2>3, <2>4, <2>5 DEF StdioInv, Flow
  <1>d. Honest(stdout)'
    <2>1. \A k \in Ends(stdout) :
             stdout[k].msg.id \in Ids =>
               /\ answered'[stdout[k].msg.id] = stdout[k].msg.body
               /\ (stdout[k].msg.body = "ok" => stdout[k].msg.id \in applied')
      <3> SUFFICES ASSUME NEW k \in Ends(stdout), stdout[k].msg.id \in Ids
                   PROVE  /\ answered'[stdout[k].msg.id] = stdout[k].msg.body
                          /\ (stdout[k].msg.body = "ok" => stdout[k].msg.id \in applied')
        OBVIOUS
      <3>1. stdout[k].msg.body # None
        <4>1. stdout[k] \in Tokens
          BY <1>4 DEF Ends
        <4> QED BY <4>1, StdioAssumption DEF Tokens, Messages
      <3> QED BY <1>a, <3>1 DEF StdioInv, Honest
    <2>2. \A k \in Ends(stdout') :
             \/ k \in Ends(stdout) /\ stdout'[k] = stdout[k]
             \/ stdout'[k].msg = m
      <3> SUFFICES ASSUME NEW k \in Ends(stdout')
                   PROVE  \/ k \in Ends(stdout) /\ stdout'[k] = stdout[k]
                          \/ stdout'[k].msg = m
        OBVIOUS
      <3>1. k \in 1..(Len(stdout) + 2) /\ stdout'[k].tail /\ Len(stdout) \in Nat
        BY <1>4, <1>8, <1>9, Joined DEF Ends
      <3>2. CASE k <= Len(stdout)
        <4>1. k \in 1..Len(stdout)
          BY <3>1, <3>2
        <4>2. stdout'[k] = stdout[k]
          BY <1>4, <1>8, <1>9, <4>1, Joined
        <4> QED BY <3>1, <4>1, <4>2 DEF Ends
      <3>3. CASE k > Len(stdout)
        <4>1. k - Len(stdout) \in 1..2 /\ stdout'[k] = Line(m)[k - Len(stdout)]
          BY <1>4, <1>8, <1>9, <3>1, <3>3, Joined
        <4>2. k - Len(stdout) = 2
          BY <1>8, <3>1, <4>1
        <4> QED BY <1>8, <4>1, <4>2
      <3> QED BY <3>1, <3>2, <3>3
    <2> QED BY <1>7, <1>a, <2>1, <2>2 DEF Honest
  <1>e. Honest(codec.buffer)'
    <2> SUFFICES ASSUME NEW k \in Ends(codec.buffer), codec.buffer[k].msg.id \in Ids
                 PROVE  /\ answered'[codec.buffer[k].msg.id] = codec.buffer[k].msg.body
                        /\ (codec.buffer[k].msg.body = "ok" => codec.buffer[k].msg.id \in applied')
      BY <1>3 DEF Honest
    <2>1. codec.buffer[k].msg.body # None
      <3>1. codec.buffer[k] \in Tokens
        BY DEF StdioInv, TypeOK, Ends
      <3> QED BY <3>1, StdioAssumption DEF Tokens, Messages
    <2> QED BY <1>a, <2>1 DEF StdioInv, Honest
  <1>f. OwnAnswer'
    <2>1. "ok" # None /\ "tool_error" # None
      BY StdioAssumption DEF Bodies
    <2> QED BY <1>2, <1>a, <2>1 DEF StdioInv, OwnAnswer
  <1>g. pc' = "observe" => answered'[current'] = "ok"
    <2>1. pc = "observe" => current \in Ids /\ answered[current] = "ok" /\ "ok" # None
      BY StdioAssumption DEF StdioInv, Bodies
    <2> QED BY <1>3, <1>a, <2>1
  <1> QED BY <1>2, <1>3, <1>b, <1>c, <1>d, <1>e, <1>f, <1>g DEF StdioInv

\* What the server emits unasked ends no line about a request.
LEMMA ServerSpeaks ==
  ASSUME StdioInv, NEW t \in Seq(Tokens), \A k \in Ends(t) : t[k].msg.id \notin Ids,
         stdout' = stdout \o t,
         UNCHANGED <<client, stdin, stderr, server.pending, drained, applied, answered, outcome, garbled>>,
         server' \in [alive : BOOLEAN, pending : Seq(Ids)], noise' \in 0..MaxNoise
  PROVE  StdioInv'
  <1>1. UNCHANGED <<require_readback, next_id, pc, unsent, used, codec, eof, sent>> /\ current' = current
    BY DEF client, current, sent
  <1>2. stdout \in Seq(Tokens) /\ Honest(stdout) /\ Honest(t)
    BY DEF StdioInv, TypeOK, Honest
  <1>3. stdout' \in Seq(Tokens) /\ Honest(stdout')
    BY <1>2, Joined, HonestJoin
  <1>4. TypeOK'
    BY <1>1, <1>3 DEF StdioInv, TypeOK
  <1>5. Flow'
    BY <1>1 DEF StdioInv, Flow
  <1>6. OwnAnswer' /\ Honest(stdout)' /\ Honest(codec.buffer)'
    BY <1>1, <1>3 DEF StdioInv, OwnAnswer, Honest
  <1> QED BY <1>1, <1>4, <1>5, <1>6 DEF StdioInv

\* The server takes some of its input out of the pipe.
LEMMA ServerDrainStep == StdioInv /\ ServerDrain => StdioInv'
  <1> SUFFICES ASSUME StdioInv, ServerDrain PROVE StdioInv'
    OBVIOUS
  <1>1. /\ UNCHANGED <<require_readback, next_id, pc, unsent, used, codec, eof, stdin, stdout, stderr, server,
                       noise, applied, answered, outcome, garbled, sent>>
        /\ current' = current
    BY DEF ServerDrain, client, pipes, current, sent
  <1>2. drained' \in 0..Len(stdin')
    BY <1>1 DEF ServerDrain, StdioInv, TypeOK
  <1>3. TypeOK' /\ Flow'
    BY <1>1, <1>2 DEF StdioInv, TypeOK, Flow
  <1>4. OwnAnswer' /\ Honest(stdout)' /\ Honest(codec.buffer)'
    BY <1>1 DEF StdioInv, OwnAnswer, Honest
  <1> QED BY <1>1, <1>3, <1>4 DEF StdioInv

LEMMA ServerOtherSteps ==
  StdioInv /\ (ServerNoise \/ ServerStderr \/ ServerExit \/ UNCHANGED vars) => StdioInv'
  <1> SUFFICES ASSUME StdioInv, ServerNoise \/ ServerStderr \/ ServerExit \/ UNCHANGED vars
               PROVE  StdioInv'
    OBVIOUS
  <1>0. /\ server \in [alive : BOOLEAN, pending : Seq(Ids)] /\ noise \in 0..MaxNoise
        /\ stdout \in Seq(Tokens) /\ None \notin Ids
    BY StdioAssumption DEF StdioInv, TypeOK
  <1>1. CASE ServerNoise
    <2> DEFINE bad == Msg(None, "malformed")
               junk == Msg(None, "junk")
    <2>1. bad \in Messages /\ junk \in Messages /\ bad.id = None /\ junk.id = None
      BY DEF Msg, Messages, Bodies
    <2>2. PICK t \in {Line(bad), <<Tail_(junk)>>, <<Head_(junk)>>} : stdout' = stdout \o t
      BY <1>1 DEF ServerNoise
    <2> HIDE DEF bad, junk
    <2>3. t \in Seq(Tokens) /\ \A k \in Ends(t) : t[k].msg.id \notin Ids
      <3>1. CASE t = Line(bad)
        <4>1. Line(bad) \in Seq(Tokens) /\ Len(Line(bad)) = 2 /\ ~ Line(bad)[1].tail /\ Line(bad)[2].msg = bad
          BY <2>1, LineOfTwo
        <4>2. \A k \in Ends(Line(bad)) : k = 2
          BY <4>1 DEF Ends
        <4> QED BY <1>0, <2>1, <3>1, <4>1, <4>2
      <3>2. CASE t = <<Tail_(junk)>>
        BY <1>0, <2>1, <3>2 DEF Tail_, Ends, Tokens
      <3>3. CASE t = <<Head_(junk)>>
        BY <2>1, <3>3 DEF Head_, Ends, Tokens
      <3> QED BY <2>2, <3>1, <3>2, <3>3
    <2>4. noise' \in 0..MaxNoise
      BY <1>0, <1>1, StdioAssumption DEF ServerNoise
    <2>5. /\ UNCHANGED <<client, stdin, stderr, server.pending, drained, applied, answered, outcome, garbled>>
          /\ server' \in [alive : BOOLEAN, pending : Seq(Ids)]
      BY <1>0, <1>1 DEF ServerNoise
    <2> QED BY <2>2, <2>3, <2>4, <2>5, ServerSpeaks
  <1>2. CASE ServerExit
    <2>1. /\ server' = [server EXCEPT !.alive = FALSE]
          /\ UNCHANGED <<client, stdin, stderr, noise, drained, applied, answered, outcome, garbled>>
          /\ \/ stdout' = stdout
             \/ /\ server.pending # <<>>
                /\ stdout' = Append(stdout, Head_(Msg(Head(server.pending), "ok")))
      BY <1>2 DEF ServerExit
    <2>2. /\ server' \in [alive : BOOLEAN, pending : Seq(Ids)] /\ server'.pending = server.pending
          /\ noise' \in 0..MaxNoise
      BY <1>0, <2>1
    <2>3. CASE stdout' = stdout
      <3>1. stdout' = stdout \o <<>> /\ <<>> \in Seq(Tokens) /\ Ends(<<>>) = {}
        BY <1>0, <2>3, ConcatEmptySeq DEF Ends
      <3> QED BY <2>1, <2>2, <3>1, ServerSpeaks
    <2>4. CASE /\ server.pending # <<>>
               /\ stdout' = Append(stdout, Head_(Msg(Head(server.pending), "ok")))
      <3> DEFINE tok == Head_(Msg(Head(server.pending), "ok"))
      <3>1. Head(server.pending) \in Ids
        BY <1>0, <2>4, HeadTailProperties
      <3>2. tok \in Tokens /\ ~ tok.tail
        BY <3>1 DEF Head_, Msg, Tokens, Messages, Bodies
      <3> HIDE DEF tok
      <3>3. stdout' = stdout \o <<tok>> /\ <<tok>> \in Seq(Tokens) /\ Ends(<<tok>>) = {}
        <4>1. stdout' = Append(stdout, tok)
          BY <2>4 DEF tok
        <4> QED BY <1>0, <3>2, <4>1, AppendIsConcat DEF Ends
      <3> QED BY <2>1, <2>2, <3>3, ServerSpeaks
    <2> QED BY <2>1, <2>3, <2>4
  <1>3. CASE ServerStderr \/ UNCHANGED vars
    <2>1. /\ UNCHANGED <<require_readback, next_id, pc, unsent, used, codec, eof, stdin, stdout, server, noise, drained,
                         applied, answered, outcome, garbled, sent>>
          /\ current' = current /\ stderr' \in BOOLEAN
      BY <1>3 DEF ServerStderr, vars, client, world, pipes, StdioInv, TypeOK, current, sent
    <2>2. TypeOK' /\ Flow'
      BY <2>1 DEF StdioInv, TypeOK, Flow
    <2>3. OwnAnswer' /\ Honest(stdout)' /\ Honest(codec.buffer)'
      BY <2>1 DEF StdioInv, OwnAnswer, Honest
    <2> QED BY <2>1, <2>2, <2>3 DEF StdioInv
  <1> QED BY <1>1, <1>2, <1>3

\* Every step preserves the invariant.
LEMMA NextStdio == StdioInv /\ [Next]_vars => StdioInv'
  BY ExecuteStep, WriteStep, ReadStdoutStep, ClientSteps, ServerDrainStep, ServerReadStep, ServerAnswerStep,
     ServerOtherSteps
     DEF Next, ClientStep, Progress, BrokenPipe

LEMMA StdioInvariant == Spec => []StdioInv
  BY InitStdio, NextStdio, PTL DEF Spec

-----------------------------------------------------------------------------
\* Success and tool errors rest on the server's own answer to the request, however
\* answers are delayed, split and joined (validate_response, feed).
THEOREM OwnAnswerHolds == Spec => []OwnAnswer
  <1>1. StdioInv => OwnAnswer
    BY DEF StdioInv
  <1> QED BY <1>1, StdioInvariant, PTL

\* After a framing error the codec stays poisoned and no call succeeds (_fail).
THEOREM PoisonIsFinalHolds == Spec => PoisonIsFinal
  <1>1. StdioInv /\ [Next]_vars =>
          [garbled => /\ garbled' /\ codec'.poisoned
                      /\ \A i \in Ids : outcome'[i] = "succeeded" => outcome[i] = "succeeded"]_vars
    <2> SUFFICES ASSUME StdioInv, Next, garbled
                 PROVE  /\ garbled' /\ codec'.poisoned
                        /\ \A i \in Ids : outcome'[i] = "succeeded" => outcome[i] = "succeeded"
      OBVIOUS
    <2>1. pc = "idle" /\ codec.poisoned
      BY DEF StdioInv
    <2>2. CASE Execute
      BY <2>1, <2>2 DEF Execute, StdioInv, TypeOK
    <2>3. CASE ClientStep
      BY <2>1, <2>3 DEF ClientStep, Progress, Write, BrokenPipe, WriteFails, ReadStdout, ReadStderr, ReadEof, ReadTimeout, ReadFails,
                        TooManyEvents, Observe, MayRead
    <2>4. CASE ServerDrain \/ ServerRead \/ ServerAnswer \/ ServerNoise \/ ServerStderr \/ ServerExit
      BY <2>1, <2>4 DEF ServerDrain, ServerRead, ServerAnswer, ServerNoise, ServerStderr, ServerExit, client
    <2> QED BY <2>2, <2>3, <2>4 DEF Next
  <1> QED BY <1>1, StdioInvariant, PTL DEF Spec, PoisonIsFinal

=============================================================================
