--------------------------- MODULE RegistryProofs ---------------------------
(***************************************************************************)
(* For every set of processes, tenants and definitions: registration never *)
(* escalates falsely and is recorded unless a process stops, no tenant's   *)
(* runtime writes into a pathway of another tenant, the events of a        *)
(* pathway tell one history of it without a gap, and whoever approved it   *)
(* was asked to.  Principals made the moves they are recorded to have      *)
(* authorized; and what a reader beside them counts or diagnoses holds     *)
(* together, whatever happens between its statements.                      *)
(***************************************************************************)
EXTENDS ReadOnlyServer, FiniteSetTheorems, TLAPS

\* The two decisions registration combines are decisions.
LEMMA DecisionTypes ==
  ASSUME NEW d \in Features, NEW answer \in RpeAnswers
  PROVE  inspect_pathway(d) \in RuntimeDecision /\ rpe_decision(answer) \in RuntimeDecision
  BY DEF inspect_pathway, rpe_decision, RuntimeDecision, RpeAnswers

\* A pathway starts at a Human Gate when the evaluator asked for one, or when
\* inspection found a valid high-impact definition (_combine, _initial_state).
LEMMA HumanGateIsAsked ==
  ASSUME NEW d \in Features, NEW answer \in RpeAnswers, first_state(d, answer) = "human_gate"
  PROVE  answer = "human_gate" \/ inspect_pathway(d) = "human_gate"
  <1>1. inspect_pathway(d) \in RuntimeDecision /\ rpe_decision(answer) \in RuntimeDecision
    BY DecisionTypes
  <1>2. combine(inspect_pathway(d), rpe_decision(answer)) = "human_gate"
    BY <1>1 DEF first_state, initial_state, combine, RuntimeDecision
  <1>3. inspect_pathway(d) = "human_gate" \/ rpe_decision(answer) = "human_gate"
    BY <1>2 DEF combine
  <1> QED BY <1>3 DEF rpe_decision, RuntimeDecision

\* The first state of a pathway is a state.
LEMMA FirstStateType ==
  ASSUME NEW d \in Features, NEW answer \in RpeAnswers
  PROVE  first_state(d, answer) \in PathwayState
  BY DEF first_state, initial_state, PathwayState

\* The states registration and generic transitions lead to: nothing leads back to
\* AWAITING_APPROVAL, where only a definition with an approval authority begins.
Reached(s, d) ==
  \/ s \in {"approved", "held", "human_gate", "denied"}
  \/ s = "awaiting_approval" /\ d.features.approval # "none"

\* A pathway begins to wait for approval only when it names who approves.
LEMMA FirstStateReached ==
  ASSUME NEW d, d.features \in Features, NEW answer \in RpeAnswers
  PROVE  Reached(first_state(d.features, answer), d)
  BY DEF first_state, initial_state, Reached

\* The transitions offered to callers stay within the states that are reached.
LEMMA ReachedStays ==
  ASSUME NEW d, NEW s \in PathwayState, Reached(s, d),
         NEW t \in ALLOWED_TRANSITIONS[s] \ {"running", "aborted"}
  PROVE  Reached(t, d)
  BY DEF Reached, ALLOWED_TRANSITIONS, PathwayState

-----------------------------------------------------------------------------
\* What a process holds in memory at each label.
Shape(c) ==
  /\ c.pc \in {"claim", "evaluate", "create"} =>
       c.def \in Definitions /\ c.key \in Keys \cup {BlankKey} /\ c.id \in Ids
  /\ c.pc = "create" => c.answer \in RpeAnswers /\ c.snap = first_state(c.def.features, c.answer)
  /\ c.pc \in {"read", "hash", "commit"} => c.id \in Ids /\ c.goal \in PathwayState \ {"running"}
  /\ c.pc \in {"hash", "commit"} =>
       /\ c.snap \in PathwayState
       /\ c.goal \in ALLOWED_TRANSITIONS[c.snap] \ {"running", "aborted"}
  /\ c.pc \in {"record_read", "record"} =>
       c.id \in Ids /\ c.goal \in PathwayState /\ c.snap \in PathwayState /\ c.kind \in Kinds

\* A scoped operation that is past its claim or its require works on a pathway
\* its tenant owns, by the registry o.
Scoped(c, o) == c.pc \notin {"idle", "claim"} /\ c.scope # None => o[c.id] = c.scope

\* A row began in the state registration computed for it.
Founded(r) ==
  r # NoRow => r.first = first_state(r.def.features, r.answer) /\ Reached(r.state, r.def)

\* The inductive invariant.
RegistryInv ==
  /\ TypeOK
  /\ \A p \in Procs : Shape(call[p]) /\ Scoped(call[p], owner)
  /\ \A id \in Ids : Founded(row[id])
  /\ TenantBoundary

\* The memory of an idle process.
LEMMA IdleFits == Idle \in CallType /\ Shape(Idle) /\ \A o : Scoped(Idle, o)
  BY DEF Idle, CallType, Labels, Shape, Scoped

\* A step of process p leaves the memory of the others alone.
LEMMA OneProcess ==
  ASSUME RegistryInv, NEW p \in Procs, NEW c \in CallType, Become(p, c), Shape(c), Scoped(c, owner'),
         \A id \in Ids : owner[id] # None => owner'[id] = owner[id],
         owner \in [Ids -> Tenants \cup {None}]
  PROVE  /\ call' \in [Procs -> CallType]
         /\ \A q \in Procs : Shape(call'[q]) /\ Scoped(call'[q], owner')
  <1>1. call' \in [Procs -> CallType] /\ call'[p] = c /\ \A q \in Procs \ {p} : call'[q] = call[q]
    BY DEF RegistryInv, TypeOK, Become
  <1>2. ASSUME NEW q \in Procs PROVE Scoped(call[q], owner')
    <2>1. call[q].pc \notin {"idle", "claim"} => call[q].id \in Ids
      BY DEF RegistryInv, TypeOK, CallType, Labels, Shape
    <2> QED BY <2>1 DEF RegistryInv, Scoped
  <1> QED BY <1>1, <1>2 DEF RegistryInv

\* A step that writes to no database.
LEMMA LocalStep ==
  ASSUME RegistryInv, NEW p \in Procs, NEW c \in CallType, Become(p, c), Shape(c), Scoped(c, owner),
         UNCHANGED <<owner, row, events>>, calls' \in Nat, crashes' \in Nat
  PROVE  RegistryInv'
  <1>1. /\ call' \in [Procs -> CallType]
        /\ \A q \in Procs : Shape(call'[q]) /\ Scoped(call'[q], owner')
    BY OneProcess DEF RegistryInv, TypeOK
  <1>2. TypeOK'
    BY <1>1 DEF RegistryInv, TypeOK
  <1>3. TenantBoundary' /\ \A id \in Ids : Founded(row'[id])
    BY DEF RegistryInv, TenantBoundary
  <1> QED BY <1>1, <1>2, <1>3 DEF RegistryInv

\* A step that appends an event of process p and may change the row of the
\* pathway it is about.
LEMMA EventStep ==
  ASSUME RegistryInv, NEW p \in Procs, NEW c \in CallType, Become(p, c), Shape(c), Scoped(c, owner),
         NEW kind \in Kinds, append_event(p, kind),
         call[p].pc \in {"record", "commit"},
         UNCHANGED owner, row' \in [Ids -> Rows \cup {NoRow}], \A id \in Ids : Founded(row'[id]),
         calls' \in Nat, crashes' \in Nat
  PROVE  RegistryInv'
  <1> DEFINE i == call[p].id
             e == Event(p, kind)
  <1>1. /\ call' \in [Procs -> CallType]
        /\ \A q \in Procs : Shape(call'[q]) /\ Scoped(call'[q], owner')
    BY OneProcess DEF RegistryInv, TypeOK
  <1>2. i \in Ids /\ call[p] \in CallType /\ call[p].goal \in PathwayState /\ call[p].snap \in PathwayState
    BY DEF RegistryInv, TypeOK, Shape
  <1>3. e \in EventType /\ e.by = call[p].scope
    BY <1>2 DEF Event, EventType, CallType
  <1>4. events[i] \in Seq(EventType) /\ events' = [events EXCEPT ![i] = Append(events[i], e)]
    BY <1>2 DEF RegistryInv, TypeOK, append_event
  <1>5. Append(events[i], e) \in Seq(EventType)
    BY <1>3, <1>4
  <1>6. events' \in [Ids -> Seq(EventType)]
    BY <1>2, <1>4, <1>5 DEF RegistryInv, TypeOK
  <1>7. TypeOK'
    BY <1>1, <1>6 DEF RegistryInv, TypeOK
  <1>8. e.by \in {None, owner[i]}
    BY <1>2, <1>3 DEF RegistryInv, Scoped
  <1>9. ASSUME NEW id \in Ids, NEW j \in 1..Len(events'[id]) PROVE events'[id][j].by \in {None, owner[id]}
    <2>1. CASE id # i
      <3>1. events'[id] = events[id] BY <2>1, <1>4 DEF RegistryInv, TypeOK
      <3> QED BY <3>1, <1>9 DEF RegistryInv, TenantBoundary
    <2>2. CASE id = i
      <3>1. events'[id] = Append(events[i], e) BY <2>2, <1>2, <1>4 DEF RegistryInv, TypeOK
      <3>2. CASE j = Len(events[i]) + 1
        BY <3>1, <3>2, <1>3, <1>4, <1>8, <2>2
      <3>3. CASE j \in 1..Len(events[i])
        <4>1. events'[id][j] = events[i][j] BY <3>1, <3>3, <1>3, <1>4
        <4> QED BY <4>1, <3>3, <2>2 DEF RegistryInv, TenantBoundary
      <3>4. j = Len(events[i]) + 1 \/ j \in 1..Len(events[i])
        BY <3>1, <1>3, <1>4
      <3> QED BY <3>2, <3>3, <3>4
    <2> QED BY <2>1, <2>2
  <1>10. TenantBoundary'
    BY <1>9 DEF TenantBoundary
  <1> QED BY <1>1, <1>7, <1>10 DEF RegistryInv

\* The operations callers begin.
LEMMA BeginSteps ==
  ASSUME RegistryInv, NEW p \in Procs,
         \/ \E tenant \in Scopes, d \in Definitions, key \in Keys \cup {BlankKey} :
              Register(p, tenant, d, key)
         \/ \E id \in Ids, target \in ManualTargets :
              \/ \E tenant \in Scopes, actor \in Actors : Transition(p, tenant, id, target, actor)
              \/ \E credential \in Credentials, now \in Times :
                   TransitionAsPrincipal(p, id, target, credential, now)
  PROVE  RegistryInv'
  <1>1. ASSUME NEW tenant \in Scopes, NEW d \in Definitions, NEW key \in Keys \cup {BlankKey},
               Register(p, tenant, d, key)
        PROVE  RegistryInv'
    <2> DEFINE c == [Idle EXCEPT !.pc = IF tenant = None THEN "evaluate" ELSE "claim",
                                 !.scope = tenant, !.def = d, !.key = key, !.id = d.id]
    <2>1. c \in CallType /\ Shape(c) /\ Scoped(c, owner)
      BY RegistryAssumption DEF Idle, CallType, Labels, Shape, Scoped
    <2>2. Become(p, c) /\ UNCHANGED <<owner, row, events, crashes>> /\ calls' = calls + 1
      BY <1>1 DEF Register, Begin
    <2> HIDE DEF c
    <2>3. calls' \in Nat /\ crashes' \in Nat
      BY <2>2 DEF RegistryInv, TypeOK
    <2> QED BY <2>1, <2>2, <2>3, LocalStep
  <1>2. ASSUME NEW id \in Ids, NEW target \in ManualTargets, NEW actor \in Actors, NEW tenant \in Scopes,
               Transition(p, tenant, id, target, actor)
        PROVE  RegistryInv'
    <2> DEFINE c == [Idle EXCEPT !.pc = "read", !.scope = tenant, !.id = id, !.goal = target,
                                 !.actor = actor]
    <2>1. c \in CallType /\ Shape(c) /\ Scoped(c, owner)
      BY <1>2, RegistryAssumption DEF Idle, CallType, Labels, Shape, Scoped, Transition
    <2>2. Become(p, c) /\ UNCHANGED <<owner, row, events, crashes>> /\ calls' = calls + 1
      BY <1>2 DEF Transition, Begin
    <2> HIDE DEF c
    <2>3. calls' \in Nat /\ crashes' \in Nat
      BY <2>2 DEF RegistryInv, TypeOK
    <2> QED BY <2>1, <2>2, <2>3, LocalStep
  <1>3. ASSUME NEW id \in Ids, NEW target \in ManualTargets, NEW credential \in Credentials,
               NEW now \in Times, TransitionAsPrincipal(p, id, target, credential, now)
        PROVE  RegistryInv'
    <2> DEFINE actor == actor_for(credential)
               c == [Idle EXCEPT !.pc = "read", !.id = id, !.goal = target, !.actor = actor,
                                 !.kind = "principal_authorized_transition"]
    <2>4. actor \in Actors
      BY <1>3, RegistryAssumption DEF TransitionAsPrincipal
    <2> HIDE DEF actor
    <2>1. c \in CallType /\ Shape(c) /\ Scoped(c, owner)
      BY <1>3, <2>4, RegistryAssumption DEF Idle, CallType, Labels, Shape, Scoped, Kinds, TransitionAsPrincipal
    <2>2. Become(p, c) /\ UNCHANGED <<owner, row, events, crashes>> /\ calls' = calls + 1
      BY <1>3 DEF TransitionAsPrincipal, Begin, actor
    <2> HIDE DEF c
    <2>3. calls' \in Nat /\ crashes' \in Nat
      BY <2>2 DEF RegistryInv, TypeOK
    <2> QED BY <2>1, <2>2, <2>3, LocalStep
  <1> QED BY <1>1, <1>2, <1>3

\* An operation that ends without writing.
LEMMA GiveUp ==
  ASSUME RegistryInv, NEW p \in Procs, Return(p), UNCHANGED <<owner, row, events, calls>>, crashes' \in Nat
  PROVE  RegistryInv'
  <1>1. calls' \in Nat BY DEF RegistryInv, TypeOK
  <1> QED BY <1>1, IdleFits, LocalStep DEF Return

\* The steps that only read.
LEMMA ReadingSteps ==
  ASSUME RegistryInv, NEW p \in Procs,
         Evaluate(p) \/ RecordRead(p) \/ TransitionRead(p) \/ TransitionHash(p) \/ Crash(p)
  PROVE  RegistryInv'
  <1>0. call[p] \in CallType /\ Shape(call[p]) /\ Scoped(call[p], owner) /\ calls \in Nat /\ crashes \in Nat
    BY DEF RegistryInv, TypeOK
  <1>1. CASE Evaluate(p)
    <2>1. PICK answer \in Answers :
            IF answer = "raises" THEN Return(p)
            ELSE Become(p, [call[p] EXCEPT !.pc = "create", !.answer = answer,
                              !.snap = first_state(call[p].def.features, answer)])
      BY <1>1 DEF Evaluate
    <2>2. CASE answer = "raises"
      BY <2>1, <2>2, <1>0, <1>1, GiveUp DEF Evaluate
    <2>3. CASE answer # "raises"
      <3> DEFINE c == [call[p] EXCEPT !.pc = "create", !.answer = answer,
                         !.snap = first_state(call[p].def.features, answer)]
      <3>1. call[p].pc = "evaluate" /\ call[p].def \in Definitions /\ answer \in RpeAnswers
        BY <1>0, <1>1, RegistryAssumption DEF Evaluate, At, Shape
      <3>2. first_state(call[p].def.features, answer) \in PathwayState
        BY <3>1, FirstStateType, RegistryAssumption
      <3>3. c \in CallType /\ Shape(c) /\ Scoped(c, owner)
        BY ZenonT(30), <1>0, <3>1, <3>2 DEF CallType, Labels, Shape, Scoped
      <3>4. Become(p, c)
        BY <2>1, <2>3
      <3> QED BY <3>3, <3>4, <1>0, <1>1, LocalStep DEF Evaluate
    <2> QED BY <2>2, <2>3
  <1>2. CASE RecordRead(p)
    <2> DEFINE c == [call[p] EXCEPT !.pc = "record", !.prev = latest_event_hash(call[p].id)]
    <2>1. call[p].pc = "record_read" /\ events[call[p].id] \in Seq(EventType)
      BY <1>0, <1>2 DEF RecordRead, At, Shape, RegistryInv, TypeOK
    <2>2. latest_event_hash(call[p].id) \in Nat
      BY <2>1 DEF latest_event_hash
    <2>3. c \in CallType /\ Shape(c) /\ Scoped(c, owner)
      BY ZenonT(30), <1>0, <2>1, <2>2 DEF CallType, Labels, Shape, Scoped
    <2> QED BY <2>3, <1>0, <1>2, LocalStep DEF RecordRead
  <1>3. CASE TransitionRead(p)
    <2> DEFINE r == row[call[p].id]
               c == [call[p] EXCEPT !.pc = "hash", !.snap = r.state]
    <2>1. call[p].pc = "read" /\ r \in Rows \cup {NoRow}
      BY <1>0, <1>3 DEF TransitionRead, At, Shape, RegistryInv, TypeOK
    <2>2. CASE r # NoRow /\ Permitted(r.def, r.state, call[p].goal, call[p].actor)
      <3>1. r.state \in PathwayState /\ call[p].goal \in ALLOWED_TRANSITIONS[r.state] \ {"aborted"}
        BY <2>1, <2>2 DEF Rows, Permitted, ensure_transition, Rules!authorize_transition
      <3> DEFINE k == call[p]
                 s == r.state
      <3>2. k \in CallType /\ Shape(k) /\ Scoped(k, owner) /\ k.pc = "read"
            /\ s \in PathwayState /\ k.goal \in ALLOWED_TRANSITIONS[s] \ {"aborted"}
        BY <1>0, <2>1, <3>1
      <3> HIDE DEF k, s
      <3>3. [k EXCEPT !.pc = "hash", !.snap = s] \in CallType
        BY <3>2 DEF CallType, Labels
      <3>4. Shape([k EXCEPT !.pc = "hash", !.snap = s]) /\ Scoped([k EXCEPT !.pc = "hash", !.snap = s], owner)
        BY <3>2 DEF CallType, Shape, Scoped
      <3>5. c \in CallType /\ Shape(c) /\ Scoped(c, owner)
        BY <3>3, <3>4 DEF k, s
      <3>6. Become(p, c)
        BY <1>3, <2>2 DEF TransitionRead
      <3> QED BY <3>5, <3>6, <1>0, <1>3, LocalStep DEF TransitionRead
    <2>3. CASE ~ (r # NoRow /\ Permitted(r.def, r.state, call[p].goal, call[p].actor))
      <3>1. Return(p)
        BY <1>3, <2>3 DEF TransitionRead
      <3> QED BY <3>1, <1>0, <1>3, GiveUp DEF TransitionRead
    <2> QED BY <2>2, <2>3
  <1>4. CASE TransitionHash(p)
    <2> DEFINE c == [call[p] EXCEPT !.pc = "commit", !.prev = latest_event_hash(call[p].id)]
    <2>1. call[p].pc = "hash" /\ events[call[p].id] \in Seq(EventType)
      BY <1>0, <1>4 DEF TransitionHash, At, Shape, RegistryInv, TypeOK
    <2>2. latest_event_hash(call[p].id) \in Nat
      BY <2>1 DEF latest_event_hash
    <2>3. c \in CallType /\ Shape(c) /\ Scoped(c, owner)
      BY ZenonT(30), <1>0, <2>1, <2>2 DEF CallType, Labels, Shape, Scoped
    <2> QED BY <2>3, <1>0, <1>4, LocalStep DEF TransitionHash
  <1>5. CASE Crash(p)
    BY <1>0, <1>5, GiveUp DEF Crash
  <1> QED BY <1>1, <1>2, <1>3, <1>4, <1>5

\* claim: a tenant only takes an id that nobody has.
LEMMA ClaimStep ==
  ASSUME RegistryInv, NEW p \in Procs, Claim(p)
  PROVE  RegistryInv'
  <1> DEFINE i == call[p].id
             t == call[p].scope
             c == [call[p] EXCEPT !.pc = "evaluate"]
  <1>0. /\ call[p] \in CallType /\ Shape(call[p]) /\ calls' \in Nat /\ crashes' \in Nat
        /\ call[p].pc = "claim" /\ i \in Ids /\ t \in Tenants \cup {None}
    BY DEF RegistryInv, TypeOK, Claim, At, Shape, CallType
  <1>1. CASE owner[i] \in {None, t}
    <2>1. owner' = [owner EXCEPT ![i] = t] /\ Become(p, c) /\ UNCHANGED <<row, events>>
      BY <1>1 DEF Claim, Goto
    <2>2. owner' \in [Ids -> Tenants \cup {None}] /\ owner'[i] = t
          /\ \A id \in Ids : owner[id] # None => owner'[id] = owner[id]
      BY <1>0, <1>1, <2>1 DEF RegistryInv, TypeOK
    <2>3. c \in CallType /\ Shape(c) /\ Scoped(c, owner')
      BY <1>0, <2>2 DEF CallType, Labels, Shape, Scoped
    <2>4. /\ call' \in [Procs -> CallType]
          /\ \A q \in Procs : Shape(call'[q]) /\ Scoped(call'[q], owner')
      BY <2>1, <2>2, <2>3, OneProcess DEF RegistryInv, TypeOK
    <2>5. TypeOK'
      BY <1>0, <2>1, <2>2, <2>4 DEF RegistryInv, TypeOK
    <2>6. TenantBoundary' /\ \A id \in Ids : Founded(row'[id])
      BY <2>1, <2>2 DEF RegistryInv, TenantBoundary
    <2> QED BY <2>4, <2>5, <2>6 DEF RegistryInv
  <1>2. CASE owner[i] \notin {None, t}
    BY <1>0, <1>2, GiveUp DEF Claim
  <1> QED BY <1>1, <1>2

\* create_or_replay_pathway: a new row begins in the state it was evaluated to.
LEMMA CreateStep ==
  ASSUME RegistryInv, NEW p \in Procs, Create(p)
  PROVE  RegistryInv'
  <1> DEFINE k == call[p]
             r == [def |-> k.def, key |-> k.key, state |-> k.snap, answer |-> k.answer, first |-> k.snap]
             c == [k EXCEPT !.pc = "record_read", !.kind = "pathway_registered", !.goal = k.snap]
             refused == k.key = BlankKey \/ KeyTaken(k.key) \/ row[k.id] # NoRow
  <1>0. /\ k \in CallType /\ Shape(k) /\ Scoped(k, owner) /\ calls' \in Nat /\ crashes' \in Nat
        /\ k.pc = "create" /\ k.id \in Ids /\ UNCHANGED <<owner, events>>
    BY DEF RegistryInv, TypeOK, Create, At, Shape
  <1>1. CASE refused
    BY <1>0, <1>1, GiveUp DEF Create
  <1>2. CASE ~ refused
    <2>1. row' = [row EXCEPT ![k.id] = r] /\ Become(p, c)
      BY <1>2 DEF Create
    <2>2. k.def \in Definitions /\ k.def.features \in Features /\ k.answer \in RpeAnswers /\ k.key \in Keys
          /\ k.snap = first_state(k.def.features, k.answer)
      BY <1>0, <1>2, RegistryAssumption DEF Shape
    <2>3. k.snap \in PathwayState
      BY <2>2, FirstStateType
    <2>4. r \in Rows /\ Founded(r)
      BY <2>2, <2>3, FirstStateReached DEF Rows, Founded
    <2>5. row' \in [Ids -> Rows \cup {NoRow}] /\ \A id \in Ids : Founded(row'[id])
      BY <1>0, <2>1, <2>4 DEF RegistryInv, TypeOK
    <2>6. c \in CallType /\ Shape(c) /\ Scoped(c, owner')
      BY <1>0, <2>3 DEF CallType, Labels, Kinds, Shape, Scoped
    <2>7. /\ call' \in [Procs -> CallType]
          /\ \A q \in Procs : Shape(call'[q]) /\ Scoped(call'[q], owner')
      BY <1>0, <2>1, <2>6, OneProcess DEF RegistryInv, TypeOK
    <2>8. TypeOK' /\ TenantBoundary'
      BY <1>0, <2>5, <2>7 DEF RegistryInv, TypeOK, TenantBoundary
    <2> QED BY <2>5, <2>7, <2>8 DEF RegistryInv
  <1> QED BY <1>1, <1>2

\* The steps that append an event.
LEMMA WritingSteps ==
  ASSUME RegistryInv, NEW p \in Procs, Record(p) \/ Commit(p)
  PROVE  RegistryInv'
  <1> DEFINE k == call[p]
  <1>0. /\ k \in CallType /\ Shape(k) /\ Scoped(k, owner) /\ calls' \in Nat /\ crashes' \in Nat
        /\ UNCHANGED owner
    BY DEF RegistryInv, TypeOK, Record, Commit
  <1>1. CASE Record(p)
    <2>1. k.pc = "record" /\ k.kind \in Kinds /\ append_event(p, k.kind) /\ Become(p, Idle) /\ UNCHANGED row
      BY <1>0, <1>1 DEF Record, At, Shape, Return
    <2>2. row' \in [Ids -> Rows \cup {NoRow}] /\ \A id \in Ids : Founded(row'[id])
      BY <2>1 DEF RegistryInv, TypeOK
    <2> QED BY <1>0, <2>1, <2>2, IdleFits, EventStep
  <1>2. CASE Commit(p) /\ row[k.id].state # k.snap
    BY <1>0, <1>2, GiveUp DEF Commit
  <1>3. CASE Commit(p) /\ row[k.id].state = k.snap
    <2>1. /\ k.pc = "commit" /\ k.id \in Ids /\ k.goal \in PathwayState /\ k.snap \in PathwayState
          /\ row' = [row EXCEPT ![k.id].state = k.goal]
          /\ append_event(p, "state_transition") /\ "state_transition" \in Kinds
      BY <1>0, <1>3 DEF Commit, At, Shape, Kinds
    <2>2. row[k.id] \in Rows
      BY <1>3, <2>1, RegistryAssumption DEF RegistryInv, TypeOK, NoRow
    <2>3. [row[k.id] EXCEPT !.state = k.goal] \in Rows /\ Founded([row[k.id] EXCEPT !.state = k.goal])
      <3>1. row[k.id] # NoRow
        BY <2>2, RegistryAssumption DEF NoRow, Rows
      <3>2. Reached(k.goal, row[k.id].def)
        BY <1>0, <1>3, <2>1, <3>1, ReachedStays DEF RegistryInv, Founded, Shape
      <3> QED BY <2>1, <2>2, <3>1, <3>2 DEF RegistryInv, Rows, Founded
    <2>4. row' \in [Ids -> Rows \cup {NoRow}] /\ \A id \in Ids : Founded(row'[id])
      BY <2>1, <2>3 DEF RegistryInv, TypeOK
    <2>5. CASE k.kind = None
      <3>1. Become(p, Idle) BY <1>3, <2>5 DEF Commit, Return
      <3> QED BY <1>0, <2>1, <2>4, <3>1, IdleFits, EventStep
    <2>6. CASE k.kind # None
      <3> DEFINE c == [k EXCEPT !.pc = "record_read"]
      <3>1. Become(p, c) BY <1>3, <2>6 DEF Commit, Goto
      <3>2. c \in CallType /\ Shape(c) /\ Scoped(c, owner)
        BY <1>0, <2>1, <2>6 DEF CallType, Labels, Shape, Scoped
      <3> QED BY <1>0, <2>1, <2>4, <3>1, <3>2, EventStep
    <2> QED BY <2>5, <2>6
  <1> QED BY <1>1, <1>2, <1>3

-----------------------------------------------------------------------------
\* The invariant is inductive.
LEMMA RegistryInit == Init => RegistryInv
  <1> SUFFICES ASSUME Init PROVE RegistryInv OBVIOUS
  <1>1. TypeOK
    BY IdleFits DEF Init, TypeOK
  <1>2. TenantBoundary
    BY DEF Init, TenantBoundary
  <1> QED BY <1>1, <1>2, IdleFits DEF Init, RegistryInv, Founded

LEMMA RegistryStep == RegistryInv /\ [Next]_vars => RegistryInv'
  <1> SUFFICES ASSUME RegistryInv, [Next]_vars PROVE RegistryInv' OBVIOUS
  <1>1. CASE UNCHANGED vars
    BY <1>1 DEF vars, RegistryInv, TypeOK, TenantBoundary
  <1>2. CASE Next
    BY <1>2, BeginSteps, ReadingSteps, ClaimStep, CreateStep, WritingSteps DEF Next
  <1> QED BY <1>1, <1>2

LEMMA RegistryInvariant == Spec => []RegistryInv
  BY RegistryInit, RegistryStep, PTL DEF Spec

\* Every row, event and operation in progress has its type, for any processes,
\* tenants and definitions.
THEOREM RegistryTypeCorrect == Spec => []TypeOK
  BY RegistryInvariant, PTL DEF RegistryInv

\* Whatever a tenant's runtime records belongs to a pathway that tenant owns
\* (TenantScopedRuntime, SQLiteTenantRegistry.claim and require).
THEOREM TenantBoundaryHolds == Spec => []TenantBoundary
  BY RegistryInvariant, PTL DEF RegistryInv

\* No pathway starts at a Human Gate unless the evaluator asked for a human or
\* its definition is a valid high-impact one (register, inspect_pathway, _combine).
THEOREM NoFalseEscalationHolds == Spec => []NoFalseEscalation
  <1>1. RegistryInv => NoFalseEscalation
    <2> SUFFICES ASSUME RegistryInv, NEW id \in Ids, row[id].first = "human_gate",
                        row[id].answer # "human_gate"
                 PROVE  LET f == row[id].def.features
                        IN  /\ f.class = "high_impact" /\ f.approval = "named" /\ f.returns /\ f.separated
                            /\ f.complete /\ f.route \in {"none", "sound", "human"}
                            /\ f.trust # "adversarial"
      BY DEF NoFalseEscalation
    <2>1. row[id] \in Rows
      BY RegistryAssumption DEF RegistryInv, TypeOK, NoRow, PathwayState
    <2>2. row[id].def.features \in Features /\ row[id].answer \in RpeAnswers
      BY <2>1, RegistryAssumption DEF Rows
    <2>3. row[id] # NoRow
      BY RegistryAssumption DEF NoRow, PathwayState
    <2>4. inspect_pathway(row[id].def.features) = "human_gate"
      BY <2>2, <2>3, HumanGateIsAsked DEF RegistryInv, Founded
    <2>5. ASSUME NEW f \in Features, inspect_pathway(f) = "human_gate"
          PROVE  /\ f.class = "high_impact" /\ ~ Invalid(f) /\ f.route # "reevaluate"
                 /\ f.trust # "adversarial"
      BY <2>5 DEF inspect_pathway
    <2>6. ASSUME NEW f \in Features, f.class = "high_impact", ~ Invalid(f), f.route # "reevaluate"
          PROVE  /\ f.approval = "named" /\ f.returns /\ f.separated /\ f.complete
                 /\ f.route \in {"none", "sound", "human"}
      BY <2>6 DEF Invalid, RouteErrors, approval_needed, Features
    <2> QED BY <2>2, <2>4, <2>5, <2>6
  <1> QED BY <1>1, RegistryInvariant, PTL

-----------------------------------------------------------------------------
\* The trail of events.

\* What an appended event changes about the moves of a chain.
LEMMA AppendedMoves ==
  ASSUME NEW es \in Seq(EventType), NEW e \in EventType
  PROVE  LET new == Append(es, e) m == Len(es)
         IN  /\ Len(new) = m + 1 /\ new[m + 1] = e /\ m \in Nat
             /\ \A i \in 1..m : new[i] = es[i]
             /\ Moves(es) \subseteq 1..m
             /\ e.kind = "state_transition" => Moves(new) = Moves(es) \cup {m + 1}
             /\ e.kind # "state_transition" => Moves(new) = Moves(es)
  <1> DEFINE new == Append(es, e)
             m == Len(es)
  <1>1. Len(new) = m + 1 /\ new[m + 1] = e /\ m \in Nat /\ \A i \in 1..m : new[i] = es[i]
    OBVIOUS
  <1> HIDE DEF new, m
  <1>2. 1..Len(new) = (1..m) \cup {m + 1} /\ m + 1 \notin 1..m
    BY <1>1
  <1> QED BY <1>1, <1>2 DEF Moves, m, new

\* Where the first n events lead is not changed by a later one.
LEMMA LeadsStays ==
  ASSUME NEW es \in Seq(EventType), NEW e \in EventType, NEW n \in Int, n <= Len(es),
         NEW first, NEW s, Leads(es, first, n, s)
  PROVE  Leads(Append(es, e), first, n, s)
  <1> DEFINE new == Append(es, e)
             m == Len(es)
  <1>1. /\ m \in Nat /\ Moves(es) \subseteq 1..m /\ \A i \in 1..m : new[i] = es[i]
        /\ Moves(new) = Moves(es) \cup {m + 1} \/ Moves(new) = Moves(es)
    BY AppendedMoves
  <1> HIDE DEF new
  <1>2. \A i \in Moves(new) : i \in Moves(es) \/ i > n
    BY <1>1
  <1>3. Leads(new, first, n, s)
    BY <1>1, <1>2 DEF Leads
  <1> QED BY <1>3 DEF new

\* Gapless is kept by an event that is no transition.
LEMMA GaplessOther ==
  ASSUME NEW es \in Seq(EventType), NEW e \in EventType, e.kind # "state_transition",
         NEW r, Gapless(es, r)
  PROVE  Gapless(Append(es, e), r)
  <1> DEFINE new == Append(es, e)
             m == Len(es)
  <1>1. /\ Len(new) = m + 1 /\ m \in Nat /\ \A i \in 1..m : new[i] = es[i]
        /\ Moves(es) \subseteq 1..m /\ Moves(new) = Moves(es)
    BY AppendedMoves
  <1>2. ASSUME NEW i \in Moves(es) PROVE Leads(new, r.first, i - 1, es[i].from)
    BY <1>1, <1>2, LeadsStays DEF Gapless
  <1>3. Leads(new, r.first, m, r.state)
    <2>1. Leads(es, r.first, m, r.state)
      BY DEF Gapless
    <2>2. m \in Int /\ m <= Len(es)
      BY <1>1
    <2> HIDE DEF m
    <2> QED BY <2>1, <2>2, LeadsStays
  <1> HIDE DEF new
  <1>4. Leads(new, r.first, m + 1, r.state)
    BY <1>1, <1>3 DEF Leads
  <1>5. Gapless(new, r)
    BY <1>1, <1>2, <1>4 DEF Gapless
  <1> QED BY <1>5 DEF new

\* A transition from the state of the row leads on without a gap.
LEMMA GaplessMove ==
  ASSUME NEW es \in Seq(EventType), NEW e \in EventType, e.kind = "state_transition",
         NEW r, NEW s, Gapless(es, r), e.from = r.state, s.first = r.first, s.state = e.to
  PROVE  Gapless(Append(es, e), s)
  <1> DEFINE new == Append(es, e)
             m == Len(es)
  <1>1. /\ Len(new) = m + 1 /\ new[m + 1] = e /\ m \in Nat /\ \A i \in 1..m : new[i] = es[i]
        /\ Moves(es) \subseteq 1..m /\ Moves(new) = Moves(es) \cup {m + 1}
    BY AppendedMoves
  <1>2. ASSUME NEW i \in Moves(es) PROVE Leads(new, r.first, i - 1, es[i].from)
    BY <1>1, <1>2, LeadsStays DEF Gapless
  <1>3. Leads(new, r.first, m, r.state)
    <2>1. Leads(es, r.first, m, r.state)
      BY DEF Gapless
    <2>2. m \in Int /\ m <= Len(es)
      BY <1>1
    <2> HIDE DEF m
    <2> QED BY <2>1, <2>2, LeadsStays
  <1> HIDE DEF new
  <1>4. Leads(new, s.first, m + 1, s.state)
    BY <1>1 DEF Leads
  <1>5. ASSUME NEW i \in Moves(new) PROVE Leads(new, s.first, i - 1, new[i].from)
    <2>1. CASE i \in Moves(es) BY <1>1, <1>2, <2>1
    <2>2. CASE i = m + 1
      <3>1. i - 1 = m BY <1>1, <2>2
      <3> QED BY <1>1, <1>3, <2>2, <3>1
    <2> QED BY <1>1, <2>1, <2>2
  <1>6. Gapless(new, s)
    BY <1>1, <1>4, <1>5 DEF Gapless
  <1> QED BY <1>6 DEF new

\* A registration is still recorded once after an event, if it was not recorded
\* before one that records it.
LEMMA RegisteredOnceStays ==
  ASSUME NEW es \in Seq(EventType), NEW e \in EventType, RegisteredOnce(es),
         e.kind = "pathway_registered" => \A i \in 1..Len(es) : es[i].kind # "pathway_registered"
  PROVE  RegisteredOnce(Append(es, e))
  <1> DEFINE new == Append(es, e)
             m == Len(es)
  <1>1. Len(new) = m + 1 /\ new[m + 1] = e /\ m \in Nat /\ \A i \in 1..m : new[i] = es[i]
    BY AppendedMoves
  <1> HIDE DEF new, m
  <1>2. \A i \in 1..Len(new) : i \in 1..m \/ i = m + 1
    BY <1>1
  <1>3. RegisteredOnce(new)
    BY <1>1, <1>2 DEF RegisteredOnce, m
  <1> QED BY <1>3 DEF new

-----------------------------------------------------------------------------
\* Approval by actor a is what a row's definition asks for.
Approver(r, a) == r.def.features.approval = "named" /\ a = Definition["approval_authority"]

\* What a process knows of the rows rw: its pathway is there, and who approves it may.
Knows(c, rw) ==
  /\ c.pc \in {"hash", "commit", "record_read", "record"} => rw[c.id] # NoRow
  /\ c.pc \in {"hash", "commit"} /\ c.goal = "approved" => Approver(rw[c.id], c.actor)
  /\ c.pc \in {"read", "hash", "commit"} => c.kind \in {None, "principal_authorized_transition"}
  /\ c.pc \in {"record_read", "record"} => c.kind # "state_transition"

\* At most one process is to record a registration, which is not recorded yet.
OneRecorder ==
  \A p \in Procs : Recording(call[p]) =>
    /\ \A q \in Procs : Recording(call[q]) /\ call[q].id = call[p].id => q = p
    /\ \A i \in 1..Len(events[call[p].id]) : events[call[p].id][i].kind # "pathway_registered"

\* Nothing is recorded of a pathway that is not there.
Blank == \A id \in Ids : row[id] = NoRow => events[id] = <<>>

\* Every move to APPROVED was made by the approval authority.
Approved(es, r) == \A i \in Moves(es) : es[i].to = "approved" => Approver(r, es[i].actor)

\* The inductive invariant, beside RegistryInv.
TrailInv ==
  /\ \A p \in Procs : Knows(call[p], row)
  /\ OneRecorder
  /\ Blank
  /\ StateTrail
  /\ \A id \in Ids : Approved(events[id], row[id])

\* The authority rules let only the approval authority approve.
LEMMA ApprovalIsAsked ==
  ASSUME NEW d \in Definitions, NEW current, NEW actor, Permitted(d, current, "approved", actor)
  PROVE  d.features.approval = "named" /\ actor = Definition["approval_authority"]
  <1>1. actor \in {RolesOf(d)["approval_authority"]} \ {NoActor}
    BY DEF Permitted, Rules!authorize_transition, Rules!required_authority
  <1> QED BY <1>1, DefinitionAssumption DEF RolesOf, Roles

\* What the other processes know stays true while rows are only added and moved.
LEMMA OthersKnow ==
  ASSUME RegistryInv, TrailInv, NEW p \in Procs, NEW c, Become(p, c), Knows(c, row'),
         \A id \in Ids : row[id] # NoRow => row'[id] # NoRow /\ row'[id].def = row[id].def
  PROVE  \A q \in Procs : Knows(call'[q], row')
  <1>1. ASSUME NEW q \in Procs PROVE Knows(call[q], row')
    <2>1. call[q].pc \in {"hash", "commit", "record_read", "record"} => call[q].id \in Ids
      BY DEF RegistryInv, Shape
    <2>2. Knows(call[q], row)
      BY DEF TrailInv
    <2> QED BY <2>1, <2>2 DEF Knows, Approver
  <1>2. \A q \in Procs : call'[q] = IF q = p THEN c ELSE call[q]
    BY DEF RegistryInv, TypeOK, Become
  <1> QED BY <1>1, <1>2

\* A step that changes no row and no evidence, and does not begin to record.
LEMMA QuietStep ==
  ASSUME RegistryInv, TrailInv, NEW p \in Procs, NEW c, Become(p, c), Knows(c, row),
         UNCHANGED <<row, events>>,
         Recording(c) => Recording(call[p]) /\ c.id = call[p].id
  PROVE  TrailInv'
  <1>1. \A q \in Procs : Knows(call'[q], row')
    BY OthersKnow
  <1>2. \A q \in Procs : call'[q] = IF q = p THEN c ELSE call[q]
    BY DEF RegistryInv, TypeOK, Become
  <1>3. OneRecorder'
    <2>1. ASSUME NEW q \in Procs, Recording(call'[q])
          PROVE  Recording(call[q]) /\ call'[q].id = call[q].id
      <3>1. CASE q = p BY <1>2, <2>1, <3>1
      <3>2. CASE q # p BY <1>2, <2>1, <3>2
      <3> QED BY <3>1, <3>2
    <2>2. ASSUME NEW q \in Procs, NEW o \in Procs, Recording(call'[q]), Recording(call'[o]),
                 call'[o].id = call'[q].id
          PROVE  o = q
      BY <2>1, <2>2 DEF TrailInv, OneRecorder
    <2>3. ASSUME NEW q \in Procs, Recording(call'[q])
          PROVE  \A i \in 1..Len(events'[call'[q].id]) :
                   events'[call'[q].id][i].kind # "pathway_registered"
      BY <2>1, <2>3 DEF TrailInv, OneRecorder
    <2>4. \A q \in Procs : Recording(call[q])' = Recording(call'[q])
      BY DEF Recording
    <2> QED BY <2>2, <2>3, <2>4 DEF OneRecorder
  <1>4. Blank' /\ StateTrail' /\ \A id \in Ids : Approved(events'[id], row'[id])
    BY DEF TrailInv, Blank, StateTrail
  <1> QED BY <1>1, <1>3, <1>4 DEF TrailInv

\* An operation that is over knows nothing.
LEMMA IdleKnows == (\A rw : Knows(Idle, rw)) /\ ~ Recording(Idle)
  BY DEF Idle, Knows, Recording

LEMMA ReturnQuietly ==
  ASSUME RegistryInv, TrailInv, NEW p \in Procs, Return(p), UNCHANGED <<row, events>>
  PROVE  TrailInv'
  BY IdleKnows, QuietStep DEF Return

\* The operations callers begin.
LEMMA TrailBegin ==
  ASSUME RegistryInv, TrailInv, NEW p \in Procs,
         \/ \E tenant \in Scopes, d \in Definitions, key \in Keys \cup {BlankKey} :
              Register(p, tenant, d, key)
         \/ \E id \in Ids, target \in ManualTargets :
              \/ \E tenant \in Scopes, actor \in Actors : Transition(p, tenant, id, target, actor)
              \/ \E credential \in Credentials, now \in Times :
                   TransitionAsPrincipal(p, id, target, credential, now)
  PROVE  TrailInv'
  <1>1. ASSUME NEW c, c.pc \in {"claim", "evaluate", "read"},
               c.pc = "read" => c.kind \in {None, "principal_authorized_transition"}, Begin(p, c)
        PROVE  TrailInv'
    <2>1. Knows(c, row) /\ ~ Recording(c) /\ Become(p, c) /\ UNCHANGED <<row, events>>
      BY <1>1 DEF Knows, Recording, Begin
    <2> QED BY <2>1, QuietStep
  <1>2. ASSUME NEW tenant \in Scopes, NEW d \in Definitions, NEW key \in Keys \cup {BlankKey},
               Register(p, tenant, d, key)
        PROVE  TrailInv'
    <2> DEFINE c == [Idle EXCEPT !.pc = IF tenant = None THEN "evaluate" ELSE "claim",
                                 !.scope = tenant, !.def = d, !.key = key, !.id = d.id]
    <2>1. c.pc \in {"claim", "evaluate"}
      BY DEF Idle
    <2>2. Begin(p, c)
      BY <1>2 DEF Register
    <2> HIDE DEF c
    <2> QED BY <1>1, <2>1, <2>2
  <1>3. ASSUME NEW id \in Ids, NEW target \in ManualTargets, NEW actor \in Actors, NEW tenant \in Scopes,
               Transition(p, tenant, id, target, actor)
        PROVE  TrailInv'
    <2> DEFINE c == [Idle EXCEPT !.pc = "read", !.scope = tenant, !.id = id, !.goal = target,
                                 !.actor = actor]
    <2>1. c.pc = "read" /\ c.kind = None
      BY DEF Idle
    <2>2. Begin(p, c)
      BY <1>3 DEF Transition
    <2> HIDE DEF c
    <2> QED BY <1>1, <2>1, <2>2
  <1>4. ASSUME NEW id \in Ids, NEW target \in ManualTargets, NEW credential \in Credentials,
               NEW now \in Times, TransitionAsPrincipal(p, id, target, credential, now)
        PROVE  TrailInv'
    <2> DEFINE c == [Idle EXCEPT !.pc = "read", !.id = id, !.goal = target,
                                 !.actor = actor_for(credential),
                                 !.kind = "principal_authorized_transition"]
    <2>1. c.pc = "read" /\ c.kind = "principal_authorized_transition"
      BY DEF Idle
    <2>2. Begin(p, c)
      BY <1>4 DEF TransitionAsPrincipal
    <2> HIDE DEF c
    <2> QED BY <1>1, <2>1, <2>2
  <1> QED BY <1>2, <1>3, <1>4
\* The steps that only read, or write nothing but a claim.
LEMMA TrailReading ==
  ASSUME RegistryInv, TrailInv, NEW p \in Procs,
         \/ Claim(p) \/ Evaluate(p) \/ RecordRead(p) \/ TransitionRead(p) \/ TransitionHash(p) \/ Crash(p)
  PROVE  TrailInv'
  <1>0. call[p] \in CallType /\ Shape(call[p]) /\ Knows(call[p], row)
    BY DEF RegistryInv, TypeOK, TrailInv
  <1>1. CASE Claim(p)
    <2> DEFINE c == [call[p] EXCEPT !.pc = "evaluate"]
    <2>1. Become(p, c) \/ Return(p)
      BY <1>1 DEF Claim, Goto
    <2>2. Knows(c, row) /\ ~ Recording(c)
      BY <1>0 DEF Knows, Recording, CallType
    <2> HIDE DEF c
    <2> QED BY <1>1, <2>1, <2>2, QuietStep, ReturnQuietly DEF Claim
  <1>2. CASE Evaluate(p)
    <2>1. PICK answer \in Answers :
            IF answer = "raises" THEN Return(p)
            ELSE Become(p, [call[p] EXCEPT !.pc = "create", !.answer = answer,
                              !.snap = first_state(call[p].def.features, answer)])
      BY <1>2 DEF Evaluate
    <2> DEFINE c == [call[p] EXCEPT !.pc = "create", !.answer = answer,
                       !.snap = first_state(call[p].def.features, answer)]
    <2>2. Become(p, c) \/ Return(p)
      BY <2>1
    <2>3. Knows(c, row) /\ ~ Recording(c)
      BY <1>0 DEF Knows, Recording, CallType
    <2> HIDE DEF c
    <2> QED BY <1>2, <2>2, <2>3, QuietStep, ReturnQuietly DEF Evaluate
  <1>3. CASE RecordRead(p)
    <2> DEFINE c == [call[p] EXCEPT !.pc = "record", !.prev = latest_event_hash(call[p].id)]
    <2>1. call[p].pc = "record_read" /\ Become(p, c) /\ UNCHANGED <<row, events>>
      BY <1>3 DEF RecordRead, At
    <2>2. Knows(c, row) /\ (Recording(c) => Recording(call[p]) /\ c.id = call[p].id)
      BY <1>0, <2>1 DEF Knows, Recording, CallType
    <2> HIDE DEF c
    <2> QED BY <2>1, <2>2, QuietStep
  <1>4. CASE TransitionRead(p)
    <2> DEFINE r == row[call[p].id]
               c == [call[p] EXCEPT !.pc = "hash", !.snap = r.state]
    <2>1. call[p].pc = "read" /\ call[p].id \in Ids /\ UNCHANGED <<row, events>>
      BY <1>0, <1>4 DEF TransitionRead, At, Shape
    <2>2. CASE r # NoRow /\ Permitted(r.def, r.state, call[p].goal, call[p].actor)
      <3>1. Become(p, c)
        BY <1>4, <2>2 DEF TransitionRead
      <3>2. r.def \in Definitions
        BY <2>1, <2>2 DEF RegistryInv, TypeOK, Rows
      <3>3. call[p].goal = "approved" => Approver(r, call[p].actor)
        BY <2>2, <3>2, ApprovalIsAsked DEF Approver
      <3>4. /\ c.pc = "hash" /\ c.id = call[p].id /\ c.goal = call[p].goal
            /\ c.actor = call[p].actor /\ c.kind = call[p].kind
        BY <1>0 DEF CallType
      <3> HIDE DEF c
      <3>5. Knows(c, row) /\ ~ Recording(c)
        BY <1>0, <2>1, <2>2, <3>3, <3>4 DEF Knows, Recording
      <3> QED BY <2>1, <3>1, <3>5, QuietStep
    <2>3. CASE ~ (r # NoRow /\ Permitted(r.def, r.state, call[p].goal, call[p].actor))
      <3>1. Return(p)
        BY <1>4, <2>3 DEF TransitionRead
      <3> QED BY <2>1, <3>1, ReturnQuietly
    <2> QED BY <2>2, <2>3
  <1>5. CASE TransitionHash(p)
    <2> DEFINE c == [call[p] EXCEPT !.pc = "commit", !.prev = latest_event_hash(call[p].id)]
    <2>1. call[p].pc = "hash" /\ Become(p, c) /\ UNCHANGED <<row, events>>
      BY <1>5 DEF TransitionHash, At
    <2>2. Knows(c, row) /\ ~ Recording(c)
      BY <1>0, <2>1 DEF Knows, Recording, CallType
    <2> HIDE DEF c
    <2> QED BY <2>1, <2>2, QuietStep
  <1>6. CASE Crash(p)
    BY <1>6, ReturnQuietly DEF Crash
  <1> QED BY <1>1, <1>2, <1>3, <1>4, <1>5, <1>6

\* create_or_replay_pathway: the one process that creates the row is the one that is
\* to record its registration.
LEMMA TrailCreate ==
  ASSUME RegistryInv, TrailInv, NEW p \in Procs, Create(p)
  PROVE  TrailInv'
  <1> DEFINE k == call[p]
             i == k.id
             new == [def |-> k.def, key |-> k.key, state |-> k.snap, answer |-> k.answer, first |-> k.snap]
             c == [k EXCEPT !.pc = "record_read", !.kind = "pathway_registered", !.goal = k.snap]
  <1>0. k \in CallType /\ k.pc = "create" /\ i \in Ids /\ UNCHANGED events /\ k.def \in Definitions
    BY DEF RegistryInv, TypeOK, Create, At, Shape
  <1>1. CASE Return(p) /\ UNCHANGED row
    BY <1>0, <1>1, ReturnQuietly
  <1>2. CASE row[i] = NoRow /\ row' = [row EXCEPT ![i] = new] /\ Become(p, c)
    <2>1. new # NoRow /\ new.state = new.first
      BY <1>0, RegistryAssumption DEF NoRow
    <2>2. /\ c.pc = "record_read" /\ c.kind = "pathway_registered" /\ c.id = i
      BY <1>0 DEF CallType
    <2> HIDE DEF c, new
    <2>3. /\ row'[i] = new /\ row'[i] # NoRow
          /\ \A id \in Ids : id # i => row'[id] = row[id]
          /\ \A id \in Ids : row[id] # NoRow => row'[id] = row[id]
      BY <1>0, <1>2, <2>1 DEF RegistryInv, TypeOK
    <2>4. events[i] = <<>> /\ Moves(events[i]) = {} /\ Len(events[i]) = 0
      BY <1>0, <1>2 DEF TrailInv, Blank, Moves
    <2>5. Knows(c, row')
      BY <2>2, <2>3 DEF Knows
    <2>6. \A q \in Procs : Knows(call'[q], row')
      BY <1>2, <2>3, <2>5, OthersKnow
    <2>7. \A q \in Procs : call'[q] = IF q = p THEN c ELSE call[q]
      BY <1>2 DEF RegistryInv, TypeOK, Become
    <2>8. ASSUME NEW q \in Procs, Recording(call[q]) PROVE call[q].id # i
      BY <1>2, <2>8 DEF TrailInv, Knows, Recording
    <2>9. OneRecorder'
      <3>1. ASSUME NEW q \in Procs, q # p, Recording(call'[q])
            PROVE  Recording(call[q]) /\ call'[q] = call[q] /\ call'[q].id # i
        BY <2>7, <2>8, <3>1
      <3>2. call'[p] = c
        BY <2>7
      <3>3. ASSUME NEW q \in Procs, NEW o \in Procs, Recording(call'[q]), Recording(call'[o]),
                   call'[o].id = call'[q].id
            PROVE  o = q
        <4>1. CASE q = p BY <2>2, <3>1, <3>2, <3>3, <4>1
        <4>2. CASE q # p
          <5>1. o # p BY <2>2, <3>1, <3>2, <3>3, <4>2
          <5> QED BY <3>1, <3>3, <4>2, <5>1 DEF TrailInv, OneRecorder
        <4> QED BY <4>1, <4>2
      <3>4. ASSUME NEW q \in Procs, Recording(call'[q])
            PROVE  \A j \in 1..Len(events'[call'[q].id]) :
                     events'[call'[q].id][j].kind # "pathway_registered"
        <4>1. CASE q = p BY <1>0, <2>2, <2>4, <3>2, <4>1
        <4>2. CASE q # p BY <1>0, <3>1, <3>4, <4>2 DEF TrailInv, OneRecorder
        <4> QED BY <4>1, <4>2
      <3>5. \A q \in Procs : Recording(call[q])' = Recording(call'[q])
        BY DEF Recording
      <3> QED BY <3>3, <3>4, <3>5 DEF OneRecorder
    <2>10. Blank'
      BY <1>0, <2>3 DEF TrailInv, Blank
    <2>11. RegisteredOnce(events[i]) /\ Gapless(events[i], new) /\ Approved(events[i], new)
      BY <2>1, <2>4 DEF RegisteredOnce, Gapless, Leads, Approved
    <2>12. ASSUME NEW id \in Ids
           PROVE  /\ RegisteredOnce(events'[id]) /\ Gapless(events'[id], row'[id])
                  /\ Approved(events'[id], row'[id])
      <3>1. CASE id = i BY <1>0, <2>3, <2>11, <3>1
      <3>2. CASE id # i BY <1>0, <2>3, <3>2 DEF TrailInv, StateTrail
      <3> QED BY <3>1, <3>2
    <2> QED BY <2>6, <2>9, <2>10, <2>12 DEF TrailInv, StateTrail
  <1> QED BY <1>1, <1>2 DEF Create
\* A step that appends event e to pathway i.
LEMMA AppendStep ==
  ASSUME RegistryInv, TrailInv, NEW p \in Procs, NEW c, Become(p, c), Knows(c, row'), ~ Recording(c),
         NEW i \in Ids, NEW e \in EventType, events' = [events EXCEPT ![i] = Append(events[i], e)],
         \A id \in Ids \ {i} : row'[id] = row[id],
         row[i] # NoRow, row'[i] # NoRow, row'[i].def = row[i].def,
         RegisteredOnce(Append(events[i], e)), Gapless(Append(events[i], e), row'[i]),
         Approved(Append(events[i], e), row'[i]),
         e.kind = "pathway_registered" => Recording(call[p]) /\ call[p].id = i
  PROVE  TrailInv'
  <1> DEFINE new == Append(events[i], e)
  <1>1. /\ events'[i] = new /\ events[i] \in Seq(EventType)
        /\ \A id \in Ids \ {i} : events'[id] = events[id]
    BY DEF RegistryInv, TypeOK
  <1>2. \A q \in Procs : Knows(call'[q], row')
    BY OthersKnow
  <1>3. \A q \in Procs : call'[q] = IF q = p THEN c ELSE call[q]
    BY DEF RegistryInv, TypeOK, Become
  <1>4. ASSUME NEW q \in Procs, Recording(call'[q])
        PROVE  q # p /\ call'[q] = call[q] /\ Recording(call[q]) /\ call[q].id \in Ids
    <2>1. q # p /\ call'[q] = call[q] /\ Recording(call[q])
      BY <1>3, <1>4
    <2> QED BY <2>1 DEF Recording, RegistryInv, Shape
  <1>5. OneRecorder'
    <2>1. ASSUME NEW q \in Procs, NEW o \in Procs, Recording(call'[q]), Recording(call'[o]),
                 call'[o].id = call'[q].id
          PROVE  o = q
      BY <1>4, <2>1 DEF TrailInv, OneRecorder
    <2>2. ASSUME NEW q \in Procs, Recording(call'[q])
          PROVE  \A j \in 1..Len(events'[call'[q].id]) :
                   events'[call'[q].id][j].kind # "pathway_registered"
      <3>1. \A j \in 1..Len(events[call[q].id]) : events[call[q].id][j].kind # "pathway_registered"
        BY <1>4, <2>2 DEF TrailInv, OneRecorder
      <3>2. CASE call[q].id # i BY <1>1, <1>4, <2>2, <3>1, <3>2
      <3>3. CASE call[q].id = i
        <4>1. e.kind # "pathway_registered"
          BY <1>4, <2>2, <3>3 DEF TrailInv, OneRecorder
        <4>2. /\ Len(new) = Len(events[i]) + 1 /\ new[Len(events[i]) + 1] = e /\ Len(events[i]) \in Nat
              /\ \A j \in 1..Len(events[i]) : new[j] = events[i][j]
          BY <1>1, AppendedMoves
        <4> HIDE DEF new
        <4>3. \A j \in 1..Len(new) : new[j].kind # "pathway_registered"
          BY <3>1, <3>3, <4>1, <4>2
        <4> QED BY <1>1, <1>4, <2>2, <3>3, <4>3
      <3> QED BY <3>2, <3>3
    <2>3. \A q \in Procs : Recording(call[q])' = Recording(call'[q])
      BY DEF Recording
    <2> QED BY <2>1, <2>2, <2>3 DEF OneRecorder
  <1>6. Blank'
    BY <1>1 DEF TrailInv, Blank
  <1>7. ASSUME NEW id \in Ids
        PROVE  /\ RegisteredOnce(events'[id]) /\ Gapless(events'[id], row'[id])
               /\ Approved(events'[id], row'[id])
    <2>1. CASE id = i BY <1>1, <2>1
    <2>2. CASE id # i BY <1>1, <2>2 DEF TrailInv, StateTrail
    <2> QED BY <2>1, <2>2
  <1> QED BY <1>2, <1>5, <1>6, <1>7 DEF TrailInv, StateTrail

\* _record: an event that is no transition, and a registration only by its recorder.
LEMMA TrailRecord ==
  ASSUME RegistryInv, TrailInv, NEW p \in Procs, Record(p)
  PROVE  TrailInv'
  <1> DEFINE k == call[p]
             i == k.id
             e == Event(p, k.kind)
             es == events[i]
  <1>1. /\ k \in CallType /\ Knows(k, row) /\ k.pc = "record" /\ i \in Ids /\ k.goal \in PathwayState
        /\ k.snap \in PathwayState /\ k.kind \in Kinds /\ Become(p, Idle) /\ UNCHANGED row
    BY DEF RegistryInv, TypeOK, TrailInv, Record, At, Shape, Return
  <1>2. e \in EventType /\ e.kind = k.kind /\ e.kind # "state_transition"
    BY <1>1 DEF Event, EventType, CallType, Knows
  <1>3. es \in Seq(EventType) /\ events' = [events EXCEPT ![i] = Append(es, e)]
    BY <1>1 DEF RegistryInv, TypeOK, Record, append_event
  <1>4. e.kind = "pathway_registered" => Recording(k)
    BY <1>1, <1>2 DEF Recording
  <1> HIDE DEF e
  <1>5. RegisteredOnce(Append(es, e))
    BY <1>1, <1>2, <1>3, <1>4, RegisteredOnceStays DEF TrailInv, StateTrail, OneRecorder
  <1>6. Gapless(Append(es, e), row[i])
    BY <1>1, <1>2, <1>3, GaplessOther DEF TrailInv, StateTrail
  <1>7. Approved(Append(es, e), row[i])
    <2>1. /\ Moves(Append(es, e)) = Moves(es) /\ Moves(es) \subseteq 1..Len(es)
          /\ \A j \in 1..Len(es) : Append(es, e)[j] = es[j]
      BY <1>2, <1>3, AppendedMoves
    <2> QED BY <1>1, <2>1 DEF TrailInv, Approved
  <1>8. row[i] # NoRow
    BY <1>1 DEF Knows
  <1> QED BY <1>1, <1>2, <1>3, <1>4, <1>5, <1>6, <1>7, <1>8, IdleKnows, AppendStep

\* transition_with_event: the state is still the one the process read, so the move
\* leads on from it.
LEMMA TrailCommit ==
  ASSUME RegistryInv, TrailInv, NEW p \in Procs, Commit(p)
  PROVE  TrailInv'
  <1> DEFINE k == call[p]
             i == k.id
             e == Event(p, "state_transition")
             es == events[i]
  <1>1. /\ k \in CallType /\ Knows(k, row) /\ k.pc = "commit" /\ i \in Ids /\ k.goal \in PathwayState
        /\ k.snap \in PathwayState
    BY DEF RegistryInv, TypeOK, TrailInv, Commit, At, Shape
  <1>2. CASE row[i].state # k.snap
    BY <1>2, ReturnQuietly DEF Commit
  <1>3. CASE row[i].state = k.snap
    <2>1. /\ row' = [row EXCEPT ![i].state = k.goal] /\ append_event(p, "state_transition")
          /\ row[i] # NoRow
      BY <1>1, <1>3 DEF Commit, Knows
    <2>2. row[i] \in Rows
      BY <1>1, <2>1 DEF RegistryInv, TypeOK
    <2>3. /\ row'[i].state = k.goal /\ row'[i].first = row[i].first /\ row'[i].def = row[i].def
          /\ row'[i] \in Rows /\ \A id \in Ids \ {i} : row'[id] = row[id]
      BY <1>1, <2>1, <2>2 DEF RegistryInv, TypeOK, Rows
    <2>4. row'[i] # NoRow
      BY <2>3, RegistryAssumption DEF NoRow, Rows
    <2>5. /\ e \in EventType /\ e.kind = "state_transition" /\ e.from = row[i].state /\ e.to = k.goal
          /\ e.actor = k.actor
      BY <1>1, <1>3 DEF Event, EventType, CallType, Kinds
    <2>6. es \in Seq(EventType) /\ events' = [events EXCEPT ![i] = Append(es, e)]
      BY <1>1, <2>1 DEF RegistryInv, TypeOK, append_event
    <2> HIDE DEF e
    <2>7. RegisteredOnce(Append(es, e))
      BY <1>1, <2>5, <2>6, RegisteredOnceStays DEF TrailInv, StateTrail
    <2>8. Gapless(Append(es, e), row'[i])
      BY <1>1, <2>3, <2>5, <2>6, GaplessMove DEF TrailInv, StateTrail
    <2>9. Approved(Append(es, e), row'[i])
      <3>1. /\ Moves(Append(es, e)) = Moves(es) \cup {Len(es) + 1} /\ Moves(es) \subseteq 1..Len(es)
            /\ Append(es, e)[Len(es) + 1] = e /\ \A j \in 1..Len(es) : Append(es, e)[j] = es[j]
        BY <2>5, <2>6, AppendedMoves
      <3>2. \A j \in Moves(es) : es[j].to = "approved" => Approver(row'[i], es[j].actor)
        BY <1>1, <2>3 DEF TrailInv, Approved, Approver
      <3>3. e.to = "approved" => Approver(row'[i], e.actor)
        BY <1>1, <2>3, <2>5 DEF Knows, Approver
      <3> QED BY <3>1, <3>2, <3>3 DEF Approved
    <2>10. ASSUME NEW c, Become(p, c), Knows(c, row'), ~ Recording(c) PROVE TrailInv'
      BY <1>1, <2>1, <2>3, <2>4, <2>5, <2>6, <2>7, <2>8, <2>9, <2>10, AppendStep
    <2>11. CASE k.kind = None
      <3>1. Become(p, Idle) BY <1>3, <2>11 DEF Commit, Return
      <3> QED BY <2>10, <3>1, IdleKnows
    <2>12. CASE k.kind # None
      <3> DEFINE c == [k EXCEPT !.pc = "record_read"]
      <3>1. Become(p, c) BY <1>3, <2>12 DEF Commit, Goto
      <3>2. c.pc = "record_read" /\ c.kind = "principal_authorized_transition" /\ c.id = i
        BY <1>1, <2>12 DEF CallType, Knows
      <3> HIDE DEF c
      <3>3. Knows(c, row') /\ ~ Recording(c)
        BY <2>4, <3>2 DEF Knows, Recording
      <3> QED BY <2>10, <3>1, <3>3
    <2> QED BY <2>11, <2>12
  <1> QED BY <1>2, <1>3
-----------------------------------------------------------------------------
\* The evidence and who approved: the invariant is inductive, given RegistryInv.
LEMMA TrailInit == Init => TrailInv
  <1> SUFFICES ASSUME Init PROVE TrailInv OBVIOUS
  <1>1. \A p \in Procs : Knows(call[p], row) /\ ~ Recording(call[p])
    BY IdleKnows DEF Init
  <1>2. \A id \in Ids : events[id] = <<>> /\ row[id].state = row[id].first
    BY DEF Init, NoRow
  <1>3. \A id \in Ids : /\ RegisteredOnce(events[id]) /\ Gapless(events[id], row[id])
                        /\ Approved(events[id], row[id])
    BY <1>2 DEF RegisteredOnce, Gapless, Leads, Approved, Moves
  <1> QED BY <1>1, <1>2, <1>3 DEF TrailInv, OneRecorder, Blank, StateTrail

LEMMA TrailStep == RegistryInv /\ TrailInv /\ [Next]_vars => TrailInv'
  <1> SUFFICES ASSUME RegistryInv, TrailInv, [Next]_vars PROVE TrailInv' OBVIOUS
  <1>1. CASE UNCHANGED vars
    BY <1>1 DEF vars, TrailInv, OneRecorder, Recording, Blank, StateTrail
  <1>2. CASE Next
    BY <1>2, TrailBegin, TrailReading, TrailCreate, TrailRecord, TrailCommit DEF Next
  <1> QED BY <1>1, <1>2

LEMMA TrailInvariant == Spec => []TrailInv
  BY TrailInit, TrailStep, RegistryInvariant, PTL DEF Spec

\* A registration is recorded at most once and the transitions of a pathway lead
\* without a gap from its first state to the stored one (create_or_replay_pathway,
\* transition_with_event).
THEOREM StateTrailHolds == Spec => []StateTrail
  BY TrailInvariant, PTL DEF TrailInv

-----------------------------------------------------------------------------
\* What goes unrecorded after a step was unrecorded before, apart from lost.
Shrinks(lost) == Unrecorded' \subseteq Unrecorded \cup lost

\* A step of process p that appends at most to the events, keeps the rows there are, and
\* leaves p with what it had to record, recorded or lost.
LEMMA ProcessShrinks ==
  ASSUME RegistryInv, NEW p \in Procs, NEW c, Become(p, c), NEW lost,
         \A id \in Ids : Announced(events[id]) => Announced(events'[id]),
         \A id \in Ids : row[id] = NoRow =>
            row'[id] = NoRow \/ (Recording(c) /\ c.id = id),
         Recording(call[p]) =>
            \/ Recording(c) /\ c.id = call[p].id
            \/ Announced(events'[call[p].id])
            \/ call[p].id \in lost
  PROVE  Shrinks(lost)
  <1>1. call'[p] = c /\ \A q \in Procs \ {p} : call'[q] = call[q]
    BY DEF RegistryInv, TypeOK, Become
  <1>2. SUFFICES ASSUME NEW id \in Ids, row'[id] # NoRow, ~ Announced(events'[id]),
                        \A q \in Procs : Recording(call'[q]) => call'[q].id # id,
                        id \notin lost
                 PROVE  /\ row[id] # NoRow /\ ~ Announced(events[id])
                        /\ \A q \in Procs : Recording(call[q]) => call[q].id # id
    BY DEF Shrinks, Unrecorded, Recording
  <1>3. row[id] # NoRow
    BY <1>1, <1>2
  <1>4. ASSUME NEW q \in Procs, Recording(call[q]) PROVE call[q].id # id
    <2>1. CASE q = p BY <1>1, <1>2, <1>4, <2>1
    <2>2. CASE q # p BY <1>1, <1>2, <1>4, <2>2
    <2> QED BY <2>1, <2>2
  <1> QED BY <1>2, <1>3, <1>4

\* An appended event leaves the others where they are.
LEMMA AppendAnnounces ==
  ASSUME RegistryInv, NEW p \in Procs, call[p].id \in Ids, NEW kind, append_event(p, kind)
  PROVE  /\ \A id \in Ids : Announced(events[id]) => Announced(events'[id])
         /\ kind = "pathway_registered" => Announced(events'[call[p].id])
  <1> DEFINE i == call[p].id
             es == events[i]
             e == Event(p, kind)
  <1>1. es \in Seq(EventType) /\ Len(es) \in Nat /\ e.kind = kind
    BY DEF RegistryInv, TypeOK, Event
  <1> HIDE DEF e
  <1>2. /\ events'[i] = Append(es, e) /\ \A id \in Ids \ {i} : events'[id] = events[id]
    BY DEF RegistryInv, TypeOK, append_event, e
  <1>3. /\ Len(Append(es, e)) = Len(es) + 1 /\ Append(es, e)[Len(es) + 1] = e
        /\ \A j \in 1..Len(es) : Append(es, e)[j] = es[j]
    BY <1>1
  <1>4. Announced(es) => Announced(Append(es, e))
    BY <1>1, <1>3 DEF Announced
  <1>5. kind = "pathway_registered" => Announced(Append(es, e))
    BY <1>1, <1>3 DEF Announced
  <1> QED BY <1>2, <1>4, <1>5

\* Only a process that stops loses the event of a registration.
LEMMA UnrecordedStep ==
  ASSUME RegistryInv, [Next]_vars
  PROVE  \/ UNCHANGED crashes /\ Shrinks({})
         \/ crashes' = crashes + 1 /\ \E id : Shrinks({id})
  <1>1. CASE UNCHANGED vars
    BY <1>1 DEF vars, Shrinks, Unrecorded
  <1> SUFFICES ASSUME Next
               PROVE  \/ UNCHANGED crashes /\ Shrinks({})
                      \/ crashes' = crashes + 1 /\ \E id : Shrinks({id})
    BY <1>1
  <1>2. ~ Recording(Idle)
    BY DEF Idle, Recording
  <1>3. ASSUME NEW p \in Procs, NEW c, Become(p, c), UNCHANGED <<row, events, crashes>>,
               Recording(call[p]) => Recording(c) /\ c.id = call[p].id
        PROVE  UNCHANGED crashes /\ Shrinks({})
    BY <1>3, ProcessShrinks
  <1>4. PICK p \in Procs :
          \/ /\ At(p, "idle")
             /\ \/ \E tenant \in Scopes, d \in Definitions, key \in Keys \cup {BlankKey} :
                     Register(p, tenant, d, key)
                \/ \E id \in Ids, target \in ManualTargets :
                     \/ \E tenant \in Scopes, actor \in Actors : Transition(p, tenant, id, target, actor)
                     \/ \E credential \in Credentials, now \in Times :
                          TransitionAsPrincipal(p, id, target, credential, now)
          \/ Claim(p) \/ Evaluate(p) \/ Create(p) \/ RecordRead(p) \/ Record(p)
          \/ TransitionRead(p) \/ TransitionHash(p) \/ Commit(p)
          \/ Crash(p)
    BY DEF Next
  <1> DEFINE k == call[p]
  <1>5. k \in CallType /\ Shape(k)
    BY DEF RegistryInv, TypeOK
  <1>6. ASSUME NEW c, Become(p, c), UNCHANGED <<row, events, crashes>>,
               k.pc \notin {"record_read", "record"}
        PROVE  UNCHANGED crashes /\ Shrinks({})
    BY <1>3, <1>6 DEF Recording
  <1>7. CASE /\ At(p, "idle")
             /\ \/ \E tenant \in Scopes, d \in Definitions, key \in Keys \cup {BlankKey} :
                     Register(p, tenant, d, key)
                \/ \E id \in Ids, target \in ManualTargets :
                     \/ \E tenant \in Scopes, actor \in Actors : Transition(p, tenant, id, target, actor)
                     \/ \E credential \in Credentials, now \in Times :
                          TransitionAsPrincipal(p, id, target, credential, now)
    <2>1. k.pc = "idle" /\ UNCHANGED <<row, events, crashes>> /\ \E c : Become(p, c)
      BY <1>7 DEF At, Register, Transition, TransitionAsPrincipal, Begin
    <2> QED BY <1>6, <2>1
  <1>8. CASE Claim(p) \/ Evaluate(p) \/ TransitionRead(p) \/ TransitionHash(p)
    <2>1. k.pc \in {"claim", "evaluate", "read", "hash"} /\ UNCHANGED <<row, events, crashes>>
          /\ \E c : Become(p, c)
      BY <1>8 DEF Claim, Evaluate, TransitionRead, TransitionHash, At, Return, Goto
    <2> QED BY <1>6, <2>1
  <1>9. CASE Create(p)
    <2> DEFINE c == [k EXCEPT !.pc = "record_read", !.kind = "pathway_registered", !.goal = k.snap]
               new == [def |-> k.def, key |-> k.key, state |-> k.snap, answer |-> k.answer, first |-> k.snap]
    <2>1. k.pc = "create" /\ k.id \in Ids /\ UNCHANGED <<events, crashes>> /\ ~ Recording(k)
      BY <1>5, <1>9 DEF Create, At, Shape, Recording
    <2>2. CASE Return(p) /\ UNCHANGED row
      BY <1>6, <2>1, <2>2 DEF Return
    <2>3. CASE row' = [row EXCEPT ![k.id] = new] /\ Become(p, c)
      <3>1. Recording(c) /\ c.id = k.id
        BY <1>5 DEF CallType, Recording
      <3>2. \A id \in Ids : row[id] = NoRow => row'[id] = NoRow \/ (Recording(c) /\ c.id = id)
        BY <2>1, <2>3, <3>1 DEF RegistryInv, TypeOK
      <3> HIDE DEF c
      <3> QED BY <2>1, <2>3, <3>2, ProcessShrinks
    <2> QED BY <1>9, <2>2, <2>3 DEF Create
  <1>10. CASE RecordRead(p)
    <2> DEFINE c == [k EXCEPT !.pc = "record", !.prev = latest_event_hash(k.id)]
    <2>1. Become(p, c) /\ UNCHANGED <<row, events, crashes>>
      BY <1>10 DEF RecordRead
    <2>2. Recording(k) => Recording(c) /\ c.id = k.id
      BY <1>5 DEF CallType, Recording
    <2> HIDE DEF c
    <2> QED BY <1>3, <2>1, <2>2
  <1>11. CASE Record(p)
    <2>1. /\ k.pc = "record" /\ k.id \in Ids /\ append_event(p, k.kind) /\ Become(p, Idle)
          /\ UNCHANGED <<row, crashes>>
      BY <1>5, <1>11 DEF Record, At, Return, Shape
    <2>2. Recording(k) => Announced(events'[k.id])
      BY <2>1, AppendAnnounces DEF Recording
    <2> QED BY <2>1, <2>2, AppendAnnounces, ProcessShrinks
  <1>12. CASE Commit(p)
    <2>1. k.pc = "commit" /\ k.id \in Ids /\ k.snap \in PathwayState /\ UNCHANGED crashes /\ ~ Recording(k)
      BY <1>5, <1>12 DEF Commit, At, Shape, Recording
    <2>2. PICK c : Become(p, c)
      BY <1>12 DEF Commit, Return, Goto
    <2>3. CASE row[k.id].state = k.snap /\ row' = [row EXCEPT ![k.id].state = k.goal]
                /\ append_event(p, "state_transition")
      <3>1. row[k.id] # NoRow
        BY <2>1, <2>3, RegistryAssumption DEF NoRow
      <3>2. \A id \in Ids : row[id] = NoRow => row'[id] = NoRow
        BY <2>1, <2>3, <3>1 DEF RegistryInv, TypeOK
      <3> QED BY <2>1, <2>2, <2>3, <3>2, AppendAnnounces, ProcessShrinks
    <2>4. CASE UNCHANGED <<row, events>>
      BY <1>6, <2>1, <2>2, <2>4
    <2> QED BY <1>12, <2>3, <2>4 DEF Commit
  <1>13. CASE Crash(p)
    <2>1. crashes' = crashes + 1 /\ Become(p, Idle) /\ UNCHANGED <<row, events>>
      BY <1>13 DEF Crash, Return
    <2>2. Shrinks({k.id})
      BY <2>1, ProcessShrinks
    <2> QED BY <2>1, <2>2
  <1> QED BY <1>4, <1>7, <1>8, <1>9, <1>10, <1>11, <1>12, <1>13

\* For any number of crashes, each of them leaves at most one pathway without the event
\* of its registration (register, create_or_replay_pathway).
THEOREM RegistrationsAreRecordedHolds == Spec => []RegistrationsAreRecorded
  <1> DEFINE Few == IsFiniteSet(Unrecorded) /\ RegistrationsAreRecorded
  <1>1. Init => Few
    <2> SUFFICES ASSUME Init PROVE Few OBVIOUS
    <2>1. Unrecorded = {}
      BY DEF Init, Unrecorded
    <2> QED BY <2>1, FS_EmptySet DEF Init, RegistrationsAreRecorded
  <1>2. RegistryInv /\ Few /\ [Next]_vars => Few'
    <2> SUFFICES ASSUME RegistryInv, Few, [Next]_vars PROVE Few' OBVIOUS
    <2> DEFINE L == Unrecorded
               M == Unrecorded'
    <2>1. crashes \in Nat /\ IsFiniteSet(L) /\ Cardinality(L) <= crashes /\ Cardinality(L) \in Nat
      BY FS_CardinalityType DEF RegistryInv, TypeOK, RegistrationsAreRecorded
    <2>2. CASE UNCHANGED crashes /\ Shrinks({})
      <3>1. M \subseteq L
        BY <2>2 DEF Shrinks
      <3> HIDE DEF L, M
      <3>2. IsFiniteSet(M) /\ Cardinality(M) <= Cardinality(L) /\ Cardinality(M) \in Nat
        BY <2>1, <3>1, FS_Subset, FS_CardinalityType
      <3>3. Cardinality(M) <= crashes'
        BY <2>1, <2>2, <3>2
      <3> QED BY <3>2, <3>3 DEF M, RegistrationsAreRecorded
    <2>3. CASE crashes' = crashes + 1 /\ \E id : Shrinks({id})
      <3>1. PICK id : M \subseteq L \cup {id}
        BY <2>3 DEF Shrinks
      <3> HIDE DEF L, M
      <3>2. /\ IsFiniteSet(L \cup {id}) /\ Cardinality(L \cup {id}) \in Nat
            /\ Cardinality(L \cup {id}) <= Cardinality(L) + 1
        <4>1. IsFiniteSet(L \cup {id})
              /\ Cardinality(L \cup {id}) = IF id \in L THEN Cardinality(L) ELSE Cardinality(L) + 1
          BY <2>1, FS_AddElement
        <4> QED BY <2>1, <4>1
      <3>3. IsFiniteSet(M) /\ Cardinality(M) <= Cardinality(L \cup {id}) /\ Cardinality(M) \in Nat
        BY <3>1, <3>2, FS_Subset, FS_CardinalityType
      <3>4. Cardinality(M) <= crashes'
        BY <2>1, <2>3, <3>2, <3>3
      <3> QED BY <3>3, <3>4 DEF M, RegistrationsAreRecorded
    <2> QED BY <2>2, <2>3, UnrecordedStep
  <1>3. Few => RegistrationsAreRecorded
    OBVIOUS
  <1> HIDE DEF Few
  <1> QED BY <1>1, <1>2, <1>3, RegistryInvariant, PTL DEF Spec

-----------------------------------------------------------------------------
\* A pathway that starts APPROVED was allowed by inspection and by the evaluator,
\* and names no approval authority.
LEMMA ApprovedAtOnce ==
  ASSUME NEW d \in Features, NEW answer \in RpeAnswers, first_state(d, answer) = "approved"
  PROVE  answer = "allow" /\ inspect_pathway(d) = "allow" /\ d.approval = "none"
  <1>1. inspect_pathway(d) \in RuntimeDecision /\ rpe_decision(answer) \in RuntimeDecision
    BY DecisionTypes
  <1>2. combine(inspect_pathway(d), rpe_decision(answer)) = "allow" /\ d.approval = "none"
    BY <1>1 DEF first_state, initial_state, combine, RuntimeDecision
  <1>3. inspect_pathway(d) = "allow" /\ rpe_decision(answer) = "allow"
    BY <1>1, <1>2 DEF combine, order, RuntimeDecision
  <1> QED BY <1>2, <1>3 DEF rpe_decision, RuntimeDecision

\* Inspection allows a valid definition of a harmless class, or one that names its
\* approval authority.
LEMMA AllowedIsHarmless ==
  ASSUME NEW d \in Features, inspect_pathway(d) = "allow", d.approval = "none"
  PROVE  /\ d.class \in {"observe_only", "suggest_only", "emergency_stop"}
         /\ d.trust # "adversarial" /\ ~ Invalid(d) /\ d.route # "reevaluate"
  <1>1. ~ (Invalid(d) \/ d.route = "reevaluate" \/ d.trust = "adversarial")
    BY DEF inspect_pathway
  <1>2. ~ approval_needed(d)
    BY <1>1 DEF Invalid
  <1> QED BY <1>1, <1>2 DEF approval_needed, Features, ActionClass

\* A pathway that is APPROVED was approved by the approval authority its definition
\* names, unless none was needed (register, authorize_transition).
THEOREM ApprovalWasGivenHolds == Spec => []ApprovalWasGiven
  <1>1. RegistryInv /\ TrailInv => ApprovalWasGiven
    <2> SUFFICES ASSUME RegistryInv, TrailInv, NEW id \in Ids, row[id].state = "approved"
                 PROVE  LET r == row[id] f == r.def.features
                        IN  IF Moves(events[id]) = {}
                            THEN /\ r.answer = "allow"
                                 /\ f.approval = "none"
                                 /\ f.class \in {"observe_only", "suggest_only", "emergency_stop"}
                                 /\ f.trust # "adversarial"
                                 /\ ~ Invalid(f) /\ f.route # "reevaluate"
                            ELSE /\ f.approval = "named"
                                 /\ \E i \in Moves(events[id]) :
                                      /\ \A j \in Moves(events[id]) : j <= i
                                      /\ events[id][i].actor = Definition["approval_authority"]
      BY DEF ApprovalWasGiven
    <2> DEFINE r == row[id]
               es == events[id]
    <2>1. r \in Rows /\ r # NoRow
      BY RegistryAssumption DEF RegistryInv, TypeOK, NoRow, PathwayState
    <2>2. r.def.features \in Features /\ r.answer \in RpeAnswers
      BY <2>1, RegistryAssumption DEF Rows
    <2>3. Leads(es, r.first, Len(es), "approved")
      BY DEF TrailInv, StateTrail, Gapless
    <2>4. es \in Seq(EventType) /\ Moves(es) \subseteq 1..Len(es) /\ Len(es) \in Nat
      BY DEF RegistryInv, TypeOK, Moves
    <2>5. CASE Moves(es) = {}
      <3>1. r.first = "approved"
        BY <2>3, <2>5 DEF Leads
      <3>2. first_state(r.def.features, r.answer) = "approved"
        BY <2>1, <3>1 DEF RegistryInv, Founded
      <3> QED BY <2>2, <2>5, <3>2, ApprovedAtOnce, AllowedIsHarmless
    <2>6. CASE Moves(es) # {}
      <3>1. PICK i \in Moves(es) : es[i].to = "approved" /\ \A j \in Moves(es) : j <= Len(es) => j <= i
        BY <2>3, <2>4, <2>6 DEF Leads
      <3>2. \A j \in Moves(es) : j <= i
        BY <2>4, <3>1
      <3>3. Approver(r, es[i].actor)
        BY <3>1 DEF TrailInv, Approved
      <3> QED BY <2>6, <3>2, <3>3 DEF Approver
    <2> QED BY <2>5, <2>6
  <1> QED BY <1>1, RegistryInvariant, TrailInvariant, PTL

-----------------------------------------------------------------------------
\* The events of a kind in a chain that name actor a and target t.
Told(es, kind, a, t) == {i \in 1..Len(es) : es[i].kind = kind /\ es[i].actor = a /\ es[i].to = t}

\* A process that has made a principal's move and is still to record who authorized it.
Owes(c, id, a, t) ==
  /\ c.pc \in {"record_read", "record"} /\ c.kind = "principal_authorized_transition"
  /\ c.id = id /\ c.actor = a /\ c.goal = t

Owing(cl, id, a, t) == {p \in Procs : Owes(cl[p], id, a, t)}

\* What is recorded and what is still to be recorded of a principal's moves is at
\* most what was moved.
Covered(es, cl, id, a, t) ==
  /\ IsFiniteSet(Owing(cl, id, a, t))
  /\ Cardinality(Told(es, "principal_authorized_transition", a, t)) + Cardinality(Owing(cl, id, a, t))
       <= Cardinality(Told(es, "state_transition", a, t))

\* The inductive invariant, beside RegistryInv and TrailInv.
MadeInv == \A id \in Ids, a \in Actors, t \in ManualTargets : Covered(events[id], call, id, a, t)

\* The events of a chain can be counted.
LEMMA ToldFinite ==
  ASSUME NEW es \in Seq(EventType), NEW kind, NEW a, NEW t
  PROVE  IsFiniteSet(Told(es, kind, a, t)) /\ Cardinality(Told(es, kind, a, t)) \in Nat
  <1>1. Len(es) \in Nat
    OBVIOUS
  <1>2. IsFiniteSet(1..Len(es))
    BY <1>1, FS_Interval
  <1>3. Told(es, kind, a, t) \in SUBSET (1..Len(es))
    BY DEF Told
  <1> QED BY <1>2, <1>3, FS_Subset, FS_CardinalityType

\* An appended event is counted where it belongs, and nowhere else.
LEMMA ToldGrows ==
  ASSUME NEW es \in Seq(EventType), NEW e \in EventType, NEW kind, NEW a, NEW t
  PROVE  Cardinality(Told(Append(es, e), kind, a, t)) =
           IF e.kind = kind /\ e.actor = a /\ e.to = t
           THEN Cardinality(Told(es, kind, a, t)) + 1 ELSE Cardinality(Told(es, kind, a, t))
  <1> DEFINE new == Append(es, e)
             m == Len(es)
             old == Told(es, kind, a, t)
  <1>1. Len(new) = m + 1 /\ new[m + 1] = e /\ m \in Nat /\ \A i \in 1..m : new[i] = es[i]
    BY AppendedMoves
  <1>3. old \in SUBSET (1..m)
    BY DEF Told
  <1>4. IsFiniteSet(old)
    BY ToldFinite
  <1> HIDE DEF new
  <1>5. Told(new, kind, a, t) = IF e.kind = kind /\ e.actor = a /\ e.to = t THEN old \cup {m + 1} ELSE old
    BY <1>1 DEF Told
  <1>6. m + 1 \notin old
    BY <1>1, <1>3
  <1> HIDE DEF old
  <1>7. Cardinality(old \cup {m + 1}) = Cardinality(old) + 1
    BY <1>4, <1>6, FS_AddElement
  <1> QED BY <1>4, <1>5, <1>7 DEF old, new

\* A step of process p changes who owes a record by p at most.
LEMMA OwingChanges ==
  ASSUME RegistryInv, NEW p \in Procs, NEW c, Become(p, c), NEW id, NEW a, NEW t
  PROVE  Owing(call', id, a, t) = IF Owes(c, id, a, t) THEN Owing(call, id, a, t) \cup {p}
                                  ELSE Owing(call, id, a, t) \ {p}
  <1>1. \A q \in Procs : call'[q] = IF q = p THEN c ELSE call[q]
    BY DEF RegistryInv, TypeOK, Become
  <1>2. \A q \in Procs : Owes(call'[q], id, a, t) <=> IF q = p THEN Owes(c, id, a, t) ELSE Owes(call[q], id, a, t)
    BY <1>1
  <1> QED BY <1>2 DEF Owing

\* The counts of a set a process enters or leaves.
LEMMA CountOwing ==
  ASSUME NEW S, IsFiniteSet(S), NEW p
  PROVE  /\ Cardinality(S) \in Nat
         /\ IsFiniteSet(S \cup {p}) /\ Cardinality(S \cup {p}) \in Nat
         /\ Cardinality(S \cup {p}) <= Cardinality(S) + 1
         /\ p \in S => S \cup {p} = S
         /\ IsFiniteSet(S \ {p}) /\ Cardinality(S \ {p}) \in Nat
         /\ Cardinality(S \ {p}) = IF p \in S THEN Cardinality(S) - 1 ELSE Cardinality(S)
  BY FS_CardinalityType, FS_AddElement, FS_RemoveElement

\* A step that appends nothing and takes up no new debt.
LEMMA MadeQuiet ==
  ASSUME RegistryInv, MadeInv, NEW p \in Procs, NEW c, Become(p, c), UNCHANGED events,
         \A id, a, t : Owes(c, id, a, t) => Owes(call[p], id, a, t)
  PROVE  MadeInv'
  <1> SUFFICES ASSUME NEW id \in Ids, NEW a \in Actors, NEW t \in ManualTargets
               PROVE  Covered(events[id], call', id, a, t)
    BY DEF MadeInv
  <1> DEFINE S == Owing(call, id, a, t)
             A == Told(events[id], "principal_authorized_transition", a, t)
             M == Told(events[id], "state_transition", a, t)
  <1>1. IsFiniteSet(S) /\ Cardinality(A) + Cardinality(S) <= Cardinality(M)
    BY DEF MadeInv, Covered
  <1>2. Owing(call', id, a, t) = IF Owes(c, id, a, t) THEN S \cup {p} ELSE S \ {p}
    BY OwingChanges
  <1>3. Owes(c, id, a, t) => p \in S
    BY DEF Owing
  <1>4. Cardinality(A) \in Nat /\ Cardinality(M) \in Nat
    BY ToldFinite DEF RegistryInv, TypeOK
  <1> DEFINE T == Owing(call', id, a, t)
  <1> HIDE DEF S, A, M, T
  <1>5. Cardinality(S) \in Nat
    BY <1>1, CountOwing
  <1>6. IsFiniteSet(T) /\ Cardinality(T) \in Nat /\ Cardinality(T) <= Cardinality(S)
    <2>1. T = S \/ T = S \ {p}
      BY <1>2, <1>3, <1>1, CountOwing DEF T
    <2>2. CASE T = S BY <1>1, <1>5, <2>2
    <2>3. CASE T = S \ {p}
      <3>1. IsFiniteSet(T) /\ Cardinality(T) \in Nat
            /\ Cardinality(T) = IF p \in S THEN Cardinality(S) - 1 ELSE Cardinality(S)
        BY <1>1, <2>3, CountOwing
      <3> QED BY <1>5, <3>1
    <2> QED BY <2>1, <2>2, <2>3
  <1>7. Cardinality(A) + Cardinality(T) <= Cardinality(M)
    BY <1>1, <1>4, <1>5, <1>6
  <1> QED BY <1>6, <1>7 DEF Covered, A, M, T

\* A step of process p that appends event e to pathway i: the debts it leaves are
\* paid for by what it records.
LEMMA MadeAppend ==
  ASSUME RegistryInv, MadeInv, NEW p \in Procs, NEW c, Become(p, c), NEW i \in Ids,
         NEW e \in EventType, events' = [events EXCEPT ![i] = Append(events[i], e)],
         \A id, a, t : Owes(c, id, a, t) =>
           e.kind = "state_transition" /\ id = i /\ e.actor = a /\ e.to = t,
         e.kind = "principal_authorized_transition" =>
           Owes(call[p], i, e.actor, e.to) /\ \A id, a, t : ~ Owes(c, id, a, t)
  PROVE  MadeInv'
  <1> SUFFICES ASSUME NEW id \in Ids, NEW a \in Actors, NEW t \in ManualTargets
               PROVE  Covered(events'[id], call', id, a, t)
    BY DEF MadeInv
  <1> DEFINE S == Owing(call, id, a, t)
             T == Owing(call', id, a, t)
             A == Told(events[id], "principal_authorized_transition", a, t)
             M == Told(events[id], "state_transition", a, t)
             B == Told(events'[id], "principal_authorized_transition", a, t)
             N == Told(events'[id], "state_transition", a, t)
             about == id = i /\ e.actor = a /\ e.to = t
  <1>1. IsFiniteSet(S) /\ Cardinality(A) + Cardinality(S) <= Cardinality(M)
    BY DEF MadeInv, Covered
  <1>2. T = IF Owes(c, id, a, t) THEN S \cup {p} ELSE S \ {p}
    BY OwingChanges
  <1>3. events[id] \in Seq(EventType) /\ events'[id] = IF id = i THEN Append(events[id], e) ELSE events[id]
    BY DEF RegistryInv, TypeOK
  <1>4. Cardinality(A) \in Nat /\ Cardinality(M) \in Nat
    BY <1>3, ToldFinite
  <1>5. /\ Cardinality(B) = IF about /\ e.kind = "principal_authorized_transition"
                            THEN Cardinality(A) + 1 ELSE Cardinality(A)
        /\ Cardinality(N) = IF about /\ e.kind = "state_transition"
                            THEN Cardinality(M) + 1 ELSE Cardinality(M)
    <2>1. CASE id = i BY <2>1, <1>3, ToldGrows
    <2>2. CASE id # i BY <2>2, <1>3
    <2> QED BY <2>1, <2>2
  <1>6. about /\ e.kind = "principal_authorized_transition" => p \in S /\ ~ Owes(c, id, a, t)
    BY DEF Owing
  <1>7. Owes(c, id, a, t) => about /\ e.kind = "state_transition"
    OBVIOUS
  <1> HIDE DEF S, T, A, M, B, N, about
  <1>8. /\ Cardinality(S) \in Nat /\ IsFiniteSet(T) /\ Cardinality(T) \in Nat
        /\ Owes(c, id, a, t) => Cardinality(T) <= Cardinality(S) + 1
        /\ ~ Owes(c, id, a, t) => Cardinality(T) = IF p \in S THEN Cardinality(S) - 1 ELSE Cardinality(S)
    BY <1>1, <1>2, CountOwing
  <1>9. Cardinality(B) + Cardinality(T) <= Cardinality(N)
    <2>1. CASE about /\ e.kind = "principal_authorized_transition"
      <3>1. Cardinality(B) = Cardinality(A) + 1 /\ Cardinality(N) = Cardinality(M)
        BY <1>5, <2>1
      <3>2. Cardinality(T) = Cardinality(S) - 1
        BY <1>6, <1>8, <2>1
      <3> QED BY <1>1, <1>4, <1>8, <3>1, <3>2
    <2>2. CASE about /\ e.kind = "state_transition"
      <3>1. Cardinality(B) = Cardinality(A) /\ Cardinality(N) = Cardinality(M) + 1
        BY <1>5, <2>2
      <3>2. Cardinality(T) <= Cardinality(S) + 1
        BY <1>8
      <3> QED BY <1>1, <1>4, <1>8, <3>1, <3>2
    <2>3. CASE ~ about \/ e.kind \notin {"principal_authorized_transition", "state_transition"}
      <3>1. Cardinality(B) = Cardinality(A) /\ Cardinality(N) = Cardinality(M)
        BY <1>5, <2>3
      <3>2. Cardinality(T) <= Cardinality(S)
        BY <1>7, <1>8, <2>3
      <3> QED BY <1>1, <1>4, <1>8, <3>1, <3>2
    <2> QED BY <2>1, <2>2, <2>3
  <1> QED BY <1>8, <1>9 DEF Covered, T, B, N

\* The operations callers begin, and the steps that append nothing.
LEMMA MadeReading ==
  ASSUME RegistryInv, TrailInv, MadeInv, NEW p \in Procs,
         \/ \E tenant \in Scopes, d \in Definitions, key \in Keys \cup {BlankKey} :
              Register(p, tenant, d, key)
         \/ \E id \in Ids, target \in ManualTargets :
              \/ \E tenant \in Scopes, actor \in Actors : Transition(p, tenant, id, target, actor)
              \/ \E credential \in Credentials, now \in Times :
                   TransitionAsPrincipal(p, id, target, credential, now)
         \/ Claim(p) \/ Evaluate(p) \/ Create(p) \/ RecordRead(p)
         \/ TransitionRead(p) \/ TransitionHash(p) \/ Crash(p)
  PROVE  MadeInv'
  <1>0. call[p] \in CallType
    BY DEF RegistryInv, TypeOK
  <1>1. ASSUME NEW c, Become(p, c), UNCHANGED events,
               c.pc \notin {"record_read", "record"} \/ c.kind # "principal_authorized_transition"
        PROVE  MadeInv'
    BY <1>1, MadeQuiet DEF Owes
  <1>2. Return(p) /\ UNCHANGED events => MadeInv'
    BY <1>1 DEF Return, Idle
  <1>3. ASSUME NEW tenant \in Scopes, NEW d \in Definitions, NEW key \in Keys \cup {BlankKey},
               Register(p, tenant, d, key)
        PROVE  MadeInv'
    <2> DEFINE c == [Idle EXCEPT !.pc = IF tenant = None THEN "evaluate" ELSE "claim",
                                 !.scope = tenant, !.def = d, !.key = key, !.id = d.id]
    <2>1. c.pc \in {"claim", "evaluate"}
      BY DEF Idle
    <2>2. Become(p, c) /\ UNCHANGED events
      BY <1>3 DEF Register, Begin
    <2> HIDE DEF c
    <2> QED BY <1>1, <2>1, <2>2
  <1>4. ASSUME NEW id \in Ids, NEW target \in ManualTargets, NEW actor \in Actors, NEW tenant \in Scopes,
               Transition(p, tenant, id, target, actor)
        PROVE  MadeInv'
    <2> DEFINE c == [Idle EXCEPT !.pc = "read", !.scope = tenant, !.id = id, !.goal = target,
                                 !.actor = actor]
    <2>1. c.pc = "read"
      BY DEF Idle
    <2>2. Become(p, c) /\ UNCHANGED events
      BY <1>4 DEF Transition, Begin
    <2> HIDE DEF c
    <2> QED BY <1>1, <2>1, <2>2
  <1>5. ASSUME NEW id \in Ids, NEW target \in ManualTargets, NEW credential \in Credentials,
               NEW now \in Times, TransitionAsPrincipal(p, id, target, credential, now)
        PROVE  MadeInv'
    <2> DEFINE c == [Idle EXCEPT !.pc = "read", !.id = id, !.goal = target,
                                 !.actor = actor_for(credential),
                                 !.kind = "principal_authorized_transition"]
    <2>1. c.pc = "read"
      BY DEF Idle
    <2>2. Become(p, c) /\ UNCHANGED events
      BY <1>5 DEF TransitionAsPrincipal, Begin
    <2> HIDE DEF c
    <2> QED BY <1>1, <2>1, <2>2
  <1>6. CASE Claim(p)
    <2> DEFINE c == [call[p] EXCEPT !.pc = "evaluate"]
    <2>1. c.pc = "evaluate"
      BY <1>0 DEF CallType
    <2>2. Become(p, c) \/ Return(p)
      BY <1>6 DEF Claim, Goto
    <2> HIDE DEF c
    <2> QED BY <1>1, <1>2, <1>6, <2>1, <2>2 DEF Claim
  <1>7. CASE Evaluate(p)
    <2>1. PICK answer \in Answers :
            IF answer = "raises" THEN Return(p)
            ELSE Become(p, [call[p] EXCEPT !.pc = "create", !.answer = answer,
                              !.snap = first_state(call[p].def.features, answer)])
      BY <1>7 DEF Evaluate
    <2> DEFINE c == [call[p] EXCEPT !.pc = "create", !.answer = answer,
                       !.snap = first_state(call[p].def.features, answer)]
    <2>2. Become(p, c) \/ Return(p)
      BY <2>1
    <2>3. c.pc = "create"
      BY <1>0 DEF CallType
    <2> HIDE DEF c
    <2> QED BY <1>1, <1>2, <1>7, <2>2, <2>3 DEF Evaluate
  <1>8. CASE Create(p)
    <2> DEFINE c == [call[p] EXCEPT !.pc = "record_read", !.kind = "pathway_registered",
                                    !.goal = call[p].snap]
    <2>1. Become(p, c) \/ Return(p)
      BY <1>8 DEF Create
    <2>2. c.kind = "pathway_registered"
      BY <1>0 DEF CallType
    <2> HIDE DEF c
    <2> QED BY <1>1, <1>2, <1>8, <2>1, <2>2 DEF Create
  <1>9. CASE RecordRead(p)
    <2> DEFINE c == [call[p] EXCEPT !.pc = "record", !.prev = latest_event_hash(call[p].id)]
    <2>1. Become(p, c) /\ UNCHANGED events /\ call[p].pc = "record_read"
      BY <1>9 DEF RecordRead, At
    <2>2. /\ c.pc = "record" /\ c.kind = call[p].kind /\ c.id = call[p].id
          /\ c.actor = call[p].actor /\ c.goal = call[p].goal
      BY <1>0 DEF CallType
    <2> HIDE DEF c
    <2>3. \A id, a, t : Owes(c, id, a, t) => Owes(call[p], id, a, t)
      BY <2>1, <2>2 DEF Owes
    <2> QED BY <2>1, <2>3, MadeQuiet
  <1>10. CASE TransitionRead(p)
    <2> DEFINE c == [call[p] EXCEPT !.pc = "hash", !.snap = row[call[p].id].state]
    <2>1. Become(p, c) \/ Return(p)
      BY <1>10 DEF TransitionRead
    <2>2. c.pc = "hash"
      BY <1>0 DEF CallType
    <2> HIDE DEF c
    <2> QED BY <1>1, <1>2, <1>10, <2>1, <2>2 DEF TransitionRead
  <1>11. CASE TransitionHash(p)
    <2> DEFINE c == [call[p] EXCEPT !.pc = "commit", !.prev = latest_event_hash(call[p].id)]
    <2>1. Become(p, c)
      BY <1>11 DEF TransitionHash
    <2>2. c.pc = "commit"
      BY <1>0 DEF CallType
    <2> HIDE DEF c
    <2> QED BY <1>1, <1>11, <2>1, <2>2 DEF TransitionHash
  <1>12. CASE Crash(p)
    BY <1>2, <1>12 DEF Crash
  <1> QED BY <1>3, <1>4, <1>5, <1>6, <1>7, <1>8, <1>9, <1>10, <1>11, <1>12

\* _record pays a debt, transition_with_event takes one up with the move itself.
LEMMA MadeWriting ==
  ASSUME RegistryInv, TrailInv, MadeInv, NEW p \in Procs, Record(p) \/ Commit(p)
  PROVE  MadeInv'
  <1> DEFINE k == call[p]
             i == k.id
  <1>0. k \in CallType /\ Shape(k) /\ Knows(k, row)
    BY DEF RegistryInv, TypeOK, TrailInv
  <1>1. \A id, a, t : ~ Owes(Idle, id, a, t)
    BY DEF Owes, Idle
  <1>2. CASE Record(p)
    <2> DEFINE e == Event(p, k.kind)
    <2>1. k.pc = "record" /\ i \in Ids /\ k.kind \in Kinds /\ k.kind # "state_transition"
          /\ Become(p, Idle) /\ events' = [events EXCEPT ![i] = Append(events[i], e)]
      BY <1>0, <1>2 DEF Record, At, Shape, Knows, Return, append_event
    <2>2. e \in EventType /\ e.kind = k.kind /\ e.actor = k.actor /\ e.to = k.goal
      BY <1>0, <2>1 DEF Event, EventType, CallType, Shape
    <2> HIDE DEF e
    <2>3. e.kind = "principal_authorized_transition" => Owes(k, i, e.actor, e.to)
      BY <2>1, <2>2 DEF Owes
    <2> QED BY <1>1, <2>1, <2>2, <2>3, MadeAppend
  <1>3. CASE Commit(p) /\ row[i].state # k.snap
    <2>1. Become(p, Idle) /\ UNCHANGED events
      BY <1>3 DEF Commit, Return
    <2> QED BY <1>1, <2>1, MadeQuiet
  <1>4. CASE Commit(p) /\ row[i].state = k.snap
    <2> DEFINE e == Event(p, "state_transition")
    <2>1. k.pc = "commit" /\ i \in Ids /\ events' = [events EXCEPT ![i] = Append(events[i], e)]
      BY <1>0, <1>4 DEF Commit, At, Shape, append_event
    <2>2. e \in EventType /\ e.kind = "state_transition" /\ e.actor = k.actor /\ e.to = k.goal
      BY <1>0, <2>1 DEF Event, EventType, CallType, Shape, Kinds
    <2> HIDE DEF e
    <2>3. CASE k.kind = None
      <3>1. Become(p, Idle) BY <1>4, <2>3 DEF Commit, Return
      <3> QED BY <1>1, <2>1, <2>2, <3>1, MadeAppend
    <2>4. CASE k.kind # None
      <3> DEFINE c == [k EXCEPT !.pc = "record_read"]
      <3>1. Become(p, c) BY <1>4, <2>4 DEF Commit, Goto
      <3>2. c.id = i /\ c.actor = k.actor /\ c.goal = k.goal
        BY <1>0 DEF CallType
      <3> HIDE DEF c
      <3>3. \A id, a, t : Owes(c, id, a, t) => id = i /\ e.actor = a /\ e.to = t
        BY <2>2, <3>2 DEF Owes
      <3> QED BY <2>1, <2>2, <3>1, <3>3, MadeAppend
    <2> QED BY <2>3, <2>4
  <1> QED BY <1>2, <1>3, <1>4

\* Whoever is recorded as having authorized a transition as a principal has made it:
\* the moves of an actor to a target cover what is recorded of them, and what is
\* still to be recorded (transition_as_principal, transition_with_event).
THEOREM PrincipalMadeTheMoveHolds == Spec => []PrincipalMadeTheMove
  <1>1. Init => MadeInv
    <2> SUFFICES ASSUME Init, NEW id \in Ids, NEW a \in Actors, NEW t \in ManualTargets
                 PROVE  Covered(events[id], call, id, a, t)
      BY DEF MadeInv
    <2>1. \A kind : Told(events[id], kind, a, t) = {}
      BY DEF Init, Told
    <2>2. Owing(call, id, a, t) = {}
      BY DEF Init, Owing, Owes, Idle
    <2> QED BY <2>1, <2>2, FS_EmptySet DEF Covered
  <1>2. RegistryInv /\ TrailInv /\ MadeInv /\ [Next]_vars => MadeInv'
    <2> SUFFICES ASSUME RegistryInv, TrailInv, MadeInv, [Next]_vars PROVE MadeInv' OBVIOUS
    <2>1. CASE UNCHANGED vars
      BY <2>1 DEF vars, MadeInv
    <2>2. CASE Next
      BY <2>2, MadeReading, MadeWriting DEF Next
    <2> QED BY <2>1, <2>2
  <1>3. RegistryInv /\ MadeInv => PrincipalMadeTheMove
    <2> SUFFICES ASSUME RegistryInv, MadeInv, NEW id \in Ids, NEW a \in Actors, NEW t \in ManualTargets
                 PROVE  Cardinality(Told(events[id], "principal_authorized_transition", a, t)) <=
                          Cardinality(Told(events[id], "state_transition", a, t))
      BY DEF PrincipalMadeTheMove, Told
    <2> DEFINE S == Owing(call, id, a, t)
               A == Told(events[id], "principal_authorized_transition", a, t)
               M == Told(events[id], "state_transition", a, t)
    <2>1. IsFiniteSet(S) /\ Cardinality(A) + Cardinality(S) <= Cardinality(M)
      BY DEF MadeInv, Covered
    <2>2. Cardinality(A) \in Nat /\ Cardinality(M) \in Nat
      BY ToldFinite DEF RegistryInv, TypeOK
    <2> HIDE DEF S, A, M
    <2>3. Cardinality(S) \in Nat
      BY <2>1, FS_CardinalityType
    <2>4. Cardinality(A) <= Cardinality(M)
      BY <2>1, <2>2, <2>3
    <2> QED BY <2>4 DEF A, M
  <1> QED BY <1>1, <1>2, <1>3, RegistryInvariant, TrailInvariant, PTL DEF Spec

-----------------------------------------------------------------------------
\* The readers beside the processes.

\* The pathways that are settled.
Settled == {id \in Registered : row[id].state \in TERMINAL_STATES}

\* es is the beginning of fs.
Extends(es, fs) == Len(es) <= Len(fs) /\ \A i \in 1..Len(es) : fs[i] = es[i]

\* What a step of the processes does to what a reader has read: rows are added one
\* at a time, keep their definition and stay settled, and events are only appended.
Grown ==
  /\ \A id \in Registered :
       /\ row'[id] # NoRow /\ row'[id].def = row[id].def /\ row'[id].first = row[id].first
       /\ row[id].state \in TERMINAL_STATES => row'[id].state = row[id].state
  /\ \E i : \A id \in Ids \ {i} : row'[id] = row[id]
  /\ \A id \in Ids : Extends(events[id], events'[id])

\* An event of process p extends its pathway.
LEMMA AppendExtends ==
  ASSUME RegistryInv, NEW i \in Ids, NEW e, events' = [events EXCEPT ![i] = Append(events[i], e)],
         NEW id \in Ids
  PROVE  Extends(events[id], events'[id])
  <1>1. events[id] \in Seq(EventType) /\ Len(events[id]) \in Nat
    BY DEF RegistryInv, TypeOK
  <1>2. CASE id # i
    <2>1. events'[id] = events[id]
      BY <1>2 DEF RegistryInv, TypeOK
    <2> QED BY <1>1, <2>1 DEF Extends
  <1>3. CASE id = i
    <2>1. events'[id] = Append(events[id], e)
      BY <1>3 DEF RegistryInv, TypeOK
    <2> QED BY <1>1, <2>1 DEF Extends
  <1> QED BY <1>2, <1>3

LEMMA WorldGrows ==
  ASSUME RegistryInv, TrailInv, [Next]_vars
  PROVE  Grown
  <1>1. UNCHANGED <<row, events>> => Grown
    <2>1. \A id \in Ids : events[id] \in Seq(EventType)
      BY DEF RegistryInv, TypeOK
    <2>2. \A id \in Ids : Extends(events[id], events[id])
      BY <2>1 DEF Extends
    <2> QED BY <2>2 DEF Grown, Registered
  <1>2. CASE UNCHANGED vars
    BY <1>1, <1>2 DEF vars
  <1>3. ASSUME NEW p \in Procs, Create(p) PROVE Grown
    <2> DEFINE k == call[p]
               new == [def |-> k.def, key |-> k.key, state |-> k.snap, answer |-> k.answer, first |-> k.snap]
    <2>1. CASE UNCHANGED row
      BY <1>1, <1>3, <2>1 DEF Create
    <2>2. CASE ~ UNCHANGED row
      <3>1. k.id \in Ids /\ row[k.id] = NoRow /\ row' = [row EXCEPT ![k.id] = new] /\ UNCHANGED events
        BY <1>3, <2>2 DEF Create, At, RegistryInv, Shape
      <3> HIDE DEF new
      <3>2. \A id \in Ids \ {k.id} : row'[id] = row[id]
        BY <3>1 DEF RegistryInv, TypeOK
      <3>3. \A id \in Ids : Extends(events[id], events'[id])
        BY <3>1 DEF RegistryInv, TypeOK, Extends
      <3> QED BY <3>1, <3>2, <3>3 DEF Grown, Registered
    <2> QED BY <2>1, <2>2
  <1>4. ASSUME NEW p \in Procs, Record(p) PROVE Grown
    <2>1. call[p].id \in Ids /\ UNCHANGED row
          /\ events' = [events EXCEPT ![call[p].id] = Append(events[call[p].id], Event(p, call[p].kind))]
      BY <1>4 DEF Record, At, RegistryInv, Shape, append_event
    <2>2. \A id \in Ids : Extends(events[id], events'[id])
      BY <2>1, AppendExtends
    <2> QED BY <2>1, <2>2 DEF Grown, Registered
  <1>5. ASSUME NEW p \in Procs, Commit(p) PROVE Grown
    <2> DEFINE k == call[p]
    <2>1. CASE row[k.id].state # k.snap
      BY <1>1, <1>5, <2>1 DEF Commit
    <2>2. CASE row[k.id].state = k.snap
      <3>1. /\ k.id \in Ids /\ row[k.id] # NoRow /\ k.snap \in PathwayState /\ k.goal \in PathwayState
            /\ k.goal \in ALLOWED_TRANSITIONS[k.snap]
            /\ row' = [row EXCEPT ![k.id].state = k.goal]
            /\ events' = [events EXCEPT ![k.id] = Append(events[k.id], Event(p, "state_transition"))]
        BY <1>5, <2>2 DEF Commit, At, RegistryInv, Shape, TrailInv, Knows, append_event
      <3>2. row[k.id] \in Rows
        BY <3>1 DEF RegistryInv, TypeOK
      <3>3. /\ \A id \in Ids \ {k.id} : row'[id] = row[id]
            /\ row'[k.id].def = row[k.id].def /\ row'[k.id].first = row[k.id].first /\ row'[k.id] \in Rows
        BY <3>1, <3>2 DEF RegistryInv, TypeOK, Rows
      <3>4. row'[k.id] # NoRow
        BY <3>3, RegistryAssumption DEF NoRow, Rows
      <3>5. row[k.id].state \notin TERMINAL_STATES
        BY <2>2, <3>1 DEF ALLOWED_TRANSITIONS, TERMINAL_STATES, PathwayState
      <3>6. \A id \in Ids : Extends(events[id], events'[id])
        BY <3>1, AppendExtends
      <3> QED BY <3>3, <3>4, <3>5, <3>6 DEF Grown, Registered
    <2> QED BY <2>1, <2>2
  <1>6. CASE Next
    <2>1. PICK p \in Procs : UNCHANGED <<row, events>> \/ Create(p) \/ Record(p) \/ Commit(p)
      BY ZenonT(30), <1>6 DEF Next, Register, Transition, TransitionAsPrincipal, Begin,
                              Claim, Evaluate, RecordRead, TransitionRead, TransitionHash, Crash
    <2> QED BY <1>1, <1>3, <1>4, <1>5, <2>1
  <1> QED BY <1>2, <1>6

\* A reader changes nothing but the count of calls.
LEMMA ReaderIsAside ==
  ASSUME ReaderNext
  PROVE  UNCHANGED <<owner, row, events, call, crashes>> /\ calls' \in {calls, calls + 1}
  BY DEF ReaderNext, Initialize, Initialized, Reply, GetStatus, StatusUnresolved, ListRows, EvidenceRead,
         GetPathway, GetEvidence, Diagnose, TenantEvidence, AllEvidenceRead, DiagnoseEvents, DiagnoseVerify,
         CallTool, Ask, Reads, vars

\* What holds of the processes holds beside readers as well.
LEMMA ServedInvariants == ServerSpec => [](RegistryInv /\ TrailInv)
  <1>1. ServerInit => RegistryInv /\ TrailInv
    BY RegistryInit, TrailInit DEF ServerInit
  <1>2. RegistryInv /\ TrailInv /\ [ServerNext]_serverVars => (RegistryInv /\ TrailInv)'
    <2> SUFFICES ASSUME RegistryInv, TrailInv, [ServerNext]_serverVars PROVE RegistryInv' /\ TrailInv'
      OBVIOUS
    <2>1. CASE [Next]_vars
      BY <2>1, RegistryStep, TrailStep
    <2>2. CASE ReaderNext
      <3>1. UNCHANGED <<owner, row, events, call, crashes>> /\ calls' \in {calls, calls + 1}
        BY <2>2, ReaderIsAside
      <3>2. calls' \in Nat
        BY <3>1 DEF RegistryInv, TypeOK
      <3>3. RegistryInv'
        BY <3>1, <3>2 DEF RegistryInv, TypeOK, TenantBoundary
      <3>4. TrailInv'
        BY <3>1 DEF TrailInv, OneRecorder, Recording, Blank, StateTrail
      <3> QED BY <3>3, <3>4
    <2> QED BY <2>1, <2>2 DEF ServerNext, serverVars
  <1> QED BY <1>1, <1>2, PTL DEF ServerSpec

\* What a request holds.
Requests ==
  [pc : {"idle", "status", "counted", "evidence", "all_evidence", "diagnose", "verify", "diagnosed", "reply"},
   id : Ids \cup {None}, found : BOOLEAN, state : PathwayState \cup {None}, count : Nat, rest : Nat,
   shown : SUBSET Ids, log : Seq(EventType), total : Nat]

\* What the first count of a status says is still there when the second is taken.
StatusFits(req) ==
  /\ req.pc = "status" => req.count <= Cardinality(Registered)
  /\ req.pc = "counted" => req.count - req.rest <= Cardinality(Settled)

\* State s is the first one or one that an event of es led to.
Recorded(s, es, r) ==
  s = r.first \/ \E i \in 1..Len(es) : es[i].kind = "state_transition" /\ es[i].to = s

\* What a diagnosis has read fits the events of the store, then the events it has
\* read, then the count.
DiagnosisFits(req) ==
  /\ req.pc \in {"evidence", "all_evidence"} => req.id \in Ids
  /\ req.pc \in {"diagnose", "verify", "diagnosed"} =>
       req.id \in Registered /\ Reached(req.state, row[req.id].def)
  /\ req.pc = "diagnose" => Recorded(req.state, events[req.id], row[req.id])
  /\ req.pc \in {"verify", "diagnosed"} => Recorded(req.state, req.log, row[req.id])
  /\ req.pc = "verify" => Len(req.log) <= Len(events[req.id])
  /\ req.pc = "diagnosed" => Len(req.log) <= req.total

\* The inductive invariant of the reader, beside RegistryInv and TrailInv.
ServerInv ==
  /\ IsFiniteSet(Registered)
  /\ reader \in [session : {"new", "seen", "ready"}, req : Requests]
  /\ StatusFits(reader.req) /\ DiagnosisFits(reader.req)

\* Settled and unresolved pathways make up the registered ones.
LEMMA StatusCounts ==
  ASSUME IsFiniteSet(Registered)
  PROVE  /\ Cardinality(Registered) \in Nat /\ Cardinality(Unresolved) \in Nat
         /\ Cardinality(Settled) \in Nat /\ IsFiniteSet(Settled)
         /\ Cardinality(Settled) = Cardinality(Registered) - Cardinality(Unresolved)
  <1>1. Unresolved \in SUBSET Registered /\ Settled \in SUBSET Registered
    BY DEF Unresolved, Settled
  <1>2. Settled = Registered \ Unresolved /\ Registered \cap Unresolved = Unresolved
    BY DEF Unresolved, Settled, TERMINAL_STATES
  <1>3. IsFiniteSet(Unresolved) /\ IsFiniteSet(Settled)
    BY <1>1, FS_Subset
  <1>4. Cardinality(Registered \ Unresolved) = Cardinality(Registered) - Cardinality(Registered \cap Unresolved)
    BY FS_Difference
  <1> QED BY <1>2, <1>3, <1>4, FS_CardinalityType

\* The state of a row is recorded in its events.
LEMMA StateRecorded ==
  ASSUME RegistryInv, TrailInv, NEW id \in Registered
  PROVE  Recorded(row[id].state, events[id], row[id])
  <1>1. Leads(events[id], row[id].first, Len(events[id]), row[id].state)
    BY DEF TrailInv, StateTrail, Gapless, Registered
  <1> QED BY <1>1 DEF Leads, Recorded, Moves

\* A step of the processes leaves what a reader has read fitting the store.
LEMMA WorldKeepsReader ==
  ASSUME RegistryInv, TrailInv, ServerInv, Grown, UNCHANGED reader
  PROVE  ServerInv'
  <1> DEFINE req == reader.req
  <1>1. req \in Requests
    BY DEF ServerInv
  <1>2. Registered \subseteq Registered' /\ Settled \subseteq Settled'
    BY DEF Grown, Registered, Settled
  <1>3. IsFiniteSet(Registered')
    <2>1. PICK i : \A id \in Ids \ {i} : row'[id] = row[id]
      BY DEF Grown
    <2>2. Registered' \in SUBSET (Registered \cup {i})
      BY <2>1 DEF Registered
    <2>3. IsFiniteSet(Registered \cup {i})
      BY FS_AddElement DEF ServerInv
    <2> QED BY <2>2, <2>3, FS_Subset
  <1>4. /\ Cardinality(Registered) <= Cardinality(Registered')
        /\ Cardinality(Settled) <= Cardinality(Settled')
        /\ Cardinality(Registered) \in Nat /\ Cardinality(Registered') \in Nat
        /\ Cardinality(Settled) \in Nat /\ Cardinality(Settled') \in Nat
    <2>1. Settled' \in SUBSET Registered'
      BY DEF Settled
    <2>2. IsFiniteSet(Settled')
      BY <1>3, <2>1, FS_Subset
    <2> QED BY <1>2, <1>3, <2>2, FS_Subset, FS_CardinalityType
  <1>5. StatusFits(req)'
    BY <1>1, <1>4 DEF ServerInv, StatusFits, Requests
  <1>6. DiagnosisFits(req)'
    <2>1. DiagnosisFits(req)
      BY DEF ServerInv
    <2>2. CASE req.pc \in {"diagnose", "verify", "diagnosed"}
      <3>1. /\ req.id \in Registered /\ req.id \in Ids /\ row'[req.id].def = row[req.id].def
            /\ row'[req.id].first = row[req.id].first /\ Extends(events[req.id], events'[req.id])
        BY <2>1, <2>2 DEF DiagnosisFits, Grown, Registered
      <3>2. req.id \in Registered'
        BY <1>2, <3>1
      <3>3. events[req.id] \in Seq(EventType) /\ Len(events[req.id]) \in Nat
        BY <3>1 DEF RegistryInv, TypeOK
      <3>4. events'[req.id] \in Seq(EventType) \/ Len(events'[req.id]) >= Len(events[req.id])
        BY <3>1 DEF Extends
      <3>5. ASSUME req.pc = "diagnose" PROVE Recorded(req.state, events'[req.id], row'[req.id])
        <4>1. Recorded(req.state, events[req.id], row[req.id])
          BY <2>1, <3>5 DEF DiagnosisFits
        <4> QED BY <3>1, <3>3, <4>1 DEF Recorded, Extends
      <3>6. req.pc = "verify" => Len(req.log) <= Len(events'[req.id])
        BY <1>1, <2>1, <3>1, <3>3 DEF DiagnosisFits, Extends, Requests
      <3> QED BY <2>1, <2>2, <3>1, <3>2, <3>5, <3>6 DEF DiagnosisFits, Recorded
    <2>3. CASE req.pc \notin {"diagnose", "verify", "diagnosed"}
      BY <2>1, <2>3 DEF DiagnosisFits
    <2> QED BY <2>2, <2>3
  <1> QED BY <1>3, <1>5, <1>6 DEF ServerInv

\* Serving req.
LEMMA ServeFits ==
  ASSUME ServerInv, NEW req \in Requests, Serve(req), UNCHANGED <<row, events>>,
         StatusFits(req), DiagnosisFits(req)
  PROVE  ServerInv'
  <1>1. reader' \in [session : {"new", "seen", "ready"}, req : Requests] /\ reader'.req = req
    BY DEF ServerInv, Serve
  <1> QED BY <1>1 DEF ServerInv, StatusFits, DiagnosisFits, Registered, Settled, Recorded

\* The reader's own steps.
LEMMA ReaderKeeps ==
  ASSUME RegistryInv, TrailInv, ServerInv, ReaderNext
  PROVE  ServerInv'
  <1> DEFINE old == reader.req
  <1>0. old \in Requests /\ StatusFits(old) /\ DiagnosisFits(old) /\ UNCHANGED <<row, events>>
    BY ReaderIsAside DEF ServerInv
  <1>1. NoRequest \in Requests /\ NoRequest.pc = "idle"
    BY DEF NoRequest, Requests
  <1>2. ASSUME NEW req \in Requests, Serve(req), req.pc \in {"idle", "reply"} PROVE ServerInv'
    BY <1>0, <1>2, ServeFits DEF StatusFits, DiagnosisFits
  <1>3. CASE Initialize \/ Initialized
    <2>1. reader' \in [session : {"new", "seen", "ready"}, req : Requests] /\ reader'.req = old
      BY <1>3 DEF ServerInv, Initialize, Initialized
    <2> QED BY <1>0, <2>1 DEF ServerInv, StatusFits, DiagnosisFits, Registered, Settled, Recorded
  <1>4. CASE Reply
    BY <1>1, <1>2, <1>4 DEF Reply
  <1>5. CASE GetStatus
    <2> DEFINE req == [NoRequest EXCEPT !.pc = "status", !.count = Cardinality(Registered)]
    <2>1. Cardinality(Registered) \in Nat
      BY StatusCounts DEF ServerInv
    <2>2. req \in Requests /\ req.pc = "status" /\ req.count = Cardinality(Registered)
      BY <1>1, <2>1 DEF Requests
    <2>3. Serve(req)
      BY <1>5 DEF GetStatus, CallTool, Ask
    <2> HIDE DEF req
    <2> QED BY <1>0, <2>1, <2>2, <2>3, ServeFits DEF StatusFits, DiagnosisFits
  <1>6. CASE StatusUnresolved
    <2> DEFINE req == [old EXCEPT !.pc = "counted", !.rest = Cardinality(Unresolved)]
    <2>1. /\ Cardinality(Registered) \in Nat /\ Cardinality(Unresolved) \in Nat
          /\ Cardinality(Settled) = Cardinality(Registered) - Cardinality(Unresolved)
      BY StatusCounts DEF ServerInv
    <2>2. /\ req \in Requests /\ req.pc = "counted" /\ req.count = old.count
          /\ req.rest = Cardinality(Unresolved)
      BY <1>0, <2>1 DEF Requests
    <2>3. Serve(req) /\ old.pc = "status"
      BY <1>6 DEF StatusUnresolved, Reading
    <2> HIDE DEF req
    <2>4. old.count \in Nat /\ old.count <= Cardinality(Registered)
      BY <1>0, <2>3 DEF StatusFits, Requests
    <2>5. StatusFits(req) /\ DiagnosisFits(req)
      BY <2>1, <2>2, <2>4 DEF StatusFits, DiagnosisFits
    <2> QED BY <1>0, <2>2, <2>3, <2>5, ServeFits
  <1>7. ASSUME NEW from \in SUBSET Ids, NEW limit, ListRows(from, limit) PROVE ServerInv'
    <2>1. PICK some \in SUBSET from : Serve([NoRequest EXCEPT !.pc = "reply", !.shown = some])
      BY <1>7 DEF ListRows, CallTool, Ask
    <2> DEFINE req == [NoRequest EXCEPT !.pc = "reply", !.shown = some]
    <2>2. req \in Requests /\ req.pc = "reply"
      BY <1>1 DEF Requests
    <2> HIDE DEF req
    <2> QED BY <1>2, <2>1, <2>2 DEF req
  <1>8. ASSUME NEW limit \in Limits, EvidenceRead(limit) PROVE ServerInv'
    <2> DEFINE log == events[old.id]
               n == IF Len(log) < limit THEN Len(log) ELSE limit
               req == [old EXCEPT !.pc = "reply", !.log = SubSeq(log, 1, n)]
    <2>1. Serve(req) /\ old.pc = "evidence"
      BY <1>8 DEF EvidenceRead, Reading
    <2>2. log \in Seq(EventType)
      BY <1>0, <2>1 DEF DiagnosisFits, RegistryInv, TypeOK
    <2>3. SubSeq(log, 1, n) \in Seq(EventType)
      BY <2>2, ServerAssumption
    <2> HIDE DEF n, log
    <2>4. req \in Requests /\ req.pc = "reply"
      BY <1>0, <2>3 DEF Requests
    <2> HIDE DEF req
    <2> QED BY <1>2, <2>1, <2>4
  <1>9. ASSUME NEW id \in Ids, GetPathway(id) \/ GetEvidence(id) PROVE ServerInv'
    <2>1. row[id].state \in PathwayState \cup {None}
      BY DEF RegistryInv, TypeOK, Rows, NoRow
    <2>2. CASE GetPathway(id)
      <3> DEFINE found == id \in Registered
                 req == [NoRequest EXCEPT !.pc = "reply", !.id = id, !.found = found,
                                          !.state = row[id].state]
      <3>3. found \in BOOLEAN
        OBVIOUS
      <3> HIDE DEF found
      <3>1. req \in Requests /\ req.pc = "reply"
        BY <1>1, <2>1, <3>3 DEF Requests
      <3>2. Serve(req)
        BY <2>2 DEF GetPathway, CallTool, Ask, found
      <3> HIDE DEF req
      <3> QED BY <1>2, <3>1, <3>2
    <2>3. CASE GetEvidence(id)
      <3> DEFINE found == id \in Registered
                 next == IF id \in Registered THEN "evidence" ELSE "reply"
                 req == [NoRequest EXCEPT !.pc = next, !.id = id, !.found = found]
      <3>3. found \in BOOLEAN /\ next \in {"evidence", "reply"}
        OBVIOUS
      <3> HIDE DEF found, next
      <3>1. req \in Requests /\ req.pc \in {"evidence", "reply"} /\ req.id \in Ids
        BY <1>1, <3>3 DEF Requests
      <3>2. Serve(req)
        BY <2>3 DEF GetEvidence, CallTool, Ask, found, next
      <3> HIDE DEF req
      <3> QED BY <1>0, <3>1, <3>2, ServeFits DEF StatusFits, DiagnosisFits
    <2> QED BY <1>9, <2>2, <2>3
  <1>10. ASSUME NEW id \in Ids, Diagnose(id) PROVE ServerInv'
    <2> DEFINE req == [NoRequest EXCEPT !.pc = "diagnose", !.id = id, !.state = row[id].state]
    <2>1. id \in Registered /\ row[id] \in Rows /\ row[id] # NoRow
      BY <1>10 DEF Diagnose, RegistryInv, TypeOK, Registered
    <2>2. /\ req \in Requests /\ req.pc = "diagnose" /\ req.id = id /\ req.state = row[id].state
      BY <1>1, <2>1 DEF Requests, Rows
    <2>3. Serve(req)
      BY <1>10 DEF Diagnose, Ask
    <2> HIDE DEF req
    <2>4. Recorded(row[id].state, events[id], row[id]) /\ Reached(row[id].state, row[id].def)
      BY <2>1, StateRecorded DEF RegistryInv, Founded
    <2>5. StatusFits(req) /\ DiagnosisFits(req)
      BY <2>1, <2>2, <2>4 DEF StatusFits, DiagnosisFits
    <2> QED BY <1>0, <2>2, <2>3, <2>5, ServeFits
  <1>11. ASSUME NEW id \in Ids, NEW tenant \in Tenants, TenantEvidence(tenant, id) PROVE ServerInv'
    <2> DEFINE req == [NoRequest EXCEPT !.pc = "all_evidence", !.id = id]
    <2>1. req \in Requests /\ req.pc = "all_evidence" /\ req.id = id
      BY <1>1 DEF Requests
    <2>2. Serve(req)
      BY <1>11 DEF TenantEvidence, Ask
    <2> HIDE DEF req
    <2> QED BY <1>0, <2>1, <2>2, ServeFits DEF StatusFits, DiagnosisFits
  <1>12. CASE AllEvidenceRead
    <2> DEFINE req == [old EXCEPT !.pc = "reply", !.log = events[old.id]]
    <2>1. Serve(req) /\ old.pc = "all_evidence"
      BY <1>12 DEF AllEvidenceRead, Reading
    <2>2. events[old.id] \in Seq(EventType)
      BY <1>0, <2>1 DEF DiagnosisFits, RegistryInv, TypeOK
    <2>3. req \in Requests /\ req.pc = "reply"
      BY <1>0, <2>2 DEF Requests
    <2> HIDE DEF req
    <2> QED BY <1>2, <2>1, <2>3
  <1>13. CASE DiagnoseEvents
    <2> DEFINE req == [old EXCEPT !.pc = "verify", !.log = events[old.id]]
    <2>1. Serve(req) /\ old.pc = "diagnose"
      BY <1>13 DEF DiagnoseEvents, Reading
    <2>2. old.id \in Registered /\ events[old.id] \in Seq(EventType) /\ Len(events[old.id]) \in Nat
      BY <1>0, <2>1 DEF DiagnosisFits, RegistryInv, TypeOK, Registered
    <2>3. /\ req \in Requests /\ req.pc = "verify" /\ req.id = old.id /\ req.state = old.state
          /\ req.log = events[old.id]
      BY <1>0, <2>2 DEF Requests
    <2> HIDE DEF req
    <2>4. StatusFits(req) /\ DiagnosisFits(req)
      BY <1>0, <2>1, <2>2, <2>3 DEF StatusFits, DiagnosisFits
    <2> QED BY <1>0, <2>1, <2>3, <2>4, ServeFits
  <1>14. CASE DiagnoseVerify
    <2> DEFINE req == [old EXCEPT !.pc = "diagnosed", !.total = Len(events[old.id])]
    <2>1. Serve(req) /\ old.pc = "verify"
      BY <1>14 DEF DiagnoseVerify, Reading
    <2>2. old.id \in Registered /\ Len(events[old.id]) \in Nat
      BY <1>0, <2>1 DEF DiagnosisFits, RegistryInv, TypeOK, Registered
    <2>3. /\ req \in Requests /\ req.pc = "diagnosed" /\ req.id = old.id /\ req.state = old.state
          /\ req.log = old.log /\ req.total = Len(events[old.id])
      BY <1>0, <2>2 DEF Requests
    <2> HIDE DEF req
    <2>4. StatusFits(req) /\ DiagnosisFits(req)
      BY <1>0, <2>1, <2>2, <2>3 DEF StatusFits, DiagnosisFits
    <2> QED BY <1>0, <2>1, <2>3, <2>4, ServeFits
  <1>15. Registered \in SUBSET Ids /\ Unresolved \in SUBSET Ids
    BY DEF Registered, Unresolved
  <1> QED BY <1>3, <1>4, <1>5, <1>6, <1>7, <1>8, <1>9, <1>10, <1>11, <1>12, <1>13, <1>14, <1>15 DEF ReaderNext

LEMMA ServerInvariant == ServerSpec => []ServerInv
  <1>1. ServerInit => ServerInv
    <2> SUFFICES ASSUME ServerInit PROVE ServerInv OBVIOUS
    <2>1. Registered = {}
      BY DEF ServerInit, Init, Registered
    <2>2. reader = [session |-> "new", req |-> NoRequest] /\ NoRequest \in Requests
          /\ NoRequest.pc = "idle"
      BY DEF ServerInit, NoRequest, Requests
    <2> QED BY <2>1, <2>2, FS_EmptySet DEF ServerInv, StatusFits, DiagnosisFits
  <1>2. RegistryInv /\ TrailInv /\ ServerInv /\ [ServerNext]_serverVars => ServerInv'
    <2> SUFFICES ASSUME RegistryInv, TrailInv, ServerInv, [ServerNext]_serverVars PROVE ServerInv'
      OBVIOUS
    <2>1. CASE [Next]_vars /\ UNCHANGED reader
      BY <2>1, WorldGrows, WorldKeepsReader
    <2>2. CASE ReaderNext
      BY <2>2, ReaderKeeps
    <2> QED BY <2>1, <2>2 DEF ServerNext, serverVars
  <1> QED BY <1>1, <1>2, ServedInvariants, PTL DEF ServerSpec

\* rpr.get_status never makes a pathway that still needs someone look settled,
\* although other processes register and move pathways between its two counts.
THEOREM StatusHidesNothingHolds == ServerSpec => []StatusHidesNothing
  <1>1. ServerInv => StatusHidesNothing
    BY DEF ServerInv, StatusFits, StatusHidesNothing, Reading, Settled
  <1> QED BY <1>1, ServerInvariant, PTL

\* In every state that is reached, the authority a diagnosis hands over to exists and
\* can act, when the definition is complete and its approval authority not blank.
LEMMA AuthorityCanAct ==
  ASSUME NEW d \in Definitions, NEW s, Reached(s, d), d.features.approval # "blank"
  PROVE  /\ NextAuthority(d, s) \in Actors
         /\ s \notin TERMINAL_STATES => MayAct(d, s, NextAuthority(d, s))
  <1> DEFINE roles == RolesOf(d)
             who == NextAuthority(d, s)
  <1>1. /\ d.features.approval = "none" \/ d.features.approval = "named"
        /\ d.features.approval = "named" => Definition["approval_authority"] \in Actors \ {NoActor}
    BY RegistryAssumption, DefinitionAssumption DEF Features, Roles
  <1>2. /\ \A role \in Roles \ {"approval_authority"} : roles[role] = Definition[role] /\ roles[role] \in Actors
        /\ d.features.approval = "named" => roles["approval_authority"] = Definition["approval_authority"]
    BY DefinitionAssumption DEF RolesOf, Roles
  <1> HIDE DEF roles
  <1>3. ASSUME NEW t \in PathwayState \ {"running", "aborted"}, t \in ALLOWED_TRANSITIONS[s],
               s # "write_status_unknown", NEW a,
               a \in Rules(d)!required_authority(t)
        PROVE  MayAct(d, s, a)
    BY <1>3 DEF MayAct, Permitted, ensure_transition, Rules!authorize_transition
  <1>4. CASE s = "approved"
    <2>1. who = roles["execution_actor"]
      BY <1>4 DEF NextAuthority, roles
    <2> QED BY <1>2, <1>4, <2>1 DEF MayAct, authorize_execution_access, Roles
  <1>5. CASE s = "held"
    <2>1. who = roles["stop_authority"]
      BY <1>5 DEF NextAuthority, roles
    <2>2. who \in Rules(d)!required_authority("human_gate")
      BY <2>1 DEF Rules!required_authority, roles
    <2>3. "human_gate" \in ALLOWED_TRANSITIONS[s] /\ "human_gate" \in PathwayState
      BY <1>5 DEF ALLOWED_TRANSITIONS, PathwayState
    <2> QED BY <1>2, <1>3, <1>5, <2>1, <2>2, <2>3 DEF Roles
  <1>6. CASE s = "denied"
    <2>1. who = roles["decision_owner"]
      BY <1>6 DEF NextAuthority, roles
    <2> QED BY <1>2, <1>6, <2>1 DEF Roles, TERMINAL_STATES
  <1>7. CASE s \in {"awaiting_approval", "human_gate"} /\ d.features.approval = "named"
    <2>1. who = roles["approval_authority"]
      BY <1>7 DEF NextAuthority, roles
    <2>2. who \in Rules(d)!required_authority("approved") /\ who \in Actors
      BY <1>1, <1>2, <1>7, <2>1 DEF Rules!required_authority, roles
    <2>3. "approved" \in ALLOWED_TRANSITIONS[s] /\ "approved" \in PathwayState
      BY <1>7 DEF ALLOWED_TRANSITIONS, PathwayState
    <2> QED BY <1>3, <1>7, <2>2, <2>3
  <1>8. CASE s = "human_gate" /\ d.features.approval = "none"
    <2>1. who = roles["decision_owner"] /\ who \in Actors
      BY <1>2, <1>8 DEF NextAuthority, roles, Roles
    <2>2. who \in Rules(d)!required_authority("denied")
      BY <2>1 DEF Rules!required_authority
    <2>3. "denied" \in ALLOWED_TRANSITIONS[s] /\ "denied" \in PathwayState
      BY <1>8 DEF ALLOWED_TRANSITIONS, PathwayState
    <2> QED BY <1>3, <1>8, <2>1, <2>2, <2>3
  <1> QED BY <1>1, <1>4, <1>5, <1>6, <1>7, <1>8 DEF Reached

\* A diagnosis fits together although it reads the store three times while other
\* processes go on (diagnose_pathway, _next_step).
THEOREM DiagnosisIsSoundHolds == ServerSpec => []DiagnosisIsSound
  <1>1. RegistryInv /\ ServerInv => DiagnosisIsSound
    <2> SUFFICES ASSUME RegistryInv, ServerInv, Reading("diagnosed")
                 PROVE  LET req == reader.req
                            d   == row[req.id].def
                        IN  /\ Recorded(req.state, req.log, row[req.id])
                            /\ Len(req.log) <= req.total
                            /\ d.features.complete /\ d.features.approval # "blank" =>
                                 /\ NextAuthority(d, req.state) \in Actors
                                 /\ req.state \notin TERMINAL_STATES =>
                                      MayAct(d, req.state, NextAuthority(d, req.state))
      BY DEF DiagnosisIsSound, Recorded
    <2> DEFINE req == reader.req
    <2>1. /\ req.id \in Registered /\ Reached(req.state, row[req.id].def)
          /\ Recorded(req.state, req.log, row[req.id]) /\ Len(req.log) <= req.total
      BY DEF ServerInv, DiagnosisFits, Reading
    <2>2. row[req.id].def \in Definitions
      BY <2>1 DEF RegistryInv, TypeOK, Registered, Rows
    <2> QED BY <2>1, <2>2, AuthorityCanAct
  <1> QED BY <1>1, ServedInvariants, ServerInvariant, PTL

=============================================================================
