-------------------------- MODULE PathwayRegistry --------------------------
(***************************************************************************)
(* Registration, generic transitions and the evidence chain: several       *)
(* processes, with TenantScopedRuntimes (tenant.py) for some tenants and a *)
(* plain runtime (runtime.py), share the tenant registry and the pathway   *)
(* store (storage.py).  A step is one statement or transaction of a database, or *)
(* one call of the evaluator.  The hash of an event is modelled by its     *)
(* position in the pathway's chain: hashes of different events differ.     *)
(***************************************************************************)
EXTENDS PathwayStates, Admission, Principals, Sequences, FiniteSets

CONSTANTS
  Procs,          \* processes
  Ids,            \* pathway ids
  Keys,           \* idempotency keys
  BlankKey,       \* an idempotency key that is empty
  Tenants,
  Scopes,         \* the tenants that runtimes are scoped to; None for a plain runtime
  Definitions,    \* the definitions callers register
  Answers,        \* what the evaluator answers
  ManualTargets,  \* the targets callers pass to transition
  Credentials,    \* what callers of transition_as_principal present
  Times,          \* when they may present it
  MaxCalls,       \* bound on the operations callers begin
  MaxCrashes,     \* bound on crashes
  None

ASSUME RegistryAssumption ==
  /\ BlankKey \notin Keys
  /\ Scopes \subseteq Tenants \cup {None}
  /\ Definitions \subseteq [id : Ids, tenant : Tenants \cup {None}, features : Features]
  /\ \A d \in Definitions : d.features.approval = "named" => Definition["approval_authority"] # NoActor
  /\ Answers \subseteq RpeAnswers
  /\ ManualTargets \subseteq PathwayState
  /\ \A c \in Credentials : Bound(c) => actor_for(c) \in Actors
  /\ MaxCalls \in Nat /\ MaxCrashes \in Nat
  /\ None \notin PathwayState \cup RpeAnswers
  /\ None \notin Tenants \cup Actors /\ None \notin Definitions

VARIABLES
  owner,    \* tenant_pathways: id -> tenant
  row,      \* pathways: id -> row
  events,   \* evidence_events: id -> the pathway's events in sequence
  call,     \* what each process has in memory
  calls,    \* operations begun so far
  crashes

vars == <<owner, row, events, call, calls, crashes>>

\* The authority rules for a definition: only its approval authority varies.
RolesOf(d) == [Definition EXCEPT !["approval_authority"] =
                 IF d.features.approval = "named" THEN @ ELSE NoActor]
Rules(d) == INSTANCE PathwayStates WITH Definition <- RolesOf(d)

\* A row; how it began (the evaluator's answer, the first state) is history the
\* properties refer to.
NoRow == [def |-> None, key |-> None, state |-> None, answer |-> None, first |-> None]

Kinds == {"pathway_registered", "state_transition", "principal_authorized_transition"}

Idle == [pc |-> "idle", scope |-> None, def |-> None, key |-> None, answer |-> None, id |-> None,
         goal |-> None, actor |-> None, snap |-> None, prev |-> 0, kind |-> None]

Labels == {"idle", "claim", "evaluate", "create", "record_read", "record", "read", "hash", "commit"}

\* An operation in progress: the scope of its runtime, what it registers and what
\* the evaluator answered, what it moves where for whom, and what it read.
CallType ==
  [pc : Labels, scope : Tenants \cup {None}, def : Definitions \cup {None},
   key : Keys \cup {BlankKey, None}, answer : RpeAnswers \cup {None}, id : Ids \cup {None},
   goal : PathwayState \cup {None}, actor : Actors \cup {None}, snap : PathwayState \cup {None},
   prev : Nat, kind : Kinds \cup {None}]

Rows == [def : Definitions, key : Keys, state : PathwayState, answer : RpeAnswers,
         first : PathwayState]

EventType ==
  [kind : Kinds, prev : Nat, from : PathwayState, to : PathwayState,
   actor : Actors \cup {None}, by : Tenants \cup {None}]

TypeOK ==
  /\ owner \in [Ids -> Tenants \cup {None}]
  /\ row \in [Ids -> Rows \cup {NoRow}]
  /\ events \in [Ids -> Seq(EventType)]
  /\ call \in [Procs -> CallType]
  /\ calls \in Nat /\ crashes \in Nat

Init ==
  /\ owner = [i \in Ids |-> None]
  /\ row = [i \in Ids |-> NoRow]
  /\ events = [i \in Ids |-> <<>>]
  /\ call = [p \in Procs |-> Idle]
  /\ calls = 0 /\ crashes = 0

At(p, label)   == call[p].pc = label
Become(p, c)   == call' = [call EXCEPT ![p] = c]
Goto(p, label) == Become(p, [call[p] EXCEPT !.pc = label])
Return(p)      == Become(p, Idle)

\* An idle process takes up a new operation.
Begin(p, c) ==
  /\ calls' = calls + 1
  /\ Become(p, c)
  /\ UNCHANGED <<owner, row, events, crashes>>

\* The event process p builds on the latest hash it read, and its insertion.
Event(p, kind) ==
  [kind |-> kind, prev |-> call[p].prev, from |-> call[p].snap, to |-> call[p].goal,
   actor |-> call[p].actor, by |-> call[p].scope]
append_event(p, kind) == events' = [events EXCEPT ![call[p].id] = Append(@, Event(p, kind))]

\* Mutant: the oldest event of the chain instead of the latest one.
oldest_event_hash(id) == IF events[id] = <<>> THEN 0 ELSE 1

latest_event_hash(id) == Len(events[id])

-----------------------------------------------------------------------------
\* register

\* TenantScopedRuntime.register refuses a definition that names another tenant;
\* the plain runtime has no registry to claim from.
Register(p, tenant, d, key) ==
  /\ tenant # None => d.tenant \in {None, tenant}
  /\ Begin(p, [Idle EXCEPT !.pc = IF tenant = None THEN "evaluate" ELSE "claim",
                           !.scope = tenant, !.def = d, !.key = key, !.id = d.id])

\* Mutant: the latest claim wins.
ClaimBlindly(p) ==
  /\ At(p, "claim")
  /\ owner' = [owner EXCEPT ![call[p].id] = call[p].scope]
  /\ Goto(p, "evaluate")
  /\ UNCHANGED <<row, events, calls, crashes>>

\* SQLiteTenantRegistry.claim
Claim(p) ==
  /\ At(p, "claim")
  /\ IF owner[call[p].id] \in {None, call[p].scope}
     THEN /\ owner' = [owner EXCEPT ![call[p].id] = call[p].scope]
          /\ Goto(p, "evaluate")
     ELSE Return(p) /\ UNCHANGED owner
  /\ UNCHANGED <<row, events, calls, crashes>>

\* Inspection, the evaluator's answer and the state they lead to.
Evaluate(p) ==
  /\ At(p, "evaluate")
  /\ \E answer \in Answers :
       IF answer = "raises" THEN Return(p)
       ELSE Become(p, [call[p] EXCEPT !.pc = "create", !.answer = answer,
                         !.snap = first_state(call[p].def.features, answer)])
  /\ UNCHANGED <<owner, row, events, calls, crashes>>

\* create_or_replay_pathway inserts when neither the key nor the id is taken;
\* otherwise it replays the row of the key, or raises.
KeyTaken(key) == \E i \in Ids : row[i].key = key

Create(p) ==
  LET c == call[p]
  IN  /\ At(p, "create")
      /\ IF c.key = BlankKey \/ KeyTaken(c.key) \/ row[c.id] # NoRow
         THEN Return(p) /\ UNCHANGED row
         ELSE /\ row' = [row EXCEPT ![c.id] = [def |-> c.def, key |-> c.key, state |-> c.snap,
                                               answer |-> c.answer, first |-> c.snap]]
              /\ Become(p, [c EXCEPT !.pc = "record_read", !.kind = "pathway_registered", !.goal = c.snap])
      /\ UNCHANGED <<owner, events, calls, crashes>>

\* Mutant: the registration of a pathway that has a history already is not recorded.
RecordReadIfFirst(p) ==
  LET c == call[p]
  IN  /\ At(p, "record_read")
      /\ IF c.kind = "pathway_registered" /\ events[c.id] # <<>>
         THEN Return(p)
         ELSE Become(p, [c EXCEPT !.pc = "record", !.prev = latest_event_hash(c.id)])
      /\ UNCHANGED <<owner, row, events, calls, crashes>>

\* _record: read the latest hash, then append in a transaction of its own.
RecordRead(p) ==
  /\ At(p, "record_read")
  /\ Become(p, [call[p] EXCEPT !.pc = "record", !.prev = latest_event_hash(call[p].id)])
  /\ UNCHANGED <<owner, row, events, calls, crashes>>

Record(p) ==
  /\ At(p, "record")
  /\ append_event(p, call[p].kind)
  /\ Return(p)
  /\ UNCHANGED <<owner, row, calls, crashes>>

-----------------------------------------------------------------------------
\* transition and transition_as_principal

\* TenantScopedRuntime.transition calls registry.require first.
Transition(p, tenant, id, target, actor) ==
  /\ tenant # None => owner[id] = tenant
  /\ target # "running"
  /\ Begin(p, [Idle EXCEPT !.pc = "read", !.scope = tenant, !.id = id, !.goal = target, !.actor = actor])

\* Only the plain runtime offers it; the resolver and the binding yield an actor or
\* raise.
TransitionAsPrincipal(p, id, target, credential, now) ==
  /\ None \in Scopes
  /\ Resolves(credential, now) /\ Bound(credential)
  /\ target # "running"
  /\ Begin(p, [Idle EXCEPT !.pc = "read", !.id = id, !.goal = target,
                           !.actor = actor_for(credential),
                           !.kind = "principal_authorized_transition"])

\* Mutant: only the table is consulted.
PermittedByTable(d, current, target, actor) == ensure_transition(current, target)

Permitted(d, current, target, actor) ==
  ensure_transition(current, target) /\ Rules(d)!authorize_transition(current, target, actor)

TransitionRead(p) ==
  LET r == row[call[p].id]
  IN  /\ At(p, "read")
      /\ IF r # NoRow /\ Permitted(r.def, r.state, call[p].goal, call[p].actor)
         THEN Become(p, [call[p] EXCEPT !.pc = "hash", !.snap = r.state])
         ELSE Return(p)
      /\ UNCHANGED <<owner, row, events, calls, crashes>>

TransitionHash(p) ==
  /\ At(p, "hash")
  /\ Become(p, [call[p] EXCEPT !.pc = "commit", !.prev = latest_event_hash(call[p].id)])
  /\ UNCHANGED <<owner, row, events, calls, crashes>>

\* Mutant: the row is updated whatever state it is in.
CommitBlindly(p) ==
  /\ At(p, "commit")
  /\ row' = [row EXCEPT ![call[p].id].state = call[p].goal]
  /\ append_event(p, "state_transition")
  /\ IF call[p].kind = None THEN Return(p) ELSE Goto(p, "record_read")
  /\ UNCHANGED <<owner, calls, crashes>>

\* Mutant: the principal's event is recorded although the race was lost.
CommitRecordsAnyway(p) ==
  LET c == call[p]
  IN  /\ At(p, "commit")
      /\ IF row[c.id].state = c.snap
         THEN row' = [row EXCEPT ![c.id].state = c.goal] /\ append_event(p, "state_transition")
         ELSE UNCHANGED <<row, events>>
      /\ IF c.kind = None THEN Return(p) ELSE Goto(p, "record_read")
      /\ UNCHANGED <<owner, calls, crashes>>

\* transition_with_event: the state and the event, or neither.
Commit(p) ==
  LET c == call[p]
  IN  /\ At(p, "commit")
      /\ IF row[c.id].state = c.snap
         THEN /\ row' = [row EXCEPT ![c.id].state = c.goal]
              /\ append_event(p, "state_transition")
              /\ IF c.kind = None THEN Return(p) ELSE Goto(p, "record_read")
         ELSE Return(p) /\ UNCHANGED <<row, events>>
      /\ UNCHANGED <<owner, calls, crashes>>

Crash(p) ==
  /\ ~ At(p, "idle")
  /\ crashes < MaxCrashes
  /\ crashes' = crashes + 1
  /\ Return(p)
  /\ UNCHANGED <<owner, row, events, calls>>

Next ==
  \E p \in Procs :
    \/ /\ calls < MaxCalls /\ At(p, "idle")
       /\ \/ \E tenant \in Scopes, d \in Definitions, key \in Keys \cup {BlankKey} :
               Register(p, tenant, d, key)
          \/ \E id \in Ids, target \in ManualTargets :
               \/ \E tenant \in Scopes, actor \in Actors : Transition(p, tenant, id, target, actor)
               \/ \E credential \in Credentials, now \in Times :
                    TransitionAsPrincipal(p, id, target, credential, now)
    \/ Claim(p) \/ Evaluate(p) \/ Create(p) \/ RecordRead(p) \/ Record(p)
    \/ TransitionRead(p) \/ TransitionHash(p) \/ Commit(p)
    \/ Crash(p)

Spec == Init /\ [][Next]_vars

-----------------------------------------------------------------------------
\* verify_chain accepts the evidence of every pathway: each event was built on
\* the one before it.
ChainVerifies == \A id \in Ids : \A i \in 1..Len(events[id]) : events[id][i].prev = i - 1

\* The positions of the transitions in a chain of events.
Moves(es) == {i \in 1..Len(es) : es[i].kind = "state_transition"}

\* The first n events of a chain lead from a first state to state s.
Leads(es, first, n, s) ==
  \/ s = first /\ \A i \in Moves(es) : i > n
  \/ \E i \in Moves(es) : i <= n /\ es[i].to = s /\ \A j \in Moves(es) : j <= n => j <= i

\* The transitions lead without a gap from the first state of a row to its own.
Gapless(es, r) ==
  /\ \A i \in Moves(es) : Leads(es, r.first, i - 1, es[i].from)
  /\ Leads(es, r.first, Len(es), r.state)

RegisteredOnce(es) ==
  \A i, j \in 1..Len(es) :
    es[i].kind = "pathway_registered" /\ es[j].kind = "pathway_registered" => i = j

\* The evidence tells one history of a pathway, however processes and crashes
\* interleave: its registration is recorded at most once, also when it is retried
\* (create_or_replay_pathway), and the transitions lead without a gap from the first
\* state to the stored one (transition_with_event).
StateTrail == \A id \in Ids : RegisteredOnce(events[id]) /\ Gapless(events[id], row[id])

\* The registration has its event; a process is to record one.
Announced(es) == \E i \in 1..Len(es) : es[i].kind = "pathway_registered"
Recording(c)  == c.pc \in {"record_read", "record"} /\ c.kind = "pathway_registered"

Unrecorded ==
  {id \in Ids : row[id] # NoRow /\ ~ Announced(events[id])
                /\ \A p \in Procs : Recording(call[p]) => call[p].id # id}

\* A stored pathway goes without the event of its registration only where a process
\* stopped between the insertion and the event, one pathway for each such stop, also
\* when others move the pathway meanwhile (register).  No retry makes up for it: it is
\* a replay and records nothing.
RegistrationsAreRecorded == Cardinality(Unrecorded) <= crashes

\* Whoever is recorded as having authorized a transition as a principal has made
\* it: for each such event there is a transition of its own by the same actor to the
\* same target, also when another process moves the pathway between the check and
\* the commit (transition_as_principal).
PrincipalMadeTheMove ==
  \A id \in Ids, a \in Actors, t \in ManualTargets :
    LET Of(kind) == {i \in 1..Len(events[id]) :
                       events[id][i].kind = kind /\ events[id][i].actor = a /\ events[id][i].to = t}
    IN  Cardinality(Of("principal_authorized_transition")) <= Cardinality(Of("state_transition"))

\* Whatever a tenant's runtime records belongs to a pathway that tenant owns, and
\* goes on owning (claim and require of the tenant registry).
TenantBoundary ==
  \A id \in Ids : \A i \in 1..Len(events[id]) : events[id][i].by \in {None, owner[id]}

\* A pathway that is APPROVED was approved by the approval authority its
\* definition names, unless no one needed to: a valid definition of a harmless
\* class without an approval authority, allowed by the evaluator.
ApprovalWasGiven ==
  \A id \in Ids :
    LET r == row[id] f == r.def.features
    IN  r.state = "approved" =>
          IF Moves(events[id]) = {}
          THEN /\ r.answer = "allow"
               /\ f.approval = "none"
               /\ f.class \in {"observe_only", "suggest_only", "emergency_stop"}
               /\ f.trust # "adversarial"
               /\ ~ Invalid(f) /\ f.route # "reevaluate"
          ELSE /\ f.approval = "named"
               /\ \E i \in Moves(events[id]) :
                    /\ \A j \in Moves(events[id]) : j <= i
                    /\ events[id][i].actor = Definition["approval_authority"]

\* A pathway starts at a Human Gate only when the evaluator asked for a human or
\* the definition is a valid high-impact one; trouble with the evaluator, an
\* invalid route or an adversarial environment holds it instead.
NoFalseEscalation ==
  \A id \in Ids :
    LET f == row[id].def.features
    IN  row[id].first = "human_gate" =>
          \/ row[id].answer = "human_gate"
          \/ /\ f.class = "high_impact" /\ f.approval = "named" /\ f.returns /\ f.separated
             /\ f.complete /\ f.route \in {"none", "sound", "human"} /\ f.trust # "adversarial"

=============================================================================
