--------------------------- MODULE ReadOnlyServer ---------------------------
(***************************************************************************)
(* Readers of the pathway store beside the processes of PathwayRegistry:   *)
(* the tools of ReadOnlyRprMcpServer (mcp_server.py, mcp_read_model.py),   *)
(* diagnose_pathway (diagnostics.py) and TenantScopedRuntime.evidence.     *)
(* A reader holds no transaction over its statements: each one sees the    *)
(* store as it is at that moment.                                          *)
(***************************************************************************)
EXTENDS PathwayRegistry

CONSTANT Limits  \* the limits clients pass

ASSUME ServerAssumption == Limits \subseteq Nat \ {0}

VARIABLE reader  \* the session, and what the request in progress has read

serverVars == <<vars, reader>>

\* A request: the pathway it is about and whether that exists, the state, the counts,
\* the pathways and the events read so far.
NoRequest == [pc |-> "idle", id |-> None, found |-> TRUE, state |-> None, count |-> 0, rest |-> 0,
              shown |-> {}, log |-> <<>>, total |-> 0]

ServerInit == Init /\ reader = [session |-> "new", req |-> NoRequest]

Reading(pc) == reader.req.pc = pc
Serve(req)  == reader' = [reader EXCEPT !.req = req]
Reads       == UNCHANGED vars

\* A request counts like any other call.
Ask(req) ==
  /\ Reading("idle") /\ calls < MaxCalls
  /\ calls' = calls + 1
  /\ Serve(req)
  /\ UNCHANGED <<owner, row, events, call, crashes>>

-----------------------------------------------------------------------------
(* The session: initialize with the supported version, then the             *)
(* notification; every other method is refused before it.                   *)

\* initialize_seen, then initialized; a second initialize changes nothing.
Initialize ==
  /\ Reading("idle") /\ reader.session = "new"
  /\ reader' = [reader EXCEPT !.session = "seen"]
  /\ Reads

Initialized ==
  /\ Reading("idle") /\ reader.session = "seen"
  /\ reader' = [reader EXCEPT !.session = "ready"]
  /\ Reads

\* tools/call with arguments that _require_keys accepts.
CallTool(req) == reader.session = "ready" /\ Ask(req)

-----------------------------------------------------------------------------
(* The tools                                                                *)

Registered == {id \in Ids : row[id] # NoRow}

\* Mutant: a held pathway counts as settled.
UnresolvedButHeld == {id \in Registered : row[id].state \notin {"completed", "denied", "aborted", "held"}}

\* _TERMINAL_STATES of the read model, kept apart from the state machine's.
Unresolved == {id \in Registered : row[id].state \notin {"completed", "denied", "aborted"}}

\* rpr.get_status: two counts, in two statements.
GetStatus == CallTool([NoRequest EXCEPT !.pc = "status", !.count = Cardinality(Registered)])

StatusUnresolved ==
  /\ Reading("status")
  /\ Serve([reader.req EXCEPT !.pc = "counted", !.rest = Cardinality(Unresolved)])
  /\ Reads

\* rpr.list_pathways and rpr.list_unresolved: at most limit rows, the oldest or the
\* least recently changed ones.
ListRows(from, limit) ==
  \E some \in SUBSET from :
    /\ Cardinality(some) = IF Cardinality(from) < limit THEN Cardinality(from) ELSE limit
    /\ CallTool([NoRequest EXCEPT !.pc = "reply", !.shown = some])

\* rpr.get_pathway and rpr.get_route_visibility read one row.
GetPathway(id) ==
  CallTool([NoRequest EXCEPT !.pc = "reply", !.id = id, !.found = id \in Registered,
                             !.state = row[id].state])

\* rpr.get_evidence looks for the row first; a tenant's evidence for its owner.
GetEvidence(id) ==
  CallTool([NoRequest EXCEPT !.pc = IF id \in Registered THEN "evidence" ELSE "reply",
                             !.id = id, !.found = id \in Registered])

TenantEvidence(tenant, id) ==
  /\ owner[id] = tenant
  /\ Ask([NoRequest EXCEPT !.pc = "all_evidence", !.id = id])

\* The oldest events come first, so a limit cuts the latest ones off.
EvidenceRead(limit) ==
  /\ Reading("evidence")
  /\ LET log == events[reader.req.id]
     IN  Serve([reader.req EXCEPT !.pc = "reply",
                  !.log = SubSeq(log, 1, IF Len(log) < limit THEN Len(log) ELSE limit)])
  /\ Reads

AllEvidenceRead ==
  /\ Reading("all_evidence")
  /\ Serve([reader.req EXCEPT !.pc = "reply", !.log = events[reader.req.id]])
  /\ Reads

-----------------------------------------------------------------------------
(* diagnose_pathway                                                         *)

\* _next_step: the authority a handoff names for a state; a blank approval authority
\* is handed over to as it is.
NextAuthority(d, state) ==
  LET role == RolesOf(d)
  IN  CASE state \in {"proposed", "denied"}                -> role["decision_owner"]
        [] state = "awaiting_approval"                     -> role["approval_authority"]
        [] state \in {"approved", "running"}               -> role["execution_actor"]
        [] state \in {"held", "stopped"}                   -> role["stop_authority"]
        [] state = "human_gate"                            ->
             role[IF d.features.approval = "none" THEN "decision_owner" ELSE "approval_authority"]
        [] state \in {"partially_completed", "aborted"}    -> role["residual_owner"]
        [] state \in {"write_status_unknown", "completed"} -> role["evidence_owner"]
        [] state = "repair_required"                       -> role["repair_owner"]
        [] state = "ready_to_resume"                       -> role["resume_authority"]

\* The state, then the events, then the events once more to verify the chain.
Diagnose(id) ==
  /\ id \in Registered
  /\ Ask([NoRequest EXCEPT !.pc = "diagnose", !.id = id, !.state = row[id].state])

DiagnoseEvents ==
  /\ Reading("diagnose")
  /\ Serve([reader.req EXCEPT !.pc = "verify", !.log = events[reader.req.id]])
  /\ Reads

\* Mutant: the state is refreshed last.
DiagnoseAfresh ==
  /\ Reading("verify")
  /\ Serve([reader.req EXCEPT !.pc = "diagnosed", !.total = Len(events[reader.req.id]),
                              !.state = row[reader.req.id].state])
  /\ Reads

DiagnoseVerify ==
  /\ Reading("verify")
  /\ Serve([reader.req EXCEPT !.pc = "diagnosed", !.total = Len(events[reader.req.id])])
  /\ Reads

-----------------------------------------------------------------------------
Reply ==
  /\ reader.req.pc \in {"reply", "counted", "diagnosed"}
  /\ Serve(NoRequest)
  /\ Reads

ReaderNext ==
  \/ Initialize \/ Initialized \/ Reply
  \/ GetStatus \/ StatusUnresolved
  \/ \E limit \in Limits : ListRows(Registered, limit) \/ ListRows(Unresolved, limit) \/ EvidenceRead(limit)
  \/ \E id \in Ids : GetPathway(id) \/ GetEvidence(id) \/ Diagnose(id)
  \/ \E id \in Ids, tenant \in Tenants : TenantEvidence(tenant, id)
  \/ AllEvidenceRead
  \/ DiagnoseEvents \/ DiagnoseVerify

ServerNext == (Next /\ UNCHANGED reader) \/ ReaderNext

ServerSpec == ServerInit /\ [][ServerNext]_serverVars

-----------------------------------------------------------------------------
\* rpr.get_status never makes a pathway that still needs someone look settled: what
\* its two counts leave as settled is at most what is settled in the store, although
\* pathways are registered and moved between the two statements (status).
StatusHidesNothing ==
  Reading("counted") =>
    reader.req.count - reader.req.rest <=
      Cardinality({id \in Registered : row[id].state \in TERMINAL_STATES})

\* The named actor can do something in that state: execute, or make a transition.
MayAct(d, state, actor) ==
  \/ state = "approved" /\ authorize_execution_access(actor)
  \/ \E target \in PathwayState \ {"running"} : Permitted(d, state, target, actor)

\* A diagnosis fits together although it reads the store three times: the state is
\* the first one or one that the events it holds lead to, the count covers these
\* events, and the authority it hands over to exists and can act unless the pathway
\* is settled, or its definition leaves a role or its approval authority blank
\* (diagnose_pathway).
DiagnosisIsSound ==
  LET req == reader.req
      d   == row[req.id].def
  IN  Reading("diagnosed") =>
        /\ \/ req.state = row[req.id].first
           \/ \E i \in 1..Len(req.log) : req.log[i].kind = "state_transition" /\ req.log[i].to = req.state
        /\ Len(req.log) <= req.total
        /\ d.features.complete /\ d.features.approval # "blank" =>
             /\ NextAuthority(d, req.state) \in Actors
             /\ req.state \notin TERMINAL_STATES => MayAct(d, req.state, NextAuthority(d, req.state))

=============================================================================
