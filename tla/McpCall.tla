------------------------------- MODULE McpCall -------------------------------
(***************************************************************************)
(* From a proposed tool call to its retained evidence: the preparation of  *)
(* mcp_stable_transport.py (initialize, initialized, tools/list), the      *)
(* snapshots of mcp_stable_snapshot.py, the admission of mcp_admission.py, *)
(* the envelope check of mcp_tool_executor.py and the record that          *)
(* mcp_retained_evidence.py builds.  The server may be replaced by another *)
(* generation of itself between any two requests, and the caller may       *)
(* change the arguments object it passed in.                               *)
(***************************************************************************)
EXTENDS Integers, FiniteSets

CONSTANTS
  Generations,   \* what the server may be: see GenerationShape
  Contracts,     \* protocol version -> its entry in the compatibility contract
  Experimental,  \* McpStableAdmissionAdapter.experimental
  Stable,        \* STABLE_PROTOCOL_VERSION
  Tool,          \* the tool the caller asks for
  Documents,     \* contents of the arguments object
  StrictDocuments,  \* those of them that _strict_json_plain accepts: see McpDocuments
  MaxAttempts,   \* bound on the calls prepared
  MaxUpgrades,   \* bound on the changes of the server
  None

Attempts == 1..MaxAttempts

\* A generation of the server: its serverInfo, protocol and capabilities, whether
\* it declares tools, and its tools.  None stands for a field that is absent or of
\* the wrong shape.
GenerationShape(g) ==
  /\ DOMAIN g = {"identity", "protocol", "caps", "declares", "tools"}
  /\ g.declares \in BOOLEAN
  /\ g.tools # None =>
       DOMAIN g.tools \subseteq Nat /\ \A i \in DOMAIN g.tools : DOMAIN g.tools[i] = {"name", "schema"}

\* An ExecutionResult.
Statuses == {"succeeded", "failed", "write_status_unknown"}
DispatchStates == {"not_sent", "possibly_sent", "unknown", "sent"}
Outcomes == [status : Statuses, dispatch : DispatchStates, evidence_ok : BOOLEAN]

ASSUME CallAssumption ==
  /\ \A g \in Generations : GenerationShape(g)
  /\ \A c \in Contracts : \A v \in DOMAIN c :
       c[v] \in [lifecycle : {"stable", "experimental"}, flag : BOOLEAN]
  /\ StrictDocuments \subseteq Documents
  /\ None \notin Documents \cup {Stable, Tool} \cup Outcomes
  /\ Experimental \in BOOLEAN
  /\ MaxAttempts \in Nat \ {0} /\ MaxUpgrades \in Nat

\* _MCP_BINDING_FIELDS, and the keys build_mcp_retained_evidence reads.
BindingFields == {"protocol_version", "server_identity", "server_capabilities_hash",
                  "tool_name", "tool_schema_hash"}
AdmissionKeys == {"protocol_version", "server_name", "server_version",
                  "server_capabilities_sha256", "tool_name", "tool_schema_sha256"}

VARIABLES
  server,    \* the generation that answers now
  upgrades,  \* how often it changed
  contract,  \* the compatibility contract the adapter loaded
  args,      \* the content of the caller's arguments object
  attempt,   \* the call being prepared, or the last one
  pc,        \* how far: "idle", "greeted", "announced"
  greeted,   \* attempt -> the generation that answered initialize
  listed,    \* attempt -> the generation that answered tools/list
  failed,    \* attempt -> the phase whose McpPreDispatchError was raised
  request,   \* attempt -> the ExecutionRequest: its mcp binding and arguments
  proposed,  \* attempt -> the arguments when it was admitted
  calls,     \* tools/call requests the server received
  result,    \* attempt -> the ExecutionResult
  retained   \* attempt -> whether retained evidence was built

preparing == <<attempt, pc, greeted, listed, failed, request, proposed>>
executing == <<calls, result>>
vars == <<server, upgrades, contract, args, preparing, executing, retained>>

Init ==
  /\ server \in Generations /\ upgrades = 0
  /\ contract \in Contracts
  /\ args \in Documents
  /\ attempt = 0 /\ pc = "idle"
  /\ greeted  = [a \in Attempts |-> None]
  /\ listed   = [a \in Attempts |-> None]
  /\ failed   = [a \in Attempts |-> None]
  /\ request  = [a \in Attempts |-> None]
  /\ proposed = [a \in Attempts |-> None]
  /\ calls = {}
  /\ result   = [a \in Attempts |-> None]
  /\ retained = [a \in Attempts |-> None]

-----------------------------------------------------------------------------
(* The snapshots.                                                          *)

\* validate_initialize: the stable protocol, a named and versioned server, tools.
validate_initialize(g) ==
  /\ g.protocol = Stable
  /\ g.identity # None
  /\ g.caps # None /\ g.declares

\* Mutant: any entry of that name will do.
validate_first_match(g) ==
  /\ g.tools # None
  /\ \E i \in DOMAIN g.tools : g.tools[i].name = Tool /\ g.tools[i].schema # None

\* validate_tools_list: a list, every entry well formed, no name twice, the tool found.
validate_tools_list(g) ==
  /\ g.tools # None
  /\ \A i \in DOMAIN g.tools : g.tools[i].name # None /\ g.tools[i].schema # None
  /\ \A i, j \in DOMAIN g.tools : g.tools[i].name = g.tools[j].name => i = j
  /\ \E i \in DOMAIN g.tools : g.tools[i].name = Tool

\* The schema of the tool the walk over the list selected (the last of that name).
Selected(g) ==
  LET named == {i \in DOMAIN g.tools : g.tools[i].name = Tool}
  IN  g.tools[CHOOSE i \in named : \A j \in named : j <= i].schema

\* admit: the contract knows the version, and it is stable or experiments are on.
Permits(version) ==
  /\ version \in DOMAIN contract
  /\ Experimental \/ (~contract[version].flag /\ contract[version].lifecycle = "stable")

\* admission_binding; a hash stands for what is hashed.
Binding(s, schema) ==
  [protocol_version         |-> s.protocol,
   server_identity          |-> s.identity,
   server_capabilities_hash |-> s.caps,
   tool_name                |-> Tool,
   tool_schema_hash         |-> schema]

\* _strict_json_document: the request gets a copy of the arguments; an alias, the
\* mutant's choice, would follow the caller's object.
Alias == None
aliased   == Alias
detached  == args
Follow(d) == IF d = Alias THEN args ELSE d

-----------------------------------------------------------------------------
(* McpStableOrchestrator.prepare.                                          *)

\* _request("initialize") and validate_initialize.
Initialize ==
  /\ pc = "idle" /\ attempt < MaxAttempts
  /\ attempt' = attempt + 1
  /\ IF validate_initialize(server)
       THEN /\ pc' = "greeted"
            /\ greeted' = [greeted EXCEPT ![attempt'] = server]
            /\ UNCHANGED failed
       ELSE /\ failed' = [failed EXCEPT ![attempt'] = "initialize_validation"]
            /\ UNCHANGED <<pc, greeted>>
  /\ UNCHANGED <<server, upgrades, contract, args, listed, request, proposed, executing, retained>>

\* _notify("notifications/initialized").
Notify ==
  /\ pc = "greeted" /\ pc' = "announced"
  /\ UNCHANGED <<server, upgrades, contract, args, attempt, greeted, listed, failed, request,
                 proposed, executing, retained>>

\* _request("tools/list"), validate_tools_list against the server of initialize, admit;
\* arguments that are not strict JSON are refused.
ListTools ==
  /\ pc = "announced" /\ pc' = "idle"
  /\ IF /\ validate_tools_list(server) /\ Permits(greeted[attempt].protocol)
        /\ args \in StrictDocuments
       THEN /\ listed' = [listed EXCEPT ![attempt] = server]
            /\ request' = [request EXCEPT ![attempt] =
                 [mcp |-> Binding(greeted[attempt], Selected(server)), arguments |-> detached]]
            /\ proposed' = [proposed EXCEPT ![attempt] = args]
            /\ UNCHANGED failed
       ELSE /\ failed' = [failed EXCEPT ![attempt] = "admission"]
            /\ UNCHANGED <<listed, request, proposed>>
  /\ UNCHANGED <<server, upgrades, contract, args, attempt, greeted, executing, retained>>

\* A request or the notification raises, or its result is no object.
PrepareFails ==
  /\ \/ /\ pc = "idle" /\ attempt < MaxAttempts
        /\ attempt' = attempt + 1
        /\ failed' = [failed EXCEPT ![attempt'] = "initialize"]
     \/ /\ pc = "greeted" /\ UNCHANGED attempt
        /\ failed' = [failed EXCEPT ![attempt] = "initialized_notification"]
     \/ /\ pc = "announced" /\ UNCHANGED attempt
        /\ failed' = [failed EXCEPT ![attempt] = "tools_list"]
  /\ pc' = "idle"
  /\ UNCHANGED <<server, upgrades, contract, args, greeted, listed, request, proposed, executing,
                 retained>>

-----------------------------------------------------------------------------
(* McpStableToolExecutor.execute.                                          *)

\* _validated_dispatch_parameters: exactly the fields admission binds.
validated_dispatch_parameters(q) ==
  /\ DOMAIN q.mcp = BindingFields
  /\ q.mcp.protocol_version = Stable

\* What request("tools/call") comes to: it was not sent; it may have been, or nobody
\* can say; it was answered by something else than an object, by an object with or
\* without isError.  reached: whether the server received it.
Answers ==
  [how : {"not_sent"}, reached : {FALSE}]
  \cup [how : {"possibly_sent", "unknown"}, reached : BOOLEAN]
  \cup [how : {"shapeless", "tool_error", "ok"}, reached : {TRUE}]

Returned(status, dispatch, ok) == [status |-> status, dispatch |-> dispatch, evidence_ok |-> ok]

\* Mutant: a generic transport failure is taken for a call that was not sent.
TransportErrorUnsent == Returned("failed", "not_sent", TRUE)

\* except McpTransportError: nothing proves that the server did not receive it.
TransportErrorResult == Returned("write_status_unknown", "unknown", TRUE)

\* The ExecutionResult, after the readback in the case of an answer without isError.
\* evidence_ok: no key of the tool result looks like a credential.
Classify(how, verified, evidence_ok) ==
  CASE how = "not_sent"      -> Returned("failed", "not_sent", TRUE)
    [] how = "possibly_sent" -> Returned("write_status_unknown", "possibly_sent", TRUE)
    [] how = "unknown"       -> TransportErrorResult
    [] how = "shapeless"     -> Returned("write_status_unknown", "sent", TRUE)
    [] how = "tool_error"    -> Returned("failed", "sent", evidence_ok)
    [] how = "ok" -> Returned(IF verified THEN "succeeded" ELSE "write_status_unknown", "sent", evidence_ok)

\* execute of an admitted request; the server keeps each call with its own generation.
Execute(a) ==
  /\ request[a] # None /\ result[a] = None
  /\ IF validated_dispatch_parameters(request[a])
       THEN \E r \in Answers, verified, evidence_ok \in BOOLEAN :
              /\ calls' = IF r.reached
                            THEN calls \cup {[attempt |-> a, by |-> server,
                                              tool |-> request[a].mcp.tool_name,
                                              arguments |-> Follow(request[a].arguments)]}
                            ELSE calls
              /\ result' = [result EXCEPT ![a] = Classify(r.how, verified, evidence_ok)]
       ELSE /\ result' = [result EXCEPT ![a] = Returned("failed", "not_sent", TRUE)]
            /\ UNCHANGED calls
  /\ UNCHANGED <<server, upgrades, contract, args, preparing, retained>>

\* build_mcp_retained_evidence: every admission key is there, the dispatch state is
\* one it knows, and the evidence holds no credential-like key.
Retainable(a) ==
  /\ AdmissionKeys \subseteq DOMAIN request[a].mcp
  /\ result[a].dispatch \in DispatchStates
  /\ result[a].evidence_ok

Retain(a) ==
  /\ result[a] # None /\ retained[a] = None
  /\ retained' = [retained EXCEPT ![a] = IF Retainable(a) THEN "retained" ELSE "refused"]
  /\ UNCHANGED <<server, upgrades, contract, args, preparing, executing>>

-----------------------------------------------------------------------------
(* The rest of the world.                                                  *)

\* The server is upgraded, downgraded or replaced behind the transport.
Upgrade ==
  /\ upgrades < MaxUpgrades /\ upgrades' = upgrades + 1
  /\ \E g \in Generations \ {server} : server' = g
  /\ UNCHANGED <<contract, args, preparing, executing, retained>>

\* The caller changes the object it passed as arguments.
ChangeArguments ==
  /\ \E d \in Documents \ {args} : args' = d
  /\ UNCHANGED <<server, upgrades, contract, preparing, executing, retained>>

\* A holder of the request rewrites its binding to the keys retained evidence needs,
\* the shape of the request in tests/test_mcp_retained_evidence.py.
Rebind(a) ==
  /\ request[a] # None /\ result[a] = None /\ DOMAIN request[a].mcp = BindingFields
  /\ LET old == request[a].mcp
     IN  request' = [request EXCEPT ![a].mcp =
           [protocol_version           |-> old.protocol_version,
            server_name                |-> old.server_identity,
            server_version             |-> old.server_identity,
            server_capabilities_sha256 |-> old.server_capabilities_hash,
            tool_name                  |-> old.tool_name,
            tool_schema_sha256         |-> old.tool_schema_hash]]
  /\ UNCHANGED <<server, upgrades, contract, args, attempt, pc, greeted, listed, failed, proposed,
                 executing, retained>>

\* Every call has been prepared, executed and offered for retention.
Finished ==
  /\ attempt = MaxAttempts /\ pc = "idle"
  /\ \A a \in Attempts : retained[a] # None \/ failed[a] # None
  /\ UNCHANGED vars

Next ==
  \/ Initialize \/ Notify \/ ListTools \/ PrepareFails
  \/ \E a \in Attempts : Execute(a) \/ Retain(a) \/ Rebind(a)
  \/ Upgrade \/ ChangeArguments \/ Finished

Spec == Init /\ [][Next]_vars

-----------------------------------------------------------------------------

\* What is admitted is complete: no field of a binding is missing or malformed.
TypeOK ==
  /\ server \in Generations /\ upgrades \in 0..MaxUpgrades
  /\ contract \in Contracts /\ args \in Documents
  /\ attempt \in 0..MaxAttempts /\ pc \in {"idle", "greeted", "announced"}
  /\ {greeted, listed} \subseteq [Attempts -> Generations \cup {None}]
  /\ DOMAIN failed = Attempts /\ DOMAIN request = Attempts
  /\ proposed \in [Attempts -> Documents \cup {None}]
  /\ \A a \in Attempts : request[a] # None =>
       /\ request[a].arguments \in Documents
       /\ \A f \in DOMAIN request[a].mcp : request[a].mcp[f] # None
  /\ result \in [Attempts -> Outcomes \cup {None}]
  /\ retained \in [Attempts -> {"retained", "refused", None}]
  /\ \A c \in calls : c.attempt \in Attempts /\ c.by \in Generations

\* When one generation of the server answered initialize, tools/list and tools/call,
\* the call was made under the contract's terms, to the only tool of that name, with
\* the schema, the identity and the capabilities the request binds, none of them missing.
DispatchAsBound ==
  \A c \in calls :
    LET g == c.by
        q == request[c.attempt]
        offers == {i \in DOMAIN g.tools : g.tools[i].name = c.tool}
    IN  (greeted[c.attempt] = g /\ listed[c.attempt] = g) =>
          /\ Permits(g.protocol)
          /\ \A f \in DOMAIN q.mcp : q.mcp[f] # None
          /\ q.mcp.server_identity = g.identity /\ q.mcp.server_capabilities_hash = g.caps
          /\ Cardinality(offers) = 1
          /\ \A i \in offers : g.tools[i].schema = q.mcp.tool_schema_hash

\* The server receives the arguments that were admitted, whatever the caller did to
\* its object between prepare and execute.
ArgumentsAsAdmitted ==
  \A c \in calls : c.arguments = proposed[c.attempt]

\* A failure reported as pre-dispatch, by prepare or by an execution result that says
\* not_sent, is never about a call the server received.
PreDispatchIsPure ==
  \A c \in calls :
    /\ failed[c.attempt] = None
    /\ result[c.attempt].dispatch # "not_sent"

=============================================================================
