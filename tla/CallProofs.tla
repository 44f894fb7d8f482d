------------------------------ MODULE CallProofs ------------------------------
(***************************************************************************)
(* For every set of server generations, contracts and documents and any    *)
(* number of calls: what is called is what was admitted, and a failure     *)
(* that is reported as pre-dispatch is one.                                *)
(***************************************************************************)
EXTENDS McpCall, FiniteSetTheorems, TLAPS

\* What holds of an attempt that was admitted: both snapshots passed their
\* validation, the contract permits the protocol, the arguments are those that were
\* proposed, and the binding, until a holder rewrites it, is of these two snapshots.
Admitted(a) ==
  /\ failed[a] = None
  /\ greeted[a] \in Generations /\ validate_initialize(greeted[a])
  /\ listed[a] \in Generations /\ validate_tools_list(listed[a])
  /\ Permits(greeted[a].protocol)
  /\ DOMAIN request[a] = {"mcp", "arguments"}
  /\ DOMAIN request[a].mcp = BindingFields =>
       request[a].mcp = Binding(greeted[a], Selected(listed[a]))
  /\ request[a].arguments = proposed[a]

\* What holds of a call the server received.
Received(c) ==
  /\ c.tool = Tool
  /\ request[c.attempt] # None /\ DOMAIN request[c.attempt].mcp = BindingFields
  /\ result[c.attempt] # None /\ result[c.attempt].dispatch # "not_sent"
  /\ c.arguments = proposed[c.attempt]

\* An attempt that was not prepared yet, or is being prepared, has nothing.
Untouched(a) == request[a] = None /\ failed[a] = None

\* The inductive invariant.
CallInv ==
  /\ TypeOK
  /\ \A a \in Attempts : a > attempt => Untouched(a)
  /\ pc # "idle" =>
       /\ attempt \in Attempts /\ Untouched(attempt)
       /\ greeted[attempt] \in Generations /\ validate_initialize(greeted[attempt])
  /\ \A a \in Attempts : request[a] # None => Admitted(a)
  /\ \A c \in calls : Received(c)

-----------------------------------------------------------------------------
\* In a list that passed its validation there is one entry of the tool's name, and
\* the walk selects its schema (validate_tools_list).
LEMMA OneOffer ==
  ASSUME NEW g \in Generations, validate_tools_list(g)
  PROVE  \E i \in DOMAIN g.tools :
           /\ {j \in DOMAIN g.tools : g.tools[j].name = Tool} = {i}
           /\ Selected(g) = g.tools[i].schema
           /\ g.tools[i].schema # None
  <1>1. PICK i \in DOMAIN g.tools : g.tools[i].name = Tool
    BY DEF validate_tools_list
  <1>2. {j \in DOMAIN g.tools : g.tools[j].name = Tool} = {i}
    BY <1>1 DEF validate_tools_list
  <1>3. i \in Nat
    BY <1>1, CallAssumption DEF GenerationShape, validate_tools_list
  <1> DEFINE named == {j \in DOMAIN g.tools : g.tools[j].name = Tool}
             last == CHOOSE k \in named : \A j \in named : j <= k
  <1>4. \E k \in named : \A j \in named : j <= k
    BY <1>2, <1>3
  <1>5. last \in named
    BY <1>4
  <1>6. Selected(g) = g.tools[last].schema
    BY DEF Selected
  <1>7. last = i
    BY <1>2, <1>5
  <1> QED BY <1>1, <1>2, <1>6, <1>7 DEF validate_tools_list

\* What admission binds is complete: no field of the binding is None.
LEMMA BindingComplete ==
  ASSUME NEW g \in Generations, validate_initialize(g), NEW schema, schema # None
  PROVE  /\ DOMAIN Binding(g, schema) = BindingFields
         /\ \A f \in BindingFields : Binding(g, schema)[f] # None
  BY CallAssumption DEF Binding, BindingFields, validate_initialize

\* What execute returns for a call the server received is never not_sent.
LEMMA ReachedIsSent ==
  ASSUME NEW r \in Answers, NEW verified \in BOOLEAN, NEW ok \in BOOLEAN
  PROVE  /\ Classify(r.how, verified, ok) \in Outcomes
         /\ r.reached => Classify(r.how, verified, ok).dispatch # "not_sent"
  <1>1. /\ r.how \in {"not_sent", "possibly_sent", "unknown", "shapeless", "tool_error", "ok"}
        /\ r.reached => r.how # "not_sent"
    BY DEF Answers
  <1>2. r.how = "not_sent" => Classify(r.how, verified, ok) = Returned("failed", "not_sent", TRUE)
    BY DEF Classify
  <1>3. r.how = "possibly_sent" =>
          Classify(r.how, verified, ok) = Returned("write_status_unknown", "possibly_sent", TRUE)
    BY DEF Classify
  <1>4. r.how = "unknown" => Classify(r.how, verified, ok) = TransportErrorResult
    BY DEF Classify
  <1>5. r.how = "shapeless" => Classify(r.how, verified, ok) = Returned("write_status_unknown", "sent", TRUE)
    BY DEF Classify
  <1>6. r.how = "tool_error" => Classify(r.how, verified, ok) = Returned("failed", "sent", ok)
    BY DEF Classify
  <1>7. r.how = "ok" => Classify(r.how, verified, ok)
                          \in {Returned("succeeded", "sent", ok), Returned("write_status_unknown", "sent", ok)}
    BY DEF Classify
  <1>8. /\ \A status \in Statuses, dispatch \in DispatchStates, e \in BOOLEAN :
             /\ Returned(status, dispatch, e) \in Outcomes
             /\ Returned(status, dispatch, e).dispatch = dispatch
        /\ TransportErrorResult = Returned("write_status_unknown", "unknown", TRUE)
    BY DEF Returned, Outcomes, TransportErrorResult
  <1> QED BY ZenonT(30), <1>1, <1>2, <1>3, <1>4, <1>5, <1>6, <1>7, <1>8 DEF Statuses, DispatchStates

-----------------------------------------------------------------------------
\* Initially nothing was prepared.
LEMMA InitCall == Init => CallInv
  <1> SUFFICES ASSUME Init PROVE CallInv
    OBVIOUS
  <1>1. TypeOK
    BY CallAssumption DEF Init, TypeOK
  <1> QED BY <1>1 DEF Init, CallInv, Untouched

\* initialize
LEMMA InitializeStep == CallInv /\ Initialize => CallInv'
  <1> SUFFICES ASSUME CallInv, Initialize PROVE CallInv'
    OBVIOUS
  <1> DEFINE n == attempt + 1
  <1>0. /\ attempt \in Nat /\ n \in Attempts /\ n > attempt /\ attempt' = n
        /\ Untouched(n) /\ n <= MaxAttempts
    BY CallAssumption DEF CallInv, TypeOK, Initialize, Attempts
  <1>1. CASE validate_initialize(server)
    <2>1. /\ pc' = "greeted" /\ greeted' = [greeted EXCEPT ![n] = server]
          /\ UNCHANGED <<failed, server, upgrades, contract, args, listed, request, proposed, executing, retained>>
      BY <1>0, <1>1 DEF Initialize
    <2>2. greeted' \in [Attempts -> Generations \cup {None}] /\ greeted'[n] = server
      BY <1>0, <2>1 DEF CallInv, TypeOK
    <2>3. TypeOK'
      BY <1>0, <2>1, <2>2, CallAssumption DEF CallInv, TypeOK, executing
    <2>4. \A a \in Attempts : request'[a] # None => Admitted(a)'
      BY <1>0, <2>1 DEF CallInv, TypeOK, Untouched, Admitted, Permits
    <2>5. \A a \in Attempts : a > attempt' => Untouched(a)'
      BY <1>0, <2>1 DEF CallInv, Untouched, Attempts
    <2>6. \A c \in calls' : Received(c)'
      BY <2>1 DEF CallInv, Received, executing
    <2> QED BY <1>0, <1>1, <2>1, <2>2, <2>3, <2>4, <2>5, <2>6 DEF CallInv, TypeOK, Untouched
  <1>2. CASE ~ validate_initialize(server)
    <2>1. /\ failed' = [failed EXCEPT ![n] = "initialize_validation"]
          /\ UNCHANGED <<pc, greeted, server, upgrades, contract, args, listed, request, proposed, executing, retained>>
          /\ pc = "idle"
      BY <1>0, <1>2 DEF Initialize
    <2>3. TypeOK'
      BY <1>0, <2>1, CallAssumption DEF CallInv, TypeOK, executing
    <2>4. \A a \in Attempts : request'[a] # None => Admitted(a)'
      BY <1>0, <2>1 DEF CallInv, TypeOK, Untouched, Admitted, Permits
    <2>5. \A a \in Attempts : a > attempt' => Untouched(a)'
      BY <1>0, <2>1 DEF CallInv, TypeOK, Untouched, Attempts
    <2>6. \A c \in calls' : Received(c)'
      BY <2>1 DEF CallInv, Received, executing
    <2> QED BY <2>1, <2>3, <2>4, <2>5, <2>6 DEF CallInv
  <1> QED BY <1>1, <1>2

\* Steps that leave what was prepared and executed alone.
LEMMA OutsideStep ==
  ASSUME CallInv, UNCHANGED <<contract, attempt, greeted, listed, failed, request, proposed, executing>>,
         TypeOK', pc' \in {"idle", pc} \/ pc # "idle"
  PROVE  CallInv'
  <1>1. \A a \in Attempts : Admitted(a) => Admitted(a)'
    BY DEF Admitted, Permits
  <1> QED BY <1>1 DEF CallInv, Untouched, Received, executing

\* notifications/initialized, and what the server and the caller do meanwhile.
LEMMA QuietSteps ==
  CallInv /\ (Notify \/ Upgrade \/ ChangeArguments \/ (\E a \in Attempts : Retain(a)) \/ UNCHANGED vars) => CallInv'
  <1> SUFFICES ASSUME CallInv,
                      Notify \/ Upgrade \/ ChangeArguments \/ (\E a \in Attempts : Retain(a)) \/ UNCHANGED vars
               PROVE  CallInv'
    OBVIOUS
  <1>1. CASE Notify
    <2>1. TypeOK'
      BY <1>1 DEF CallInv, TypeOK, Notify, executing
    <2> QED BY <1>1, <2>1, OutsideStep DEF Notify
  <1>2. CASE Upgrade
    <2>1. TypeOK'
      BY <1>2, CallAssumption DEF CallInv, TypeOK, Upgrade, executing, preparing
    <2> QED BY <1>2, <2>1, OutsideStep DEF Upgrade, preparing
  <1>3. CASE ChangeArguments
    <2>1. TypeOK'
      BY <1>3 DEF CallInv, TypeOK, ChangeArguments, executing, preparing
    <2> QED BY <1>3, <2>1, OutsideStep DEF ChangeArguments, preparing
  <1>4. ASSUME NEW a \in Attempts, Retain(a) PROVE CallInv'
    <2>1. TypeOK'
      BY <1>4 DEF CallInv, TypeOK, Retain, executing, preparing
    <2> QED BY <1>4, <2>1, OutsideStep DEF Retain, preparing
  <1>5. CASE UNCHANGED vars
    <2>1. TypeOK'
      BY <1>5 DEF CallInv, TypeOK, vars, executing, preparing
    <2> QED BY <1>5, <2>1, OutsideStep DEF vars, preparing
  <1> QED BY <1>1, <1>2, <1>3, <1>4, <1>5

\* tools/list, and admission.
LEMMA ListToolsStep == CallInv /\ ListTools => CallInv'
  <1> SUFFICES ASSUME CallInv, ListTools PROVE CallInv'
    OBVIOUS
  <1> DEFINE ok == validate_tools_list(server) /\ Permits(greeted[attempt].protocol) /\ args \in StrictDocuments
             q == [mcp |-> Binding(greeted[attempt], Selected(server)), arguments |-> detached]
  <1>0. /\ attempt \in Attempts /\ Untouched(attempt) /\ pc' = "idle"
        /\ greeted[attempt] \in Generations /\ validate_initialize(greeted[attempt])
        /\ UNCHANGED <<server, upgrades, contract, args, attempt, greeted, executing, retained>>
    BY DEF CallInv, ListTools
  <1>1. \A c \in calls : c.attempt # attempt
    BY <1>0 DEF CallInv, Received, Untouched
  <1>2. CASE ok
    <2>1. /\ listed' = [listed EXCEPT ![attempt] = server]
          /\ request' = [request EXCEPT ![attempt] = q]
          /\ proposed' = [proposed EXCEPT ![attempt] = args]
          /\ UNCHANGED failed
      BY <1>2 DEF ListTools
    <2>2. /\ DOMAIN q.mcp = BindingFields /\ \A f \in DOMAIN q.mcp : q.mcp[f] # None
          /\ q.arguments = args /\ DOMAIN q = {"mcp", "arguments"}
      <3>1. Selected(server) # None
        BY <1>2, OneOffer DEF CallInv, TypeOK
      <3>2. q.mcp = Binding(greeted[attempt], Selected(server)) /\ q.arguments = args
        BY DEF detached
      <3> QED BY <1>0, <3>1, <3>2, BindingComplete
    <2>3. /\ listed'[attempt] = server /\ request'[attempt] = q /\ proposed'[attempt] = args
          /\ \A a \in Attempts \ {attempt} :
               listed'[a] = listed[a] /\ request'[a] = request[a] /\ proposed'[a] = proposed[a]
          /\ DOMAIN request' = Attempts
      BY <1>0, <2>1 DEF CallInv, TypeOK
    <2>4. /\ listed' \in [Attempts -> Generations \cup {None}]
          /\ proposed' \in [Attempts -> Documents \cup {None}]
      BY <1>0, <2>1, <1>2, CallAssumption DEF CallInv, TypeOK
    <2>5. TypeOK'
      <3>1. \A a \in Attempts : request'[a] # None =>
               /\ request'[a].arguments \in Documents
               /\ \A f \in DOMAIN request'[a].mcp : request'[a].mcp[f] # None
        BY <1>0, <2>2, <2>3 DEF CallInv, TypeOK
      <3> QED BY <1>0, <2>1, <2>3, <2>4, <3>1 DEF CallInv, TypeOK, executing
    <2>6. \A a \in Attempts : request'[a] # None => Admitted(a)'
      <3>1. ASSUME NEW a \in Attempts, a = attempt PROVE Admitted(a)'
        <4>1. failed'[a] = None
          BY <1>0, <2>1, <3>1 DEF Untouched
        <4>2. Permits(greeted[a].protocol)'
          BY <1>0, <1>2, <3>1 DEF Permits
        <4> QED BY <3>1, <1>0, <1>2, <2>2, <2>3, <4>1, <4>2 DEF Admitted, CallInv, TypeOK
      <3>2. ASSUME NEW a \in Attempts \ {attempt}, request'[a] # None PROVE Admitted(a)'
        BY <1>0, <2>1, <2>3, <3>2 DEF CallInv, Admitted, Permits
      <3> QED BY <3>1, <3>2
    <2>7. \A c \in calls' : Received(c)'
      BY ZenonT(30), <1>0, <1>1, <2>3 DEF CallInv, TypeOK, Received, executing
    <2>8. \A a \in Attempts : a > attempt' => Untouched(a)'
      BY <1>0, <2>1, <2>3 DEF CallInv, Untouched, Attempts
    <2> QED BY <1>0, <2>5, <2>6, <2>7, <2>8 DEF CallInv
  <1>3. CASE ~ ok
    <2>1. /\ failed' = [failed EXCEPT ![attempt] = "admission"]
          /\ UNCHANGED <<listed, request, proposed>>
      BY <1>3 DEF ListTools
    <2>2. TypeOK'
      BY <1>0, <2>1 DEF CallInv, TypeOK, executing
    <2>3. \A a \in Attempts : request'[a] # None => Admitted(a)'
      BY <1>0, <2>1 DEF CallInv, TypeOK, Untouched, Admitted, Permits
    <2>4. \A c \in calls' : Received(c)'
      BY <1>0, <2>1 DEF CallInv, Received, executing
    <2>5. \A a \in Attempts : a > attempt' => Untouched(a)'
      BY <1>0, <2>1 DEF CallInv, TypeOK, Untouched, Attempts
    <2> QED BY <1>0, <2>2, <2>3, <2>4, <2>5 DEF CallInv
  <1> QED BY <1>2, <1>3

\* A preparation fails before it has a request.
LEMMA PrepareFailsStep == CallInv /\ PrepareFails => CallInv'
  <1> SUFFICES ASSUME CallInv, PrepareFails PROVE CallInv'
    OBVIOUS
  <1> DEFINE n == attempt'
  <1>1. /\ n \in Attempts /\ n \in {attempt, attempt + 1} /\ Untouched(n)
        /\ \E phase \in {"initialize", "initialized_notification", "tools_list"} :
             failed' = [failed EXCEPT ![n] = phase]
    <2>1. CASE /\ pc = "idle" /\ attempt < MaxAttempts /\ attempt' = attempt + 1
               /\ failed' = [failed EXCEPT ![attempt'] = "initialize"]
      BY <2>1, CallAssumption DEF CallInv, TypeOK, Attempts
    <2>2. CASE /\ pc = "greeted" /\ UNCHANGED attempt
               /\ failed' = [failed EXCEPT ![attempt] = "initialized_notification"]
      BY <2>2 DEF CallInv
    <2>3. CASE /\ pc = "announced" /\ UNCHANGED attempt
               /\ failed' = [failed EXCEPT ![attempt] = "tools_list"]
      BY <2>3 DEF CallInv
    <2> QED BY <2>1, <2>2, <2>3 DEF PrepareFails
  <1>2. /\ pc' = "idle" /\ attempt \in Nat
        /\ UNCHANGED <<server, upgrades, contract, args, greeted, listed, request, proposed, executing, retained>>
    BY DEF CallInv, TypeOK, PrepareFails
  <1>3. TypeOK'
    BY <1>1, <1>2, CallAssumption DEF CallInv, TypeOK, executing, Attempts
  <1>4. \A a \in Attempts : request'[a] # None => Admitted(a)'
    BY <1>1, <1>2 DEF CallInv, TypeOK, Untouched, Admitted, Permits
  <1>5. \A c \in calls' : Received(c)'
    BY <1>2 DEF CallInv, Received, executing
  <1>6. \A a \in Attempts : a > attempt' => Untouched(a)'
    BY <1>1, <1>2 DEF CallInv, TypeOK, Untouched, Attempts
  <1> QED BY <1>2, <1>3, <1>4, <1>5, <1>6 DEF CallInv

\* execute
LEMMA ExecuteStep == ASSUME CallInv, NEW a \in Attempts, Execute(a) PROVE CallInv'
  <1>0. /\ request[a] # None /\ Admitted(a)
        /\ result[a] = None
        /\ \A c \in calls : c.attempt # a
        /\ UNCHANGED <<server, upgrades, contract, args, preparing, retained>>
    BY DEF CallInv, Execute, Received
  <1>1. \A b \in Attempts : Admitted(b) => Admitted(b)'
    BY <1>0 DEF Admitted, Permits, preparing
  <1>2. ASSUME result'[a] \in Outcomes, result' = [result EXCEPT ![a] = result'[a]],
               calls \subseteq calls',
               \A c \in calls' \ calls :
                 /\ c.attempt = a /\ c.by \in Generations /\ c.tool = Tool
                 /\ DOMAIN request[a].mcp = BindingFields
                 /\ c.arguments = proposed[a] /\ result'[a].dispatch # "not_sent"
        PROVE  CallInv'
    <2>1. /\ result' \in [Attempts -> Outcomes \cup {None}] /\ result'[a] # None
          /\ \A b \in Attempts \ {a} : result'[b] = result[b]
      BY <1>2, CallAssumption DEF CallInv, TypeOK
    <2>2. TypeOK'
      BY <1>0, <1>2, <2>1 DEF CallInv, TypeOK, preparing
    <2>3. ASSUME NEW c \in calls' PROVE Received(c)'
      <3>1. CASE c \in calls
        <4>1. c.attempt \in Attempts \ {a} /\ Received(c)
          BY <1>0, <3>1 DEF CallInv, TypeOK
        <4>2. result'[c.attempt] = result[c.attempt]
          BY <2>1, <4>1
        <4> QED BY <1>0, <4>1, <4>2 DEF Received, preparing
      <3>2. CASE c \notin calls
        BY <1>0, <1>2, <2>1, <3>2 DEF Received, preparing
      <3> QED BY <3>1, <3>2
    <2> QED BY <1>0, <1>1, <2>2, <2>3 DEF CallInv, Untouched, preparing
  <1>3. CASE validated_dispatch_parameters(request[a])
    <2>1. PICK r \in Answers, verified \in BOOLEAN, ok \in BOOLEAN :
            /\ calls' = IF r.reached
                          THEN calls \cup {[attempt |-> a, by |-> server,
                                            tool |-> request[a].mcp.tool_name,
                                            arguments |-> Follow(request[a].arguments)]}
                          ELSE calls
            /\ result' = [result EXCEPT ![a] = Classify(r.how, verified, ok)]
      BY <1>3 DEF Execute
    <2> DEFINE c == [attempt |-> a, by |-> server, tool |-> request[a].mcp.tool_name,
                     arguments |-> Follow(request[a].arguments)]
               new == IF r.reached THEN {c} ELSE {}
               o == Classify(r.how, verified, ok)
    <2>2. DOMAIN request[a].mcp = BindingFields /\ request[a].mcp.tool_name = Tool
      BY <1>0, <1>3 DEF validated_dispatch_parameters, Admitted, Binding
    <2>3. Follow(request[a].arguments) = proposed[a]
      BY <1>0, CallAssumption DEF CallInv, TypeOK, Admitted, Follow, Alias
    <2>4. /\ c.attempt = a /\ c.by \in Generations /\ c.tool = Tool /\ c.arguments = proposed[a]
      BY <2>2, <2>3 DEF CallInv, TypeOK
    <2>5. o \in Outcomes /\ (r.reached => o.dispatch # "not_sent")
      BY ReachedIsSent
    <2>6. calls' = calls \cup new /\ result' = [result EXCEPT ![a] = o]
      BY <2>1
    <2> HIDE DEF c, o
    <2>7. result'[a] = o
      BY <2>6 DEF CallInv, TypeOK
    <2>8. calls \subseteq calls' /\ \A d \in calls' \ calls : d = c /\ r.reached
      BY <2>6
    <2> QED BY <1>2, <2>2, <2>4, <2>5, <2>6, <2>7, <2>8
  <1>4. CASE ~ validated_dispatch_parameters(request[a])
    <2>1. /\ result' = [result EXCEPT ![a] = Returned("failed", "not_sent", TRUE)]
          /\ calls' = calls \cup {}
      BY <1>4 DEF Execute
    <2>2. Returned("failed", "not_sent", TRUE) \in Outcomes
      BY DEF Returned, Outcomes, Statuses, DispatchStates
    <2>3. result'[a] = Returned("failed", "not_sent", TRUE)
      BY <2>1 DEF CallInv, TypeOK
    <2> QED BY <1>2, <2>1, <2>2, <2>3
  <1> QED BY <1>3, <1>4

\* A holder of a request rewrites its binding.
LEMMA RebindStep == ASSUME CallInv, NEW a \in Attempts, Rebind(a) PROVE CallInv'
  <1> DEFINE old == request[a].mcp
             new == [protocol_version |-> old.protocol_version,
                     server_name |-> old.server_identity, server_version |-> old.server_identity,
                     server_capabilities_sha256 |-> old.server_capabilities_hash,
                     tool_name |-> old.tool_name, tool_schema_sha256 |-> old.tool_schema_hash]
  <1>0. /\ request[a] # None /\ Admitted(a) /\ result[a] = None /\ DOMAIN old = BindingFields
        /\ request' = [request EXCEPT ![a] = [request[a] EXCEPT !.mcp = new]]
        /\ UNCHANGED <<server, upgrades, contract, args, attempt, pc, greeted, listed, failed, proposed,
                       executing, retained>>
    BY DEF CallInv, Rebind
  <1>1. /\ DOMAIN new = AdmissionKeys /\ "server_name" \in DOMAIN new
        /\ \A f \in DOMAIN new : new[f] # None
    <2>1. \A f \in BindingFields : old[f] # None
      BY <1>0 DEF CallInv, TypeOK
    <2> QED BY <2>1 DEF AdmissionKeys, BindingFields
  <1>2. DOMAIN new # BindingFields
    BY <1>1 DEF BindingFields
  <1> HIDE DEF new
  <1>3. /\ request'[a].mcp = new /\ request'[a].arguments = request[a].arguments
        /\ DOMAIN request'[a] = {"mcp", "arguments"}
        /\ \A b \in Attempts \ {a} : request'[b] = request[b]
        /\ DOMAIN request' = Attempts
    BY <1>0 DEF CallInv, TypeOK, Admitted
  <1>4. TypeOK'
    <2>1. \A b \in Attempts : request'[b] # None =>
             /\ request'[b].arguments \in Documents
             /\ \A f \in DOMAIN request'[b].mcp : request'[b].mcp[f] # None
      BY <1>0, <1>1, <1>3 DEF CallInv, TypeOK
    <2> QED BY <1>0, <1>3, <2>1 DEF CallInv, TypeOK, executing
  <1>5. \A b \in Attempts : request'[b] # None => Admitted(b)'
    <2>1. Admitted(a)'
      BY <1>0, <1>2, <1>3 DEF Admitted, Permits
    <2>2. ASSUME NEW b \in Attempts \ {a}, request'[b] # None PROVE Admitted(b)'
      BY <1>0, <1>3, <2>2 DEF CallInv, Admitted, Permits
    <2> QED BY <2>1, <2>2
  <1>6. \A b \in Attempts : Untouched(b) => Untouched(b)'
    BY <1>0, <1>3 DEF Untouched
  <1>7. \A c \in calls' : Received(c)'
    BY <1>0, <1>3 DEF CallInv, TypeOK, Received, executing
  <1> QED BY <1>0, <1>4, <1>5, <1>6, <1>7 DEF CallInv

\* Every step preserves the invariant.
LEMMA NextCall == CallInv /\ [Next]_vars => CallInv'
  BY InitializeStep, QuietSteps, ListToolsStep, PrepareFailsStep, ExecuteStep, RebindStep
     DEF Next, Finished

LEMMA CallInvariant == Spec => []CallInv
  BY InitCall, NextCall, PTL DEF Spec

-----------------------------------------------------------------------------
\* No field of an admitted binding is missing, whatever the server answered
\* (mcp_stable_snapshot.py, admission_binding).
THEOREM CallTypeCorrect == Spec => []TypeOK
  <1>1. CallInv => TypeOK
    BY DEF CallInv
  <1> QED BY <1>1, CallInvariant, PTL

\* A call that one generation of the server answered throughout was made under the
\* contract's terms, to its only tool of that name, as bound (admission).
THEOREM DispatchAsBoundHolds == Spec => []DispatchAsBound
  <1>1. CallInv => DispatchAsBound
    <2> SUFFICES ASSUME CallInv, NEW c \in calls,
                        greeted[c.attempt] = c.by, listed[c.attempt] = c.by
                 PROVE  LET g == c.by
                            q == request[c.attempt]
                            offers == {i \in DOMAIN g.tools : g.tools[i].name = c.tool}
                        IN  /\ Permits(g.protocol)
                            /\ \A f \in DOMAIN q.mcp : q.mcp[f] # None
                            /\ q.mcp.server_identity = g.identity /\ q.mcp.server_capabilities_hash = g.caps
                            /\ Cardinality(offers) = 1
                            /\ \A i \in offers : g.tools[i].schema = q.mcp.tool_schema_hash
      BY DEF DispatchAsBound
    <2> DEFINE g == c.by
               q == request[c.attempt]
               offers == {i \in DOMAIN g.tools : g.tools[i].name = c.tool}
    <2>1. c.attempt \in Attempts /\ Received(c) /\ Admitted(c.attempt)
      BY DEF CallInv, TypeOK, Received
    <2>2. /\ q.mcp = Binding(g, Selected(g)) /\ Permits(g.protocol) /\ validate_tools_list(g)
          /\ g \in Generations /\ c.tool = Tool
      BY <2>1 DEF Received, Admitted
    <2>3. PICK i \in DOMAIN g.tools : offers = {i} /\ Selected(g) = g.tools[i].schema
      BY <2>2, OneOffer
    <2>4. Cardinality(offers) = 1
      BY <2>3, FS_Singleton
    <2>5. \A f \in DOMAIN q.mcp : q.mcp[f] # None
      BY <2>1 DEF CallInv, TypeOK, Received
    <2> QED BY <2>2, <2>3, <2>4, <2>5 DEF Binding
  <1> QED BY <1>1, CallInvariant, PTL

\* The server receives the arguments that were admitted (_strict_json_document).
THEOREM ArgumentsAsAdmittedHolds == Spec => []ArgumentsAsAdmitted
  <1>1. CallInv => ArgumentsAsAdmitted
    BY DEF CallInv, Received, ArgumentsAsAdmitted
  <1> QED BY <1>1, CallInvariant, PTL

\* What is reported as pre-dispatch never reached the server (McpPreDispatchError,
\* dispatch_state).
THEOREM PreDispatchIsPureHolds == Spec => []PreDispatchIsPure
  <1>1. CallInv => PreDispatchIsPure
    BY DEF CallInv, TypeOK, Received, Admitted, PreDispatchIsPure
  <1> QED BY <1>1, CallInvariant, PTL

=============================================================================
