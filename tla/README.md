# Responsibility Pathway Runtime: TLA+ models and proofs

This directory holds TLA+ models of the Responsibility Pathway Runtime (RPR), the TLC
configurations that check them on small instances, and TLAPS proofs of what matters most.
Paths such as `runtime.py:119` are relative to `src/src/rpr/`; documents and tests are
named from the root of the repository. `PROJECT.json` maps every definition that models
code to its lines.

## 1. The system

RPR stands between an agent that wants something done and the executor that does it. A
*pathway* names who may execute, approve, stop, repair, resume and answer for one piece of
work. The pathway is registered, moves through the states of a canonical table, and, once
APPROVED, its execution actor may `execute` a request; the result decides where the pathway
goes next. A result nobody knows leads to WRITE_STATUS_UNKNOWN, which reconciliation
resolves; a failure leads to repair and a resume with a fresh attempt. Every move is
recorded in a hash-linked evidence chain. Durable state is in SQLite: pathways and evidence
in one database, execution attempts in another, the outbox and the tenant registry in
others. No transaction spans two of them, and several processes may open the same files.

### Inventory

| Component | State | Operations | Hard behaviour | What makes it correct |
|---|---|---|---|---|
| Pathway runtime (`runtime.py`) | none of its own between calls; all that matters is in the store and the ledger | `register`, `transition`, `execute`, `reconcile` | each operation is a series of transactions on two databases with decisions on stale reads; crashes between any two | one dispatch per attempt, table-only moves, completion only on a success, everything resolvable |
| Attempt ledger (`attempts.py`) | one row per attempt: key, fingerprint, result | `begin`, `finish`, `mark_result_persistence_unknown`, `discard_started` | two processes begin, finish and discard the same row | results are never deleted, classifications never rewritten |
| State machine, authority (`_generated_transitions.py`, `authority.py`) | constants | `ensure_transition`, `authorize_transition` | checked before, applied after | every stored move is an edge |
| Repair (`repair.py`) | evidence events | `complete_repair`, `resume`, `abort_with_residuals` | names attempts by hand over several reads | repair builds on a failure, resume binds a new attempt |
| Registration (`inspection.py`, `rpe.py`) | the initial state | `inspect_pathway`, evaluator, combination | many features, three files | approval is never granted by accident, no false escalation |
| Pathway and evidence store (`storage.py`, `evidence.py`) | pathway rows, event chain | create or replay, compare-and-set with event, append, `verify_chain` | the latest hash is read before the transaction that uses it | one registration, gapless trail, chain that verifies |
| Tenant boundary (`tenant.py`) | owner per pathway | `claim`, `require` | claim and registration in different databases | nothing is written across tenants |
| Outbox (`message_executor.py`) | a row per key: intent, receipt | `begin`, send, `finish` | crash between intent, send and receipt | a key is sent at most once, a success is final |
| File executor (`executor.py`) | results in memory, the file | check, replace, readback | other writers between check and replacement; memory lost in a crash | a key is written once, answers agree with what was written |
| HTTP executor (`http_executor.py`) | results in memory | send, readback | lost requests and responses | one send per key, success only if seen |
| MCP preparation, admission (`mcp_stable_*.py`, `mcp_admission.py`) | snapshots, binding | initialize, tools/list, admit | the server changes between requests, the caller changes its arguments | what is called is what was admitted |
| MCP execution, evidence (`mcp_tool_executor.py`, `mcp_retained_evidence.py`) | the result | execute, retain | a call that fails without saying where | not_sent is said only of what was not sent |
| MCP stdio (`mcp_jsonrpc_session.py`, `mcp_stdio_*.py`) | request id, codec buffer, pipes | exchange, read, write | late, partial, joined, foreign or endless output | a result rests on the answer to the very request |
| MCP subprocess (`mcp_local_subprocess_stdio.py`, `mcp_subprocess_lifecycle.py`) | process, pipes | spawn, shutdown | every operation can fail, those of the cleanup too | no orphan where a cleanup is attempted, repeated shutdown succeeds |
| Reconciliation helper (`reconciliation.py`) | none | `reconcile_started_attempt` | writes the ledger whatever the pathway is doing | costs nobody a result or a row |
| Principals (`principal.py`, `identity.py`) | issuers, bindings | resolve, `actor_for`, `transition_as_principal` | a move and the event that says who made it are two transactions | the event names who made the move |
| Read-only server, diagnostics (`mcp_server.py`, `mcp_read_model.py`, `diagnostics.py`) | session handshake | the tools, `diagnose_pathway` | several reads of a store that changes in between | nothing unsettled looks settled, a diagnosis fits together |
| Redaction and strict JSON (`redaction.py`, `attempts.py`, `mcp_admission.py`) | budgets of one walk | walk, copy | shared and cyclic containers | the verdict is right and the work bounded |
| Backup (`backup.py`) | copies, manifest | `backup_sqlite_set`, `restore_sqlite_backup` | one database at a time, interrupted anywhere | what was dispatched is not dispatched again after a restore |
| Agent adapters, read-only connection rehearsal, release tooling | see section 7 | | | not modelled |

Interactions: callers and agent adapters call the runtime; the runtime calls the store, the
ledger and an executor (file, HTTP, message, MCP tool) and, in `reconcile`, an observation
strategy. The tenant-scoped runtime wraps the runtime. Processes interact through the
databases, the file system and the network only; nothing locks across them beyond one
SQLite transaction.

## 2. Modules

```
PathwayStates   table and authority         Admission   inspection and evaluator
   |        \                                  |     Principals   credentials
   |         PathwayContract (abstract)        |        |
AttemptLedger     |                            |        |
   |              |                            |        |
PathwayRuntime ---+ (refines)             PathwayRegistry (with PathwayStates)
   |                                           |
BackupSet                                 ReadOnlyServer
   |                                           |
PathwayRuntimeProofs (of both)            RegistryProofs (of both)

          ExecutorContract (abstract)
         /        |         \
MessageOutbox FileExecutor HttpExecutor    (each refines it)
      |           |           |
OutboxProofs  FileProofs   HttpProofs

McpStdio -> StdioProofs   McpCall -> CallProofs   McpLifecycle -> LifecycleProofs
                          McpCall, JsonWalks -> McpDocuments
```

Each `MCx` module gives the constants of `x` their small values.

**PathwayStates** is the table and `authority.py` as constant operators. `Definition` maps
the roles of a registered pathway to actors and is a parameter: the theorems hold for every
assignment of roles.

**AttemptLedger** has one operator per transaction of `attempts.py`. A row is absent,
started, or has one of four results: `verified` and `unverified` are SUCCEEDED with and
without readback. `begin` matches rows by attempt id *or* by key, as its SELECT does. The
evidence of a result has one of three sizes, because two bounds matter: what redaction lets
into an event (`plain`), what the ledger persists beyond that (`large`), and what neither
takes (`foreign`).

**PathwayRuntime** is the core: `execute`, `reconcile`, `transition`, the
`RepairCoordinator` and the helper `reconcile_started_attempt` (`Probe`) on one pathway. A process is a program counter and a record of what it
holds in memory (`call`); a step is one statement or transaction, one call of the executor
or one observation, with the computation behind it. Guards and early returns become
returns to `Idle`; an exception before dispatch leads through the undo path
(`UndoRead`, `UndoDiscard`). `bound` and `repaired` are what the code recovers by scanning
the evidence for the latest matching event (`_active_running_attempt_id`,
`repair_completed`). `dispatched` and `applied` are history variables for the properties:
how often the executor was invoked, and for which attempts its external effect took place.
The executor is external: it returns any of `Outcomes` that is true of the effect, or
raises, which the code takes for unknown.

**PathwayContract** is what the runtime promises about one pathway without processes,
databases or crashes: moves along the table, and for each attempt at most one dispatch,
never before the pathway was admitted to RUNNING.

**Admission** and **PathwayRegistry** model registration and the evidence chain: the
inspection verdict from the features of a definition (its responsibility route is one), its
combination with the evaluator, then `register` as claim, evaluation, creation and event; `transition`
with its state read, hash read and commit. An event keeps the position of the event its
hash was computed from (`prev`), since different events have different hashes.
`transition_as_principal` resolves a credential with **Principals** (the trusted, the claims
and the external resolver, the validity window with its skew, the static binding), checks the
authority, transitions, and appends its `principal_authorization` event in a transaction of
its own.

**ReadOnlyServer** adds a reader to the registry: the handshake of the MCP server, each tool
as the statements it consists of, and `diagnose_pathway` with its three reads. Requests that
are refused change nothing and are left out.

**BackupSet** adds an operator to the runtime, who backs up the two databases one after the
other into a directory and restores complete sets. Copies are contents, and a content stands
for its digest. A backup begins when no operation is under way, and the runtime is opened
again when both databases are restored, as `docs/en/install-operations-recovery.md:61` asks;
the runtime can be killed at any point for a restore. Backups are refused and interrupted
anywhere, stored copies decay. `known` is a history variable: what was dispatched in the
history the databases are of.

**MessageOutbox**, **FileExecutor**, **HttpExecutor** model the executors, with caches in
memory where the code has them in memory and rows where it has rows, and exceptions by the
handler that catches them. The external systems (transport, file system, server) do what
their interface allows.

**ExecutorContract** is what they promise to the runtime, whatever they act on: under an
idempotency key the effect is attempted once; FAILED is answered only for a request whose
effect was never attempted, SUCCEEDED only for one whose effect is known, and a success is
never taken back. Each of the three implements it under a mapping of its own:

| | an executor is | `tries` | `done` | `excused` | `Persistent` |
|---|---|---|---|---|---|
| `MessageOutbox` | all processes on one outbox, and their successors | calls of the transport | delivered | an exception that is no `OSError` was met | yes |
| `FileExecutor` | one `LocalFileExecutor` object | replacements of the file by it | those it wrote | nothing | no |
| `HttpExecutor` | one `HttpMutationExecutor` object | requests sent | a readback verified it | execute raised, or its answer was misread: by the readback, or as a redirect | no |

With `Persistent = FALSE` a restart begins the contract anew: what an executor keeps in memory
it cannot answer for afterwards. The contract is the other side of what
`PathwayRuntime!Truthful` assumes of a result: a success means that the effect took place, a
failure that it did not. A restart does not weaken it for the runtime, which never dispatches
an attempt twice (`AtMostOnceDispatch`) and so does not ask again what an executor has
forgotten. What is excused is where the code departs from the contract (section 6).

**McpCall** models a tool call from preparation to retained evidence while the server may
be replaced by another generation. **McpStdio** models the same call on the wire: a line is
two tokens, and a read or a write can stop between them. The pipe to the server holds
`PipeSize` tokens, and a write waits until a live server takes some out (`drained`), which it
need not do. The server answers a request at most once, and only what it was asked; beyond
that it may be late, silent, noisy or dead. **McpLifecycle** models the subprocess; `cause` is
the operation whose exception the constructor raised. **JsonWalks** has the bounded walks over Python object graphs as recursive
operators: the strict walk of `mcp_admission.py` and `attempts.py`, and redaction. Their
verdicts, and what redaction copies, are compared with definitions that count the walks of
the graph. **McpDocuments** puts the two together: the arguments and the evidence of a call
are such graphs. To `McpCall` alone a document is accepted by the strict walk or not, so that
its proofs do not depend on the recursion.

## 3. Runs

| Run | What it asks |
|---|---|
| `split` | One process executes, another reconciles, probes the ledger, repairs, resumes, transitions and aborts at any point, one of them crashes. Types, the inductive invariant `DispatchInv`, table-only moves, results that are never deleted, refinement of `PathwayContract`. |
| `serial` | One process that crashes twice, two attempts, one key reused with other data, a request that is not strict JSON, evidence of every size, every manual transition that the operation set allows. At most one dispatch, of the bound attempt; completion by a recorded success only, repair of failures only; final classifications; with retrying callers RUNNING and unknown pathways are resolved. |
| `double_dispatch` | *Violation.* Two processes execute the same attempt (section 6). |
| `registry` | Two processes for two tenants and for none, three definitions, credentials of every kind, a crash, and a reader: a gapless trail that begins with one registration, which is recorded unless a process stopped before that, principals recorded for their own moves, approval only by the authority, no false escalation, no step across a tenant boundary; counts that hide nothing and diagnoses that fit together. |
| `forked_chain` | *Violation.* Two processes append to one chain (section 6). |
| `outbox` | Two processes, two keys, messages of every kind, transports and databases that raise anything, a crash: a key is sent at most once, FAILED is for what was never sent, refinement of `ExecutorContract`. |
| `file` | Two executors and another program that writes and deletes one file, one crash: no text replaced that the caller did not expect, refinement of `ExecutorContract` by each executor (one write per key, no FAILED for what was written). |
| `http` | Five calls over requests of every kind, one crash, exceptions that no handler expects or that the wrong one catches: one send per key, refinement of `ExecutorContract`. |
| `mcp_call` | Two calls, nine generations of the server, three contracts, a caller that changes its arguments; and the JSON walks on every small graph, shared and cyclic ones included. |
| `stdio` | Two calls with and without readback, a server that answers late, in pieces, with noise, dies, or stops reading: success and tool errors rest on the answer to the very request, a framing error is final, and every call ends unless a live server leaves a full pipe unread for good. |
| `lifecycle` | Spawn and shutdown with up to four failing operations, also in the cleanup of a failed constructor, processes that ignore EOF or SIGTERM. |
| `backup` | Two directories, two attempts, interrupted and refused backups, decaying copies, restores of any complete set at any point. |

### Bounds and why they are enough

- *Processes:* two. Each property concerns a row, a key or a pathway, and every race found
  or excluded is between one process that decides and one that changes what it decided on.
  The proofs of section 5 remove the bound where there are proofs.
- *Attempts and keys:* two; repair needs a prior and a next attempt, and no operation looks
  at three. `serial` adds a request that reuses an attempt and its key for other data.
- *Crashes:* one or two. A crash loses only memory; the second one hits the recovery from
  the first.
- *`MaxDispatch = 2`:* one more than allowed, so that a second dispatch is seen and not cut.
- *Calls* (`registry` 3, `http` 5, `file` 4, `stdio` 2): register, retry and transition;
  first call, conflict, replay and retry after a crash; the answer of the first call
  arriving during the second. In `registry` the reader's requests count as calls: one
  registration, one transition and one reader, or two registrations and one.
- *`Limits = {1}`* in `registry`: a limit below the number of rows and events.
- *`Times = {0, 5}`, `Skew = 1`*: a token is tried inside and outside its window, widened and not.
- *`MaxLine = 2`, `MaxEvents = 2`, `MaxNoise = 2`, `PipeSize = 2`:* a line of exactly the limit is legal, one
  more token is not; an exchange can see one foreign event and its own answer, or run out; one request fills the pipe, so that the second call
  finds it full when the server did not read the first.
- *`MaxFaults = 4`* exceeds the number of operations that can fail in one shutdown, so a
  fault can hit the retry too.
- *JSON limits* below the number of walks of a three-node graph: sharing exceeds each
  budget although the objects in memory do not.
- *`backup`:* two directories, so that a set of one time can be restored over another and an
  interrupted directory can be tried again; results are failures, as an unknown also comes
  from killing the process; the refused, repeated and mixed cases do not depend on more.

`CHECK_DEADLOCK FALSE` is set where the model really stops: `registry` and `forked_chain`
when `MaxCalls` operations were performed, `stdio` when the calls are made and the server is
gone, `lifecycle` once the constructor raised or the process was shut down, `backup` when
no set passes its digest check and the runtime stays down. The symmetry used in `registry`
and `outbox` permutes processes, that in `file` executors, that in `backup` directories, and no
liveness is checked there.

### Fairness

- `PathwayRuntime!FairSpec`: weak fairness of `Proceed` (a thread inside an operation goes
  on; SQLite's busy timeout turns a lock into a step or an exception). Strong fairness of
  `RetryBound` and `ReconcileBound`: the callers repeat the request for the bound attempt, with
  the data it was begun with, and reconcile it, which the runtime has no thread of its own to
  do; and of `ObservePersistable`: among the observations one is conclusive and within the
  ledger's bounds, since one that never is leaves the pathway unknown for ever by design.
  Evidence that the ledger takes and the events do not is *not* excluded; `UnknownResolves`
  names that outcome instead.
- `McpStdio!Spec`: weak fairness of `Progress`, the steps of a client that is not waiting for
  the pipe: a call under way runs on, and the readback observer returns. The read timeout is
  such a step, so reading needs nothing of the server. A write does: it has no timeout and
  waits for a live server, and `ExchangeEnds` names this as the one way a call does not end
  (`Blocked`). No operation need fail, and the server need not do anything.
- `McpLifecycle!FairSpec`: weak fairness of the owner, of a caller that repeats a failed
  shutdown, and of the exit of a process that was told in a way it obeys (a kill always is).

### Properties that need the serial setting

`DispatchIsBound`, `ClassifiedIsFinal`, `CompletedBySuccess`, `ResumedAfterFailure` and
`RejectionLeavesNoRow` hold when one process performs all operations and do *not* hold when a
second one reconciles and marks states by hand while an execution is under way: section 6
gives the reasons. They are claimed for `serial` only.

## 4. Mutants

Next to the definition it changes, a module keeps the mutant that shows each property to
have teeth ("Mutant: ..."): a dropped guard, a missing reset, a result taken for another.
`PROJECT.json` names, for each property of each passing run, the mutant that violates it.

## 5. Proofs

The theorems hold for every set of processes, attempts, keys, requests, tenants, definitions,
generations and documents and every bound, under the named `ASSUME`s of the modules. These give
the constants their types and keep `None` apart from real values; `BackupAssumption` does the same for copies: neither a content of a
database nor a damaged file is `None`, the absence of a copy. Three say more.
`OutboxAssumption`: a fingerprint stands for one request, as it is computed from action and
parameters (`message_executor.py:111`). `RegistryAssumption`: a definition that names an
approval authority has one. `CallAssumption`: the capabilities, the identity and the schemas of
a generation have the shapes `McpCall` gives them.

**PathwayRuntimeProofs.** `TypeInv` strengthens `TypeOK` by what a process has in memory at
each label (`CallShape`): that a process about to dispatch has a request and an attempt, that
one about to compare-and-set has a snapshot and a goal that is an edge from that snapshot.
From it:

- `TypeCorrect`: `Spec => []TypeOK`;
- `TableStepsHold`: every change of the stored state is an edge of the table. The check is
  made on a snapshot, and it is still true at the write because the write is conditional on
  the snapshot;
- `ResultsAreKeptHolds`: no step deletes a row that has a result.

With one executing process (`OneExecutor`), any number of stewards and
any crashes and probes, `DispatchInv` is inductive, and

- `DispatchInvHolds`: `Spec => []DispatchInv`;
- `AtMostOnceDispatchHolds`: no attempt is dispatched twice;
- `ImplementsContractHolds`: `Spec` implements `PathwayContract` with `state <- pstate`,
  `count <- dispatched`.

At-most-once is not inductive alone. It needs: a dispatched attempt keeps its row; a process
between its insertion and its dispatch owns a row nobody dispatched, and no two own the same;
the recovery that removes a started row happens only while the pathway never ran, which the
evidence shows for good (`bound = None`). `OneExecutor` is used in two places: the reset of a
started row, which a second executing process may own, and the entry into RUNNING, while a
second one is about to reset. `double_dispatch` shows that the
assumption cannot be dropped.

With one process for all operations (`OneProcess`, the serial setting), and still any
attempts, requests, evidence and crashes, five more invariants are inductive beside it:

- `DispatchIsBoundHolds`, from `BoundInv`: an execute past its binding check that finds the
  pathway RUNNING runs for the bound attempt, and it is RUNNING at the dispatch;
- `ResumedAfterFailureHolds`, from `RepairInv` beside `DispatchInv`: a row that says failed is
  true of the effect, also of an attempt that was repaired, because the executor is invoked
  only while a row is started (`StoreTrue`); and what a process remembers between two reads is
  true as well (`Remembers`). That an execute never starts a repaired pathway again uses
  `DispatchInv`: what is APPROVED was never bound, so it was never repaired.
- `CompletedBySuccessHolds`, from `SuccessInv`: a row that says succeeded is of a dispatched
  attempt, and `verified` is true of its effect; and what the process carries from the result
  to the move into COMPLETED stands in a row. Also needed: an operator does not complete the
  pathway by hand (`"completed" \notin ManualTargets`).
- `RejectionLeavesNoRowHolds`, from `OwnedInv`: while there was no crash, a started row that was
  not dispatched belongs to the process that will dispatch or discard it (`NoOrphan`), and the
  exception path of `execute` is only taken while the pathway is not RUNNING, so that it does
  discard. Also needed: nobody probes the ledger (`Probers = {}`), since a probe begins a row.
- `ClassifiedIsFinalHolds`, from `FinalInv`: at every label that leads to a write of the row the
  row is not classified. `finish` writes to the row of the attempt and `begin` reads by attempt
  *or* key, so the row that was looked at has to be the row that is written: callers use an
  attempt id with one key (`OneKey`), and then no two rows have the same key (`OwnRows`).

`RestoredDispatchesOnceHolds` is about `BackupSpec`, the runtime with its backups and restores,
for any number of processes, directories and attempts. The parts of `DispatchInv` are said of
any set of dispatched attempts and any contents (`Sound`), and `BackupInv` says them three times:
of the live databases with the attempts of their history, unless a restore is under way
(`Held`); of the two copies of every complete set with the attempts its manifest stands for,
as of one moment when no operation was under way (`Consistent`); and, from `RestoredSoFar`, of the
databases that a finished restore has put back. The second holds because the copies a backup has made so
far are of what the databases still hold, and none is made in a directory that has a manifest
already (`CopiedSoFar`); decay changes copies, never digests. Two hypotheses: `OneExecutor`, and
`StaleLogs = FALSE`, without which the property is false (section 6, `backup.py:125`).

**OutboxProofs.** `OutboxInv`: a process past `begin` has the row of its key; the process
about to send is the only one under its key, and nothing was sent under it; what was sent has
a row with its fingerprint. Hence `SentAtMostOnceHolds` for any processes, crashes and faults.
A request that was answered FAILED is `Hopeless` (malformed, or its key holds other data),
which no step undoes; hence `FailedIsUnsentHolds`. `SuccessInv`: the holder of a key is
alone and its row has no receipt; a durable receipt tells the truth; SUCCEEDED was only ever
answered for what has one. What is replayed is then what was answered, because a row with the
fingerprint of a request is of its kind (`SuccessStays`). Hence `ImplementsExecutorHolds`: a send
is a `Try` of the contract (`SendTries`), every answer a `Say` or the repetition of a success
(`AnswerSays`), and the other steps, crashes included, are none of its concern (`StepKinds`).

**RegistryProofs.** `RegistryInv`: what a process holds at each label, a scoped operation
past its claim or require, by a principal or not, works on a pathway its tenant owns (`Scoped`; ownership never
changes, so the check stays true), and a row began in the state that `first_state` computes
for it (`Founded`). Hence `RegistryTypeCorrect`, `TenantBoundaryHolds` and
`NoFalseEscalationHolds`; the last is about `_combine` and `_initial_state` for all
features and all answers of the evaluator.

Theorems about the evidence, beside `RegistryInv`. `TrailInv`: nothing is
recorded of a pathway without a row; at most one process is about to record a registration,
the one that inserted the row, and it is not recorded yet (`OneRecorder`); a process that is
past its read of the state works on a row that is there, and if it approves, its actor is the
authority of that row's definition (`Knows`), which no other step changes; the trail is gapless
(`Gapless`), because the commit is conditional on the state the event starts from; every move
to APPROVED is by the approval authority (`Approved`). Hence `StateTrailHolds`, and with
`Founded` `ApprovalWasGivenHolds`. `RegistrationsAreRecordedHolds` counts the pathways that have a
row, no registration event and no process about to write one (`Unrecorded`): only a crash adds to
them, and a crash adds one at most, because a process records one registration at a time. Positions of events are compared instead of filtered
sequences: a filter takes an operator, which the provers cannot instantiate.

`PrincipalMadeTheMoveHolds` counts: for every pathway, actor and target, the
`principal_authorization` events and the processes between a transition and its record are at
most as many as the transitions by that actor to that target (`MadeInv`). It is inductive because a record is
written by a process that then stops owing it, and a crash only forgets a debt.

The last two are about the reader (`ServerSpec`). Pathways and events are only added, and what
is settled stays settled (`WorldGrows`); hence `ServerInv`: what a request holds from an earlier
read is at most what a later one would find (`StatusFits`, `DiagnosisFits`), and a state it saw
is one that such a definition can reach (`Reached`). `StatusHidesNothingHolds`: the first count
can only fall behind the store. `DiagnosisIsSoundHolds`: who is named as able to act can act
(`AuthorityCanAct`), since a pathway awaits an approval only where its definition names an
authority for it.

**LifecycleProofs.** `LifecycleInv`: stdin is closed from the first wait on, an exit is noted
only for a process that exited, an error leads to the finally clause and nowhere else; a failed
registration that comes to the wait of its cleanup has killed the process. Hence
`ResultIsTrueHolds`, `PipesAlwaysClosedHolds` and `NoOrphanHolds` for any number of faults; the last
one names what it does not promise: the process runs on after `DefaultSelector` or the kill failed,
and one that was killed may be exiting still when the wait for it fails.

**HttpProofs.** `HttpInv`: a request that was sent raised, or its result is kept, or it is
under way (`Accounted`); nothing is kept under the key of a request under way; only a request
that raised is sent again; a kept SUCCEEDED was read back, and a kept FAILED was not sent. The
cases the code does not cover are part of the invariant and of the properties: what `execute`
raises leaves nothing to replay, and a readback, or `urlopen` at a redirect whose Location is no
URL, may raise what the last handler takes for a request that was never built (`misread`). Hence `SentOnceUnlessRaisedHolds`, for the life of one
process: its cache is in memory. For the refinement two parts are added: what was read back was
sent (`Seen`), and what was answered SUCCEEDED is kept as such (`SuccessKept`), so that a replay
repeats it and nothing is recorded over it. Hence `ImplementsExecutorHolds`; a crash maps to
`Restart`.

**FileProofs.** `FileInv`: a request that was written was written once, and has its result
kept or is about to be read back (`Accounted`); a kept SUCCEEDED was written and a FAILED is
never kept, so that a retry is checked again; what was answered SUCCEEDED is kept
(`SuccessKept`); an executor about to replace a file nobody touched since its check finds there
what it checked (`CheckStands`). Hence `PreconditionHonouredHolds` and
`ImplementsExecutorHolds` for any number of executors, crashes and foreign writers and deletions. The
refinement is one of each executor; a step of another leaves its part of the state alone
(`OthersStep`). It is stated as initial states and a step property over all executors, because
TLC does not evaluate a temporal formula with a parameter under a quantifier.

**CallProofs.** `CallInv`: a request that admission produced is bound to the two snapshots it
was admitted from, which passed their validation, and has the arguments that were proposed
(`Admitted`); what the server received is such a request under its tool, and its result is not
`not_sent` (`Received`). A holder may rewrite the binding; dispatch checks its fields, which is
why `Received` says that they are there. Hence `CallTypeCorrect`, `DispatchAsBoundHolds`,
`ArgumentsAsAdmittedHolds` and `PreDispatchIsPureHolds`, for every list of tools: that one entry
has the name and the walk selects its schema is the lemma `OneOffer`.

**StdioProofs.** For any number of calls, any size of the pipe, any server that answers a request at
most once and only what it was asked, and any split of the output into reads.
`StdioInv`: a request is in one place, on its way, with the server, or answered (`Flow`);
a line that ends in the pipe or in the buffer and names a request is the server's answer to it
(`Honest`, which looks at the end of a line only and so covers one that a read cut in two); a framing error poisons the codec, and a poisoned codec is never read again.
Hence `OwnAnswerHolds` and `PoisonIsFinalHolds`. The lemmas say how cutting and joining
sequences preserves `Honest`.

The type invariants of seven proved modules are theorems (`TypeCorrect`, `RegistryTypeCorrect`,
`OutboxTypeCorrect`, `HttpTypeCorrect`, `CallTypeCorrect`, and as conjuncts of `LifecycleInv` and
`FileInv`); that of `McpStdio` is a conjunct of `StdioInv`. The other modules state theirs as
`TypeOK` for the reader, and their runs are spent on what the code could get wrong.

*Only model-checked:*

- `RunningResolves`, `UnknownResolves`, `ExchangeEnds` and `RetriesSucceed`: liveness under
  fairness, out of TLAPS' reach;
- `WalksAreRight` and `RedactionIsRight`: what a recursion over data computes for every graph is
  an induction over data, out of the provers' reach.

## 6. Where the code and its documents disagree

Two are shown by runs:

- **`double_dispatch`** (`runtime.py:119`). A process that finds a started row in a pathway it
  read as APPROVED discards it and begins again. If the first process is between its
  insertion and its admission, both are admitted: the first enters RUNNING and dispatches,
  the second finds RUNNING at `runtime.py:133` and dispatches too.
  `specs/claim-traceability.json:49` claims "RPR prevents automatic duplicate dispatch for
  identical persisted attempts within the tested single-node SQLite runtime boundary", and
  `tests/test_http_and_attempts.py:176` tests the order in which it holds.
- **`forked_chain`** (`runtime.py:340`). The latest hash is read in one statement and used in
  a later transaction that does not check it. Two processes append events with the same
  `previous_hash`, and `verify_chain` rejects the chain ever after.
  `specs/claim-traceability.json:115` promises "ordered, hash-linked, inspectable evidence".

Others were met while modelling; the models follow the code, and the properties above say
exactly what is left.

- `runtime.py:133-137` accepts a RUNNING pathway whatever attempt it is bound to. The binding
  is checked at 103-109, before `begin`. When another process resumes the pathway for another
  attempt in between, an attempt is dispatched that the pathway is not bound to.
- `runtime.py:143` keeps the started row when the refused execution finds the pathway
  RUNNING, also when it runs for another attempt (compare
  `specs/runtime-claim-assurance-case.md:59`).
- `attempts.py:317`: `finish` overwrites what the row holds. A late executor rewrites a
  classification that reconciliation persisted after the pathway was set to unknown by hand.
- `runtime.py:235`: a pathway in WRITE_STATUS_UNKNOWN for attempt a2 is moved by a replay of
  the classified attempt a1 (`specs/runtime-claim-assurance-case.md:68`: "Possible-dispatch
  uncertainty survives ..."). A failed a1 sends it to REPAIR_REQUIRED although a2 may have
  taken effect. With three attempts a success can do the same: a1 takes effect and is left
  unknown; `execute(a2)` inserts its row and the process dies before the undo; `reconcile(a2)`
  observes a failure, and the pathway is repaired for a2 and resumed to a3; a3 is left unknown;
  `reconcile(a1)` verifies the old effect and completes the pathway while it is bound to a3.
  `CompletedBySuccess` therefore promises the recorded success of a dispatched attempt, not of
  the bound one; with the two attempts of `serial` they are the same.
- `runtime.py:171`: a result beyond the redaction bounds is persisted (the ledger's bounds are
  wider) and then cannot be recorded as an event. The pathway stays RUNNING until the replay
  makes it unknown, and no `execute` or `reconcile` leads out of that: each replays the
  persisted result and raises. `UnknownResolves` names this outcome (`Unreportable`).
- `reconciliation.py:37`: `reconcile_started_attempt` begins the attempt before it looks at it,
  so that probing a new one leaves a started row, and it persists an unresolved observation as
  a result, which `specs/runtime-reconciliation-change-contract.md:59` rules out for
  reconciliation: "The attempt ledger MUST NOT be finalized with a `write_status_unknown`
  result merely because one observation was inconclusive".
- `runtime.py:275` and `runtime.py:316`: a SUCCEEDED without readback leaves the pathway
  unknown in `execute`, and a later `reconcile` replays it as a completion without
  observing anything (`specs/runtime-claim-assurance-case.md:65`). `CompletedBySuccess`
  therefore promises the effect of verified successes only.
- `attempts.py:287-300`: a row found by key with the same fingerprint is replayed although it
  belongs to another attempt id.
- `runtime.py:352`: an invalid definition goes to the Human Gate when the evaluator answers
  `human_gate`, although the comment at `inspection.py:143` holds it. `NoFalseEscalation`
  allows this case.
- `message_executor.py:147`: an exception that is no `OSError`, raised by the transport or by
  SQLite after the send, is answered FAILED (`README.md:91` speaks of uncertain writes).
  `FailedIsUnsent` excludes these requests (`faulted`).
- `http_executor.py:109`: a `ValueError`, `KeyError` or `TypeError` of the readback, after the
  request was sent, is answered FAILED, and so is the `ValueError` that `urlopen`
  (`http_executor.py:91`) raises when the server answers with a redirect whose Location is no
  URL; the FAILED is kept and replayed. At `http_executor.py:104` exceptions of `http.client`
  match no handler and nothing is cached. `misread` and `raised`
  mark them.
- `executor.py:74`: another writer between the comparison and `os.replace` is overwritten and
  the caller told SUCCEEDED. `PreconditionHonoured` excludes exactly this window.
- `executor.py:59`: results are kept in memory. After a crash a retry finds its own text where
  it expected the old one and answers FAILED for a write that was made. The contract begins
  anew with the process, so `ImplementsExecutor` does not speak of it.
- `mcp_local_subprocess_stdio.py:81`: a write to the server's stdin blocks without a timeout;
  `read_timeout_seconds` bounds reads only. A server that lives and reads nothing more (or is
  itself blocked on a stdout that nobody reads while the client writes) makes the call wait for
  good, and with it the caller. `ExchangeEnds` names this outcome (`Blocked`).
- `mcp_local_subprocess_stdio.py:69`: `selectors.DefaultSelector()` stands between `Popen` and
  the guarded `_register`; when it raises (no file descriptor, no memory) the constructor
  fails and the process runs on without an owner. So it does when the `kill` of the cleanup at
  171 raises. `NoOrphan` names both.
- `mcp_stable_transport.py:87`: the identity of one generation of the server can be bound with
  the tool schema of another (`mcp_stable_snapshot.py:57`). `DispatchAsBound` speaks of calls
  for which one generation answered throughout.
- `mcp_retained_evidence.py:119` requires binding fields that admission never produces, so
  the evidence of an executed request cannot be retained (`docs/en/mcp-integration.md:25`);
  `Retain` and `Rebind` keep both sides.
- `backup.py:125`: `temporary.replace(target)` replaces the database and not the write-ahead
  log that a killed process leaves beside it. SQLite replays that log into the restored file,
  and the database keeps its newer content (tried with the code: the restore returns, the
  integrity check is `ok`, the row has the newer state). `tests/test_backup_export.py:25`
  restores into a fresh path. With `StaleLogs = TRUE` TLC finds how this dispatches again: two
  sets, two restores, and a store of the earlier one under the ledger of the later one. The
  `backup` run has `StaleLogs = FALSE`: the processes were closed, or the log was removed.
- `backup.py:77`: the databases are copied one after the other. Copied beside a running
  operation, store first, the set can hold an APPROVED pathway with the started row of an
  attempt that was dispatched, and ledger first, a RUNNING pathway without it; both are
  dispatched again after a restore. The operations guide asks for consistent copies without
  saying that the runtime must be idle for it.
- `mcp_read_model.py:68`: the two counts of `rpr.get_status` can show more unresolved pathways
  than there are. `StatusHidesNothing` is the direction that holds.
- `mcp_read_model.py:130`: `rpr.get_evidence` returns the oldest events, so that a limit cuts
  the latest ones off.
- `runtime.py:72`: a blank approval authority is accepted for classes that need no approval;
  such a pathway can wait for an approval nobody can give, and a diagnosis hands over to a
  blank name. `DiagnosisIsSound` excludes blank roles.
- `runtime.py:95`: a crash between a principal's transition and its
  `principal_authorization` event leaves a move without a name. `PrincipalMadeTheMove` is the
  converse: an event never names someone who did not make the move.
- `runtime.py:74`: a crash between the insertion of a pathway and its `pathway_registered`
  event loses the event: a retry of `register` is a replay and records nothing.
  `RegistrationsAreRecorded` promises that nothing but such a stop loses one; an exception of the
  append itself (a full disk, a lock that outlasts the busy timeout) stops the operation at
  the same point and counts as one.
- `tenant.py:128`: the claim is committed before registration, which may then fail; the id
  stays claimed without a pathway. No document says what should become of it.

## 7. Not modelled

- *Agent adapters* call `runtime.execute` once per invocation and keep nothing; what their
  retries do is what the callers of `PathwayRuntime` do.
- *Read-only connection rehearsal*: one request behind checks of its URL and headers, no state.
- *Threads inside one executor object*: the file executor's cache has no lock; one call at a
  time is assumed per object.
- *Partial replays of a write-ahead log* that damage a restored file; SQLite reports those.
- *Identity*: signatures belong to the external verifier, whose answer is an input; numeric
  claims that are not finite are left out.
- *Normalisation of origins, route visibility, wording of diagnoses*: pure functions on text,
  or renderings of the row that was read.
- *Compensation* is a value object; *release, lifecycle and assurance tooling, site, examples*
  are single-run scripts over documents and files. The Lean development in `formal/` is separate.

## 8. Plan

Done, in this order: the table, the ledger and the runtime with its contract; their proofs;
outbox and registry with proofs; executors; MCP, with proofs of the subprocess lifecycle;
evidence sizes and probes in the runtime with their proofs; JSON walks and redaction;
principals, the read-only server and diagnostics; backup and restore; proofs of the file and
HTTP executors, of the trail of evidence, of the operations of one process, of the tool call and
its wire, of the reader, of the stability of the outbox and of backup and restore; the contract
of an executor, with proofs that the message, file and HTTP executors implement it.

The plan is done: every safety property that a run checks is a theorem but the two that need an
induction over data. What is left would widen the model: the components of section 7.
