--------------------------- MODULE PathwayRuntime ---------------------------
(***************************************************************************)
(* ResponsibilityPathwayRuntime (runtime.py) and RepairCoordinator         *)
(* (repair.py) acting on one registered pathway.  Several processes, each  *)
(* with its own runtime object, share one pathway store and one attempt    *)
(* ledger.  A step of a process is one database statement or transaction,  *)
(* one call of the executor or one observation, with the computation that  *)
(* follows it; whatever other processes do can come between two steps, and *)
(* a crash loses what the process holds in memory and nothing else.        *)
(***************************************************************************)
EXTENDS PathwayStates, AttemptLedger

CONSTANTS
  Procs,          \* runtime processes
  Executors,      \* the processes whose callers use execute
  Stewards,       \* the processes whose callers use every other operation
  Probers,        \* the processes whose callers use reconcile_started_attempt
  InitialStates,  \* the states registration left the pathway in
  ManualTargets,  \* the targets callers pass to transition
  Outcomes,       \* the results the executor can return
  Evidence,       \* how large the evidence of results and observations can be
  MaxDispatch,    \* bound on how often one attempt is counted as dispatched
  MaxCrashes      \* bound on process crashes

ASSUME RuntimeAssumption ==
  /\ Executors \subseteq Procs /\ Stewards \subseteq Procs /\ Probers \subseteq Procs
  /\ InitialStates \subseteq {"awaiting_approval", "approved", "held", "human_gate", "denied"}
  /\ ManualTargets \subseteq PathwayState
  /\ Outcomes \subseteq Results /\ Evidence \subseteq Shapes
  /\ MaxDispatch \in Nat /\ MaxCrashes \in Nat
  /\ None \notin PathwayState \cup Results \cup Shapes \cup {"started"}

VARIABLES
  pstate,      \* the pathway's row in the store
  bound,       \* attempt named by the latest event whose payload.to is running
  repaired,    \* prior_attempt_id of the latest repair_completed event
  call,        \* what each process has in memory
  dispatched,  \* how often the executor was invoked for an attempt
  applied,     \* attempts whose external effect took place
  crashes      \* crashes so far

vars == <<pstate, bound, repaired, ledger, call, dispatched, applied, crashes>>
storeVars == <<pstate, bound, repaired>>
worldVars == <<dispatched, applied>>

\* Where a process is in the operation it performs.
Labels ==
  {"idle",
   \* execute
   "binding", "begin", "replay", "reset", "rebegin", "admit", "start_read", "start_cas",
   "undo", "undo_discard", "dispatch", "inflight", "persist", "fallback", "finish_read",
   \* runtime.transition and the final compare-and-set of any operation
   "transition", "cas",
   \* reconcile
   "rec_begin", "rec_discard", "observe", "rec_persist", "rec_fallback", "rec_finish",
   \* reconcile_started_attempt
   "probe_begin", "probe_observe", "probe_persist",
   \* RepairCoordinator
   "repair_read", "repair_cas", "resume_next", "resume_match", "resume_read", "resume_cas"}

\* An operation in progress: its request, the attempt it acts on, the prior
\* attempt of a resume, the state it read, its target, its result and evidence.
CallType ==
  [pc : Labels, req : Requests \cup {None}, att : Attempts \cup {None},
   prior : Attempts \cup {None}, snap : PathwayState \cup {None},
   goal : PathwayState \cup {None}, res : Results \cup {None}, shape : Shapes \cup {None}]

Idle == [pc |-> "idle", req |-> None, att |-> None, prior |-> None,
         snap |-> None, goal |-> None, res |-> None, shape |-> None]

\* A result, persisted or just obtained, and its evidence.
WithResult(c, label, result, shape) == [c EXCEPT !.pc = label, !.res = result, !.shape = shape]

At(p, label) == call[p].pc = label

\* The process continues with c in memory: at another label, with nothing once
\* the operation returned or raised, or with a new operation.
Become(p, c)   == call' = [call EXCEPT ![p] = c]
Goto(p, label) == Become(p, [call[p] EXCEPT !.pc = label])
Return(p)      == Become(p, Idle)
Enter(p, c)    == At(p, "idle") /\ Become(p, c)

TypeOK ==
  /\ pstate \in PathwayState
  /\ bound \in Attempts \cup {None}
  /\ repaired \in Attempts \cup {None}
  /\ LedgerTypeOK
  /\ call \in [Procs -> CallType]
  /\ dispatched \in [Attempts -> 0..MaxDispatch]
  /\ applied \subseteq Attempts
  /\ crashes \in 0..MaxCrashes

Init ==
  /\ pstate \in InitialStates
  /\ bound = None
  /\ repaired = None
  /\ LedgerInit
  /\ call = [p \in Procs |-> Idle]
  /\ dispatched = [a \in Attempts |-> 0]
  /\ applied = {}
  /\ crashes = 0

-----------------------------------------------------------------------------
(* The final compare-and-set of an operation: transition_with_event changes *)
(* the state and appends the event in one transaction, or raises.           *)

\* Mutant: the UPDATE has no WHERE state = current.
blind_transition(p, target, newBound, newRepaired) ==
  /\ pstate' = target
  /\ bound' = newBound
  /\ repaired' = newRepaired

transition_with_event(p, target, newBound, newRepaired) ==
  /\ pstate = call[p].snap
  /\ pstate' = target
  /\ bound' = newBound
  /\ repaired' = newRepaired

\* The process's snapshot is stale: RuntimeError("concurrent state change").
ConcurrentChange(p) == pstate # call[p].snap /\ UNCHANGED storeVars

\* runtime.transition called by an operation of the runtime on behalf of the
\* execution actor (or of the repair owner for REPAIR_REQUIRED): it reads the
\* state again and checks the table and the authority.
TransitionActor(goal) ==
  IF goal = "repair_required" THEN Definition["repair_owner"] ELSE Definition["execution_actor"]

TransitionRead(p) ==
  /\ At(p, "transition")
  /\ IF /\ ensure_transition(pstate, call[p].goal)
        /\ authorize_transition(pstate, call[p].goal, TransitionActor(call[p].goal))
     THEN Become(p, [call[p] EXCEPT !.pc = "cas", !.snap = pstate])
     ELSE Return(p)
  /\ UNCHANGED <<storeVars, ledger, worldVars, crashes>>

\* state_transition, execution_result_after_concurrent_unknown,
\* reconciliation_result and residual_closure: neither binds nor repairs.
TransitionCas(p) ==
  /\ At(p, "cas")
  /\ \/ transition_with_event(p, call[p].goal, bound, repaired)
     \/ ConcurrentChange(p)
  /\ Return(p)
  /\ UNCHANGED <<ledger, worldVars, crashes>>

\* runtime.transition called from outside; RUNNING is refused at once.
transition(p, target, actor) ==
  /\ p \in Stewards
  /\ target # "running"
  /\ ensure_transition(pstate, target)
  /\ authorize_transition(pstate, target, actor)
  /\ Enter(p, [Idle EXCEPT !.pc = "cas", !.snap = pstate, !.goal = target])
  /\ UNCHANGED <<storeVars, ledger, worldVars, crashes>>

-----------------------------------------------------------------------------
(* execute                                                                  *)

Execute(p, r, actor) ==
  /\ p \in Executors
  /\ authorize_execution_access(actor)
  /\ Enter(p, [Idle EXCEPT !.pc = IF pstate = "running" THEN "binding" ELSE "begin",
                           !.req = r, !.att = r.attempt])
  /\ UNCHANGED <<storeVars, ledger, worldVars, crashes>>

\* Mutant: execute does not compare the attempt with the bound one.
SkipBinding(p) ==
  /\ At(p, "binding")
  /\ Goto(p, "begin")
  /\ UNCHANGED <<storeVars, ledger, worldVars, crashes>>

\* _active_running_attempt_id; an execute bound to another attempt raises.
CheckBinding(p) ==
  /\ At(p, "binding")
  /\ IF bound = call[p].att THEN Goto(p, "begin") ELSE Return(p)
  /\ UNCHANGED <<storeVars, ledger, worldVars, crashes>>

BeginAttempt(p) ==
  /\ At(p, "begin")
  /\ \/ begin_insert(call[p].req) /\ Goto(p, "admit")
     \/ /\ UNCHANGED ledger
        /\ \/ \E a \in Attempts :
                /\ Replays(call[p].req, a)
                /\ IF ledger[a].status = "started"
                   THEN Goto(p, "replay")
                   ELSE Become(p, WithResult(call[p], "finish_read", ledger[a].status, ledger[a].shape))
           \/ Conflicts(call[p].req) /\ Return(p)
  /\ UNCHANGED <<storeVars, worldVars, crashes>>

\* Mutant: a started attempt is restarted in RUNNING too.
ReplayRunning(p) ==
  /\ At(p, "replay")
  /\ IF pstate \in {"approved", "running"} THEN Goto(p, "reset") ELSE Return(p)
  /\ UNCHANGED <<storeVars, ledger, worldVars, crashes>>

\* Mutant: a started attempt of a RUNNING pathway is left alone.
ReplayIgnored(p) ==
  /\ At(p, "replay")
  /\ IF pstate = "approved" THEN Goto(p, "reset") ELSE Return(p)
  /\ UNCHANGED <<storeVars, ledger, worldVars, crashes>>

\* A started attempt without a result: restart it before dispatch, otherwise
\* its outcome is unknown.
ReplayUnresolved(p) ==
  /\ At(p, "replay")
  /\ CASE pstate = "approved" -> Goto(p, "reset")
       [] pstate = "running"  -> Become(p, [call[p] EXCEPT !.pc = "transition",
                                                           !.goal = "write_status_unknown"])
       [] OTHER               -> Return(p)
  /\ UNCHANGED <<storeVars, ledger, worldVars, crashes>>

ResetStarted(p) ==
  /\ At(p, "reset")
  /\ discard_started(call[p].att)
  /\ IF Discardable(call[p].att) THEN Goto(p, "rebegin") ELSE Return(p)
  /\ UNCHANGED <<storeVars, worldVars, crashes>>

BeginAgain(p) ==
  /\ At(p, "rebegin")
  /\ \/ begin_insert(call[p].req) /\ Goto(p, "admit")
     \/ Matching(call[p].req) # {} /\ Return(p) /\ UNCHANGED ledger
  /\ UNCHANGED <<storeVars, worldVars, crashes>>

\* Mutant: an APPROVED pathway is dispatched without entering RUNNING.
AdmitApproved(p) ==
  /\ At(p, "admit")
  /\ Goto(p, IF pstate \in {"approved", "running"} THEN "dispatch" ELSE "undo")
  /\ UNCHANGED <<storeVars, ledger, worldVars, crashes>>

\* The check before dispatch: it looks at the state, not at the binding.
AdmitExecution(p) ==
  /\ At(p, "admit")
  /\ Goto(p, CASE pstate = "approved" -> "start_read"
               [] pstate = "running"  -> "dispatch"
               [] OTHER               -> "undo")
  /\ UNCHANGED <<storeVars, ledger, worldVars, crashes>>

\* _start_execution_pathway reads the state again.
StartRead(p) ==
  /\ At(p, "start_read")
  /\ IF /\ ensure_transition(pstate, "running")
        /\ authorize_transition(pstate, "running", Definition["execution_actor"])
     THEN Become(p, [call[p] EXCEPT !.pc = "start_cas", !.snap = pstate])
     ELSE Goto(p, "undo")
  /\ UNCHANGED <<storeVars, ledger, worldVars, crashes>>

\* Mutant: the event that starts the execution names no attempt.
StartUnbound(p) ==
  /\ At(p, "start_cas")
  /\ \/ transition_with_event(p, "running", bound, repaired) /\ Goto(p, "dispatch")
     \/ ConcurrentChange(p) /\ Goto(p, "undo")
  /\ UNCHANGED <<ledger, worldVars, crashes>>

StartCas(p) ==
  /\ At(p, "start_cas")
  /\ \/ transition_with_event(p, "running", call[p].att, repaired) /\ Goto(p, "dispatch")
     \/ ConcurrentChange(p) /\ Goto(p, "undo")
  /\ UNCHANGED <<ledger, worldVars, crashes>>

\* Mutant: the exception path keeps the started row.
UndoNothing(p) ==
  /\ At(p, "undo")
  /\ Return(p)
  /\ UNCHANGED <<storeVars, ledger, worldVars, crashes>>

\* The exception path before dispatch: the started row is removed unless the
\* pathway is RUNNING.
UndoRead(p) ==
  /\ At(p, "undo")
  /\ IF pstate # "running" THEN Goto(p, "undo_discard") ELSE Return(p)
  /\ UNCHANGED <<storeVars, ledger, worldVars, crashes>>

UndoDiscard(p) ==
  /\ At(p, "undo_discard")
  /\ discard_started(call[p].att)
  /\ Return(p)
  /\ UNCHANGED <<storeVars, worldVars, crashes>>

\* executor.execute is invoked; its external effect takes place or not.
Dispatch(p) ==
  /\ At(p, "dispatch")
  /\ dispatched[call[p].att] < MaxDispatch
  /\ dispatched' = [dispatched EXCEPT ![call[p].att] = @ + 1]
  /\ applied' \in {applied, applied \cup {call[p].att}}
  /\ Goto(p, "inflight")
  /\ UNCHANGED <<storeVars, ledger, crashes>>

\* The executor is external: a verified readback means the effect took place, a
\* failure that it did not; an unverified success or an unknown says nothing.
Truthful(a, result) ==
  /\ result = "verified" => a \in applied
  /\ result = "failed"   => a \notin applied

\* executor.execute returns or raises; an exception is an unknown.
ExecutorReturns(p) ==
  /\ At(p, "inflight")
  /\ \E result \in Outcomes, shape \in Evidence :
       /\ Truthful(call[p].att, result)
       /\ Become(p, WithResult(call[p], "persist", result, shape))
  /\ UNCHANGED <<storeVars, ledger, worldVars, crashes>>

\* ledger.finish persists the result, raises KeyError without a row, or rejects
\* a result that is not strict JSON.  The event that follows repeats the evidence:
\* when redaction refuses it, execute raises and the pathway stays as it is.
PersistResult(p) ==
  LET c == call[p]
  IN  /\ At(p, "persist")
      /\ \/ /\ Persistable(c.shape)
            /\ finish(c.att, c.res, c.shape)
            /\ IF Recordable(c.shape) THEN Goto(p, "finish_read") ELSE Return(p)
         \/ UNCHANGED ledger /\ Persistable(c.shape) /\ ~ Present(c.att) /\ Return(p)
         \/ UNCHANGED ledger /\ ~ Persistable(c.shape) /\ Goto(p, "fallback")
      /\ UNCHANGED <<storeVars, worldVars, crashes>>

\* Mutant: a result that cannot be persisted is recorded as a failure.
MarkPersistenceFailed(p) ==
  /\ At(p, "fallback")
  /\ finish(call[p].att, "failed", "plain") \/ UNCHANGED ledger
  /\ Become(p, [call[p] EXCEPT !.pc = "transition", !.goal = "write_status_unknown"])
  /\ UNCHANGED <<storeVars, worldVars, crashes>>

\* mark_result_persistence_unknown may fail itself; the pathway goes to
\* WRITE_STATUS_UNKNOWN either way.
MarkPersistenceUnknown(p) ==
  /\ At(p, "fallback")
  /\ mark_result_persistence_unknown(call[p].att) \/ UNCHANGED ledger
  /\ Become(p, [call[p] EXCEPT !.pc = "transition", !.goal = "write_status_unknown"])
  /\ UNCHANGED <<storeVars, worldVars, crashes>>

\* Mutant: whatever is not a failure completes the pathway.
FinishOptimistic(result) == IF result = "failed" THEN "repair_required" ELSE "completed"

\* _finish_execution_pathway, for a fresh result or a replayed one.
FinishTarget(result) ==
  CASE result = "verified" -> "completed"
    [] result = "failed"   -> "repair_required"
    [] OTHER               -> "write_status_unknown"

\* Leaving WRITE_STATUS_UNKNOWN appends an event with the result's evidence, so a
\* result whose evidence redaction refuses does not leave it; the events of the
\* other transitions hold no evidence.
FinishExecution(p) ==
  LET goal == FinishTarget(call[p].res)
  IN  /\ At(p, "finish_read")
      /\ CASE pstate = goal -> Return(p)
           [] pstate # goal /\ (pstate = "running" \/ goal = "write_status_unknown") ->
                Become(p, [call[p] EXCEPT !.pc = "transition", !.goal = goal])
           [] pstate # goal /\ pstate = "write_status_unknown" /\ Recordable(call[p].shape) ->
                Become(p, [call[p] EXCEPT !.pc = "cas", !.snap = pstate, !.goal = goal])
           [] OTHER -> Return(p)
      /\ UNCHANGED <<storeVars, ledger, worldVars, crashes>>

-----------------------------------------------------------------------------
(* reconcile                                                                *)

Reconcile(p, r, actor) ==
  /\ p \in Stewards
  /\ authorize_reconciliation_access(actor)
  /\ pstate \in {"write_status_unknown", "completed", "repair_required"}
  /\ Enter(p, [Idle EXCEPT !.pc = "rec_begin", !.req = r, !.att = r.attempt])
  /\ UNCHANGED <<storeVars, ledger, worldVars, crashes>>

\* Mutant: a classified attempt is observed again.
ReconcileAgain(p) ==
  /\ At(p, "rec_begin")
  /\ \/ begin_insert(call[p].req) /\ Goto(p, "rec_discard")
     \/ /\ UNCHANGED ledger
        /\ \/ (\E a \in Attempts : Replays(call[p].req, a)) /\ Goto(p, "observe")
           \/ Conflicts(call[p].req) /\ Return(p)
  /\ UNCHANGED <<storeVars, worldVars, crashes>>

ReconcileBegin(p) ==
  /\ At(p, "rec_begin")
  /\ \/ begin_insert(call[p].req) /\ Goto(p, "rec_discard")
     \/ /\ UNCHANGED ledger
        /\ \/ \E a \in Attempts :
                /\ Replays(call[p].req, a)
                /\ IF ledger[a].status \in Classified
                   THEN Become(p, WithResult(call[p], "rec_finish", ledger[a].status, ledger[a].shape))
                   ELSE Goto(p, "observe")
           \/ Conflicts(call[p].req) /\ Return(p)
  /\ UNCHANGED <<storeVars, worldVars, crashes>>

ReconcileDiscard(p) ==
  /\ At(p, "rec_discard")
  /\ discard_started(call[p].att)
  /\ Return(p)
  /\ UNCHANGED <<storeVars, worldVars, crashes>>

\* strategy.reconcile is external: what it verifies is true of the attempt; an
\* unresolved observation (or an exception) changes nothing.
Observed(a) == IF a \in applied THEN "verified" ELSE "failed"

ObserveVerified(p) ==
  /\ At(p, "observe")
  /\ \E shape \in Evidence : Become(p, WithResult(call[p], "rec_persist", Observed(call[p].att), shape))
  /\ UNCHANGED <<storeVars, ledger, worldVars, crashes>>

ObserveUnresolved(p) ==
  /\ At(p, "observe")
  /\ Return(p)
  /\ UNCHANGED <<storeVars, ledger, worldVars, crashes>>

\* _persist_reconciliation_result: as for execute, with its own fallback.
ReconcilePersist(p) ==
  /\ At(p, "rec_persist")
  /\ Persistable(call[p].shape)
  /\ finish(call[p].att, call[p].res, call[p].shape)
  /\ Goto(p, "rec_finish")
  /\ UNCHANGED <<storeVars, worldVars, crashes>>

ReconcileRejected(p) ==
  /\ At(p, "rec_persist")
  /\ \/ ~ Persistable(call[p].shape) /\ Goto(p, "rec_fallback")
     \/ Persistable(call[p].shape) /\ ~ Present(call[p].att) /\ Return(p)
  /\ UNCHANGED <<storeVars, ledger, worldVars, crashes>>

ReconcileFallback(p) ==
  /\ At(p, "rec_fallback")
  /\ mark_result_persistence_unknown(call[p].att) \/ UNCHANGED ledger
  /\ Return(p)
  /\ UNCHANGED <<storeVars, worldVars, crashes>>

\* _finish_reconciliation_pathway: every success completes the pathway, with an
\* event that holds the evidence.
ReconcileTarget(result) ==
  IF result \in {"verified", "unverified"} THEN "completed" ELSE "repair_required"

\* Mutant: only a success leads out of WRITE_STATUS_UNKNOWN.
ReconcileSuccess(p) ==
  /\ At(p, "rec_finish")
  /\ IF pstate = "write_status_unknown" /\ ReconcileTarget(call[p].res) = "completed"
     THEN Become(p, [call[p] EXCEPT !.pc = "cas", !.snap = pstate, !.goal = "completed"])
     ELSE Return(p)
  /\ UNCHANGED <<storeVars, ledger, worldVars, crashes>>

ReconcileFinish(p) ==
  LET goal == ReconcileTarget(call[p].res)
  IN  /\ At(p, "rec_finish")
      /\ IF pstate = "write_status_unknown" /\ Recordable(call[p].shape)
         THEN Become(p, [call[p] EXCEPT !.pc = "cas", !.snap = pstate, !.goal = goal])
         ELSE Return(p)
      /\ UNCHANGED <<storeVars, ledger, worldVars, crashes>>

-----------------------------------------------------------------------------
(* reconcile_started_attempt: an observation recorded in the ledger alone,  *)
(* whatever the pathway is doing.                                           *)

Probe(p, r) ==
  /\ p \in Probers
  /\ Enter(p, [Idle EXCEPT !.pc = "probe_begin", !.req = r, !.att = r.attempt])
  /\ UNCHANGED <<storeVars, ledger, worldVars, crashes>>

\* It raises unless the attempt is started, and then leaves the row begin inserted.
ProbeBegin(p) ==
  /\ At(p, "probe_begin")
  /\ \/ begin_insert(call[p].req) /\ Return(p)
     \/ /\ UNCHANGED ledger
        /\ \/ \E a \in Attempts :
                /\ Replays(call[p].req, a)
                /\ IF ledger[a].status = "started" THEN Goto(p, "probe_observe") ELSE Return(p)
           \/ Conflicts(call[p].req) /\ Return(p)
  /\ UNCHANGED <<storeVars, worldVars, crashes>>

\* The strategy concludes, reports an unresolved observation or raises.
ProbeObserve(p) ==
  /\ At(p, "probe_observe")
  /\ \/ \E result \in {Observed(call[p].att), "unknown"}, shape \in Evidence :
          Become(p, WithResult(call[p], "probe_persist", result, shape))
     \/ Return(p)
  /\ UNCHANGED <<storeVars, ledger, worldVars, crashes>>

\* finish persists any of the three, or raises.
ProbePersist(p) ==
  /\ At(p, "probe_persist")
  /\ IF Persistable(call[p].shape) /\ Present(call[p].att)
     THEN finish(call[p].att, call[p].res, call[p].shape) ELSE UNCHANGED ledger
  /\ Return(p)
  /\ UNCHANGED <<storeVars, worldVars, crashes>>

-----------------------------------------------------------------------------
(* RepairCoordinator                                                        *)

\* complete_repair looks up the failed prior attempt, then reads the state.
CompleteRepair(p, a) ==
  /\ p \in Stewards
  /\ ledger[a].status = "failed"
  /\ Enter(p, [Idle EXCEPT !.pc = "repair_read", !.att = a])
  /\ UNCHANGED <<storeVars, ledger, worldVars, crashes>>

RepairRead(p, actor) ==
  /\ At(p, "repair_read")
  /\ IF /\ ensure_transition(pstate, "ready_to_resume")
        /\ authorize_transition(pstate, "ready_to_resume", actor)
     THEN Become(p, [call[p] EXCEPT !.pc = "repair_cas", !.snap = pstate])
     ELSE Return(p)
  /\ UNCHANGED <<storeVars, ledger, worldVars, crashes>>

RepairCas(p) ==
  /\ At(p, "repair_cas")
  /\ \/ transition_with_event(p, "ready_to_resume", bound, call[p].att)
     \/ ConcurrentChange(p)
  /\ Return(p)
  /\ UNCHANGED <<ledger, worldVars, crashes>>

\* resume reads the prior row, the next row, the evidence and the state, in
\* this order and each on its own.
Resume(p, prior, next) ==
  /\ p \in Stewards
  /\ prior # next
  /\ ledger[prior].status = "failed"
  /\ Enter(p, [Idle EXCEPT !.pc = "resume_next", !.att = next, !.prior = prior])
  /\ UNCHANGED <<storeVars, ledger, worldVars, crashes>>

ResumeNextIsNew(p) ==
  /\ At(p, "resume_next")
  /\ IF Present(call[p].att) THEN Return(p) ELSE Goto(p, "resume_match")
  /\ UNCHANGED <<storeVars, ledger, worldVars, crashes>>

ResumeMatchesRepair(p) ==
  /\ At(p, "resume_match")
  /\ IF repaired = call[p].prior THEN Goto(p, "resume_read") ELSE Return(p)
  /\ UNCHANGED <<storeVars, ledger, worldVars, crashes>>

ResumeRead(p, actor) ==
  /\ At(p, "resume_read")
  /\ IF /\ ensure_transition(pstate, "running")
        /\ authorize_transition(pstate, "running", actor)
     THEN Become(p, [call[p] EXCEPT !.pc = "resume_cas", !.snap = pstate])
     ELSE Return(p)
  /\ UNCHANGED <<storeVars, ledger, worldVars, crashes>>

ResumeCas(p) ==
  /\ At(p, "resume_cas")
  /\ \/ transition_with_event(p, "running", call[p].att, repaired)
     \/ ConcurrentChange(p)
  /\ Return(p)
  /\ UNCHANGED <<ledger, worldVars, crashes>>

AbortWithResiduals(p, actor) ==
  /\ p \in Stewards
  /\ ensure_transition(pstate, "aborted")
  /\ actor = Definition["residual_owner"]
  /\ Enter(p, [Idle EXCEPT !.pc = "cas", !.snap = pstate, !.goal = "aborted"])
  /\ UNCHANGED <<storeVars, ledger, worldVars, crashes>>

-----------------------------------------------------------------------------
\* A process dies in the middle of an operation and is started again.
Crash(p) ==
  /\ ~ At(p, "idle")
  /\ crashes < MaxCrashes
  /\ crashes' = crashes + 1
  /\ Return(p)
  /\ UNCHANGED <<storeVars, ledger, worldVars>>

\* What a process does on its own once an operation was called.
Proceed(p) ==
  \/ TransitionRead(p) \/ TransitionCas(p)
  \/ CheckBinding(p) \/ BeginAttempt(p) \/ ReplayUnresolved(p) \/ ResetStarted(p)
  \/ BeginAgain(p) \/ AdmitExecution(p) \/ StartRead(p) \/ StartCas(p)
  \/ UndoRead(p) \/ UndoDiscard(p) \/ Dispatch(p) \/ ExecutorReturns(p)
  \/ PersistResult(p) \/ MarkPersistenceUnknown(p) \/ FinishExecution(p)
  \/ ReconcileBegin(p) \/ ReconcileDiscard(p)
  \/ ObserveVerified(p) \/ ObserveUnresolved(p)
  \/ ReconcilePersist(p) \/ ReconcileRejected(p) \/ ReconcileFallback(p) \/ ReconcileFinish(p)
  \/ ProbeBegin(p) \/ ProbeObserve(p) \/ ProbePersist(p)
  \/ (\E actor \in Actors : RepairRead(p, actor)) \/ RepairCas(p)
  \/ ResumeNextIsNew(p) \/ ResumeMatchesRepair(p)
  \/ (\E actor \in Actors : ResumeRead(p, actor)) \/ ResumeCas(p)

\* What callers ask for.
Invoke(p) ==
  \/ \E r \in Requests, actor \in Actors : Execute(p, r, actor)
  \/ \E r \in Requests, actor \in Actors : Reconcile(p, r, actor)
  \/ \E t \in ManualTargets, actor \in Actors : transition(p, t, actor)
  \/ \E r \in Requests : Probe(p, r)
  \/ \E a \in Attempts : CompleteRepair(p, a)
  \/ \E prior, next \in Attempts : Resume(p, prior, next)
  \/ \E actor \in Actors : AbortWithResiduals(p, actor)

Next == \E p \in Procs : Proceed(p) \/ Invoke(p) \/ Crash(p)

Spec == Init /\ [][Next]_vars

\* A process that is in an operation goes on with it, and callers do what the
\* runtime's contract leaves to them: each repeats its request for the attempt a
\* RUNNING pathway is bound to, and reconciles an unknown one until an
\* observation is conclusive and can be persisted.
ForBound(r) == r.attempt = bound /\ fingerprint(r) /\ (Present(bound) => ledger[bound].print = r.print)

RetryBound(p) ==
  pstate = "running" /\ \E r \in Requests, actor \in Actors : ForBound(r) /\ Execute(p, r, actor)

ReconcileBound(p) == \E r \in Requests, actor \in Actors : ForBound(r) /\ Reconcile(p, r, actor)

ObservePersistable(p) == ObserveVerified(p) /\ Persistable(call'[p].shape)

Fairness ==
  \A p \in Procs :
    /\ WF_vars(Proceed(p))
    /\ SF_vars(RetryBound(p)) /\ SF_vars(ReconcileBound(p))
    /\ SF_vars(ObservePersistable(p))

FairSpec == Spec /\ Fairness

-----------------------------------------------------------------------------
(* Properties                                                               *)

\* However processes interleave, the stored state only moves along an edge of
\* the canonical table: the compare-and-set of transition_with_event makes the
\* check of ensure_transition, done earlier on a snapshot, still true.
TableSteps == [][pstate' # pstate => pstate' \in ALLOWED_TRANSITIONS[pstate]]_vars

\* A result, once persisted, is never deleted: discard_started only removes a
\* row that has none, even when the process that calls it is late.
ResultsAreKept ==
  [][\A a \in Attempts : ledger[a].status \in Results => ledger'[a].status \in Results]_vars

\* The executor is invoked at most once for an attempt, whatever replays,
\* crashes and recoveries happen (execute and discard_started).
AtMostOnceDispatch == \A a \in Attempts : dispatched[a] <= 1

\* The executor is invoked for the attempt the RUNNING pathway is bound to and
\* for no other (the binding check of execute).
DispatchIsBound ==
  [][\A a \in Attempts : dispatched'[a] # dispatched[a] => pstate = "running" /\ bound = a]_vars

\* A request that execute refuses before it invokes the executor leaves no
\* started row behind (the exception path of execute), crashes aside.
RejectionLeavesNoRow ==
  crashes = 0 /\ (\A p \in Procs : At(p, "idle")) =>
    \A a \in Attempts : Discardable(a) => dispatched[a] > 0

\* Labels of execute, and those at which a process owns the fresh row it
\* inserted: execute before the executor is invoked, reconcile before it undoes
\* its own insertion.
ExecuteLabels ==
  {"binding", "begin", "replay", "reset", "rebegin", "admit", "start_read", "start_cas",
   "undo", "undo_discard", "dispatch", "inflight", "persist", "fallback", "finish_read"}
OwnerLabels == {"admit", "start_read", "start_cas", "undo", "undo_discard", "dispatch", "rec_discard"}

\* States of a pathway that was never admitted to RUNNING.
NeverRan == {"proposed", "awaiting_approval", "approved", "held", "human_gate", "denied"}

\* Why an attempt is dispatched at most once when one process executes: its row
\* stays from the dispatch on, a row that is still owned was not dispatched and
\* has one owner, and the recovery that discards a started row (reset, rebegin)
\* only happens in a pathway that never ran.
DispatchInv ==
  /\ \A a \in Attempts : dispatched[a] > 0 => Present(a) /\ bound # None
  /\ \A p \in Procs : call[p].pc \in OwnerLabels => Present(call[p].att) /\ dispatched[call[p].att] = 0
  /\ \A p, q \in Procs :
       call[p].pc \in OwnerLabels /\ call[q].pc \in OwnerLabels /\ call[p].att = call[q].att => p = q
  /\ IF bound = None THEN pstate \in NeverRan \cup {"aborted"} ELSE pstate \notin NeverRan
  /\ repaired # None => bound # None
  /\ \A p \in Procs :
       /\ call[p].pc \in ExecuteLabels => p \in Executors
       /\ call[p].pc \in {"transition", "cas"} => call[p].goal # "running"
       /\ call[p].pc \in {"reset", "rebegin"} => bound = None
       /\ call[p].pc \in {"dispatch", "rec_begin", "rec_discard"} => bound # None
       /\ call[p].pc \in {"resume_read", "resume_cas"} => repaired # None

\* The runtime implements the contract of PathwayContract: whatever processes
\* do to the two databases is, seen from outside, a move along the table or a
\* first dispatch of an admitted attempt.
Contract == INSTANCE PathwayContract WITH state <- pstate, count <- dispatched
ImplementsContract == Contract!ContractSpec

\* A pathway is COMPLETED only when some attempt was handed to the executor and its
\* success is recorded, one whose effect took place when it is a verified one; a
\* failure, an unknown or a replay of one never completes it
\* (_finish_execution_pathway and _finish_reconciliation_pathway; no caller having
\* set COMPLETED by hand).
CompletedBySuccess ==
  [][pstate' = "completed" /\ pstate # "completed" =>
       \E a \in Attempts : /\ dispatched[a] > 0
                           /\ \/ a \in applied /\ ledger[a].status = "verified"
                              \/ ledger[a].status = "unverified"]_vars

\* When a pathway runs again after a repair, it runs another attempt, and the
\* repaired one's effect did not take place: repair and resume build on a failure.
ResumedAfterFailure ==
  pstate = "running" /\ repaired # None => bound # repaired /\ repaired \notin applied

\* A success or failure classification of an attempt is never rewritten.
ClassifiedIsFinal ==
  [][\A a \in Attempts : ledger[a].status \in Classified => ledger'[a] = ledger[a]]_vars

\* A pathway does not stay RUNNING for ever: a crash in the middle of execute
\* is found by the next execute of the same attempt.
RunningResolves == pstate = "running" ~> pstate # "running"

\* The attempt's result is classified, and its evidence is too large for the events
\* that would say so.
Unreportable(a) == ledger[a].status \in Classified /\ ~ Recordable(ledger[a].shape)

\* An unknown write is eventually classified by reconciliation, unless the evidence
\* of the result it is bound to was persisted and cannot be recorded: then every
\* further execute and reconcile replays that result and raises.
UnknownResolves ==
  pstate = "write_status_unknown" ~>
    \/ pstate \in {"completed", "repair_required"}
    \/ \E a \in Attempts : a = bound /\ Unreportable(a)

=============================================================================
