----------------------- MODULE PathwayRuntimeProofs -----------------------
(***************************************************************************)
(* Theorems about PathwayRuntime and BackupSet for every set of processes, *)
(* attempts, requests and actors: types and the transition table.  With    *)
(* one executing process, and any number of stewards, the executor is      *)
(* invoked at most once for each attempt, also after backups and restores, *)
(* and the runtime implements PathwayContract; with one process, it is     *)
(* invoked for the bound attempt, a repair builds on a failure that is     *)
(* true, a completion on a success, a refused execute leaves no row, and   *)
(* classifications are final.                                              *)
(***************************************************************************)
EXTENDS BackupSet, TLAPS

\* Labels at which a process holds a request of execute or reconcile.
RequestLabels ==
  {"binding", "begin", "replay", "reset", "rebegin", "admit", "start_read", "start_cas",
   "undo", "undo_discard", "dispatch", "inflight", "persist", "fallback", "finish_read",
   "rec_begin", "rec_discard", "observe", "rec_persist", "rec_fallback", "rec_finish",
   "probe_begin", "probe_observe", "probe_persist"}

ResultLabels == {"persist", "finish_read", "rec_persist", "rec_finish", "probe_persist"}

\* What a process in the middle of an operation remembers: the request it
\* serves, the attempts it names, the result it carries and, before a
\* compare-and-set, a snapshot from which the table allows its target.
Shape(c) ==
  /\ c.pc \in RequestLabels => c.req \in Requests /\ c.att = c.req.attempt
  /\ c.pc \in ResultLabels => c.res \in Results /\ c.shape \in Shapes
  /\ c.pc = "transition" => c.goal \in PathwayState
  /\ c.pc = "cas" => c.snap \in PathwayState /\ c.goal \in ALLOWED_TRANSITIONS[c.snap]
  /\ c.pc \in {"start_cas", "resume_cas"} =>
       c.snap \in PathwayState /\ "running" \in ALLOWED_TRANSITIONS[c.snap]
  /\ c.pc \in {"repair_read", "repair_cas"} => c.att \in Attempts
  /\ c.pc = "repair_cas" =>
       c.snap \in PathwayState /\ "ready_to_resume" \in ALLOWED_TRANSITIONS[c.snap]
  /\ c.pc \in {"resume_next", "resume_match", "resume_read", "resume_cas"} =>
       c.att \in Attempts /\ c.prior \in Attempts

CallShape == \A p \in Procs : Shape(call[p])

TypeInv == TypeOK /\ CallShape

\* A process without an operation is well-typed (Idle).
LEMMA IdleType == Idle \in CallType
  BY DEF Idle, CallType, Labels

\* The canonical table leads from states to states.
LEMMA EdgesType == \A s \in PathwayState : ALLOWED_TRANSITIONS[s] \subseteq PathwayState
  BY DEF ALLOWED_TRANSITIONS, PathwayState

\* Reconciliation leaves an unknown write for exactly these two states.
LEMMA UnknownEdges == ALLOWED_TRANSITIONS["write_status_unknown"] = {"completed", "repair_required"}
  BY DEF ALLOWED_TRANSITIONS, PathwayState

\* A process that continues with a well-shaped call leaves the others alone.
LEMMA BecomeShape ==
  ASSUME TypeInv, NEW p \in Procs, NEW c \in CallType, Shape(c), Become(p, c)
  PROVE  call' \in [Procs -> CallType] /\ CallShape'
  <1>1. call' = [call EXCEPT ![p] = c] /\ call \in [Procs -> CallType]
    BY DEF Become, TypeInv, TypeOK
  <1>2. \A q \in Procs : call'[q] = c \/ call'[q] = call[q]
    BY <1>1
  <1>3. \A q \in Procs : Shape(call'[q])
    BY <1>2 DEF TypeInv, CallShape
  <1> QED BY <1>1, <1>3 DEF CallShape

\* An operation that returns or raises leaves the calls well-shaped (Return).
LEMMA ReturnShape ==
  ASSUME TypeInv, NEW p \in Procs, Return(p)
  PROVE  call' \in [Procs -> CallType] /\ CallShape'
  <1>1. Shape(Idle)
    BY DEF Shape, Idle, RequestLabels, ResultLabels
  <1> QED BY <1>1, IdleType, BecomeShape DEF Return

\* So does one that only moves to another label (Goto).
LEMMA GotoShape ==
  ASSUME TypeInv, NEW p \in Procs, NEW l \in Labels, Goto(p, l),
         Shape([call[p] EXCEPT !.pc = l])
  PROVE  call' \in [Procs -> CallType] /\ CallShape'
  <1>1. [call[p] EXCEPT !.pc = l] \in CallType
    BY DEF TypeInv, TypeOK, CallType
  <1> QED BY <1>1, BecomeShape DEF Goto

\* The labels of execute and reconcile that ask for nothing but a request.
PlainLabels == RequestLabels \ (ResultLabels \cup {"start_cas"})

\* A move between labels that ask for nothing but a request needs no further check.
LEMMA GotoPlain ==
  ASSUME TypeInv, NEW p \in Procs, call[p].pc \in RequestLabels,
         NEW l \in PlainLabels, Goto(p, l)
  PROVE  call' \in [Procs -> CallType] /\ CallShape'
  <1>1. Shape([call[p] EXCEPT !.pc = l])
    BY DEF TypeInv, TypeOK, CallType, CallShape, Shape, PlainLabels, RequestLabels, ResultLabels
  <1>2. l \in Labels
    BY DEF PlainLabels, RequestLabels, Labels
  <1> QED BY <1>1, <1>2, GotoShape

\* A request goes on with a result and its evidence (WithResult).
LEMMA ResultShape ==
  ASSUME TypeInv, NEW p \in Procs, call[p].pc \in RequestLabels, NEW l \in ResultLabels,
         NEW result \in Results, NEW shape \in Shapes,
         Become(p, WithResult(call[p], l, result, shape))
  PROVE  call' \in [Procs -> CallType] /\ CallShape'
  <1>1. call[p] \in CallType /\ Shape(call[p])
    BY DEF TypeInv, TypeOK, CallShape
  <1>2. WithResult(call[p], l, result, shape) \in CallType
    BY ZenonT(30), <1>1 DEF WithResult, CallType, ResultLabels, Labels
  <1>3. Shape(WithResult(call[p], l, result, shape))
    BY <1>1 DEF WithResult, CallType, Shape, RequestLabels, ResultLabels
  <1> QED BY <1>2, <1>3, BecomeShape

\* A compare-and-set on a snapshot is well-typed.
LEMMA CasType ==
  ASSUME NEW c \in CallType, NEW snap \in PathwayState, NEW goal \in PathwayState
  PROVE  [c EXCEPT !.pc = "cas", !.snap = snap, !.goal = goal] \in CallType
  BY DEF CallType, Labels

\* Every step of a process keeps the types and the shape of the calls: one case per
\* step of execute, reconcile, transition, complete_repair and resume.
LEMMA ProceedCall ==
  ASSUME TypeInv, NEW p \in Procs, Proceed(p)
  PROVE  call' \in [Procs -> CallType] /\ CallShape'
  <1> DEFINE c == call[p]
  <1>t. /\ c \in CallType /\ Shape(c) /\ pstate \in PathwayState
        /\ \A a \in Attempts : ledger[a] \in Rows \cup {NoRow}
    BY DEF TypeInv, TypeOK, CallShape, LedgerTypeOK
  <1>r. ASSUME Return(p) PROVE call' \in [Procs -> CallType] /\ CallShape'
    BY <1>r, ReturnShape
  <1>g. ASSUME NEW l \in PlainLabels, c.pc \in RequestLabels, Goto(p, l)
        PROVE  call' \in [Procs -> CallType] /\ CallShape'
    BY <1>g, GotoPlain
  <1>1. CASE TransitionRead(p)
    <2>1. CASE ensure_transition(pstate, c.goal)
      <3>1. [c EXCEPT !.pc = "cas", !.snap = pstate] \in CallType
        BY <1>t DEF CallType, Labels
      <3>2. Shape([c EXCEPT !.pc = "cas", !.snap = pstate])
        BY <1>t, <2>1 DEF CallType, Shape, RequestLabels, ResultLabels, ensure_transition
      <3> QED BY <1>1, <1>r, <3>1, <3>2, BecomeShape DEF TransitionRead
    <2> QED BY <1>1, <1>r, <2>1 DEF TransitionRead
  <1>2. CASE TransitionCas(p)
    BY <1>2, <1>r DEF TransitionCas
  <1>3. CASE CheckBinding(p)
    BY <1>3, <1>r, <1>g DEF CheckBinding, At, PlainLabels, RequestLabels, ResultLabels
  <1>4. CASE BeginAttempt(p)
    <2>1. ASSUME NEW a \in Attempts, Replays(c.req, a), ledger[a].status # "started",
                 Become(p, WithResult(c, "finish_read", ledger[a].status, ledger[a].shape))
          PROVE  call' \in [Procs -> CallType] /\ CallShape'
      <3>1. ledger[a].status \in Results /\ ledger[a].shape \in Shapes
        BY <1>t, <2>1 DEF Replays, Matching, Present, Rows
      <3> QED BY <1>4, <2>1, <3>1, ResultShape DEF BeginAttempt, At, RequestLabels, ResultLabels
    <2>2. c.pc \in RequestLabels /\ "admit" \in PlainLabels /\ "replay" \in PlainLabels
      BY <1>4 DEF BeginAttempt, At, PlainLabels, RequestLabels, ResultLabels
    <2> QED BY <1>4, <1>r, <1>g, <2>1, <2>2 DEF BeginAttempt
  <1>5. CASE ReplayUnresolved(p)
    <2>1. c.pc \in RequestLabels /\ "reset" \in PlainLabels
      BY <1>5 DEF ReplayUnresolved, At, PlainLabels, RequestLabels, ResultLabels
    <2>2. [c EXCEPT !.pc = "transition", !.goal = "write_status_unknown"] \in CallType
      BY <1>t DEF CallType, Labels, PathwayState
    <2>3. Shape([c EXCEPT !.pc = "transition", !.goal = "write_status_unknown"])
      BY <1>t DEF CallType, Shape, RequestLabels, ResultLabels, PathwayState
    <2> QED BY <1>5, <1>r, <1>g, <2>1, <2>2, <2>3, BecomeShape DEF ReplayUnresolved
  <1>6. CASE ResetStarted(p)
    BY <1>6, <1>r, <1>g DEF ResetStarted, At, PlainLabels, RequestLabels, ResultLabels
  <1>7. CASE BeginAgain(p)
    BY <1>7, <1>r, <1>g DEF BeginAgain, At, PlainLabels, RequestLabels, ResultLabels
  <1>8. CASE AdmitExecution(p)
    <2>1. PICK l \in {"start_read", "dispatch", "undo"} : Goto(p, l)
      BY <1>8 DEF AdmitExecution
    <2>2. l \in PlainLabels /\ c.pc \in RequestLabels
      BY <1>8, <2>1 DEF AdmitExecution, At, PlainLabels, RequestLabels, ResultLabels
    <2> QED BY <1>g, <2>1, <2>2
  <1>9. CASE StartRead(p)
    <2>1. CASE ensure_transition(pstate, "running")
      <3>1. [c EXCEPT !.pc = "start_cas", !.snap = pstate] \in CallType
        BY <1>t DEF CallType, Labels
      <3>2. Shape([c EXCEPT !.pc = "start_cas", !.snap = pstate])
        BY <1>9, <1>t, <2>1 DEF StartRead, At, CallType, Shape, RequestLabels, ResultLabels, ensure_transition
      <3>3. c.pc \in RequestLabels /\ "undo" \in PlainLabels
        BY <1>9 DEF StartRead, At, PlainLabels, RequestLabels, ResultLabels
      <3> QED BY <1>9, <1>g, <3>1, <3>2, <3>3, BecomeShape DEF StartRead
    <2> QED BY <1>9, <1>g, <2>1 DEF StartRead, At, PlainLabels, RequestLabels, ResultLabels
  <1>10. CASE StartCas(p)
    BY <1>10, <1>g DEF StartCas, At, PlainLabels, RequestLabels, ResultLabels
  <1>11. CASE UndoRead(p)
    BY <1>11, <1>r, <1>g DEF UndoRead, At, PlainLabels, RequestLabels, ResultLabels
  <1>12. CASE UndoDiscard(p)
    BY <1>12, <1>r DEF UndoDiscard
  <1>13. CASE Dispatch(p)
    BY <1>13, <1>g DEF Dispatch, At, PlainLabels, RequestLabels, ResultLabels
  <1>14. CASE ExecutorReturns(p)
    <2>1. PICK result \in Results, shape \in Shapes : Become(p, WithResult(c, "persist", result, shape))
      BY <1>14, RuntimeAssumption DEF ExecutorReturns
    <2> QED BY <1>14, <2>1, ResultShape DEF ExecutorReturns, At, RequestLabels, ResultLabels
  <1>15. CASE PersistResult(p)
    <2>1. CASE Goto(p, "finish_read")
      <3>1. Shape([c EXCEPT !.pc = "finish_read"]) /\ "finish_read" \in Labels
        BY <1>15, <1>t DEF PersistResult, At, CallType, Shape, RequestLabels, ResultLabels, Labels
      <3> QED BY <2>1, <3>1, GotoShape
    <2> QED BY <1>15, <1>r, <1>g, <2>1 DEF PersistResult, At, PlainLabels, RequestLabels, ResultLabels
  <1>16. CASE MarkPersistenceUnknown(p)
    <2>1. [c EXCEPT !.pc = "transition", !.goal = "write_status_unknown"] \in CallType
      BY <1>t DEF CallType, Labels, PathwayState
    <2>2. Shape([c EXCEPT !.pc = "transition", !.goal = "write_status_unknown"])
      BY <1>t DEF CallType, Shape, RequestLabels, ResultLabels, PathwayState
    <2> QED BY <1>16, <2>1, <2>2, BecomeShape DEF MarkPersistenceUnknown
  <1>17. CASE FinishExecution(p)
    <2>1. PICK goal \in {"completed", "repair_required", "write_status_unknown"} :
             goal = FinishTarget(c.res)
      BY DEF FinishTarget
    <2>2. CASE Become(p, [c EXCEPT !.pc = "transition", !.goal = goal])
      <3>1. [c EXCEPT !.pc = "transition", !.goal = goal] \in CallType
        BY <1>t DEF CallType, Labels, PathwayState
      <3>2. Shape([c EXCEPT !.pc = "transition", !.goal = goal])
        BY <1>t DEF CallType, Shape, RequestLabels, ResultLabels, PathwayState
      <3> QED BY <2>2, <3>1, <3>2, BecomeShape
    <2>3. CASE /\ Become(p, [c EXCEPT !.pc = "cas", !.snap = pstate, !.goal = goal])
               /\ pstate = "write_status_unknown" /\ pstate # goal
      <3>g. goal \in PathwayState
        BY DEF PathwayState
      <3>1. [c EXCEPT !.pc = "cas", !.snap = pstate, !.goal = goal] \in CallType
        BY <1>t, <3>g, CasType
      <3>2. Shape([c EXCEPT !.pc = "cas", !.snap = pstate, !.goal = goal])
        BY <1>t, <2>1, <2>3, UnknownEdges DEF CallType, Shape, RequestLabels, ResultLabels
      <3> QED BY <2>3, <3>1, <3>2, BecomeShape
    <2> QED BY <1>17, <1>r, <2>1, <2>2, <2>3 DEF FinishExecution
  <1>18. CASE ReconcileBegin(p)
    <2>1. ASSUME NEW a \in Attempts, ledger[a].status \in Classified,
                 Become(p, WithResult(c, "rec_finish", ledger[a].status, ledger[a].shape))
          PROVE  call' \in [Procs -> CallType] /\ CallShape'
      <3>1. ledger[a].status \in Results /\ ledger[a].shape \in Shapes
        BY <1>t, <2>1, RuntimeAssumption DEF Classified, Rows, NoRow
      <3> QED BY <1>18, <2>1, <3>1, ResultShape DEF ReconcileBegin, At, RequestLabels, ResultLabels
    <2>2. c.pc \in RequestLabels /\ "rec_discard" \in PlainLabels /\ "observe" \in PlainLabels
      BY <1>18 DEF ReconcileBegin, At, PlainLabels, RequestLabels, ResultLabels
    <2> QED BY <1>18, <1>r, <1>g, <2>1, <2>2 DEF ReconcileBegin
  <1>19. CASE ReconcileDiscard(p)
    BY <1>19, <1>r DEF ReconcileDiscard
  <1>20. CASE ObserveVerified(p)
    <2>1. PICK shape \in Shapes : Become(p, WithResult(c, "rec_persist", Observed(c.att), shape))
      BY <1>20, RuntimeAssumption DEF ObserveVerified
    <2>2. Observed(c.att) \in Results
      BY DEF Observed, Results
    <2> QED BY <1>20, <2>1, <2>2, ResultShape DEF ObserveVerified, At, RequestLabels, ResultLabels
  <1>21. CASE ObserveUnresolved(p)
    BY <1>21, <1>r DEF ObserveUnresolved
  <1>22. CASE ReconcilePersist(p)
    <2>1. Shape([c EXCEPT !.pc = "rec_finish"]) /\ "rec_finish" \in Labels
      BY <1>22, <1>t DEF ReconcilePersist, At, CallType, Shape, RequestLabels, ResultLabels, Labels
    <2> QED BY <1>22, <2>1, GotoShape DEF ReconcilePersist
  <1>23. CASE ReconcileRejected(p)
    BY <1>23, <1>r, <1>g DEF ReconcileRejected, At, PlainLabels, RequestLabels, ResultLabels
  <1>24. CASE ReconcileFallback(p)
    BY <1>24, <1>r DEF ReconcileFallback
  <1>25. CASE ReconcileFinish(p)
    <2>1. PICK goal \in {"completed", "repair_required"} : goal = ReconcileTarget(c.res)
      BY DEF ReconcileTarget
    <2>2. CASE pstate = "write_status_unknown"
      <3>g. goal \in PathwayState
        BY DEF PathwayState
      <3>1. [c EXCEPT !.pc = "cas", !.snap = pstate, !.goal = goal] \in CallType
        BY <1>t, <3>g, CasType
      <3>2. Shape([c EXCEPT !.pc = "cas", !.snap = pstate, !.goal = goal])
        BY <1>t, <2>1, <2>2, UnknownEdges DEF CallType, Shape, RequestLabels, ResultLabels
      <3>3. Return(p) \/ Become(p, [c EXCEPT !.pc = "cas", !.snap = pstate, !.goal = goal])
        BY <1>25, <2>1 DEF ReconcileFinish
      <3> QED BY <1>r, <3>1, <3>2, <3>3, BecomeShape
    <2> QED BY <1>25, <1>r, <2>2 DEF ReconcileFinish
  <1>26. ASSUME NEW actor \in Actors, RepairRead(p, actor)
         PROVE  call' \in [Procs -> CallType] /\ CallShape'
    <2>1. CASE ensure_transition(pstate, "ready_to_resume")
      <3>1. [c EXCEPT !.pc = "repair_cas", !.snap = pstate] \in CallType
        BY <1>t DEF CallType, Labels
      <3>2. Shape([c EXCEPT !.pc = "repair_cas", !.snap = pstate])
        BY <1>26, <1>t, <2>1
           DEF RepairRead, At, CallType, Shape, RequestLabels, ResultLabels, ensure_transition
      <3> QED BY <1>26, <1>r, <3>1, <3>2, BecomeShape DEF RepairRead
    <2> QED BY <1>26, <1>r, <2>1 DEF RepairRead
  <1>27. CASE RepairCas(p)
    BY <1>27, <1>r DEF RepairCas
  <1>28. CASE ResumeNextIsNew(p)
    <2>1. Shape([c EXCEPT !.pc = "resume_match"]) /\ "resume_match" \in Labels
      BY <1>28, <1>t DEF ResumeNextIsNew, At, CallType, Shape, RequestLabels, ResultLabels, Labels
    <2> QED BY <1>28, <1>r, <2>1, GotoShape DEF ResumeNextIsNew
  <1>29. CASE ResumeMatchesRepair(p)
    <2>1. Shape([c EXCEPT !.pc = "resume_read"]) /\ "resume_read" \in Labels
      BY <1>29, <1>t DEF ResumeMatchesRepair, At, CallType, Shape, RequestLabels, ResultLabels, Labels
    <2> QED BY <1>29, <1>r, <2>1, GotoShape DEF ResumeMatchesRepair
  <1>30. ASSUME NEW actor \in Actors, ResumeRead(p, actor)
         PROVE  call' \in [Procs -> CallType] /\ CallShape'
    <2>1. CASE ensure_transition(pstate, "running")
      <3>1. [c EXCEPT !.pc = "resume_cas", !.snap = pstate] \in CallType
        BY <1>t DEF CallType, Labels
      <3>2. Shape([c EXCEPT !.pc = "resume_cas", !.snap = pstate])
        BY <1>30, <1>t, <2>1
           DEF ResumeRead, At, CallType, Shape, RequestLabels, ResultLabels, ensure_transition
      <3> QED BY <1>30, <1>r, <3>1, <3>2, BecomeShape DEF ResumeRead
    <2> QED BY <1>30, <1>r, <2>1 DEF ResumeRead
  <1>31. CASE ResumeCas(p)
    BY <1>31, <1>r DEF ResumeCas
  <1>32. CASE ProbeBegin(p)
    <2>1. c.pc \in RequestLabels /\ "probe_observe" \in PlainLabels
      BY <1>32 DEF ProbeBegin, At, PlainLabels, RequestLabels, ResultLabels
    <2> QED BY <1>32, <1>r, <1>g, <2>1 DEF ProbeBegin
  <1>33. CASE ProbeObserve(p)
    <2>1. CASE Return(p)
      BY <2>1, <1>r
    <2>2. CASE ~ Return(p)
      <3>1. PICK result \in {Observed(c.att), "unknown"}, shape \in Shapes :
               Become(p, WithResult(c, "probe_persist", result, shape))
        BY <1>33, <2>2, RuntimeAssumption DEF ProbeObserve
      <3>2. result \in Results
        BY DEF Observed, Results
      <3> QED BY <1>33, <3>1, <3>2, ResultShape DEF ProbeObserve, At, RequestLabels, ResultLabels
    <2> QED BY <2>1, <2>2
  <1>34. CASE ProbePersist(p)
    BY <1>34, <1>r DEF ProbePersist
  <1> QED
    BY <1>1, <1>2, <1>3, <1>4, <1>5, <1>6, <1>7, <1>8, <1>9, <1>10, <1>11, <1>12, <1>13, <1>14,
       <1>15, <1>16, <1>17, <1>18, <1>19, <1>20, <1>21, <1>22, <1>23, <1>24, <1>25, <1>26, <1>27,
       <1>28, <1>29, <1>30, <1>31, <1>32, <1>33, <1>34
       DEF Proceed

\* A call starts an operation with what the caller supplied.
LEMMA InvokeCall ==
  ASSUME TypeInv, NEW p \in Procs, Invoke(p)
  PROVE  call' \in [Procs -> CallType] /\ CallShape'
  <1>t. pstate \in PathwayState /\ Requests \subseteq [attempt : Attempts, key : Keys, print : Prints]
    BY LedgerAssumption DEF TypeInv, TypeOK
  <1>e. ASSUME NEW c \in CallType, Shape(c), Enter(p, c)
        PROVE  call' \in [Procs -> CallType] /\ CallShape'
    BY <1>e, BecomeShape DEF Enter
  <1> USE DEF Idle, CallType, Labels, Shape, RequestLabels, ResultLabels
  <1>1. ASSUME NEW r \in Requests, NEW actor \in Actors, Execute(p, r, actor)
        PROVE  call' \in [Procs -> CallType] /\ CallShape'
    <2>1. CASE pstate = "running"
      BY <1>1, <1>t, <1>e, <2>1 DEF Execute
    <2>2. CASE pstate # "running"
      BY <1>1, <1>t, <1>e, <2>2 DEF Execute
    <2> QED BY <2>1, <2>2
  <1>2. ASSUME NEW r \in Requests, NEW actor \in Actors, Reconcile(p, r, actor)
        PROVE  call' \in [Procs -> CallType] /\ CallShape'
    BY <1>2, <1>t, <1>e DEF Reconcile
  <1>3. ASSUME NEW t \in ManualTargets, NEW actor \in Actors, transition(p, t, actor)
        PROVE  call' \in [Procs -> CallType] /\ CallShape'
    BY <1>3, <1>t, <1>e, RuntimeAssumption DEF transition, ensure_transition
  <1>4. ASSUME NEW a \in Attempts, CompleteRepair(p, a)
        PROVE  call' \in [Procs -> CallType] /\ CallShape'
    BY <1>4, <1>t, <1>e DEF CompleteRepair
  <1>5. ASSUME NEW prior \in Attempts, NEW next \in Attempts, Resume(p, prior, next)
        PROVE  call' \in [Procs -> CallType] /\ CallShape'
    BY <1>5, <1>t, <1>e DEF Resume
  <1>6. ASSUME NEW actor \in Actors, AbortWithResiduals(p, actor)
        PROVE  call' \in [Procs -> CallType] /\ CallShape'
    BY ZenonT(30), <1>6, <1>t, <1>e DEF AbortWithResiduals, ensure_transition, PathwayState
  <1>7. ASSUME NEW r \in Requests, Probe(p, r)
        PROVE  call' \in [Procs -> CallType] /\ CallShape'
    BY <1>7, <1>t, <1>e DEF Probe
  <1> QED BY <1>1, <1>2, <1>3, <1>4, <1>5, <1>6, <1>7 DEF Invoke

\* The store only changes in one of the four compare-and-sets.
LEMMA ProceedStore ==
  ASSUME TypeInv, NEW p \in Procs, Proceed(p)
  PROVE  /\ UNCHANGED storeVars \/ pstate' \in ALLOWED_TRANSITIONS[pstate]
         /\ bound' \in Attempts \cup {None} /\ repaired' \in Attempts \cup {None}
  <1> DEFINE Goal == /\ UNCHANGED storeVars \/ pstate' \in ALLOWED_TRANSITIONS[pstate]
                     /\ bound' \in Attempts \cup {None} /\ repaired' \in Attempts \cup {None}
  <1>t. /\ call[p] \in CallType /\ Shape(call[p])
        /\ bound \in Attempts \cup {None} /\ repaired \in Attempts \cup {None}
        /\ call[p].req \in Requests => call[p].req.attempt \in Attempts
    BY LedgerAssumption DEF TypeInv, TypeOK, CallShape
  <1>u. ASSUME UNCHANGED storeVars PROVE Goal
    BY <1>u, <1>t DEF storeVars
  <1> SUFFICES Goal
    OBVIOUS
  <1> HIDE DEF Goal
  <1>1. CASE TransitionCas(p)
    BY <1>1, <1>t, <1>u DEF TransitionCas, transition_with_event, ConcurrentChange, Shape, At, Goal
  <1>2. CASE StartCas(p)
    BY <1>2, <1>t, <1>u DEF StartCas, transition_with_event, ConcurrentChange, Shape, At, Goal, RequestLabels
  <1>3. CASE RepairCas(p)
    BY <1>3, <1>t, <1>u DEF RepairCas, transition_with_event, ConcurrentChange, Shape, At, Goal
  <1>4. CASE ResumeCas(p)
    BY <1>4, <1>t, <1>u DEF ResumeCas, transition_with_event, ConcurrentChange, Shape, At, Goal
  <1>5. CASE \/ TransitionRead(p) \/ CheckBinding(p) \/ BeginAttempt(p) \/ ReplayUnresolved(p)
             \/ ResetStarted(p) \/ BeginAgain(p) \/ AdmitExecution(p) \/ StartRead(p)
             \/ UndoRead(p) \/ UndoDiscard(p) \/ Dispatch(p) \/ ExecutorReturns(p)
             \/ PersistResult(p) \/ MarkPersistenceUnknown(p) \/ FinishExecution(p)
    BY <1>5, <1>u DEF TransitionRead, CheckBinding, BeginAttempt, ReplayUnresolved, ResetStarted,
       BeginAgain, AdmitExecution, StartRead, UndoRead, UndoDiscard, Dispatch, ExecutorReturns,
       PersistResult, MarkPersistenceUnknown, FinishExecution
  <1>6. CASE \/ ReconcileBegin(p) \/ ReconcileDiscard(p) \/ ObserveVerified(p) \/ ObserveUnresolved(p)
             \/ ReconcilePersist(p) \/ ReconcileRejected(p) \/ ReconcileFallback(p) \/ ReconcileFinish(p)
             \/ (\E actor \in Actors : RepairRead(p, actor) \/ ResumeRead(p, actor))
             \/ ResumeNextIsNew(p) \/ ResumeMatchesRepair(p)
             \/ ProbeBegin(p) \/ ProbeObserve(p) \/ ProbePersist(p)
    BY <1>6, <1>u DEF ReconcileBegin, ReconcileDiscard, ObserveVerified, ObserveUnresolved,
       ReconcilePersist, ReconcileRejected, ReconcileFallback, ReconcileFinish, RepairRead, ResumeRead,
       ResumeNextIsNew, ResumeMatchesRepair, ProbeBegin, ProbeObserve, ProbePersist
  <1> QED BY <1>1, <1>2, <1>3, <1>4, <1>5, <1>6 DEF Proceed

\* What a step may do to the rows of the ledger: their shape and their results
\* are kept.
LedgerKept ==
  /\ LedgerTypeOK'
  /\ \A a \in Attempts : ledger[a].status \in Results => ledger'[a].status \in Results

\* begin adds a row where there was none.
LEMMA InsertKept ==
  ASSUME TypeInv, NEW r \in Requests, begin_insert(r)
  PROVE  LedgerKept
  <1>1. r.attempt \in Attempts /\ ~ Present(r.attempt)
    BY LedgerAssumption DEF begin_insert, Matching
  <1>2. [key |-> r.key, print |-> r.print, status |-> "started", shape |-> "plain"] \in Rows
    BY LedgerAssumption DEF Rows, Shapes
  <1>3. ledger[r.attempt].status \notin Results
    BY <1>1, RuntimeAssumption DEF Present, NoRow
  <1> QED BY <1>1, <1>2, <1>3 DEF begin_insert, LedgerKept, LedgerTypeOK, TypeInv, TypeOK

\* finish replaces the result of an existing row.
LEMMA FinishKept ==
  ASSUME TypeInv, NEW a \in Attempts, NEW result \in Results, NEW shape \in Shapes,
         finish(a, result, shape)
  PROVE  LedgerKept
  <1> DEFINE new == [ledger[a] EXCEPT !.status = result, !.shape = shape]
  <1>1. ledger[a] \in Rows
    BY DEF finish, Present, TypeInv, TypeOK, LedgerTypeOK
  <1>2. new \in Rows /\ new.status = result
    BY <1>1 DEF Rows
  <1>3. ledger' = [ledger EXCEPT ![a] = new]
    BY <1>1 DEF finish, TypeInv, TypeOK, LedgerTypeOK, Rows
  <1> QED BY <1>2, <1>3 DEF LedgerKept, LedgerTypeOK, TypeInv, TypeOK

\* discard_started deletes no row that has a result.
LEMMA DiscardKept ==
  ASSUME TypeInv, NEW a \in Attempts, discard_started(a)
  PROVE  LedgerKept
  BY DEF discard_started, Discardable, LedgerKept, LedgerTypeOK, TypeInv, TypeOK, Results

\* Hence no step of a process loses a persisted result.
LEMMA ProceedLedger ==
  ASSUME TypeInv, NEW p \in Procs, Proceed(p)
  PROVE  LedgerKept
  <1>u. ASSUME UNCHANGED ledger PROVE LedgerKept
    BY <1>u DEF LedgerKept, TypeInv, TypeOK, LedgerTypeOK
  <1>t. /\ call[p].pc \in RequestLabels => call[p].req \in Requests /\ call[p].att \in Attempts
        /\ call[p].pc \in ResultLabels => call[p].res \in Results /\ call[p].shape \in Shapes
        /\ "unknown" \in Results /\ "plain" \in Shapes
    BY LedgerAssumption DEF TypeInv, TypeOK, CallShape, Shape, Results, Shapes
  <1>1. CASE BeginAttempt(p) \/ BeginAgain(p) \/ ReconcileBegin(p) \/ ProbeBegin(p)
    BY <1>1, <1>t, <1>u, InsertKept
       DEF BeginAttempt, BeginAgain, ReconcileBegin, ProbeBegin, At, RequestLabels
  <1>2. CASE ResetStarted(p) \/ UndoDiscard(p) \/ ReconcileDiscard(p)
    BY <1>2, <1>t, DiscardKept DEF ResetStarted, UndoDiscard, ReconcileDiscard, At, RequestLabels
  <1>3. CASE PersistResult(p) \/ ReconcilePersist(p) \/ ProbePersist(p)
    BY <1>3, <1>t, <1>u, FinishKept
       DEF PersistResult, ReconcilePersist, ProbePersist, At, RequestLabels, ResultLabels
  <1>4. CASE MarkPersistenceUnknown(p) \/ ReconcileFallback(p)
    BY <1>4, <1>t, <1>u, FinishKept
       DEF MarkPersistenceUnknown, ReconcileFallback, mark_result_persistence_unknown, At, RequestLabels
  <1>5. CASE \/ TransitionRead(p) \/ TransitionCas(p) \/ CheckBinding(p) \/ ReplayUnresolved(p)
             \/ AdmitExecution(p) \/ StartRead(p) \/ StartCas(p) \/ UndoRead(p) \/ Dispatch(p)
             \/ ExecutorReturns(p) \/ FinishExecution(p)
    BY <1>5, <1>u DEF TransitionRead, TransitionCas, CheckBinding, ReplayUnresolved, AdmitExecution,
       StartRead, StartCas, UndoRead, Dispatch, ExecutorReturns, FinishExecution
  <1>6. CASE \/ ObserveVerified(p) \/ ObserveUnresolved(p) \/ ReconcileRejected(p) \/ ReconcileFinish(p)
             \/ ProbeObserve(p)
             \/ (\E actor \in Actors : RepairRead(p, actor) \/ ResumeRead(p, actor)) \/ RepairCas(p)
             \/ ResumeNextIsNew(p) \/ ResumeMatchesRepair(p) \/ ResumeCas(p)
    BY <1>6, <1>u DEF ObserveVerified, ObserveUnresolved, ReconcileRejected, ReconcileFinish, ProbeObserve, RepairRead,
       ResumeRead, RepairCas, ResumeNextIsNew, ResumeMatchesRepair, ResumeCas
  <1> QED BY <1>1, <1>2, <1>3, <1>4, <1>5, <1>6 DEF Proceed

\* Calls and crashes touch neither database.
LEMMA InvokeElsewhere ==
  ASSUME NEW p \in Procs, Invoke(p) \/ Crash(p)
  PROVE  UNCHANGED <<storeVars, ledger, worldVars>>
  BY DEF Invoke, Crash, Execute, Reconcile, Probe, transition, CompleteRepair, Resume, AbortWithResiduals

\* Only Dispatch counts a dispatch.
LEMMA ProceedWorld ==
  ASSUME NEW p \in Procs, Proceed(p)
  PROVE  UNCHANGED crashes /\ (Dispatch(p) \/ UNCHANGED worldVars)
  <1>1. CASE \/ TransitionRead(p) \/ TransitionCas(p) \/ CheckBinding(p) \/ BeginAttempt(p)
             \/ ReplayUnresolved(p) \/ ResetStarted(p) \/ BeginAgain(p) \/ AdmitExecution(p)
             \/ StartRead(p) \/ StartCas(p) \/ UndoRead(p) \/ UndoDiscard(p) \/ Dispatch(p)
             \/ ExecutorReturns(p) \/ PersistResult(p) \/ MarkPersistenceUnknown(p) \/ FinishExecution(p)
    BY <1>1 DEF TransitionRead, TransitionCas, CheckBinding, BeginAttempt, ReplayUnresolved, ResetStarted,
       BeginAgain, AdmitExecution, StartRead, StartCas, UndoRead, UndoDiscard, Dispatch, ExecutorReturns,
       PersistResult, MarkPersistenceUnknown, FinishExecution
  <1>2. CASE \/ ReconcileBegin(p) \/ ReconcileDiscard(p) \/ ObserveVerified(p) \/ ObserveUnresolved(p)
             \/ ReconcilePersist(p) \/ ReconcileRejected(p) \/ ReconcileFallback(p) \/ ReconcileFinish(p)
             \/ (\E actor \in Actors : RepairRead(p, actor) \/ ResumeRead(p, actor)) \/ RepairCas(p)
             \/ ResumeNextIsNew(p) \/ ResumeMatchesRepair(p) \/ ResumeCas(p)
             \/ ProbeBegin(p) \/ ProbeObserve(p) \/ ProbePersist(p)
    BY <1>2 DEF ProbeBegin, ProbeObserve, ProbePersist, ReconcileBegin, ReconcileDiscard, ObserveVerified, ObserveUnresolved, ReconcilePersist,
       ReconcileRejected, ReconcileFallback, ReconcileFinish, RepairRead, ResumeRead, RepairCas,
       ResumeNextIsNew, ResumeMatchesRepair, ResumeCas
  <1> QED BY <1>1, <1>2 DEF Proceed

\* The typing invariant is inductive: its step.
LEMMA TypeStep ==
  ASSUME TypeInv, [Next]_vars
  PROVE  TypeInv'
  <1>1. ASSUME NEW p \in Procs, Proceed(p) PROVE TypeInv'
    <2>1. call' \in [Procs -> CallType] /\ CallShape'
      BY <1>1, ProceedCall
    <2>2. pstate' \in PathwayState /\ bound' \in Attempts \cup {None} /\ repaired' \in Attempts \cup {None}
      BY <1>1, ProceedStore, EdgesType DEF TypeInv, TypeOK, storeVars
    <2>3. LedgerTypeOK'
      BY <1>1, ProceedLedger DEF LedgerKept
    <2>4. CASE UNCHANGED worldVars
      BY <1>1, <2>1, <2>2, <2>3, <2>4, ProceedWorld DEF TypeInv, TypeOK, worldVars
    <2>5. CASE Dispatch(p)
      <3>1. call[p].att \in Attempts
        BY <2>5, LedgerAssumption DEF Dispatch, At, TypeInv, TypeOK, CallShape, Shape, RequestLabels
      <3>2. dispatched' \in [Attempts -> 0..MaxDispatch] /\ applied' \subseteq Attempts
        BY <2>5, <3>1, RuntimeAssumption DEF Dispatch, TypeInv, TypeOK
      <3> QED BY <1>1, <2>1, <2>2, <2>3, <3>2, ProceedWorld DEF TypeInv, TypeOK
    <2> QED BY <1>1, <2>4, <2>5, ProceedWorld
  <1>2. ASSUME NEW p \in Procs, Invoke(p) PROVE TypeInv'
    <2>1. UNCHANGED crashes
      BY <1>2 DEF Invoke, Execute, Reconcile, Probe, transition, CompleteRepair, Resume, AbortWithResiduals
    <2> QED BY <1>2, <2>1, InvokeCall, InvokeElsewhere
            DEF TypeInv, TypeOK, LedgerTypeOK, storeVars, worldVars
  <1>3. ASSUME NEW p \in Procs, Crash(p) PROVE TypeInv'
    <2>1. crashes' \in 0..MaxCrashes
      BY <1>3, RuntimeAssumption DEF Crash, TypeInv, TypeOK
    <2> QED BY <1>3, <2>1, ReturnShape, InvokeElsewhere
            DEF Crash, TypeInv, TypeOK, LedgerTypeOK, storeVars, worldVars
  <1>4. CASE UNCHANGED vars
    BY <1>4 DEF TypeInv, TypeOK, CallShape, LedgerTypeOK, vars
  <1> QED BY <1>1, <1>2, <1>3, <1>4 DEF Next

\* The typing invariant is inductive: its base.
LEMMA TypeInit == Init => TypeInv
  BY RuntimeAssumption, IdleType
     DEF Init, LedgerInit, TypeInv, TypeOK, LedgerTypeOK, CallShape, Shape, Idle, RequestLabels,
         ResultLabels, PathwayState

\* Every behaviour of the runtime keeps the types of the two databases and of
\* what processes hold in memory (TypeOK), and the shape of calls in progress.
LEMMA TypeInvariant == Spec => []TypeInv
  BY TypeInit, TypeStep, PTL DEF Spec

\* TypeOK, the part of it that TLC checks.
THEOREM TypeCorrect == Spec => []TypeOK
  <1>1. TypeInv => TypeOK
    BY DEF TypeInv
  <1> QED BY <1>1, TypeInvariant, PTL

\* The stored state only ever moves along the canonical table (TableSteps),
\* however many processes race: a target checked against a snapshot is written
\* only while the snapshot is the state.
THEOREM TableStepsHold == Spec => TableSteps
  <1>1. TypeInv /\ [Next]_vars => [pstate' # pstate => pstate' \in ALLOWED_TRANSITIONS[pstate]]_vars
    <2> SUFFICES ASSUME TypeInv, Next PROVE pstate' # pstate => pstate' \in ALLOWED_TRANSITIONS[pstate]
      BY DEF vars
    <2> QED BY ProceedStore, InvokeElsewhere DEF Next, storeVars
  <1> QED BY <1>1, TypeInvariant, PTL DEF Spec, TableSteps

\* A persisted result is never deleted (ResultsAreKept), by no interleaving of
\* replays, recoveries, rejections and reconciliations.
THEOREM ResultsAreKeptHolds == Spec => ResultsAreKept
  <1>1. TypeInv /\ [Next]_vars =>
          [\A a \in Attempts : ledger[a].status \in Results => ledger'[a].status \in Results]_vars
    <2> SUFFICES ASSUME TypeInv, Next
                 PROVE  \A a \in Attempts : ledger[a].status \in Results => ledger'[a].status \in Results
      BY DEF vars
    <2> QED BY ProceedLedger, InvokeElsewhere DEF Next, LedgerKept
  <1> QED BY <1>1, TypeInvariant, PTL DEF Spec, ResultsAreKept

-----------------------------------------------------------------------------
\* One executing process.

\* All callers of execute go through one process; it may crash and restart.
OneExecutor == \A p, q \in Executors : p = q

\* The part of DispatchInv that speaks of what process p holds in memory, for
\* the binding b and the repaired attempt r of the store.
LocalInv(p, c, b, r) ==
  /\ c.pc \in ExecuteLabels => p \in Executors
  /\ c.pc \in {"transition", "cas"} => c.goal # "running"
  /\ c.pc \in {"reset", "rebegin"} => b = None
  /\ c.pc \in {"dispatch", "rec_begin", "rec_discard"} => b # None
  /\ c.pc \in {"resume_read", "resume_cas"} => r # None

\* The part that speaks of the store alone.
StoreInv(s, b, r) ==
  /\ IF b = None THEN s \in NeverRan \cup {"aborted"} ELSE s \notin NeverRan
  /\ r # None => b # None

\* The part that speaks of rows and their owners, where the attempts of ran were
\* dispatched.
RowInv(l, ran, k, b) ==
  /\ \A a \in ran : l[a] # NoRow /\ b # None
  /\ \A p \in Procs : k[p].pc \in OwnerLabels => l[k[p].att] # NoRow /\ k[p].att \notin ran
  /\ \A p, q \in Procs :
       k[p].pc \in OwnerLabels /\ k[q].pc \in OwnerLabels /\ k[p].att = k[q].att => p = q

\* Databases and processes that fit together when the attempts of ran were dispatched
\* in their history.
Sound(ran, s, b, r, l, k) ==
  RowInv(l, ran, k, b) /\ StoreInv(s, b, r) /\ \A p \in Procs : LocalInv(p, k[p], b, r)

\* They do now, and after this step for the same attempts.
Held(ran) == Sound(ran, pstate, bound, repaired, ledger, call)
HeldNext(ran) == Sound(ran, pstate', bound', repaired', ledger', call')

\* An owner owns a row of the ledger.
LEMMA OwnerAttempt ==
  ASSUME TypeInv, NEW p \in Procs, call[p].pc \in OwnerLabels
  PROVE  call[p].att \in Attempts
  BY LedgerAssumption DEF TypeInv, CallShape, Shape, OwnerLabels, RequestLabels

\* What a step does to the other processes: nothing, provided it keeps the
\* binding or no other process is about to reset a started row.
LEMMA OthersKeep ==
  ASSUME TypeInv, NEW ran \in SUBSET Attempts, Held(ran), NEW p \in Procs, NEW c, Become(p, c),
         bound # None => bound' # None, repaired # None => repaired' # None,
         \/ bound' = bound
         \/ \A q \in Procs \ {p} : call[q].pc \notin {"reset", "rebegin"},
         LocalInv(p, c, bound', repaired')
  PROVE  /\ call'[p] = c
         /\ \A q \in Procs \ {p} : call'[q] = call[q]
         /\ \A q \in Procs : LocalInv(q, call'[q], bound', repaired')
  <1>1. call'[p] = c /\ \A q \in Procs \ {p} : call'[q] = call[q]
    BY DEF Become, TypeInv, TypeOK
  <1>2. \A q \in Procs \ {p} : LocalInv(q, call[q], bound', repaired')
    BY DEF Held, Sound, LocalInv
  <1> QED BY <1>1, <1>2

\* A step that inserts and deletes no row, dispatches nothing and takes no
\* ownership.
LEMMA RowsKeep ==
  ASSUME TypeInv, NEW ran \in SUBSET Attempts, Held(ran), NEW p \in Procs, NEW c, Become(p, c),
         c.pc \in OwnerLabels => call[p].pc \in OwnerLabels /\ c.att = call[p].att,
         bound # None => bound' # None,
         \A a \in Attempts : (ledger'[a] # NoRow) = (ledger[a] # NoRow)
  PROVE  RowInv(ledger', ran, call', bound')
  <1>1. call'[p] = c /\ \A q \in Procs \ {p} : call'[q] = call[q]
    BY DEF Become, TypeInv, TypeOK
  <1>2. \A q \in Procs : call'[q].pc \in OwnerLabels =>
          call[q].pc \in OwnerLabels /\ call'[q].att = call[q].att /\ call[q].att \in Attempts
    BY <1>1, OwnerAttempt
  <1>3. RowInv(ledger, ran, call, bound)
    BY DEF Held, Sound
  <1> QED BY <1>2, <1>3 DEF RowInv

\* A step of that kind which leaves the store alone.
LEMMA QuietStep ==
  ASSUME TypeInv, NEW ran \in SUBSET Attempts, Held(ran), NEW p \in Procs, NEW c, Become(p, c),
         LocalInv(p, c, bound, repaired),
         c.pc \in OwnerLabels => call[p].pc \in OwnerLabels /\ c.att = call[p].att,
         UNCHANGED storeVars,
         \A a \in Attempts : (ledger'[a] # NoRow) = (ledger[a] # NoRow)
  PROVE  HeldNext(ran)
  <1>1. RowInv(ledger', ran, call', bound')
    BY RowsKeep DEF storeVars
  <1>2. \A q \in Procs : LocalInv(q, call'[q], bound', repaired')
    BY OthersKeep DEF storeVars
  <1>3. StoreInv(pstate', bound', repaired')
    BY DEF Held, Sound, storeVars
  <1> QED BY <1>1, <1>2, <1>3 DEF HeldNext, Sound

\* An operation that returns without touching the databases keeps DispatchInv.
LEMMA QuietReturn ==
  ASSUME TypeInv, NEW ran \in SUBSET Attempts, Held(ran), NEW p \in Procs, Return(p), UNCHANGED <<storeVars, ledger>>
  PROVE  HeldNext(ran)
  <1>1. LocalInv(p, Idle, bound, repaired) /\ Idle.pc \notin OwnerLabels
    BY DEF LocalInv, Idle, ExecuteLabels, OwnerLabels
  <1> QED BY <1>1, QuietStep DEF Return

\* A change of the store by transition_with_event.
LEMMA StoreStep ==
  ASSUME TypeInv, NEW ran \in SUBSET Attempts, Held(ran), NEW p \in Procs, NEW c, Become(p, c),
         c.pc \in OwnerLabels => call[p].pc \in OwnerLabels /\ c.att = call[p].att,
         UNCHANGED ledger,
         bound # None => bound' # None, repaired # None => repaired' # None,
         \/ bound' = bound
         \/ \A q \in Procs \ {p} : call[q].pc \notin {"reset", "rebegin"},
         LocalInv(p, c, bound', repaired'),
         StoreInv(pstate', bound', repaired')
  PROVE  HeldNext(ran)
  <1>1. RowInv(ledger', ran, call', bound')
    BY RowsKeep
  <1>2. \A q \in Procs : LocalInv(q, call'[q], bound', repaired')
    BY OthersKeep
  <1> QED BY <1>1, <1>2 DEF HeldNext, Sound

\* A pathway that never ran leaves these states only through RUNNING.
LEMMA EarlyEdges ==
  \A s \in NeverRan \cup {"aborted"} : ALLOWED_TRANSITIONS[s] \subseteq NeverRan \cup {"aborted", "running"}
  BY DEF ALLOWED_TRANSITIONS, PathwayState, NeverRan

\* A pathway that ran does not come back to them.
LEMMA LateEdges ==
  \A s \in PathwayState \ NeverRan : ALLOWED_TRANSITIONS[s] \cap NeverRan = {}
  BY DEF ALLOWED_TRANSITIONS, PathwayState, NeverRan

\* READY_TO_RESUME is only entered from REPAIR_REQUIRED.
LEMMA RepairEdge ==
  \A s \in PathwayState : "ready_to_resume" \in ALLOWED_TRANSITIONS[s] => s = "repair_required"
  BY DEF ALLOWED_TRANSITIONS, PathwayState

\* The four compare-and-sets on the pathway store keep DispatchInv.
LEMMA StoreActions ==
  ASSUME OneExecutor, TypeInv, NEW ran \in SUBSET Attempts, Held(ran), NEW p \in Procs,
         TransitionCas(p) \/ StartCas(p) \/ RepairCas(p) \/ ResumeCas(p)
  PROVE  HeldNext(ran)
  <1>t. /\ Shape(call[p]) /\ pstate \in PathwayState
        /\ call[p].req \in Requests => call[p].req.attempt \in Attempts
        /\ None \notin Attempts
    BY LedgerAssumption DEF TypeInv, TypeOK, CallShape
  <1>d. /\ StoreInv(pstate, bound, repaired)
        /\ \A q \in Procs : LocalInv(q, call[q], bound, repaired)
    BY DEF Held, Sound
  <1>i. Idle.pc \notin OwnerLabels /\ \A b, r : LocalInv(p, Idle, b, r)
    BY DEF LocalInv, Idle, ExecuteLabels, OwnerLabels
  <1>1. CASE TransitionCas(p)
    <2>1. CASE transition_with_event(p, call[p].goal, bound, repaired)
      <3>1. call[p].goal \in ALLOWED_TRANSITIONS[pstate] /\ call[p].goal # "running"
        BY <1>1, <1>t, <1>d, <2>1 DEF TransitionCas, At, Shape, LocalInv, transition_with_event
      <3>2. StoreInv(pstate', bound', repaired')
        BY <1>t, <1>d, <2>1, <3>1, EarlyEdges, LateEdges DEF StoreInv, transition_with_event
      <3> QED BY <1>1, <1>i, <2>1, <3>2, StoreStep DEF TransitionCas, Return, transition_with_event, worldVars
    <2> QED BY <1>1, <2>1, QuietReturn DEF TransitionCas, ConcurrentChange, worldVars
  <1>2. CASE StartCas(p)
    <2> DEFINE next(l) == [call[p] EXCEPT !.pc = l]
    <2>1. /\ \A l \in {"undo", "dispatch"} : next(l).pc = l /\ next(l).att = call[p].att
          /\ call[p].pc \in OwnerLabels /\ p \in Executors /\ call[p].att # None
      BY <1>2, <1>t, <1>d
         DEF StartCas, At, TypeInv, TypeOK, CallType, OwnerLabels, ExecuteLabels, LocalInv, Shape, RequestLabels
    <2>2. CASE transition_with_event(p, "running", call[p].att, repaired) /\ Goto(p, "dispatch")
      <3>1. \A q \in Procs \ {p} : call[q].pc \notin {"reset", "rebegin"}
        BY <1>d, <2>1 DEF OneExecutor, LocalInv, ExecuteLabels
      <3>2. StoreInv(pstate', bound', repaired')
        BY <2>1, <2>2 DEF StoreInv, transition_with_event, NeverRan
      <3>3. LocalInv(p, next("dispatch"), bound', repaired')
        BY <2>1, <2>2 DEF LocalInv, transition_with_event
      <3> HIDE DEF next
      <3>4. Become(p, next("dispatch"))
        BY <2>2 DEF Goto, next
      <3> QED BY <1>2, <2>1, <2>2, <3>1, <3>2, <3>3, <3>4, StoreStep
              DEF StartCas, transition_with_event, worldVars
    <2>3. CASE ConcurrentChange(p) /\ Goto(p, "undo")
      <3>1. LocalInv(p, next("undo"), bound, repaired)
        BY <2>1 DEF LocalInv
      <3> HIDE DEF next
      <3>2. Become(p, next("undo"))
        BY <2>3 DEF Goto, next
      <3> QED BY <1>2, <2>1, <2>3, <3>1, <3>2, QuietStep DEF StartCas, ConcurrentChange, worldVars
    <2> QED BY <1>2, <2>2, <2>3 DEF StartCas
  <1>3. CASE RepairCas(p)
    <2>1. CASE transition_with_event(p, "ready_to_resume", bound, call[p].att)
      <3>1. pstate = "repair_required" /\ call[p].att \in Attempts
        BY <1>3, <1>t, <2>1, RepairEdge DEF RepairCas, At, Shape, transition_with_event
      <3>2. StoreInv(pstate', bound', repaired')
        BY <1>t, <1>d, <2>1, <3>1 DEF StoreInv, transition_with_event, NeverRan
      <3> QED BY <1>3, <1>t, <1>i, <2>1, <3>1, <3>2, StoreStep
              DEF RepairCas, Return, transition_with_event, worldVars
    <2> QED BY <1>3, <2>1, QuietReturn DEF RepairCas, ConcurrentChange, worldVars
  <1>4. CASE ResumeCas(p)
    <2>1. CASE transition_with_event(p, "running", call[p].att, repaired)
      <3>1. call[p].att \in Attempts /\ repaired # None /\ bound # None
        BY <1>4, <1>t, <1>d DEF ResumeCas, At, Shape, LocalInv, StoreInv
      <3>2. \A q \in Procs : call[q].pc \notin {"reset", "rebegin"}
        BY <1>d, <3>1 DEF LocalInv
      <3>3. StoreInv(pstate', bound', repaired')
        BY <1>t, <2>1, <3>1 DEF StoreInv, transition_with_event, NeverRan
      <3> QED BY <1>4, <1>t, <1>i, <2>1, <3>1, <3>2, <3>3, StoreStep
              DEF ResumeCas, Return, transition_with_event, worldVars
    <2> QED BY <1>4, <2>1, QuietReturn DEF ResumeCas, ConcurrentChange, worldVars
  <1> QED BY <1>1, <1>2, <1>3, <1>4

\* Goto keeps the request and the attempts of a call.
LEMMA GotoFields ==
  ASSUME TypeInv, NEW p \in Procs, NEW l \in Labels
  PROVE  /\ [call[p] EXCEPT !.pc = l].pc = l
         /\ [call[p] EXCEPT !.pc = l].att = call[p].att
  BY DEF TypeInv, TypeOK, CallType

\* begin inserts a row nobody owned and gives it to the process.
LEMMA InsertStep ==
  ASSUME TypeInv, NEW ran \in SUBSET Attempts, Held(ran), NEW p \in Procs, NEW l \in {"admit", "rec_discard"},
         call[p].pc \in RequestLabels, begin_insert(call[p].req), Goto(p, l),
         LocalInv(p, [call[p] EXCEPT !.pc = l], bound, repaired),
         UNCHANGED storeVars
  PROVE  HeldNext(ran)
  <1> DEFINE c == [call[p] EXCEPT !.pc = l]
             x == call[p].att
  <1>1. c.pc = l /\ c.att = x
    BY GotoFields DEF Labels
  <1>2. x \in Attempts /\ ledger[x] = NoRow /\ x = call[p].req.attempt /\ call[p].req \in Requests
    BY LedgerAssumption DEF TypeInv, CallShape, Shape, begin_insert, Matching, Present
  <1>3. RowInv(ledger, ran, call, bound) /\ StoreInv(pstate, bound, repaired)
    BY DEF Held, Sound
  <1>4. /\ ledger'[x] # NoRow
        /\ \A a \in Attempts \ {x} : ledger'[a] = ledger[a]
    <2>1. [key |-> call[p].req.key, print |-> call[p].req.print, status |-> "started",
          shape |-> "plain"] # NoRow
      BY RuntimeAssumption DEF NoRow
    <2> QED BY <1>2, <2>1 DEF begin_insert, TypeInv, TypeOK, LedgerTypeOK
  <1>5. x \notin ran
    BY <1>2, <1>3 DEF RowInv
  <1>6. \A q \in Procs : call[q].pc \in OwnerLabels => call[q].att \in Attempts /\ call[q].att # x
    BY <1>2, <1>3, OwnerAttempt DEF RowInv
  <1> HIDE DEF c, x
  <1>7. /\ call'[p] = c /\ \A q \in Procs \ {p} : call'[q] = call[q]
        /\ \A q \in Procs : LocalInv(q, call'[q], bound', repaired')
    BY OthersKeep DEF Goto, storeVars, c
  <1>8. RowInv(ledger', ran, call', bound')
    BY <1>1, <1>3, <1>4, <1>5, <1>6, <1>7 DEF RowInv, storeVars
  <1> QED BY <1>3, <1>7, <1>8 DEF HeldNext, Sound, storeVars

\* begin inserts a row that the process leaves to nobody.
LEMMA InsertUnowned ==
  ASSUME TypeInv, NEW ran \in SUBSET Attempts, Held(ran), NEW p \in Procs,
         call[p].pc \in RequestLabels, begin_insert(call[p].req), Return(p),
         UNCHANGED storeVars
  PROVE  HeldNext(ran)
  <1> DEFINE x == call[p].att
  <1>1. Idle.pc \notin OwnerLabels /\ LocalInv(p, Idle, bound, repaired)
    BY DEF LocalInv, Idle, ExecuteLabels, OwnerLabels
  <1>2. x \in Attempts /\ x = call[p].req.attempt
    BY LedgerAssumption DEF TypeInv, CallShape, Shape
  <1>3. RowInv(ledger, ran, call, bound) /\ StoreInv(pstate, bound, repaired)
    BY DEF Held, Sound
  <1>4. \A a \in Attempts : ledger[a] # NoRow => ledger'[a] # NoRow
    <2>1. [key |-> call[p].req.key, print |-> call[p].req.print, status |-> "started",
          shape |-> "plain"] # NoRow
      BY RuntimeAssumption DEF NoRow
    <2> QED BY <1>2, <2>1 DEF begin_insert, TypeInv, TypeOK, LedgerTypeOK
  <1>5. /\ call'[p] = Idle /\ \A q \in Procs \ {p} : call'[q] = call[q]
        /\ \A q \in Procs : LocalInv(q, call'[q], bound', repaired')
    BY <1>1, OthersKeep DEF Return, storeVars
  <1>6. \A q \in Procs : call'[q].pc \in OwnerLabels =>
          call'[q] = call[q] /\ call[q].att \in Attempts
    BY <1>1, <1>5, OwnerAttempt
  <1>7. RowInv(ledger', ran, call', bound')
    BY <1>3, <1>4, <1>6 DEF RowInv, storeVars
  <1> QED BY <1>3, <1>5, <1>7 DEF HeldNext, Sound, storeVars

\* discard_started may only delete a row that was not dispatched and that no
\* other process owns.
LEMMA DiscardStep ==
  ASSUME TypeInv, NEW ran \in SUBSET Attempts, Held(ran), NEW p \in Procs, NEW c, Become(p, c),
         c.pc \notin OwnerLabels, LocalInv(p, c, bound, repaired),
         NEW x \in Attempts, discard_started(x), x \notin ran,
         \A q \in Procs \ {p} : call[q].pc \in OwnerLabels => call[q].att # x,
         UNCHANGED storeVars
  PROVE  HeldNext(ran)
  <1>1. /\ call'[p] = c /\ \A q \in Procs \ {p} : call'[q] = call[q]
        /\ \A q \in Procs : LocalInv(q, call'[q], bound', repaired')
    BY OthersKeep DEF storeVars
  <1>2. RowInv(ledger, ran, call, bound) /\ StoreInv(pstate, bound, repaired)
    BY DEF Held, Sound
  <1>3. \A a \in Attempts \ {x} : ledger'[a] = ledger[a]
    BY DEF discard_started, TypeInv, TypeOK, LedgerTypeOK
  <1>4. \A q \in Procs \ {p} : call[q].pc \in OwnerLabels => call[q].att \in Attempts \ {x}
    BY OwnerAttempt
  <1>5. RowInv(ledger', ran, call', bound')
    BY <1>1, <1>2, <1>3, <1>4 DEF RowInv, storeVars
  <1> QED BY <1>1, <1>2, <1>5 DEF HeldNext, Sound, storeVars

\* finish creates and deletes no row.
LEMMA FinishKeepsRows ==
  ASSUME TypeInv, NEW a \in Attempts, NEW result \in Results, NEW shape \in Shapes,
         finish(a, result, shape)
  PROVE  \A x \in Attempts : (ledger'[x] # NoRow) = (ledger[x] # NoRow)
  <1> DEFINE row == [ledger[a] EXCEPT !.status = result, !.shape = shape]
  <1>1. ledger[a] \in Rows
    BY DEF finish, Present, TypeInv, TypeOK, LedgerTypeOK
  <1>2. row # NoRow
    <2>1. row.status = result /\ NoRow.status = None
      BY <1>1 DEF Rows, NoRow
    <2> QED BY <2>1, RuntimeAssumption
  <1>3. ledger' = ledger \/ ledger' = [ledger EXCEPT ![a] = row]
    BY DEF finish, TypeInv, TypeOK, LedgerTypeOK
  <1> HIDE DEF row
  <1> QED BY <1>2, <1>3 DEF finish, Present, TypeInv, TypeOK, LedgerTypeOK

\* The transactions on the attempt ledger keep DispatchInv.
LEMMA LedgerActions ==
  ASSUME OneExecutor, TypeInv, NEW ran \in SUBSET Attempts, Held(ran), NEW p \in Procs,
         \/ BeginAttempt(p) \/ BeginAgain(p) \/ ReconcileBegin(p)
         \/ ResetStarted(p) \/ UndoDiscard(p) \/ ReconcileDiscard(p)
         \/ PersistResult(p) \/ ReconcilePersist(p) \/ MarkPersistenceUnknown(p) \/ ReconcileFallback(p)
         \/ ProbeBegin(p) \/ ProbePersist(p)
  PROVE  HeldNext(ran)
  <1> DEFINE c == call[p]
             goto(l) == [call[p] EXCEPT !.pc = l]
  <1>t. /\ Shape(c) /\ c \in CallType /\ pstate \in PathwayState
        /\ "unknown" \in Results /\ "plain" \in Shapes
        /\ c.pc \in RequestLabels => c.att \in Attempts
    BY LedgerAssumption DEF TypeInv, TypeOK, CallShape, Shape, Results, Shapes
  <1>d. /\ LocalInv(p, c, bound, repaired)
        /\ \A q \in Procs : LocalInv(q, call[q], bound, repaired)
        /\ RowInv(ledger, ran, call, bound)
    BY DEF Held, Sound
  <1>f. \A l \in Labels : goto(l).pc = l /\ goto(l).att = c.att
    BY GotoFields
  <1>i. Idle.pc \notin OwnerLabels /\ LocalInv(p, Idle, bound, repaired)
    BY DEF LocalInv, Idle, ExecuteLabels, OwnerLabels
  <1>1. CASE BeginAttempt(p)
    <2>1. c.pc = "begin" /\ p \in Executors /\ c.pc \in RequestLabels /\ UNCHANGED storeVars
      BY <1>1, <1>d DEF BeginAttempt, At, LocalInv, ExecuteLabels, RequestLabels, worldVars
    <2>2. /\ LocalInv(p, goto("admit"), bound, repaired) /\ LocalInv(p, goto("replay"), bound, repaired)
          /\ goto("replay").pc \notin OwnerLabels
      BY <1>f, <2>1 DEF LocalInv, Labels, OwnerLabels
    <2>3. \A x, y : LET k == WithResult(c, "finish_read", x, y)
                   IN  k.pc \notin OwnerLabels /\ LocalInv(p, k, bound, repaired)
      BY <1>t, <2>1 DEF LocalInv, WithResult, OwnerLabels, CallType
    <2>4. CASE begin_insert(c.req) /\ Goto(p, "admit")
      BY <2>1, <2>2, <2>4, InsertStep
    <2>5. CASE UNCHANGED ledger /\ Return(p)
      BY <2>1, <2>5, QuietReturn
    <2>6. CASE UNCHANGED ledger /\ Goto(p, "replay")
      BY <2>1, <2>2, <2>6, QuietStep DEF Goto
    <2>7. ASSUME NEW a \in Attempts, UNCHANGED ledger, Replays(c.req, a), ledger[a].status # "started",
                 Become(p, WithResult(c, "finish_read", ledger[a].status, ledger[a].shape))
          PROVE  HeldNext(ran)
      BY <2>1, <2>3, <2>7, QuietStep
    <2> QED BY <1>1, <2>4, <2>5, <2>6, <2>7 DEF BeginAttempt
  <1>2. CASE BeginAgain(p)
    <2>1. /\ p \in Executors /\ c.pc \in RequestLabels /\ UNCHANGED storeVars
      BY <1>2, <1>d DEF BeginAgain, At, LocalInv, ExecuteLabels, RequestLabels, worldVars
    <2>2. LocalInv(p, goto("admit"), bound, repaired)
      BY <1>f, <2>1 DEF LocalInv, Labels
    <2>3. CASE begin_insert(c.req) /\ Goto(p, "admit")
      BY <2>1, <2>2, <2>3, InsertStep
    <2> QED BY <1>2, <2>1, <2>3, QuietReturn DEF BeginAgain
  <1>3. CASE ReconcileBegin(p)
    <2>1. bound # None /\ c.pc \in RequestLabels /\ UNCHANGED storeVars
      BY <1>3, <1>d DEF ReconcileBegin, At, LocalInv, RequestLabels, worldVars
    <2>2. /\ LocalInv(p, goto("rec_discard"), bound, repaired) /\ LocalInv(p, goto("observe"), bound, repaired)
          /\ goto("observe").pc \notin OwnerLabels
      BY <1>f, <2>1 DEF LocalInv, Labels, OwnerLabels, ExecuteLabels
    <2>3. \A x, y : LET k == WithResult(c, "rec_finish", x, y)
                   IN  k.pc \notin OwnerLabels /\ LocalInv(p, k, bound, repaired)
      BY <1>t, <2>1 DEF LocalInv, WithResult, OwnerLabels, CallType, ExecuteLabels
    <2>4. CASE begin_insert(c.req) /\ Goto(p, "rec_discard")
      BY <2>1, <2>2, <2>4, InsertStep
    <2>5. CASE UNCHANGED ledger /\ Return(p)
      BY <2>1, <2>5, QuietReturn
    <2>6. CASE UNCHANGED ledger /\ Goto(p, "observe")
      BY <2>1, <2>2, <2>6, QuietStep DEF Goto
    <2>7. ASSUME NEW a \in Attempts, UNCHANGED ledger, ledger[a].status \in Classified,
                 Become(p, WithResult(c, "rec_finish", ledger[a].status, ledger[a].shape))
          PROVE  HeldNext(ran)
      BY <2>1, <2>3, <2>7, QuietStep
    <2> QED BY <1>3, <2>4, <2>5, <2>6, <2>7 DEF ReconcileBegin
  <1>4. CASE ResetStarted(p)
    <2>1. /\ bound = None /\ p \in Executors /\ c.att \in Attempts
          /\ UNCHANGED storeVars
      BY <1>4, <1>t, <1>d DEF ResetStarted, At, LocalInv, ExecuteLabels, RequestLabels, worldVars
    <2>2. c.att \notin ran
      BY <1>d, <2>1 DEF RowInv
    <2>3. \A q \in Procs \ {p} : call[q].pc \notin OwnerLabels
      BY <1>d, <2>1 DEF OneExecutor, LocalInv, OwnerLabels, ExecuteLabels
    <2>4. LocalInv(p, goto("rebegin"), bound, repaired) /\ goto("rebegin").pc \notin OwnerLabels
      BY <1>f, <2>1 DEF LocalInv, Labels, OwnerLabels
    <2>5. CASE Goto(p, "rebegin")
      BY <1>4, <2>1, <2>2, <2>3, <2>4, <2>5, DiscardStep DEF ResetStarted, Goto
    <2>6. CASE Return(p)
      BY <1>4, <1>i, <2>1, <2>2, <2>3, <2>6, DiscardStep DEF ResetStarted, Return
    <2> QED BY <1>4, <2>5, <2>6 DEF ResetStarted
  <1>5. CASE UndoDiscard(p) \/ ReconcileDiscard(p)
    <2>1. /\ c.pc \in OwnerLabels /\ c.att \in Attempts /\ discard_started(c.att) /\ Become(p, Idle)
          /\ UNCHANGED storeVars
      BY <1>5, <1>t DEF UndoDiscard, ReconcileDiscard, At, OwnerLabels, RequestLabels, worldVars, Return
    <2>2. c.att \notin ran /\ \A q \in Procs \ {p} : call[q].pc \in OwnerLabels => call[q].att # c.att
      BY <1>d, <2>1 DEF RowInv
    <2> QED BY <1>i, <2>1, <2>2, DiscardStep
  <1>6. CASE PersistResult(p)
    <2>1. /\ p \in Executors /\ c.att \in Attempts /\ c.res \in Results /\ c.shape \in Shapes
          /\ UNCHANGED storeVars
      BY <1>6, <1>t, <1>d
         DEF PersistResult, At, LocalInv, ExecuteLabels, RequestLabels, ResultLabels, Shape, worldVars
    <2>2. \A l \in {"finish_read", "fallback"} :
            LocalInv(p, goto(l), bound, repaired) /\ goto(l).pc \notin OwnerLabels
      BY <1>f, <2>1 DEF LocalInv, Labels, OwnerLabels
    <2>3. CASE finish(c.att, c.res, c.shape) /\ Goto(p, "finish_read")
      BY <2>1, <2>2, <2>3, FinishKeepsRows, QuietStep DEF Goto
    <2>5. CASE finish(c.att, c.res, c.shape) /\ Return(p)
      BY <1>i, <2>1, <2>5, FinishKeepsRows, QuietStep DEF Return
    <2>4. CASE UNCHANGED ledger /\ Goto(p, "fallback")
      BY <2>1, <2>2, <2>4, QuietStep DEF Goto
    <2> QED BY <1>6, <2>1, <2>3, <2>4, <2>5, QuietReturn DEF PersistResult
  <1>7. CASE MarkPersistenceUnknown(p)
    <2> DEFINE k == [c EXCEPT !.pc = "transition", !.goal = "write_status_unknown"]
    <2>1. k.pc \notin OwnerLabels /\ LocalInv(p, k, bound, repaired)
      BY <1>t DEF LocalInv, OwnerLabels, ExecuteLabels, CallType
    <2>2. c.att \in Attempts /\ UNCHANGED storeVars /\ Become(p, k)
      BY <1>7, <1>t DEF MarkPersistenceUnknown, At, RequestLabels, worldVars
    <2>3. \A x \in Attempts : (ledger'[x] # NoRow) = (ledger[x] # NoRow)
      BY <1>7, <1>t, <2>2, FinishKeepsRows DEF MarkPersistenceUnknown, mark_result_persistence_unknown
    <2> HIDE DEF k
    <2> QED BY <2>1, <2>2, <2>3, QuietStep
  <1>8. CASE ReconcilePersist(p)
    <2>1. /\ c.att \in Attempts /\ c.res \in Results /\ c.shape \in Shapes
          /\ UNCHANGED storeVars
      BY <1>8, <1>t DEF ReconcilePersist, At, RequestLabels, ResultLabels, Shape, worldVars
    <2>2. LocalInv(p, goto("rec_finish"), bound, repaired) /\ goto("rec_finish").pc \notin OwnerLabels
      BY <1>f DEF LocalInv, Labels, OwnerLabels, ExecuteLabels
    <2> QED BY <1>8, <2>1, <2>2, FinishKeepsRows, QuietStep DEF ReconcilePersist, Goto
  <1>9. CASE ReconcileFallback(p)
    <2>1. c.att \in Attempts /\ UNCHANGED storeVars /\ Become(p, Idle)
      BY <1>9, <1>t DEF ReconcileFallback, At, RequestLabels, worldVars, Return
    <2>2. \A x \in Attempts : (ledger'[x] # NoRow) = (ledger[x] # NoRow)
      BY <1>9, <1>t, <2>1, FinishKeepsRows DEF ReconcileFallback, mark_result_persistence_unknown
    <2> QED BY <1>i, <2>1, <2>2, QuietStep
  <1>10. CASE ProbeBegin(p)
    <2>1. c.pc \in RequestLabels /\ UNCHANGED storeVars
      BY <1>10 DEF ProbeBegin, At, RequestLabels, worldVars
    <2>2. LocalInv(p, goto("probe_observe"), bound, repaired) /\ goto("probe_observe").pc \notin OwnerLabels
      BY <1>f DEF LocalInv, Labels, OwnerLabels, ExecuteLabels
    <2>3. CASE begin_insert(c.req) /\ Return(p)
      BY <2>1, <2>3, InsertUnowned
    <2>4. CASE UNCHANGED ledger /\ Return(p)
      BY <2>1, <2>4, QuietReturn
    <2>5. CASE UNCHANGED ledger /\ Goto(p, "probe_observe")
      BY <2>1, <2>2, <2>5, QuietStep DEF Goto
    <2> QED BY <1>10, <2>3, <2>4, <2>5 DEF ProbeBegin
  <1>11. CASE ProbePersist(p)
    <2>1. /\ c.att \in Attempts /\ c.res \in Results /\ c.shape \in Shapes
          /\ UNCHANGED storeVars /\ Become(p, Idle)
      BY <1>11, <1>t DEF ProbePersist, At, RequestLabels, ResultLabels, Shape, worldVars, Return
    <2>2. \A x \in Attempts : (ledger'[x] # NoRow) = (ledger[x] # NoRow)
      BY <1>11, <2>1, FinishKeepsRows DEF ProbePersist
    <2> QED BY <1>i, <2>1, <2>2, QuietStep
  <1> QED BY <1>1, <1>2, <1>3, <1>4, <1>5, <1>6, <1>7, <1>8, <1>9, <1>10, <1>11

\* The executor is invoked by the owner of a row that was not dispatched, in a
\* pathway that ran; the owner gives the row up.
LEMMA DispatchAction ==
  ASSUME TypeInv, NEW ran \in SUBSET Attempts, Held(ran), NEW p \in Procs, Dispatch(p)
  PROVE  LET x == call[p].att
         IN  /\ x \in Attempts \ ran
             /\ HeldNext(ran \cup {x})
             /\ dispatched' = [dispatched EXCEPT ![x] = @ + 1]
             /\ pstate \notin NeverRan /\ UNCHANGED pstate
  <1> DEFINE x == call[p].att
             c == [call[p] EXCEPT !.pc = "inflight"]
  <1>1. call[p].pc = "dispatch" /\ call[p].pc \in OwnerLabels
    BY DEF Dispatch, At, OwnerLabels
  <1>2. /\ RowInv(ledger, ran, call, bound) /\ StoreInv(pstate, bound, repaired)
        /\ LocalInv(p, call[p], bound, repaired)
    BY DEF Held, Sound
  <1>3. x \in Attempts \ ran /\ ledger[x] # NoRow /\ bound # None /\ p \in Executors
    BY <1>1, <1>2, OwnerAttempt DEF RowInv, LocalInv, ExecuteLabels
  <1>4. /\ dispatched' = [dispatched EXCEPT ![x] = @ + 1]
        /\ UNCHANGED <<storeVars, ledger>> /\ Become(p, c)
    BY DEF Dispatch, Goto
  <1>5. c.pc = "inflight"
    BY GotoFields DEF Labels
  <1>6. LocalInv(p, c, bound, repaired) /\ c.pc \notin OwnerLabels
    BY <1>3, <1>5 DEF LocalInv, OwnerLabels
  <1> HIDE DEF c
  <1>7. /\ call'[p] = c /\ \A q \in Procs \ {p} : call'[q] = call[q]
        /\ \A q \in Procs : LocalInv(q, call'[q], bound', repaired')
    BY <1>4, <1>6, OthersKeep DEF storeVars
  <1>8. \A q \in Procs \ {p} : call[q].pc \in OwnerLabels => call[q].att # x
    BY <1>1, <1>2 DEF RowInv
  <1>9. \A q \in Procs : call'[q].pc \in OwnerLabels => q # p /\ call'[q] = call[q]
    BY <1>6, <1>7
  <1>10. RowInv(ledger', ran \cup {x}, call', bound')
    BY <1>2, <1>3, <1>4, <1>8, <1>9 DEF RowInv, storeVars
  <1>11. HeldNext(ran \cup {x})
    BY <1>2, <1>4, <1>7, <1>10 DEF HeldNext, Sound, storeVars
  <1> QED BY <1>2, <1>3, <1>4, <1>11 DEF StoreInv, storeVars

\* Steps that only read, or that only change what the process has in memory.
LEMMA QuietActions ==
  ASSUME TypeInv, NEW ran \in SUBSET Attempts, Held(ran), NEW p \in Procs,
         \/ TransitionRead(p) \/ CheckBinding(p) \/ ReplayUnresolved(p) \/ AdmitExecution(p)
         \/ StartRead(p) \/ UndoRead(p) \/ ExecutorReturns(p) \/ FinishExecution(p)
         \/ ObserveVerified(p) \/ ObserveUnresolved(p) \/ ReconcileRejected(p) \/ ReconcileFinish(p)
         \/ (\E actor \in Actors : RepairRead(p, actor) \/ ResumeRead(p, actor))
         \/ ResumeNextIsNew(p) \/ ResumeMatchesRepair(p) \/ ProbeObserve(p)
  PROVE  HeldNext(ran)
  <1> DEFINE c == call[p]
             goto(l) == [call[p] EXCEPT !.pc = l]
  <1>t. /\ Shape(c) /\ c \in CallType /\ pstate \in PathwayState
    BY DEF TypeInv, TypeOK, CallShape
  <1>d. /\ LocalInv(p, c, bound, repaired) /\ StoreInv(pstate, bound, repaired)
    BY DEF Held, Sound
  <1>f. \A l \in Labels : goto(l).pc = l /\ goto(l).att = c.att
    BY GotoFields
  <1>u. UNCHANGED <<storeVars, ledger>>
    BY DEF TransitionRead, CheckBinding, ReplayUnresolved, AdmitExecution, StartRead, UndoRead,
       ExecutorReturns, FinishExecution, ObserveVerified, ObserveUnresolved, ReconcileRejected,
       ReconcileFinish, RepairRead, ResumeRead, ResumeNextIsNew, ResumeMatchesRepair,
       ProbeObserve, worldVars
  <1>r. ASSUME Return(p) PROVE HeldNext(ran)
    BY <1>r, <1>u, QuietReturn
  <1>q. ASSUME NEW k, Become(p, k), LocalInv(p, k, bound, repaired),
               k.pc \in OwnerLabels => c.pc \in OwnerLabels /\ k.att = c.att
        PROVE  HeldNext(ran)
    BY <1>q, <1>u, QuietStep
  <1>1. CASE TransitionRead(p)
    <2> DEFINE k == [c EXCEPT !.pc = "cas", !.snap = pstate]
    <2>1. LocalInv(p, k, bound, repaired) /\ k.pc \notin OwnerLabels
      BY <1>1, <1>t, <1>d DEF TransitionRead, At, LocalInv, CallType, OwnerLabels, ExecuteLabels
    <2>2. Become(p, k) \/ Return(p)
      BY <1>1 DEF TransitionRead
    <2> HIDE DEF k
    <2> QED BY <1>r, <1>q, <2>1, <2>2
  <1>2. CASE CheckBinding(p)
    <2>1. p \in Executors
      BY <1>2, <1>d DEF CheckBinding, At, LocalInv, ExecuteLabels
    <2>2. LocalInv(p, goto("begin"), bound, repaired) /\ goto("begin").pc \notin OwnerLabels
      BY <1>f, <2>1 DEF LocalInv, OwnerLabels, Labels
    <2> QED BY <1>2, <1>r, <1>q, <2>2 DEF CheckBinding, Goto
  <1>3. CASE ReplayUnresolved(p)
    <2> DEFINE k == [c EXCEPT !.pc = "transition", !.goal = "write_status_unknown"]
    <2>1. p \in Executors
      BY <1>3, <1>d DEF ReplayUnresolved, At, LocalInv, ExecuteLabels
    <2>2. LocalInv(p, k, bound, repaired) /\ k.pc \notin OwnerLabels
      BY <1>t DEF LocalInv, CallType, OwnerLabels, ExecuteLabels
    <2>3. pstate = "approved" => /\ LocalInv(p, goto("reset"), bound, repaired)
                                 /\ goto("reset").pc \notin OwnerLabels
      BY <1>f, <1>d, <2>1 DEF LocalInv, OwnerLabels, StoreInv, NeverRan, Labels
    <2>4. Become(p, k) \/ Return(p) \/ (pstate = "approved" /\ Become(p, goto("reset")))
      BY <1>3 DEF ReplayUnresolved, Goto
    <2> HIDE DEF k, goto
    <2> QED BY <1>r, <1>q, <2>2, <2>3, <2>4
  <1>4. CASE AdmitExecution(p)
    <2>1. p \in Executors /\ c.pc \in OwnerLabels
      BY <1>4, <1>d DEF AdmitExecution, At, LocalInv, ExecuteLabels, OwnerLabels
    <2>2. pstate = "running" => bound # None
      BY <1>d DEF StoreInv, NeverRan
    <2>3. PICK l \in {"start_read", "dispatch", "undo"} :
            Become(p, goto(l)) /\ (l = "dispatch" => pstate = "running")
      BY <1>4 DEF AdmitExecution, Goto
    <2>4. LocalInv(p, goto(l), bound, repaired) /\ goto(l).att = c.att
      BY <1>f, <2>1, <2>2, <2>3 DEF LocalInv, Labels
    <2> QED BY <1>q, <2>1, <2>3, <2>4
  <1>5. CASE StartRead(p)
    <2> DEFINE k == [c EXCEPT !.pc = "start_cas", !.snap = pstate]
    <2>1. p \in Executors /\ c.pc \in OwnerLabels
      BY <1>5, <1>d DEF StartRead, At, LocalInv, ExecuteLabels, OwnerLabels
    <2>2. LocalInv(p, k, bound, repaired) /\ k.att = c.att
      BY <1>t, <2>1 DEF LocalInv, CallType
    <2>3. LocalInv(p, goto("undo"), bound, repaired) /\ goto("undo").att = c.att
      BY <1>f, <2>1 DEF LocalInv, Labels
    <2>4. Become(p, k) \/ Become(p, goto("undo"))
      BY <1>5 DEF StartRead, Goto
    <2> HIDE DEF k, goto
    <2> QED BY <1>q, <2>1, <2>2, <2>3, <2>4
  <1>6. CASE UndoRead(p)
    <2>1. p \in Executors /\ c.pc \in OwnerLabels
      BY <1>6, <1>d DEF UndoRead, At, LocalInv, ExecuteLabels, OwnerLabels
    <2>2. LocalInv(p, goto("undo_discard"), bound, repaired) /\ goto("undo_discard").att = c.att
      BY <1>f, <2>1 DEF LocalInv, Labels
    <2> QED BY <1>6, <1>r, <1>q, <2>1, <2>2 DEF UndoRead, Goto
  <1>7. CASE ExecutorReturns(p)
    <2>1. PICK result, shape : Become(p, WithResult(c, "persist", result, shape))
      BY <1>7 DEF ExecutorReturns
    <2> DEFINE k == WithResult(c, "persist", result, shape)
    <2>2. LocalInv(p, k, bound, repaired) /\ k.pc \notin OwnerLabels
      BY <1>7, <1>t, <1>d DEF ExecutorReturns, At, WithResult, LocalInv, CallType, OwnerLabels, ExecuteLabels
    <2> QED BY <1>q, <2>1, <2>2
  <1>8. CASE FinishExecution(p)
    <2>1. PICK goal \in {"completed", "repair_required", "write_status_unknown"} :
             goal = FinishTarget(c.res)
      BY DEF FinishTarget
    <2> DEFINE k == [c EXCEPT !.pc = "transition", !.goal = goal]
               m == [c EXCEPT !.pc = "cas", !.snap = pstate, !.goal = goal]
    <2>2. LocalInv(p, k, bound, repaired) /\ k.pc \notin OwnerLabels
      BY <1>t DEF LocalInv, CallType, OwnerLabels, ExecuteLabels
    <2>3. LocalInv(p, m, bound, repaired) /\ m.pc \notin OwnerLabels
      BY <1>t DEF LocalInv, CallType, OwnerLabels, ExecuteLabels
    <2>4. Return(p) \/ Become(p, k) \/ Become(p, m)
      BY <1>8, <2>1 DEF FinishExecution
    <2> HIDE DEF k, m
    <2> QED BY <1>r, <1>q, <2>2, <2>3, <2>4
  <1>9. CASE ObserveVerified(p)
    <2>1. PICK result, shape : Become(p, WithResult(c, "rec_persist", result, shape))
      BY <1>9 DEF ObserveVerified
    <2> DEFINE k == WithResult(c, "rec_persist", result, shape)
    <2>2. LocalInv(p, k, bound, repaired) /\ k.pc \notin OwnerLabels
      BY <1>t DEF WithResult, LocalInv, CallType, OwnerLabels, ExecuteLabels
    <2> QED BY <1>q, <2>1, <2>2
  <1>10. CASE ObserveUnresolved(p)
    BY <1>10, <1>r DEF ObserveUnresolved
  <1>11. CASE ReconcileRejected(p)
    <2>1. LocalInv(p, goto("rec_fallback"), bound, repaired) /\ goto("rec_fallback").pc \notin OwnerLabels
      BY <1>f DEF LocalInv, OwnerLabels, ExecuteLabels, Labels
    <2> QED BY <1>11, <1>r, <1>q, <2>1 DEF ReconcileRejected, Goto
  <1>12. CASE ReconcileFinish(p)
    <2>1. PICK goal \in {"completed", "repair_required"} : goal = ReconcileTarget(c.res)
      BY DEF ReconcileTarget
    <2> DEFINE m == [c EXCEPT !.pc = "cas", !.snap = pstate, !.goal = goal]
    <2>2. LocalInv(p, m, bound, repaired) /\ m.pc \notin OwnerLabels
      BY <1>t DEF LocalInv, CallType, OwnerLabels, ExecuteLabels
    <2>3. Return(p) \/ Become(p, m)
      BY <1>12, <2>1 DEF ReconcileFinish
    <2> HIDE DEF m
    <2> QED BY <1>r, <1>q, <2>2, <2>3
  <1>13. ASSUME NEW actor \in Actors, RepairRead(p, actor) PROVE HeldNext(ran)
    <2> DEFINE k == [c EXCEPT !.pc = "repair_cas", !.snap = pstate]
    <2>1. LocalInv(p, k, bound, repaired) /\ k.pc \notin OwnerLabels
      BY <1>t DEF LocalInv, CallType, OwnerLabels, ExecuteLabels
    <2>2. Become(p, k) \/ Return(p)
      BY <1>13 DEF RepairRead
    <2> HIDE DEF k
    <2> QED BY <1>r, <1>q, <2>1, <2>2
  <1>14. ASSUME NEW actor \in Actors, ResumeRead(p, actor) PROVE HeldNext(ran)
    <2> DEFINE k == [c EXCEPT !.pc = "resume_cas", !.snap = pstate]
    <2>1. LocalInv(p, k, bound, repaired) /\ k.pc \notin OwnerLabels
      BY <1>14, <1>t, <1>d DEF ResumeRead, At, LocalInv, CallType, OwnerLabels, ExecuteLabels
    <2>2. Become(p, k) \/ Return(p)
      BY <1>14 DEF ResumeRead
    <2> HIDE DEF k
    <2> QED BY <1>r, <1>q, <2>1, <2>2
  <1>15. CASE ResumeNextIsNew(p)
    <2>1. LocalInv(p, goto("resume_match"), bound, repaired) /\ goto("resume_match").pc \notin OwnerLabels
      BY <1>f DEF LocalInv, OwnerLabels, ExecuteLabels, Labels
    <2> QED BY <1>15, <1>r, <1>q, <2>1 DEF ResumeNextIsNew, Goto
  <1>16. CASE ResumeMatchesRepair(p)
    <2>1. c.prior # None
      BY <1>16, <1>t, LedgerAssumption DEF ResumeMatchesRepair, At, Shape
    <2>2. repaired = c.prior => LocalInv(p, goto("resume_read"), bound, repaired)
      BY <1>f, <2>1 DEF LocalInv, ExecuteLabels, Labels
    <2>3. goto("resume_read").pc \notin OwnerLabels
      BY <1>f DEF OwnerLabels, Labels
    <2> QED BY <1>16, <1>r, <1>q, <2>2, <2>3 DEF ResumeMatchesRepair, Goto
  <1>17. CASE ProbeObserve(p)
    <2>1. \A x, y : LET k == WithResult(c, "probe_persist", x, y)
                   IN  k.pc \notin OwnerLabels /\ LocalInv(p, k, bound, repaired)
      BY <1>t DEF WithResult, LocalInv, CallType, OwnerLabels, ExecuteLabels
    <2>2. Return(p) \/ \E x, y : Become(p, WithResult(c, "probe_persist", x, y))
      BY <1>17 DEF ProbeObserve
    <2> QED BY <1>r, <1>q, <2>1, <2>2
  <1> QED BY <1>1, <1>2, <1>3, <1>4, <1>5, <1>6, <1>7, <1>8, <1>9, <1>10, <1>11, <1>12, <1>13,
             <1>14, <1>15, <1>16, <1>17

\* A call and a crash keep DispatchInv.
LEMMA InvokeDispatch ==
  ASSUME TypeInv, NEW ran \in SUBSET Attempts, Held(ran), NEW p \in Procs, Invoke(p) \/ Crash(p)
  PROVE  HeldNext(ran)
  <1>d. StoreInv(pstate, bound, repaired)
    BY DEF Held, Sound
  <1>u. UNCHANGED <<storeVars, ledger>>
    BY InvokeElsewhere DEF worldVars
  <1>e. ASSUME NEW k, Enter(p, k), LocalInv(p, k, bound, repaired), k.pc \notin OwnerLabels
        PROVE  HeldNext(ran)
    BY <1>e, <1>u, QuietStep DEF Enter
  <1> USE DEF Idle, LocalInv, ExecuteLabels, OwnerLabels
  <1>1. ASSUME NEW r \in Requests, NEW actor \in Actors, Execute(p, r, actor)
        PROVE  HeldNext(ran)
    <2>1. PICK l \in {"binding", "begin"} : Enter(p, [Idle EXCEPT !.pc = l, !.req = r, !.att = r.attempt])
      BY <1>1 DEF Execute
    <2> QED BY <1>1, <1>e, <2>1 DEF Execute
  <1>2. ASSUME NEW r \in Requests, NEW actor \in Actors, Reconcile(p, r, actor)
        PROVE  HeldNext(ran)
    <2>1. bound # None
      BY <1>2, <1>d DEF Reconcile, StoreInv, NeverRan
    <2> QED BY <1>2, <1>e, <2>1 DEF Reconcile
  <1>3. ASSUME NEW t \in ManualTargets, NEW actor \in Actors, transition(p, t, actor)
        PROVE  HeldNext(ran)
    BY <1>3, <1>e DEF transition
  <1>4. ASSUME NEW a \in Attempts, CompleteRepair(p, a)
        PROVE  HeldNext(ran)
    BY <1>4, <1>e DEF CompleteRepair
  <1>5. ASSUME NEW prior \in Attempts, NEW next \in Attempts, Resume(p, prior, next)
        PROVE  HeldNext(ran)
    BY <1>5, <1>e DEF Resume
  <1>6. ASSUME NEW actor \in Actors, AbortWithResiduals(p, actor)
        PROVE  HeldNext(ran)
    BY <1>6, <1>e DEF AbortWithResiduals
  <1>7. ASSUME NEW r \in Requests, Probe(p, r)
        PROVE  HeldNext(ran)
    BY <1>7, <1>e DEF Probe
  <1>8. CASE Crash(p)
    BY <1>8, <1>u, QuietReturn DEF Crash
  <1> QED BY <1>1, <1>2, <1>3, <1>4, <1>5, <1>6, <1>7, <1>8 DEF Invoke

\* A step dispatches nothing, or an attempt that was not dispatched yet, in a pathway
\* that was admitted to RUNNING.
LEMMA SoundNext ==
  ASSUME OneExecutor, TypeInv, NEW ran \in SUBSET Attempts, Held(ran), [Next]_vars
  PROVE  \/ HeldNext(ran) /\ UNCHANGED dispatched
         \/ \E x \in Attempts \ ran :
              /\ HeldNext(ran \cup {x}) /\ dispatched' = [dispatched EXCEPT ![x] = @ + 1]
              /\ pstate \notin NeverRan /\ UNCHANGED pstate
  <1>1. ASSUME NEW p \in Procs, Proceed(p), ~ Dispatch(p)
        PROVE  HeldNext(ran) /\ UNCHANGED dispatched
    <2>1. HeldNext(ran)
      BY <1>1, StoreActions, LedgerActions, QuietActions DEF Proceed
    <2> QED BY <1>1, <2>1, ProceedWorld DEF worldVars
  <1>2. ASSUME NEW p \in Procs, Invoke(p) \/ Crash(p)
        PROVE  HeldNext(ran) /\ UNCHANGED dispatched
    BY <1>2, InvokeDispatch, InvokeElsewhere DEF worldVars
  <1>3. CASE UNCHANGED vars
    BY <1>3 DEF Held, HeldNext, vars
  <1> QED BY <1>1, <1>2, <1>3, DispatchAction DEF Next

\* DispatchInv says this of the attempts that were dispatched at all.
Ran == {a \in Attempts : dispatched[a] > 0}

LEMMA DispatchInvIsHeld ==
  ASSUME TypeInv
  PROVE  DispatchInv <=> Held(Ran)
  BY OwnerAttempt
     DEF DispatchInv, Held, Sound, RowInv, StoreInv, LocalInv, Present, Ran, TypeInv, TypeOK

\* The same in the next state.
LEMMA DispatchInvIsHeldNext ==
  ASSUME TypeInv', NEW ran, ran = Ran', HeldNext(ran)
  PROVE  DispatchInv'
  <1>1. \A p \in Procs : call'[p].pc \in OwnerLabels => call'[p].att \in Attempts
    BY LedgerAssumption DEF TypeInv, CallShape, Shape, OwnerLabels, RequestLabels
  <1> QED BY <1>1
          DEF DispatchInv, HeldNext, Sound, RowInv, StoreInv, LocalInv, Present, Ran, TypeInv, TypeOK

\* The inductive step, and what it means for dispatches.
LEMMA DispatchNext ==
  ASSUME OneExecutor, TypeInv, DispatchInv, [Next]_vars
  PROVE  /\ DispatchInv'
         /\ \/ UNCHANGED dispatched
            \/ \E a \in Attempts : /\ dispatched[a] = 0 /\ dispatched' = [dispatched EXCEPT ![a] = 1]
                                   /\ pstate \notin NeverRan /\ UNCHANGED pstate
  <1>1. Held(Ran) /\ Ran \in SUBSET Attempts /\ TypeInv'
    BY DispatchInvIsHeld, TypeStep DEF Ran
  <1>2. CASE HeldNext(Ran) /\ UNCHANGED dispatched
    BY <1>1, <1>2, DispatchInvIsHeldNext DEF Ran
  <1>3. ASSUME NEW x \in Attempts \ Ran, HeldNext(Ran \cup {x}),
               dispatched' = [dispatched EXCEPT ![x] = @ + 1]
        PROVE  DispatchInv' /\ dispatched[x] = 0 /\ dispatched' = [dispatched EXCEPT ![x] = 1]
    <2>1. dispatched[x] = 0
      BY <1>3 DEF Ran, TypeInv, TypeOK
    <2>2. dispatched' = [dispatched EXCEPT ![x] = 1]
      BY <1>3, <2>1 DEF TypeInv, TypeOK
    <2>3. Ran \cup {x} = Ran'
      BY <1>3, <2>2 DEF Ran, TypeInv, TypeOK
    <2> QED BY <1>1, <1>3, <2>1, <2>2, <2>3, DispatchInvIsHeldNext
  <1> QED BY <1>1, <1>2, <1>3, SoundNext

\* Nothing is dispatched and no operation is in progress at first.
LEMMA DispatchInit == Init => DispatchInv /\ AtMostOnceDispatch
  BY RuntimeAssumption
     DEF Init, LedgerInit, DispatchInv, AtMostOnceDispatch, Idle, OwnerLabels, ExecuteLabels, NeverRan

\* The invariant that makes the next two theorems go through.
LEMMA DispatchInvariant ==
  ASSUME OneExecutor
  PROVE  Spec => [](TypeInv /\ DispatchInv /\ AtMostOnceDispatch)
  <1>1. Init => TypeInv /\ DispatchInv /\ AtMostOnceDispatch
    BY TypeInit, DispatchInit
  <1>2. TypeInv /\ DispatchInv /\ AtMostOnceDispatch /\ [Next]_vars
          => (TypeInv /\ DispatchInv /\ AtMostOnceDispatch)'
    <2> SUFFICES ASSUME TypeInv, DispatchInv, AtMostOnceDispatch, [Next]_vars
                 PROVE  (TypeInv /\ DispatchInv /\ AtMostOnceDispatch)'
      OBVIOUS
    <2>1. TypeInv' /\ DispatchInv'
      BY OneExecutor, TypeStep, DispatchNext
    <2>2. AtMostOnceDispatch'
      BY OneExecutor, DispatchNext DEF AtMostOnceDispatch, TypeInv, TypeOK
    <2> QED BY <2>1, <2>2
  <1> QED BY <1>1, <1>2, PTL DEF Spec

\* Rows and their owners are as DispatchInv says for any number of attempts,
\* stewards, probers and crashes, as long as one process executes: discard_started
\* never removes the row of an attempt that execute has dispatched.
THEOREM DispatchInvHolds ==
  ASSUME OneExecutor
  PROVE  Spec => []DispatchInv
  BY OneExecutor, DispatchInvariant, PTL

\* The executor is invoked at most once for an attempt (AtMostOnceDispatch),
\* for any number of attempts, stewards, replays and crashes, as long as one
\* process executes.
THEOREM AtMostOnceDispatchHolds ==
  ASSUME OneExecutor
  PROVE  Spec => []AtMostOnceDispatch
  BY OneExecutor, DispatchInvariant, PTL

\* With one executing process the runtime implements PathwayContract
\* (ImplementsContract): every step of a process, seen through the pathway's
\* state and the dispatch counts, is a move along the table, a first dispatch
\* of an attempt in a pathway that was admitted to RUNNING, or nothing.
THEOREM ImplementsContractHolds ==
  ASSUME OneExecutor
  PROVE  Spec => ImplementsContract
  <1>1. Init => Contract!ContractInit
    BY DEF Init, Contract!ContractInit
  <1>2. TypeInv /\ DispatchInv /\ [Next]_vars => [Contract!ContractNext]_(Contract!contractVars)
    <2> SUFFICES ASSUME TypeInv, DispatchInv, [Next]_vars
                 PROVE  [Contract!ContractNext]_(Contract!contractVars)
      OBVIOUS
    <2>1. CASE UNCHANGED dispatched
      <3>1. UNCHANGED pstate \/ pstate' \in ALLOWED_TRANSITIONS[pstate]
        BY ProceedStore, InvokeElsewhere DEF Next, storeVars, vars
      <3> QED BY <2>1, <3>1
              DEF Contract!ContractNext, Contract!Move, Contract!contractVars,
                  Contract!ALLOWED_TRANSITIONS, ALLOWED_TRANSITIONS, Contract!PathwayState, PathwayState
    <2>2. ASSUME NEW a \in Attempts, dispatched[a] = 0, dispatched' = [dispatched EXCEPT ![a] = 1],
                 pstate \notin NeverRan, UNCHANGED pstate
          PROVE  [Contract!ContractNext]_(Contract!contractVars)
      BY <2>2 DEF Contract!ContractNext, Contract!DispatchOnce, Contract!NotStarted, NeverRan
    <2> QED BY OneExecutor, <2>1, <2>2, DispatchNext
  <1> QED BY OneExecutor, <1>1, <1>2, DispatchInvariant, PTL
          DEF Spec, ImplementsContract, Contract!ContractSpec
-----------------------------------------------------------------------------
\* All operations are called from one process.
OneProcess == \A p, q \in Procs : p = q

\* Labels of execute from the binding check to the dispatch.
BoundLabels == {"begin", "replay", "reset", "rebegin", "admit", "start_read", "start_cas", "dispatch"}

\* An execute past its binding check that finds the pathway RUNNING runs for the
\* attempt it is bound to, and it dispatches only in a RUNNING pathway.
BoundInv ==
  \A p \in Procs :
    /\ call[p].pc \in BoundLabels /\ pstate = "running" => bound = call[p].att
    /\ call[p].pc = "dispatch" => pstate = "running"

\* What the one process continues with decides about BoundInv.
LEMMA BoundStep ==
  ASSUME OneProcess, TypeInv, NEW p \in Procs, NEW c, Become(p, c),
         c.pc \in BoundLabels /\ pstate' = "running" => bound' = c.att,
         c.pc = "dispatch" => pstate' = "running"
  PROVE  BoundInv'
  <1>1. \A q \in Procs : q = p /\ call'[q] = c
    BY DEF OneProcess, TypeInv, TypeOK, Become
  <1>2. BoundInv' = \A q \in Procs :
          /\ call'[q].pc \in BoundLabels /\ pstate' = "running" => bound' = call'[q].att
          /\ call'[q].pc = "dispatch" => pstate' = "running"
    BY DEF BoundInv
  <1> QED BY <1>1, <1>2

\* A process that is elsewhere keeps it.
LEMMA ElsewhereCall ==
  ASSUME OneProcess, TypeInv, NEW p \in Procs, NEW c, Become(p, c), c.pc \notin BoundLabels
  PROVE  BoundInv'
  BY BoundStep DEF BoundLabels

LEMMA Elsewhere ==
  ASSUME OneProcess, TypeInv, NEW p \in Procs,
         Return(p) \/ \E l \in Labels \ BoundLabels : Goto(p, l)
  PROVE  BoundInv'
  <1>1. CASE Return(p)
    <2>1. Idle.pc \notin BoundLabels BY DEF Idle, BoundLabels
    <2> QED BY <1>1, <2>1, ElsewhereCall DEF Return
  <1>2. ASSUME NEW l \in Labels \ BoundLabels, Goto(p, l) PROVE BoundInv'
    BY <1>2, GotoFields, ElsewhereCall DEF Goto
  <1> QED BY <1>1, <1>2

\* The steps of execute between the binding check and the dispatch.
LEMMA BoundExecute ==
  ASSUME OneProcess, TypeInv, BoundInv, NEW p \in Procs,
         \/ CheckBinding(p) \/ BeginAttempt(p) \/ ReplayUnresolved(p) \/ ResetStarted(p)
         \/ BeginAgain(p) \/ AdmitExecution(p) \/ StartRead(p) \/ StartCas(p)
  PROVE  BoundInv'
  <1> DEFINE k == call[p]
  <1>0. k \in CallType /\ Shape(k)
    BY DEF TypeInv, TypeOK, CallShape
  <1>1. ASSUME NEW l \in BoundLabels, Goto(p, l), UNCHANGED <<pstate, bound>>,
               pstate = "running" => bound = k.att, l = "dispatch" => pstate = "running"
        PROVE  BoundInv'
    <2>1. [k EXCEPT !.pc = l].pc = l /\ [k EXCEPT !.pc = l].att = k.att
      BY <1>0 DEF CallType
    <2> QED BY <1>1, <2>1, BoundStep DEF Goto
  <1>2. CASE CheckBinding(p)
    BY <1>1, <1>2, Elsewhere DEF CheckBinding, BoundLabels, storeVars
  <1>3. CASE BeginAttempt(p)
    <2>1. k.pc = "begin" /\ UNCHANGED <<pstate, bound>> /\ (pstate = "running" => bound = k.att)
      BY <1>3 DEF BeginAttempt, At, BoundInv, BoundLabels, storeVars
    <2>2. ASSUME NEW a \in Attempts, Replays(k.req, a), ledger[a].status # "started",
                 Become(p, WithResult(k, "finish_read", ledger[a].status, ledger[a].shape))
          PROVE  BoundInv'
      <3> DEFINE c == WithResult(k, "finish_read", ledger[a].status, ledger[a].shape)
      <3>1. c.pc \notin BoundLabels
        BY <1>0 DEF WithResult, CallType, BoundLabels
      <3> QED BY <2>2, <3>1, ElsewhereCall
    <2>3. CASE Goto(p, "admit") \/ Goto(p, "replay")
      BY <1>1, <2>1, <2>3 DEF BoundLabels
    <2>4. CASE Return(p)
      BY <2>4, Elsewhere
    <2> QED BY <1>3, <2>2, <2>3, <2>4 DEF BeginAttempt
  <1>4. CASE ReplayUnresolved(p)
    <2>1. CASE Goto(p, "reset")
      BY <1>1, <1>4, <2>1 DEF ReplayUnresolved, At, BoundInv, BoundLabels, storeVars
    <2>2. CASE Become(p, [k EXCEPT !.pc = "transition", !.goal = "write_status_unknown"])
      <3>1. [k EXCEPT !.pc = "transition", !.goal = "write_status_unknown"].pc \notin BoundLabels
        BY <1>0 DEF CallType, BoundLabels
      <3> QED BY <2>2, <3>1, ElsewhereCall
    <2> QED BY <1>4, <2>1, <2>2, Elsewhere DEF ReplayUnresolved
  <1>5. CASE ResetStarted(p)
    <2>1. (pstate = "running" => bound = k.att) /\ UNCHANGED <<pstate, bound>>
      BY <1>5 DEF ResetStarted, At, BoundInv, BoundLabels, storeVars
    <2> QED BY <1>1, <1>5, <2>1, Elsewhere DEF ResetStarted, BoundLabels
  <1>6. CASE BeginAgain(p)
    <2>1. (pstate = "running" => bound = k.att) /\ UNCHANGED <<pstate, bound>>
      BY <1>6 DEF BeginAgain, At, BoundInv, BoundLabels, storeVars
    <2> QED BY <1>1, <1>6, <2>1, Elsewhere DEF BeginAgain, BoundLabels
  <1>7. CASE AdmitExecution(p)
    <2>1. (pstate = "running" => bound = k.att) /\ UNCHANGED <<pstate, bound>>
      BY <1>7 DEF AdmitExecution, At, BoundInv, BoundLabels, storeVars
    <2>2. CASE pstate \in {"approved", "running"}
      BY <1>1, <1>7, <2>1, <2>2 DEF AdmitExecution, BoundLabels
    <2>3. CASE pstate \notin {"approved", "running"}
      BY <1>7, <2>3, Elsewhere DEF AdmitExecution, BoundLabels, Labels
    <2> QED BY <2>2, <2>3
  <1>8. CASE StartRead(p)
    <2>1. (pstate = "running" => bound = k.att) /\ UNCHANGED <<pstate, bound>>
      BY <1>8 DEF StartRead, At, BoundInv, BoundLabels, storeVars
    <2> DEFINE c == [k EXCEPT !.pc = "start_cas", !.snap = pstate]
    <2>2. c.pc = "start_cas" /\ c.att = k.att
      BY <1>0 DEF CallType
    <2> HIDE DEF c
    <2>3. CASE Become(p, c)
      BY <2>1, <2>2, <2>3, BoundStep
    <2>4. CASE Goto(p, "undo")
      BY <2>4, Elsewhere DEF BoundLabels, Labels
    <2> QED BY <1>8, <2>3, <2>4 DEF StartRead, c
  <1>9. CASE StartCas(p)
    <2>1. CASE transition_with_event(p, "running", k.att, repaired) /\ Goto(p, "dispatch")
      <3>1. [k EXCEPT !.pc = "dispatch"].att = k.att
        BY <1>0 DEF CallType
      <3>2. pstate' = "running" /\ bound' = k.att
        BY <2>1 DEF transition_with_event
      <3> QED BY <2>1, <3>1, <3>2, BoundStep DEF Goto
    <2>2. CASE Goto(p, "undo")
      BY <2>2, Elsewhere DEF BoundLabels, Labels
    <2> QED BY <1>9, <2>1, <2>2 DEF StartCas
  <1> QED BY <1>2, <1>3, <1>4, <1>5, <1>6, <1>7, <1>8, <1>9
\* The other steps of an operation lead elsewhere.
LEMMA BoundOthers ==
  ASSUME OneProcess, TypeInv, NEW p \in Procs,
         \/ TransitionRead(p) \/ TransitionCas(p)
         \/ UndoRead(p) \/ UndoDiscard(p) \/ Dispatch(p) \/ ExecutorReturns(p)
         \/ PersistResult(p) \/ MarkPersistenceUnknown(p) \/ FinishExecution(p)
         \/ ReconcileBegin(p) \/ ReconcileDiscard(p)
         \/ ObserveVerified(p) \/ ObserveUnresolved(p)
         \/ ReconcilePersist(p) \/ ReconcileRejected(p) \/ ReconcileFallback(p) \/ ReconcileFinish(p)
         \/ ProbeBegin(p) \/ ProbeObserve(p) \/ ProbePersist(p)
         \/ (\E actor \in Actors : RepairRead(p, actor)) \/ RepairCas(p)
         \/ ResumeNextIsNew(p) \/ ResumeMatchesRepair(p)
         \/ (\E actor \in Actors : ResumeRead(p, actor)) \/ ResumeCas(p)
         \/ Crash(p)
  PROVE  BoundInv'
  <1> DEFINE k == call[p]
             target(goal) == [k EXCEPT !.pc = "transition", !.goal = goal]
             cas(l) == [k EXCEPT !.pc = l, !.snap = pstate]
             casTo(goal) == [k EXCEPT !.pc = "cas", !.snap = pstate, !.goal = goal]
  <1>0. k \in CallType
    BY DEF TypeInv, TypeOK
  <1>1. /\ \A goal : target(goal).pc \notin BoundLabels
        /\ \A l \in Labels \ BoundLabels : cas(l).pc \notin BoundLabels
        /\ \A goal : casTo(goal).pc \notin BoundLabels
        /\ \A l \in Labels \ BoundLabels : \A result, shape : WithResult(k, l, result, shape).pc \notin BoundLabels
    BY <1>0 DEF CallType, BoundLabels, WithResult
  <1>2. {"cas", "undo_discard", "inflight", "persist", "finish_read", "fallback", "transition", "rec_discard",
         "rec_finish", "observe", "rec_persist", "rec_fallback", "probe_observe", "probe_persist",
         "repair_cas", "resume_match", "resume_read", "resume_cas"} \subseteq Labels \ BoundLabels
    BY DEF Labels, BoundLabels
  <1> HIDE DEF target, cas, casTo
  <1>3. CASE TransitionRead(p)
    BY <1>1, <1>2, <1>3, Elsewhere, ElsewhereCall DEF TransitionRead, cas
  <1>4. CASE TransitionCas(p) \/ UndoDiscard(p) \/ ReconcileDiscard(p) \/ ObserveUnresolved(p)
             \/ ReconcileFallback(p) \/ ProbePersist(p) \/ RepairCas(p) \/ ResumeCas(p) \/ Crash(p)
    BY <1>4, Elsewhere DEF TransitionCas, UndoDiscard, ReconcileDiscard, ObserveUnresolved,
         ReconcileFallback, ProbePersist, RepairCas, ResumeCas, Crash
  <1>5. CASE UndoRead(p) \/ Dispatch(p) \/ ReconcilePersist(p) \/ ReconcileRejected(p)
             \/ ResumeNextIsNew(p) \/ ResumeMatchesRepair(p)
    BY <1>2, <1>5, Elsewhere DEF UndoRead, Dispatch, ReconcilePersist, ReconcileRejected,
         ResumeNextIsNew, ResumeMatchesRepair
  <1>6. CASE ExecutorReturns(p) \/ ObserveVerified(p)
    BY <1>1, <1>2, <1>6, ElsewhereCall DEF ExecutorReturns, ObserveVerified
  <1>7. CASE PersistResult(p)
    BY <1>2, <1>7, Elsewhere DEF PersistResult
  <1>8. CASE MarkPersistenceUnknown(p)
    BY <1>1, <1>8, ElsewhereCall DEF MarkPersistenceUnknown, target
  <1>9. CASE FinishExecution(p)
    BY <1>1, <1>9, Elsewhere, ElsewhereCall DEF FinishExecution, target, casTo
  <1>10. CASE ReconcileBegin(p)
    BY <1>1, <1>2, <1>10, Elsewhere, ElsewhereCall DEF ReconcileBegin
  <1>11. CASE ReconcileFinish(p)
    BY <1>1, <1>11, Elsewhere, ElsewhereCall DEF ReconcileFinish, casTo
  <1>12. CASE ProbeBegin(p) \/ ProbeObserve(p)
    BY <1>1, <1>2, <1>12, Elsewhere, ElsewhereCall DEF ProbeBegin, ProbeObserve
  <1>13. ASSUME NEW actor \in Actors, RepairRead(p, actor) \/ ResumeRead(p, actor) PROVE BoundInv'
    BY <1>1, <1>2, <1>13, Elsewhere, ElsewhereCall DEF RepairRead, ResumeRead, cas
  <1> QED BY <1>3, <1>4, <1>5, <1>6, <1>7, <1>8, <1>9, <1>10, <1>11, <1>12, <1>13

\* An operation begins elsewhere, or finds the pathway not RUNNING.
LEMMA BoundInvoke ==
  ASSUME OneProcess, TypeInv, NEW p \in Procs, Invoke(p)
  PROVE  BoundInv'
  <1>1. ASSUME NEW r \in Requests, NEW actor \in Actors, Execute(p, r, actor) PROVE BoundInv'
    <2> DEFINE c == [Idle EXCEPT !.pc = IF pstate = "running" THEN "binding" ELSE "begin",
                                 !.req = r, !.att = r.attempt]
    <2>1. c.pc = (IF pstate = "running" THEN "binding" ELSE "begin")
      BY DEF Idle
    <2> HIDE DEF c
    <2>2. Become(p, c) /\ UNCHANGED pstate
      BY <1>1 DEF Execute, Enter, storeVars, c
    <2> QED BY <2>1, <2>2, BoundStep DEF BoundLabels
  <1>2. ASSUME NEW c, Enter(p, c), c.pc \notin BoundLabels PROVE BoundInv'
    BY <1>2, ElsewhereCall DEF Enter
  <1>3. ASSUME NEW r \in Requests, NEW actor \in Actors, Reconcile(p, r, actor) PROVE BoundInv'
    BY <1>2, <1>3 DEF Reconcile, Idle, BoundLabels
  <1>4. ASSUME NEW t \in ManualTargets, NEW actor \in Actors, transition(p, t, actor) PROVE BoundInv'
    BY <1>2, <1>4 DEF transition, Idle, BoundLabels
  <1>5. ASSUME NEW prior \in Attempts, NEW next \in Attempts, CompleteRepair(p, next) \/ Resume(p, prior, next)
        PROVE  BoundInv'
    BY <1>2, <1>5 DEF CompleteRepair, Resume, Idle, BoundLabels
  <1>6. ASSUME NEW r \in Requests, Probe(p, r) PROVE BoundInv'
    BY <1>2, <1>6 DEF Probe, Idle, BoundLabels
  <1>7. ASSUME NEW actor \in Actors, AbortWithResiduals(p, actor) PROVE BoundInv'
    BY <1>2, <1>7 DEF AbortWithResiduals, Idle, BoundLabels
  <1> QED BY <1>1, <1>3, <1>4, <1>5, <1>6, <1>7 DEF Invoke

\* BoundInv is inductive for one process.
LEMMA BoundInvariant ==
  ASSUME OneProcess
  PROVE  Spec => []BoundInv
  <1>1. Init => BoundInv
    BY DEF Init, BoundInv, Idle, BoundLabels
  <1>2. TypeInv /\ BoundInv /\ [Next]_vars => BoundInv'
    <2> SUFFICES ASSUME TypeInv, BoundInv, [Next]_vars PROVE BoundInv' OBVIOUS
    <2>1. CASE UNCHANGED vars
      BY <2>1 DEF vars, BoundInv
    <2>2. ASSUME NEW p \in Procs, Proceed(p) \/ Invoke(p) \/ Crash(p) PROVE BoundInv'
      BY OneProcess, <2>2, BoundExecute, BoundOthers, BoundInvoke DEF Proceed
    <2> QED BY <2>1, <2>2 DEF Next
  <1> QED BY <1>1, <1>2, TypeInvariant, PTL DEF Spec

\* With one process, the executor is invoked for the attempt the RUNNING pathway is
\* bound to and for no other (DispatchIsBound): the check of execute, made before
\* the attempt's row is inserted, is still true when it dispatches.
THEOREM DispatchIsBoundHolds ==
  ASSUME OneProcess
  PROVE  Spec => DispatchIsBound
  <1>1. TypeInv /\ BoundInv /\ [Next]_vars =>
          [\A a \in Attempts : dispatched'[a] # dispatched[a] => pstate = "running" /\ bound = a]_vars
    <2> SUFFICES ASSUME TypeInv, BoundInv, [Next]_vars, NEW a \in Attempts,
                        dispatched'[a] # dispatched[a]
                 PROVE  pstate = "running" /\ bound = a
      OBVIOUS
    <2>1. PICK p \in Procs : Dispatch(p)
      BY ProceedWorld, InvokeElsewhere DEF Next, vars, worldVars, Crash
    <2>2. a = call[p].att
      BY <2>1 DEF Dispatch, TypeInv, TypeOK
    <2> QED BY <2>1, <2>2 DEF Dispatch, At, BoundInv, BoundLabels
  <1> QED BY OneProcess, <1>1, BoundInvariant, TypeInvariant, PTL DEF Spec, DispatchIsBound
-----------------------------------------------------------------------------
\* What the store and the ledger say is true of the effects: a failed attempt had
\* none, nor did a repaired one, and a pathway that runs after a repair runs another.
StoreTrue(l, ap, s, b, r) ==
  /\ \A a \in Attempts : l[a].status = "failed" => a \notin ap
  /\ r # None => r \notin ap /\ l[r].status \in Results
  /\ s = "running" /\ r # None => b # r

\* What a process remembers is true too.
Remembers(c, l, ap, s, r) ==
  /\ c.pc \in OwnerLabels => l[c.att].status = "started"
  /\ c.pc \in {"persist", "rec_persist", "probe_persist"} /\ c.res = "failed" => c.att \notin ap
  /\ c.pc \in {"repair_read", "repair_cas"} => c.att \notin ap /\ l[c.att].status \in Results
  /\ c.pc \in {"resume_next", "resume_match", "resume_read", "resume_cas"} => c.prior # c.att
  /\ c.pc \in {"resume_read", "resume_cas"} => r = c.prior
  /\ c.pc \in {"start_read", "start_cas"} => s = "approved"

\* The labels Remembers is about.
MemoryLabels ==
  OwnerLabels \cup {"persist", "rec_persist", "probe_persist", "repair_read", "repair_cas",
                    "resume_next", "resume_match", "resume_read", "resume_cas"}

RepairInv ==
  /\ StoreTrue(ledger, applied, pstate, bound, repaired)
  /\ \A p \in Procs : Remembers(call[p], ledger, applied, pstate, repaired)

\* What the one process continues with decides about what is remembered.
LEMMA RepairStep ==
  ASSUME OneProcess, TypeInv, NEW p \in Procs, NEW c, Become(p, c),
         Remembers(c, ledger', applied', pstate', repaired'),
         StoreTrue(ledger', applied', pstate', bound', repaired')
  PROVE  RepairInv'
  <1>1. \A q \in Procs : call'[q] = c
    BY DEF OneProcess, TypeInv, TypeOK, Become
  <1>2. RepairInv' = (/\ StoreTrue(ledger', applied', pstate', bound', repaired')
                      /\ \A q \in Procs : Remembers(call'[q], ledger', applied', pstate', repaired'))
    BY DEF RepairInv, StoreTrue, Remembers
  <1> QED BY <1>1, <1>2

\* At the other labels there is nothing to remember.
LEMMA NothingToRemember ==
  ASSUME NEW c, c.pc \notin MemoryLabels
  PROVE  \A l, ap, s, r : Remembers(c, l, ap, s, r)
  BY DEF Remembers, MemoryLabels, OwnerLabels

LEMMA IdleRemembers == \A l, ap, s, r : Remembers(Idle, l, ap, s, r)
  <1>1. Idle.pc \notin MemoryLabels
    BY DEF Idle, MemoryLabels, OwnerLabels
  <1> QED BY <1>1, NothingToRemember

\* A step that writes to no database and has no effect.
LEMMA RepairCall ==
  ASSUME OneProcess, TypeInv, RepairInv, NEW p \in Procs, NEW c, Become(p, c),
         Remembers(c, ledger, applied, pstate, repaired),
         UNCHANGED <<storeVars, ledger, applied>>
  PROVE  RepairInv'
  BY RepairStep DEF RepairInv, storeVars

\* A transaction on the ledger that persists no untrue failure.
LEMMA RepairLedger ==
  ASSUME OneProcess, TypeInv, RepairInv, LedgerKept, NEW p \in Procs, NEW c, Become(p, c),
         UNCHANGED <<storeVars, applied>>,
         Remembers(c, ledger', applied, pstate, repaired),
         \A a \in Attempts : ledger'[a].status = "failed" => a \notin applied
  PROVE  RepairInv'
  <1>1. repaired # None => ledger'[repaired].status \in Results
    BY DEF RepairInv, StoreTrue, LedgerKept, TypeInv, TypeOK
  <1>2. StoreTrue(ledger', applied', pstate', bound', repaired')
    BY <1>1 DEF RepairInv, StoreTrue, storeVars
  <1>3. Remembers(c, ledger', applied', pstate', repaired')
    BY DEF storeVars
  <1> QED BY <1>2, <1>3, RepairStep

\* begin inserts a started row.
LEMMA RepairInsert ==
  ASSUME OneProcess, TypeInv, RepairInv, NEW p \in Procs, call[p].pc \in RequestLabels,
         begin_insert(call[p].req), UNCHANGED <<storeVars, applied>>,
         Return(p) \/ Goto(p, "admit") \/ Goto(p, "rec_discard")
  PROVE  RepairInv'
  <1> DEFINE k == call[p]
             new == [key |-> k.req.key, print |-> k.req.print, status |-> "started", shape |-> "plain"]
  <1>1. k \in CallType /\ k.req \in Requests /\ k.att = k.req.attempt /\ k.att \in Attempts
    BY LedgerAssumption DEF TypeInv, TypeOK, CallShape, Shape
  <1>2. ledger' = [ledger EXCEPT ![k.att] = new] /\ new.status = "started"
    BY <1>1 DEF begin_insert
  <1> HIDE DEF new
  <1>3. ledger'[k.att].status = "started" /\ \A a \in Attempts \ {k.att} : ledger'[a] = ledger[a]
    BY <1>1, <1>2 DEF TypeInv, TypeOK, LedgerTypeOK
  <1>4. \A a \in Attempts : ledger'[a].status = "failed" => a \notin applied
    BY <1>3 DEF RepairInv, StoreTrue
  <1>5. LedgerKept
    BY <1>1, InsertKept
  <1>6. ASSUME NEW l \in {"admit", "rec_discard"}, Goto(p, l) PROVE RepairInv'
    <2> DEFINE c == [k EXCEPT !.pc = l]
    <2>1. c.pc = l /\ c.att = k.att
      BY <1>1 DEF CallType
    <2> HIDE DEF c
    <2>2. Remembers(c, ledger', applied, pstate, repaired)
      BY <1>3, <2>1 DEF Remembers
    <2>3. Become(p, c)
      BY <1>6 DEF Goto, c
    <2> QED BY <1>4, <1>5, <2>2, <2>3, RepairLedger
  <1>7. CASE Return(p)
    BY <1>4, <1>5, <1>7, IdleRemembers, RepairLedger DEF Return
  <1> QED BY <1>6, <1>7

\* finish persists a result that is true.
LEMMA RepairFinish ==
  ASSUME OneProcess, TypeInv, RepairInv, NEW p \in Procs, NEW c, Become(p, c), c.pc \notin MemoryLabels,
         NEW a \in Attempts, NEW result \in Results, NEW shape \in Shapes, finish(a, result, shape),
         result = "failed" => a \notin applied, UNCHANGED <<storeVars, applied>>
  PROVE  RepairInv'
  <1>1. LedgerKept
    BY FinishKept
  <1>2. \A x \in Attempts \ {a} : ledger'[x] = ledger[x]
    BY DEF finish, TypeInv, TypeOK, LedgerTypeOK
  <1>3. ledger'[a].status = result
    <2>1. ledger[a] \in Rows
      BY DEF finish, Present, TypeInv, TypeOK, LedgerTypeOK
    <2> QED BY <2>1 DEF finish, TypeInv, TypeOK, LedgerTypeOK, Rows
  <1>4. \A x \in Attempts : ledger'[x].status = "failed" => x \notin applied
    BY <1>2, <1>3 DEF RepairInv, StoreTrue
  <1> QED BY <1>1, <1>4, NothingToRemember, RepairLedger

\* discard_started deletes a row, which is then no failure.
LEMMA RepairDiscard ==
  ASSUME OneProcess, TypeInv, RepairInv, NEW p \in Procs, NEW c, Become(p, c), c.pc \notin MemoryLabels,
         NEW a \in Attempts, discard_started(a), UNCHANGED <<storeVars, applied>>
  PROVE  RepairInv'
  <1>1. LedgerKept
    BY DiscardKept
  <1>2. NoRow.status # "failed"
    BY RuntimeAssumption DEF NoRow, Results
  <1>3. \A x \in Attempts : ledger'[x] = ledger[x] \/ ledger'[x] = NoRow
    BY DEF discard_started, TypeInv, TypeOK, LedgerTypeOK
  <1>4. \A x \in Attempts : ledger'[x].status = "failed" => x \notin applied
    BY <1>2, <1>3 DEF RepairInv, StoreTrue
  <1> QED BY <1>1, <1>4, NothingToRemember, RepairLedger
\* The transactions on the ledger.
LEMMA RepairLedgerActions ==
  ASSUME OneProcess, TypeInv, RepairInv, NEW p \in Procs,
         \/ BeginAttempt(p) \/ BeginAgain(p) \/ ReconcileBegin(p)
         \/ ResetStarted(p) \/ UndoDiscard(p) \/ ReconcileDiscard(p)
         \/ PersistResult(p) \/ ReconcilePersist(p) \/ MarkPersistenceUnknown(p) \/ ReconcileFallback(p)
         \/ ProbeBegin(p) \/ ProbePersist(p)
  PROVE  RepairInv'
  <1> DEFINE k == call[p]
             goto(l) == [k EXCEPT !.pc = l]
  <1>0. k \in CallType /\ Shape(k) /\ Remembers(k, ledger, applied, pstate, repaired)
    BY DEF TypeInv, TypeOK, CallShape, RepairInv
  <1>1. /\ k.pc \in RequestLabels => k.att \in Attempts
        /\ k.pc \in ResultLabels => k.res \in Results /\ k.shape \in Shapes
        /\ "unknown" \in Results /\ "unknown" # "failed" /\ "plain" \in Shapes
    BY <1>0, LedgerAssumption DEF Shape, Results, Shapes
  <1>2. /\ Idle.pc \notin MemoryLabels
        /\ \A l \in Labels \ MemoryLabels : goto(l).pc \notin MemoryLabels
        /\ [k EXCEPT !.pc = "transition", !.goal = "write_status_unknown"].pc \notin MemoryLabels
        /\ \A l \in Labels \ MemoryLabels : \A result, shape : WithResult(k, l, result, shape).pc \notin MemoryLabels
    BY <1>0 DEF CallType, MemoryLabels, OwnerLabels, WithResult, Idle
  <1>3. {"replay", "rebegin", "finish_read", "fallback", "observe", "rec_finish", "rec_fallback",
         "probe_observe", "transition"} \subseteq Labels \ MemoryLabels
    BY DEF Labels, MemoryLabels, OwnerLabels
  <1> HIDE DEF goto
  <1>4. ASSUME NEW c, Become(p, c), c.pc \notin MemoryLabels, UNCHANGED <<storeVars, ledger, applied>>
        PROVE  RepairInv'
    BY <1>4, NothingToRemember, RepairCall
  <1>5. CASE BeginAttempt(p) \/ BeginAgain(p) \/ ReconcileBegin(p) \/ ProbeBegin(p)
    <2>1. k.pc \in RequestLabels /\ UNCHANGED <<storeVars, applied>>
      BY <1>5 DEF BeginAttempt, BeginAgain, ReconcileBegin, ProbeBegin, At, RequestLabels, worldVars
    <2>2. CASE begin_insert(k.req) /\ (Return(p) \/ Goto(p, "admit") \/ Goto(p, "rec_discard"))
      BY <2>1, <2>2, RepairInsert
    <2>3. CASE UNCHANGED ledger /\ \E c : Become(p, c) /\ c.pc \notin MemoryLabels
      BY <1>4, <2>1, <2>3
    <2>4. CASE BeginAttempt(p)
      BY <1>2, <1>3, <2>2, <2>3, <2>4 DEF BeginAttempt, Goto, Return, goto
    <2>5. CASE BeginAgain(p)
      BY <1>2, <2>2, <2>3, <2>5 DEF BeginAgain, Return
    <2>6. CASE ReconcileBegin(p)
      BY <1>2, <1>3, <2>2, <2>3, <2>6 DEF ReconcileBegin, Goto, Return, goto
    <2>7. CASE ProbeBegin(p)
      BY <1>2, <1>3, <2>2, <2>3, <2>7 DEF ProbeBegin, Goto, Return, goto
    <2> QED BY <1>5, <2>4, <2>5, <2>6, <2>7
  <1>6. CASE ResetStarted(p) \/ UndoDiscard(p) \/ ReconcileDiscard(p)
    <2>1. k.att \in Attempts /\ discard_started(k.att) /\ UNCHANGED <<storeVars, applied>>
      BY <1>1, <1>6 DEF ResetStarted, UndoDiscard, ReconcileDiscard, At, RequestLabels, worldVars
    <2>2. Return(p) \/ Goto(p, "rebegin")
      BY <1>6 DEF ResetStarted, UndoDiscard, ReconcileDiscard
    <2> QED BY <1>2, <1>3, <2>1, <2>2, RepairDiscard DEF Goto, Return, goto
  <1>7. CASE PersistResult(p) \/ ReconcilePersist(p) \/ ProbePersist(p)
    <2>1. /\ k.att \in Attempts /\ k.res \in Results /\ k.shape \in Shapes
          /\ k.pc \in {"persist", "rec_persist", "probe_persist"} /\ UNCHANGED <<storeVars, applied>>
      BY <1>1, <1>7 DEF PersistResult, ReconcilePersist, ProbePersist, At, RequestLabels, ResultLabels, worldVars
    <2>2. k.res = "failed" => k.att \notin applied
      BY <1>0, <2>1 DEF Remembers
    <2>3. /\ finish(k.att, k.res, k.shape) \/ UNCHANGED ledger
          /\ Return(p) \/ Goto(p, "finish_read") \/ Goto(p, "rec_finish") \/ Goto(p, "fallback")
      BY <1>7 DEF PersistResult, ReconcilePersist, ProbePersist
    <2>4. PICK c : Become(p, c) /\ c.pc \notin MemoryLabels
      BY <1>2, <1>3, <2>3 DEF Goto, Return, goto
    <2> QED BY <1>4, <2>1, <2>2, <2>3, <2>4, RepairFinish
  <1>8. CASE MarkPersistenceUnknown(p) \/ ReconcileFallback(p)
    <2>1. k.att \in Attempts /\ UNCHANGED <<storeVars, applied>>
      BY <1>1, <1>8 DEF MarkPersistenceUnknown, ReconcileFallback, At, RequestLabels, worldVars
    <2>2. finish(k.att, "unknown", "plain") \/ UNCHANGED ledger
      BY <1>8 DEF MarkPersistenceUnknown, ReconcileFallback, mark_result_persistence_unknown
    <2>3. PICK c : Become(p, c) /\ c.pc \notin MemoryLabels
      BY <1>2, <1>8 DEF MarkPersistenceUnknown, ReconcileFallback, Return
    <2> QED BY <1>1, <1>4, <2>1, <2>2, <2>3, RepairFinish
  <1> QED BY <1>5, <1>6, <1>7, <1>8

\* The compare-and-sets on the pathway store.
LEMMA RepairStoreActions ==
  ASSUME OneProcess, TypeInv, DispatchInv, RepairInv, NEW p \in Procs,
         TransitionCas(p) \/ StartCas(p) \/ RepairCas(p) \/ ResumeCas(p)
  PROVE  RepairInv'
  <1> DEFINE k == call[p]
  <1>0. /\ k \in CallType /\ Shape(k) /\ Remembers(k, ledger, applied, pstate, repaired)
        /\ StoreTrue(ledger, applied, pstate, bound, repaired)
        /\ UNCHANGED <<ledger, applied>>
    BY DEF TypeInv, TypeOK, CallShape, RepairInv, TransitionCas, StartCas, RepairCas, ResumeCas, worldVars
  <1>1. ASSUME UNCHANGED storeVars, Return(p) PROVE RepairInv'
    BY <1>0, <1>1, IdleRemembers, RepairCall DEF Return
  <1>2. ASSUME Return(p), StoreTrue(ledger, applied, pstate', bound', repaired') PROVE RepairInv'
    BY <1>0, <1>2, IdleRemembers, RepairStep DEF Return
  <1>3. CASE TransitionCas(p)
    <2>1. CASE transition_with_event(p, k.goal, bound, repaired)
      <3>1. k.goal # "running"
        BY <1>3 DEF DispatchInv, TransitionCas, At
      <3>2. StoreTrue(ledger, applied, pstate', bound', repaired')
        BY <1>0, <2>1, <3>1 DEF StoreTrue, transition_with_event
      <3> QED BY <1>2, <1>3, <3>2 DEF TransitionCas
    <2> QED BY <1>1, <1>3, <2>1 DEF TransitionCas, ConcurrentChange
  <1>4. CASE StartCas(p)
    <2>1. k.pc = "start_cas" /\ pstate = "approved" /\ ledger[k.att].status = "started"
      BY <1>0, <1>4 DEF StartCas, At, Remembers, OwnerLabels
    <2>2. bound = None /\ repaired = None
      BY <2>1 DEF DispatchInv, NeverRan
    <2>3. \A l \in {"dispatch", "undo"} : [k EXCEPT !.pc = l].pc = l /\ [k EXCEPT !.pc = l].att = k.att
      BY <1>0 DEF CallType
    <2>4. CASE transition_with_event(p, "running", k.att, repaired) /\ Goto(p, "dispatch")
      <3> DEFINE c == [k EXCEPT !.pc = "dispatch"]
      <3>1. c.pc = "dispatch" /\ c.att = k.att
        BY <2>3
      <3> HIDE DEF c
      <3>2. Remembers(c, ledger', applied', pstate', repaired')
        BY <1>0, <2>1, <3>1 DEF Remembers
      <3>3. StoreTrue(ledger', applied', pstate', bound', repaired')
        BY <1>0, <2>2, <2>4 DEF StoreTrue, transition_with_event
      <3>4. Become(p, c)
        BY <2>4 DEF Goto, c
      <3> QED BY <3>2, <3>3, <3>4, RepairStep
    <2>5. CASE ConcurrentChange(p) /\ Goto(p, "undo")
      <3> DEFINE c == [k EXCEPT !.pc = "undo"]
      <3>1. c.pc = "undo" /\ c.att = k.att
        BY <2>3
      <3> HIDE DEF c
      <3>2. Remembers(c, ledger', applied', pstate', repaired')
        BY <1>0, <2>1, <3>1 DEF Remembers
      <3>3. StoreTrue(ledger', applied', pstate', bound', repaired')
        BY <1>0, <2>5 DEF ConcurrentChange, storeVars
      <3>4. Become(p, c)
        BY <2>5 DEF Goto, c
      <3> QED BY <3>2, <3>3, <3>4, RepairStep
    <2> QED BY <1>4, <2>4, <2>5 DEF StartCas
  <1>5. CASE RepairCas(p)
    <2>1. k.att \notin applied /\ ledger[k.att].status \in Results
      BY <1>0, <1>5 DEF RepairCas, At, Remembers
    <2>2. CASE transition_with_event(p, "ready_to_resume", bound, k.att)
      <3>1. StoreTrue(ledger, applied, pstate', bound', repaired')
        BY <1>0, <2>1, <2>2 DEF StoreTrue, transition_with_event
      <3> QED BY <1>2, <1>5, <3>1 DEF RepairCas
    <2> QED BY <1>1, <1>5, <2>2 DEF RepairCas, ConcurrentChange
  <1>6. CASE ResumeCas(p)
    <2>1. repaired = k.prior /\ k.prior # k.att
      BY <1>0, <1>6 DEF ResumeCas, At, Remembers
    <2>2. CASE transition_with_event(p, "running", k.att, repaired)
      <3>1. StoreTrue(ledger, applied, pstate', bound', repaired')
        BY <1>0, <2>1, <2>2 DEF StoreTrue, transition_with_event
      <3> QED BY <1>2, <1>6, <3>1 DEF ResumeCas
    <2> QED BY <1>1, <1>6, <2>2 DEF ResumeCas, ConcurrentChange
  <1> QED BY <1>3, <1>4, <1>5, <1>6

\* The executor is invoked for a started row, so what failed stays without effect.
LEMMA RepairDispatch ==
  ASSUME OneProcess, TypeInv, RepairInv, NEW p \in Procs, Dispatch(p)
  PROVE  RepairInv'
  <1> DEFINE k == call[p]
             c == [k EXCEPT !.pc = "inflight"]
  <1>0. /\ k \in CallType /\ k.pc = "dispatch" /\ UNCHANGED <<storeVars, ledger>>
        /\ Remembers(k, ledger, applied, pstate, repaired)
        /\ StoreTrue(ledger, applied, pstate, bound, repaired)
        /\ applied' \in {applied, applied \cup {k.att}}
    BY DEF TypeInv, TypeOK, RepairInv, Dispatch, At
  <1>1. ledger[k.att].status = "started"
    BY <1>0 DEF Remembers, OwnerLabels
  <1>2. StoreTrue(ledger', applied', pstate', bound', repaired')
    BY <1>0, <1>1 DEF StoreTrue, storeVars, Results
  <1>3. c.pc \notin MemoryLabels
    BY <1>0 DEF CallType, MemoryLabels, OwnerLabels
  <1>4. Become(p, c)
    BY DEF Dispatch, Goto
  <1> HIDE DEF c
  <1> QED BY <1>2, <1>3, <1>4, NothingToRemember, RepairStep
\* The steps that write to no database.
LEMMA RepairReading ==
  ASSUME OneProcess, TypeInv, RepairInv, NEW p \in Procs,
         \/ TransitionRead(p) \/ CheckBinding(p) \/ ReplayUnresolved(p) \/ AdmitExecution(p)
         \/ StartRead(p) \/ UndoRead(p) \/ ExecutorReturns(p) \/ FinishExecution(p)
         \/ ObserveVerified(p) \/ ObserveUnresolved(p) \/ ReconcileRejected(p) \/ ReconcileFinish(p)
         \/ ProbeObserve(p)
         \/ (\E actor \in Actors : RepairRead(p, actor) \/ ResumeRead(p, actor))
         \/ ResumeNextIsNew(p) \/ ResumeMatchesRepair(p) \/ Crash(p)
  PROVE  RepairInv'
  <1> DEFINE k == call[p]
             goto(l) == [k EXCEPT !.pc = l]
             target(goal) == [k EXCEPT !.pc = "transition", !.goal = goal]
             cas(l) == [k EXCEPT !.pc = l, !.snap = pstate]
             casTo(goal) == [k EXCEPT !.pc = "cas", !.snap = pstate, !.goal = goal]
  <1>0. /\ k \in CallType /\ Shape(k) /\ Remembers(k, ledger, applied, pstate, repaired)
        /\ UNCHANGED <<storeVars, ledger, applied>>
    BY DEF TypeInv, TypeOK, CallShape, RepairInv, TransitionRead, CheckBinding, ReplayUnresolved,
       AdmitExecution, StartRead, UndoRead, ExecutorReturns, FinishExecution, ObserveVerified,
       ObserveUnresolved, ReconcileRejected, ReconcileFinish, ProbeObserve, RepairRead, ResumeRead,
       ResumeNextIsNew, ResumeMatchesRepair, Crash, worldVars
  <1>1. ASSUME NEW c, Become(p, c), Remembers(c, ledger, applied, pstate, repaired) PROVE RepairInv'
    BY <1>0, <1>1, RepairCall
  <1>2. ASSUME NEW c, Become(p, c), c.pc \notin MemoryLabels PROVE RepairInv'
    BY <1>1, <1>2, NothingToRemember
  <1>3. CASE Return(p)
    BY <1>1, <1>3, IdleRemembers DEF Return
  <1>4. /\ \A l : goto(l).pc = l /\ goto(l).att = k.att /\ goto(l).prior = k.prior
        /\ \A l : cas(l).pc = l /\ cas(l).att = k.att /\ cas(l).prior = k.prior
        /\ \A goal : target(goal).pc \notin MemoryLabels /\ casTo(goal).pc \notin MemoryLabels
        /\ \A l, result, shape :
             LET c == WithResult(k, l, result, shape)
             IN  c.pc = l /\ c.att = k.att /\ c.res = result
    BY <1>0 DEF CallType, WithResult, MemoryLabels, OwnerLabels
  <1> HIDE DEF goto, cas, target, casTo
  <1>e. /\ goto("begin").pc \notin MemoryLabels /\ goto("reset").pc \notin MemoryLabels
        /\ goto("rec_fallback").pc \notin MemoryLabels /\ cas("cas").pc \notin MemoryLabels
    BY <1>4 DEF MemoryLabels, OwnerLabels
  <1>5. CASE TransitionRead(p)
    <2>1. Return(p) \/ Become(p, cas("cas"))
      BY <1>5 DEF TransitionRead, cas
    <2> QED BY <1>2, <1>3, <1>e, <2>1
  <1>6. CASE CheckBinding(p)
    <2>1. Return(p) \/ Become(p, goto("begin"))
      BY <1>6 DEF CheckBinding, Goto, goto
    <2> QED BY <1>2, <1>3, <1>e, <2>1
  <1>7. CASE ReplayUnresolved(p)
    <2>1. Return(p) \/ Become(p, goto("reset")) \/ Become(p, target("write_status_unknown"))
      BY <1>7 DEF ReplayUnresolved, Goto, goto, target
    <2> QED BY <1>2, <1>3, <1>4, <1>e, <2>1
  <1>8. CASE AdmitExecution(p) \/ UndoRead(p)
    <2>1. k.pc \in {"admit", "undo"} /\ ledger[k.att].status = "started"
      BY <1>0, <1>8 DEF AdmitExecution, UndoRead, At, Remembers, OwnerLabels
    <2>2. ASSUME NEW l \in {"start_read", "dispatch", "undo", "undo_discard"},
                 Goto(p, l), l = "start_read" => pstate = "approved"
          PROVE  RepairInv'
      <3>1. goto(l).pc = l /\ goto(l).att = k.att
        BY <1>4
      <3>2. Remembers(goto(l), ledger, applied, pstate, repaired)
        BY <2>1, <2>2, <3>1 DEF Remembers
      <3> QED BY <1>1, <2>2, <3>2 DEF Goto, goto
    <2> QED BY <1>3, <1>8, <2>2 DEF AdmitExecution, UndoRead
  <1>9. CASE StartRead(p)
    <2>1. ledger[k.att].status = "started" /\ pstate = "approved"
      BY <1>0, <1>9 DEF StartRead, At, Remembers, OwnerLabels
    <2>2. Remembers(cas("start_cas"), ledger, applied, pstate, repaired)
      BY <1>4, <2>1 DEF Remembers
    <2>3. Remembers(goto("undo"), ledger, applied, pstate, repaired)
      BY <1>4, <2>1 DEF Remembers
    <2> QED BY <1>1, <1>9, <2>2, <2>3 DEF StartRead, Goto, goto, cas
  <1>10. CASE ExecutorReturns(p)
    <2>1. PICK result \in Outcomes, shape \in Evidence :
            Truthful(k.att, result) /\ Become(p, WithResult(k, "persist", result, shape))
      BY <1>10 DEF ExecutorReturns
    <2> DEFINE c == WithResult(k, "persist", result, shape)
    <2>2. c.pc = "persist" /\ c.att = k.att /\ c.res = result
      BY <1>4
    <2> HIDE DEF c
    <2>3. Remembers(c, ledger, applied, pstate, repaired)
      BY <2>1, <2>2 DEF Remembers, Truthful, OwnerLabels
    <2> QED BY <1>1, <2>1, <2>3 DEF c
  <1>11. CASE FinishExecution(p)
    BY <1>2, <1>3, <1>4, <1>11 DEF FinishExecution, target, casTo
  <1>12. CASE ObserveVerified(p) \/ ProbeObserve(p)
    <2>1. ASSUME NEW l \in {"rec_persist", "probe_persist"}, NEW result \in {Observed(k.att), "unknown"},
                 NEW shape \in Evidence, Become(p, WithResult(k, l, result, shape))
          PROVE  RepairInv'
      <3> DEFINE c == WithResult(k, l, result, shape)
      <3>1. c.pc = l /\ c.att = k.att /\ c.res = result
        BY <1>4
      <3> HIDE DEF c
      <3>2. Remembers(c, ledger, applied, pstate, repaired)
        BY <2>1, <3>1 DEF Remembers, Observed, OwnerLabels
      <3> QED BY <1>1, <2>1, <3>2 DEF c
    <2> QED BY <1>3, <1>12, <2>1 DEF ObserveVerified, ProbeObserve
  <1>13. CASE ObserveUnresolved(p) \/ Crash(p)
    BY <1>3, <1>13 DEF ObserveUnresolved, Crash
  <1>14. CASE ReconcileRejected(p)
    <2>1. Return(p) \/ Become(p, goto("rec_fallback"))
      BY <1>14 DEF ReconcileRejected, Goto, goto
    <2> QED BY <1>2, <1>3, <1>e, <2>1
  <1>15. CASE ReconcileFinish(p)
    BY <1>2, <1>3, <1>4, <1>15 DEF ReconcileFinish, casTo
  <1>16. ASSUME NEW actor \in Actors, RepairRead(p, actor) PROVE RepairInv'
    <2>1. k.att \notin applied /\ ledger[k.att].status \in Results
      BY <1>0, <1>16 DEF RepairRead, At, Remembers
    <2>2. Remembers(cas("repair_cas"), ledger, applied, pstate, repaired)
      BY <1>4, <2>1 DEF Remembers, OwnerLabels
    <2> QED BY <1>1, <1>3, <1>16, <2>2 DEF RepairRead, cas
  <1>17. ASSUME NEW actor \in Actors, ResumeRead(p, actor) PROVE RepairInv'
    <2>1. k.prior # k.att /\ repaired = k.prior
      BY <1>0, <1>17 DEF ResumeRead, At, Remembers
    <2>2. Remembers(cas("resume_cas"), ledger, applied, pstate, repaired)
      BY <1>4, <2>1 DEF Remembers, OwnerLabels
    <2> QED BY <1>1, <1>3, <1>17, <2>2 DEF ResumeRead, cas
  <1>18. CASE ResumeNextIsNew(p) \/ ResumeMatchesRepair(p)
    <2>1. k.prior # k.att
      BY <1>0, <1>18 DEF ResumeNextIsNew, ResumeMatchesRepair, At, Remembers
    <2>2. Remembers(goto("resume_match"), ledger, applied, pstate, repaired)
      BY <1>4, <2>1 DEF Remembers, OwnerLabels
    <2>3. repaired = k.prior => Remembers(goto("resume_read"), ledger, applied, pstate, repaired)
      BY <1>4, <2>1 DEF Remembers, OwnerLabels
    <2> QED BY <1>1, <1>3, <1>18, <2>2, <2>3 DEF ResumeNextIsNew, ResumeMatchesRepair, Goto, goto
  <1> QED BY <1>5, <1>6, <1>7, <1>8, <1>9, <1>10, <1>11, <1>12, <1>13, <1>14, <1>15, <1>16, <1>17, <1>18

\* The operations callers begin.
LEMMA RepairInvoke ==
  ASSUME OneProcess, TypeInv, RepairInv, NEW p \in Procs, Invoke(p)
  PROVE  RepairInv'
  <1>0. UNCHANGED <<storeVars, ledger, applied>>
    BY InvokeElsewhere DEF worldVars
  <1>1. ASSUME NEW c, Enter(p, c), c.pc \notin MemoryLabels PROVE RepairInv'
    BY <1>0, <1>1, NothingToRemember, RepairCall DEF Enter
  <1>2. ASSUME NEW r \in Requests, NEW actor \in Actors, Execute(p, r, actor) PROVE RepairInv'
    BY <1>1, <1>2 DEF Execute, Idle, MemoryLabels, OwnerLabels
  <1>3. ASSUME NEW r \in Requests, NEW actor \in Actors, Reconcile(p, r, actor) PROVE RepairInv'
    BY <1>1, <1>3 DEF Reconcile, Idle, MemoryLabels, OwnerLabels
  <1>4. ASSUME NEW t \in ManualTargets, NEW actor \in Actors, transition(p, t, actor) PROVE RepairInv'
    BY <1>1, <1>4 DEF transition, Idle, MemoryLabels, OwnerLabels
  <1>5. ASSUME NEW r \in Requests, Probe(p, r) PROVE RepairInv'
    BY <1>1, <1>5 DEF Probe, Idle, MemoryLabels, OwnerLabels
  <1>6. ASSUME NEW a \in Attempts, CompleteRepair(p, a) PROVE RepairInv'
    <2> DEFINE c == [Idle EXCEPT !.pc = "repair_read", !.att = a]
    <2>1. c.pc = "repair_read" /\ c.att = a
      BY DEF Idle
    <2> HIDE DEF c
    <2>2. ledger[a].status = "failed" /\ Become(p, c)
      BY <1>6 DEF CompleteRepair, Enter, c
    <2>3. a \notin applied /\ ledger[a].status \in Results
      BY <2>2 DEF RepairInv, StoreTrue, Results
    <2>4. Remembers(c, ledger, applied, pstate, repaired)
      BY <2>1, <2>3 DEF Remembers, OwnerLabels
    <2> QED BY <1>0, <2>2, <2>4, RepairCall
  <1>7. ASSUME NEW prior \in Attempts, NEW next \in Attempts, Resume(p, prior, next) PROVE RepairInv'
    <2> DEFINE c == [Idle EXCEPT !.pc = "resume_next", !.att = next, !.prior = prior]
    <2>1. c.pc = "resume_next" /\ c.att = next /\ c.prior = prior
      BY DEF Idle
    <2> HIDE DEF c
    <2>2. prior # next /\ Become(p, c)
      BY <1>7 DEF Resume, Enter, c
    <2>3. Remembers(c, ledger, applied, pstate, repaired)
      BY <2>1, <2>2 DEF Remembers, OwnerLabels
    <2> QED BY <1>0, <2>2, <2>3, RepairCall
  <1>8. ASSUME NEW actor \in Actors, AbortWithResiduals(p, actor) PROVE RepairInv'
    BY <1>1, <1>8 DEF AbortWithResiduals, Idle, MemoryLabels, OwnerLabels
  <1> QED BY <1>2, <1>3, <1>4, <1>5, <1>6, <1>7, <1>8 DEF Invoke

\* RepairInv is inductive for one process, given DispatchInv.
LEMMA RepairInvariant ==
  ASSUME OneProcess
  PROVE  Spec => []RepairInv
  <1>0. OneExecutor
    BY OneProcess, RuntimeAssumption DEF OneProcess, OneExecutor
  <1>1. Init => RepairInv
    <2> SUFFICES ASSUME Init PROVE RepairInv OBVIOUS
    <2>1. NoRow.status # "failed"
      BY RuntimeAssumption DEF NoRow, Results
    <2> QED BY <2>1, IdleRemembers DEF Init, LedgerInit, RepairInv, StoreTrue
  <1>2. TypeInv /\ DispatchInv /\ RepairInv /\ [Next]_vars => RepairInv'
    <2> SUFFICES ASSUME TypeInv, DispatchInv, RepairInv, [Next]_vars PROVE RepairInv' OBVIOUS
    <2>1. CASE UNCHANGED vars
      BY <2>1 DEF vars, RepairInv, StoreTrue, Remembers
    <2>2. ASSUME NEW p \in Procs, Proceed(p) \/ Invoke(p) \/ Crash(p) PROVE RepairInv'
      BY OneProcess, <2>2, RepairLedgerActions, RepairStoreActions, RepairDispatch, RepairReading,
         RepairInvoke DEF Proceed
    <2> QED BY <2>1, <2>2 DEF Next
  <1> QED BY <1>0, <1>1, <1>2, DispatchInvariant, PTL DEF Spec

\* With one process, a pathway that runs again after a repair runs another attempt
\* than the repaired one, whose effect did not take place (ResumedAfterFailure):
\* complete_repair and resume build on a failure, and a failure is the truth.
THEOREM ResumedAfterFailureHolds ==
  ASSUME OneProcess
  PROVE  Spec => []ResumedAfterFailure
  <1>1. RepairInv => ResumedAfterFailure
    BY DEF RepairInv, StoreTrue, ResumedAfterFailure
  <1> QED BY OneProcess, <1>1, RepairInvariant, PTL

-----------------------------------------------------------------------------
\* What is recorded as a success is one: a verified success took effect, and what
\* took effect or is recorded as an unverified success was handed to the executor.
SuccessTrue(l, ap, d) ==
  /\ \A a \in Attempts : l[a].status = "verified" => a \in ap
  /\ \A a \in Attempts : l[a].status = "unverified" \/ a \in ap => d[a] > 0

\* What a process carries towards COMPLETED: the result of a dispatched attempt,
\* a result the ledger holds, or the target a recorded success led to.
Succeeds(c, l, ap, d) ==
  /\ c.pc \in {"inflight", "persist"} => d[c.att] > 0
  /\ c.pc \in {"persist", "rec_persist", "probe_persist"} /\ c.res = "verified" => c.att \in ap
  /\ c.pc \in {"rec_persist", "probe_persist"} => c.res # "unverified"
  /\ c.pc \in {"finish_read", "rec_finish"} => \E a \in Attempts : l[a].status = c.res
  /\ c.pc \in {"transition", "cas"} /\ c.goal = "completed" =>
       \E a \in Attempts : l[a].status \in {"verified", "unverified"}

SuccessLabels ==
  {"inflight", "persist", "rec_persist", "probe_persist", "finish_read", "rec_finish", "transition", "cas"}

SuccessInv ==
  /\ SuccessTrue(ledger, applied, dispatched)
  /\ \A p \in Procs : Succeeds(call[p], ledger, applied, dispatched)

\* What the one process continues with decides about what is carried.
LEMMA SuccessStep ==
  ASSUME OneProcess, TypeInv, NEW p \in Procs, NEW c, Become(p, c),
         Succeeds(c, ledger', applied', dispatched'), SuccessTrue(ledger', applied', dispatched')
  PROVE  SuccessInv'
  <1>1. \A q \in Procs : call'[q] = c
    BY DEF OneProcess, TypeInv, TypeOK, Become
  <1>2. SuccessInv' = (/\ SuccessTrue(ledger', applied', dispatched')
                       /\ \A q \in Procs : Succeeds(call'[q], ledger', applied', dispatched'))
    BY DEF SuccessInv, SuccessTrue, Succeeds
  <1> QED BY <1>1, <1>2

\* At the other labels nothing is carried, nor towards another target.
LEMMA NothingCarried ==
  ASSUME NEW c,
         \/ c.pc \notin SuccessLabels
         \/ c.pc \in {"transition", "cas"} /\ c.goal # "completed"
  PROVE  \A l, ap, d : Succeeds(c, l, ap, d)
  BY DEF Succeeds, SuccessLabels

\* A step that writes neither to the ledger nor to the world.
LEMMA SuccessQuiet ==
  ASSUME OneProcess, TypeInv, SuccessInv, NEW p \in Procs, NEW c, Become(p, c),
         Succeeds(c, ledger, applied, dispatched), UNCHANGED <<ledger, worldVars>>
  PROVE  SuccessInv'
  BY SuccessStep DEF SuccessInv, worldVars

\* A transaction on the ledger that records no success.
LEMMA SuccessRows ==
  ASSUME OneProcess, TypeInv, SuccessInv, NEW p \in Procs, NEW c, Become(p, c),
         \A l, ap, d : Succeeds(c, l, ap, d), UNCHANGED worldVars,
         \A a \in Attempts : ledger'[a].status \in {"verified", "unverified"} => ledger'[a] = ledger[a]
  PROVE  SuccessInv'
  <1>1. SuccessTrue(ledger', applied', dispatched')
    BY DEF SuccessInv, SuccessTrue, worldVars
  <1> QED BY <1>1, SuccessStep

\* What begin, discard_started and finish do to the statuses.
LEMMA InsertStatus ==
  ASSUME TypeInv, NEW r \in Requests, begin_insert(r)
  PROVE  /\ r.attempt \in Attempts /\ ledger[r.attempt] = NoRow /\ ledger'[r.attempt].status = "started"
         /\ ledger'[r.attempt].key = r.key
         /\ \A a \in Attempts \ {r.attempt} : ledger'[a] = ledger[a]
  <1> DEFINE new == [key |-> r.key, print |-> r.print, status |-> "started", shape |-> "plain"]
  <1>1. r.attempt \in Attempts
    BY LedgerAssumption
  <1>2. ledger' = [ledger EXCEPT ![r.attempt] = new] /\ new.status = "started" /\ new.key = r.key
    BY DEF begin_insert
  <1>3. ledger[r.attempt] = NoRow
    BY <1>1 DEF begin_insert, Matching, Present
  <1> HIDE DEF new
  <1> QED BY <1>1, <1>2, <1>3 DEF TypeInv, TypeOK, LedgerTypeOK

LEMMA DiscardStatus ==
  ASSUME TypeInv, NEW b \in Attempts, discard_started(b)
  PROVE  /\ ledger[b].status = "started" => ledger'[b] = NoRow
         /\ ledger[b].status # "started" => ledger'[b] = ledger[b]
         /\ \A a \in Attempts \ {b} : ledger'[a] = ledger[a]
         /\ NoRow.status \notin Results \cup {"started"}
  BY RuntimeAssumption DEF discard_started, Discardable, TypeInv, TypeOK, LedgerTypeOK, NoRow

LEMMA FinishStatus ==
  ASSUME TypeInv, NEW b \in Attempts, NEW result, NEW shape, finish(b, result, shape)
  PROVE  /\ ledger[b] # NoRow /\ ledger'[b].status = result /\ ledger'[b].key = ledger[b].key
         /\ \A a \in Attempts \ {b} : ledger'[a] = ledger[a]
  <1>1. ledger[b] \in Rows
    BY DEF finish, Present, TypeInv, TypeOK, LedgerTypeOK
  <1> QED BY <1>1 DEF finish, Present, TypeInv, TypeOK, LedgerTypeOK, Rows

\* The transactions of begin and discard_started.
LEMMA SuccessBegin ==
  ASSUME OneProcess, TypeInv, SuccessInv, NEW p \in Procs,
         \/ BeginAttempt(p) \/ BeginAgain(p) \/ ReconcileBegin(p) \/ ProbeBegin(p)
         \/ ResetStarted(p) \/ UndoDiscard(p) \/ ReconcileDiscard(p)
  PROVE  SuccessInv'
  <1> DEFINE k == call[p]
             goto(l) == [k EXCEPT !.pc = l]
  <1>0. /\ k \in CallType /\ k.req \in Requests /\ k.att \in Attempts /\ UNCHANGED worldVars
    BY LedgerAssumption DEF TypeInv, TypeOK, CallShape, Shape, RequestLabels, At, BeginAttempt, BeginAgain,
       ReconcileBegin, ProbeBegin, ResetStarted, UndoDiscard, ReconcileDiscard
  <1>1. /\ \A l, ap, d : Succeeds(Idle, l, ap, d)
        /\ \A label \in Labels \ SuccessLabels : \A l, ap, d : Succeeds(goto(label), l, ap, d)
    <2>1. Idle.pc \notin SuccessLabels /\ \A label \in Labels \ SuccessLabels : goto(label).pc \notin SuccessLabels
      BY <1>0 DEF Idle, SuccessLabels, CallType
    <2> HIDE DEF goto
    <2> QED BY <2>1, NothingCarried
  <1>2. {"admit", "replay", "rebegin", "rec_discard", "observe", "probe_observe"} \subseteq Labels \ SuccessLabels
    BY DEF Labels, SuccessLabels
  <1> HIDE DEF goto
  <1>3. CASE begin_insert(k.req) /\ (Return(p) \/ Goto(p, "admit") \/ Goto(p, "rec_discard"))
    <2>1. \A a \in Attempts : ledger'[a].status \in {"verified", "unverified"} => ledger'[a] = ledger[a]
      BY <1>0, <1>3, InsertStatus
    <2> QED BY <1>0, <1>1, <1>2, <1>3, <2>1, SuccessRows DEF Return, Goto, goto
  <1>4. CASE discard_started(k.att) /\ (Return(p) \/ Goto(p, "rebegin"))
    <2>1. \A a \in Attempts : ledger'[a].status \in {"verified", "unverified"} => ledger'[a] = ledger[a]
      BY <1>0, <1>4, DiscardStatus DEF Results
    <2> QED BY <1>0, <1>1, <1>2, <1>4, <2>1, SuccessRows DEF Return, Goto, goto
  <1>5. CASE UNCHANGED ledger /\ (Return(p) \/ \E l \in {"replay", "observe", "probe_observe"} : Goto(p, l))
    BY <1>0, <1>1, <1>2, <1>5, SuccessQuiet DEF Return, Goto, goto
  <1>6. ASSUME UNCHANGED ledger, NEW label \in {"finish_read", "rec_finish"}, NEW a \in Attempts,
               Become(p, WithResult(k, label, ledger[a].status, ledger[a].shape))
        PROVE  SuccessInv'
    <2> DEFINE c == WithResult(k, label, ledger[a].status, ledger[a].shape)
    <2>1. c.pc = label /\ c.res = ledger[a].status
      BY <1>0 DEF WithResult, CallType
    <2> HIDE DEF c
    <2>2. Succeeds(c, ledger, applied, dispatched)
      BY <2>1 DEF Succeeds
    <2> QED BY <1>0, <1>6, <2>2, SuccessQuiet DEF c
  <1>7. CASE BeginAttempt(p)
    BY <1>3, <1>5, <1>6, <1>7 DEF BeginAttempt
  <1>8. CASE BeginAgain(p)
    BY <1>3, <1>5, <1>8 DEF BeginAgain
  <1>9. CASE ReconcileBegin(p)
    BY <1>3, <1>5, <1>6, <1>9 DEF ReconcileBegin
  <1>10. CASE ProbeBegin(p)
    BY <1>3, <1>5, <1>10 DEF ProbeBegin
  <1>11. CASE ResetStarted(p) \/ UndoDiscard(p) \/ ReconcileDiscard(p)
    BY <1>4, <1>11 DEF ResetStarted, UndoDiscard, ReconcileDiscard
  <1> QED BY <1>7, <1>8, <1>9, <1>10, <1>11

\* The executor is invoked: its effect is one of a dispatched attempt.
LEMMA SuccessDispatch ==
  ASSUME OneProcess, TypeInv, SuccessInv, NEW p \in Procs, Dispatch(p)
  PROVE  SuccessInv'
  <1> DEFINE k == call[p]
             c == [k EXCEPT !.pc = "inflight"]
  <1>0. /\ k \in CallType /\ k.att \in Attempts /\ Become(p, c) /\ UNCHANGED ledger
        /\ applied' \in {applied, applied \cup {k.att}}
        /\ dispatched' = [dispatched EXCEPT ![k.att] = @ + 1]
    BY LedgerAssumption DEF TypeInv, TypeOK, CallShape, Shape, RequestLabels, Dispatch, At, Goto
  <1>1. c.pc = "inflight" /\ c.att = k.att
    BY <1>0 DEF CallType
  <1> HIDE DEF c
  <1>2. dispatched'[k.att] > 0 /\ \A a \in Attempts : dispatched[a] > 0 => dispatched'[a] > 0
    BY <1>0, RuntimeAssumption DEF TypeInv, TypeOK
  <1>3. SuccessTrue(ledger', applied', dispatched')
    BY <1>0, <1>2 DEF SuccessInv, SuccessTrue
  <1>4. Succeeds(c, ledger', applied', dispatched')
    BY <1>1, <1>2 DEF Succeeds
  <1> QED BY <1>0, <1>3, <1>4, SuccessStep

\* finish records a result that is true.
LEMMA SuccessPersist ==
  ASSUME OneProcess, TypeInv, SuccessInv, NEW p \in Procs,
         PersistResult(p) \/ ReconcilePersist(p) \/ ProbePersist(p)
  PROVE  SuccessInv'
  <1> DEFINE k == call[p]
             goto(l) == [k EXCEPT !.pc = l]
  <1>0. /\ k \in CallType /\ k.att \in Attempts /\ UNCHANGED worldVars
        /\ k.pc \in {"persist", "rec_persist", "probe_persist"} /\ Succeeds(k, ledger, applied, dispatched)
    BY LedgerAssumption DEF TypeInv, TypeOK, CallShape, Shape, RequestLabels, PersistResult, ReconcilePersist,
       ProbePersist, At, SuccessInv
  <1>1. /\ k.res = "verified" => k.att \in applied
        /\ k.res = "unverified" => dispatched[k.att] > 0
    BY <1>0 DEF Succeeds
  <1>2. /\ goto("finish_read").pc = "finish_read" /\ goto("finish_read").res = k.res
        /\ goto("rec_finish").pc = "rec_finish" /\ goto("rec_finish").res = k.res
        /\ goto("fallback").pc \notin SuccessLabels /\ Idle.pc \notin SuccessLabels
    BY <1>0 DEF CallType, Idle, SuccessLabels
  <1> HIDE DEF goto
  <1>3. CASE UNCHANGED ledger /\ (Return(p) \/ Goto(p, "fallback"))
    BY <1>0, <1>2, <1>3, NothingCarried, SuccessQuiet DEF Return, Goto, goto
  <1>4. CASE /\ finish(k.att, k.res, k.shape)
             /\ Return(p) \/ Goto(p, "finish_read") \/ Goto(p, "rec_finish")
    <2>1. ledger'[k.att].status = k.res /\ \A a \in Attempts \ {k.att} : ledger'[a] = ledger[a]
      BY <1>0, <1>4, FinishStatus
    <2>2. SuccessTrue(ledger', applied', dispatched')
      BY <1>0, <1>1, <2>1 DEF SuccessInv, SuccessTrue, worldVars
    <2>3. PICK c \in {Idle, goto("finish_read"), goto("rec_finish")} : Become(p, c)
      BY <1>4 DEF Return, Goto, goto
    <2>4. Succeeds(c, ledger', applied', dispatched')
      <3>1. CASE c.pc \in {"finish_read", "rec_finish"} /\ c.res = k.res
        BY <1>0, <2>1, <3>1 DEF Succeeds
      <3>2. CASE c.pc \notin SuccessLabels
        BY <3>2, NothingCarried
      <3> QED BY <1>2, <2>3, <3>1, <3>2
    <2> QED BY <2>2, <2>3, <2>4, SuccessStep
  <1>5. CASE PersistResult(p)
    BY <1>3, <1>4, <1>5 DEF PersistResult
  <1>6. CASE ReconcilePersist(p)
    BY <1>4, <1>6 DEF ReconcilePersist
  <1>7. CASE ProbePersist(p)
    BY <1>3, <1>4, <1>7 DEF ProbePersist
  <1> QED BY <1>5, <1>6, <1>7

\* A result that could not be persisted is recorded as an unknown.
LEMMA SuccessFallback ==
  ASSUME OneProcess, TypeInv, SuccessInv, NEW p \in Procs, MarkPersistenceUnknown(p) \/ ReconcileFallback(p)
  PROVE  SuccessInv'
  <1> DEFINE k == call[p]
             c == [k EXCEPT !.pc = "transition", !.goal = "write_status_unknown"]
  <1>0. /\ k \in CallType /\ k.att \in Attempts /\ UNCHANGED worldVars
        /\ finish(k.att, "unknown", "plain") \/ UNCHANGED ledger
        /\ Become(p, c) \/ Become(p, Idle)
    BY LedgerAssumption DEF TypeInv, TypeOK, CallShape, Shape, RequestLabels, MarkPersistenceUnknown,
       ReconcileFallback, mark_result_persistence_unknown, At, Return
  <1>1. Idle.pc \notin SuccessLabels /\ c.pc = "transition" /\ c.goal = "write_status_unknown"
    BY <1>0 DEF CallType, Idle, SuccessLabels
  <1> HIDE DEF c
  <1>2. \A l, ap, d : Succeeds(Idle, l, ap, d) /\ Succeeds(c, l, ap, d)
    BY <1>1, NothingCarried
  <1>3. \A a \in Attempts : ledger'[a].status \in {"verified", "unverified"} => ledger'[a] = ledger[a]
    BY <1>0, FinishStatus
  <1> QED BY <1>0, <1>2, <1>3, SuccessRows

\* The steps that write neither to the ledger nor to the world.
LEMMA SuccessReading ==
  ASSUME OneProcess, TypeInv, SuccessInv, NEW p \in Procs,
         \/ TransitionRead(p) \/ TransitionCas(p) \/ CheckBinding(p) \/ ReplayUnresolved(p) \/ AdmitExecution(p)
         \/ StartRead(p) \/ StartCas(p) \/ UndoRead(p) \/ ExecutorReturns(p) \/ FinishExecution(p)
         \/ ObserveVerified(p) \/ ObserveUnresolved(p) \/ ReconcileRejected(p) \/ ReconcileFinish(p)
         \/ ProbeObserve(p)
         \/ (\E actor \in Actors : RepairRead(p, actor) \/ ResumeRead(p, actor))
         \/ RepairCas(p) \/ ResumeNextIsNew(p) \/ ResumeMatchesRepair(p) \/ ResumeCas(p) \/ Crash(p)
  PROVE  SuccessInv'
  <1> DEFINE k == call[p]
             goto(l) == [k EXCEPT !.pc = l]
             target(goal) == [k EXCEPT !.pc = "transition", !.goal = goal]
             cas(l) == [k EXCEPT !.pc = l, !.snap = pstate]
             casTo(goal) == [k EXCEPT !.pc = "cas", !.snap = pstate, !.goal = goal]
  <1>0. /\ k \in CallType /\ Succeeds(k, ledger, applied, dispatched)
        /\ UNCHANGED <<ledger, worldVars>>
    BY DEF TypeInv, TypeOK, SuccessInv, TransitionRead, TransitionCas, CheckBinding, ReplayUnresolved,
       AdmitExecution, StartRead, StartCas, UndoRead, ExecutorReturns, FinishExecution, ObserveVerified,
       ObserveUnresolved, ReconcileRejected, ReconcileFinish, ProbeObserve, RepairRead, ResumeRead,
       RepairCas, ResumeNextIsNew, ResumeMatchesRepair, ResumeCas, Crash
  <1>1. ASSUME NEW c, Become(p, c), Succeeds(c, ledger, applied, dispatched) PROVE SuccessInv'
    BY <1>0, <1>1, SuccessQuiet
  <1>2. ASSUME NEW c, Become(p, c), c.pc \notin SuccessLabels PROVE SuccessInv'
    BY <1>1, <1>2, NothingCarried
  <1>3. /\ Idle.pc \notin SuccessLabels
        /\ \A l \in Labels : goto(l).pc = l /\ cas(l).pc = l /\ cas(l).goal = k.goal
        /\ \A goal \in PathwayState : target(goal).pc = "transition" /\ target(goal).goal = goal
        /\ \A goal \in PathwayState : casTo(goal).pc = "cas" /\ casTo(goal).goal = goal
        /\ \A l \in Labels : \A result, shape :
             LET c == WithResult(k, l, result, shape)
             IN  c.pc = l /\ c.att = k.att /\ c.res = result
    BY <1>0 DEF CallType, WithResult, Idle, SuccessLabels
  <1>4. {"begin", "reset", "start_read", "start_cas", "dispatch", "undo", "undo_discard", "rec_fallback",
         "repair_cas", "resume_match", "resume_read", "resume_cas"} \subseteq Labels \ SuccessLabels
    BY DEF Labels, SuccessLabels
  <1> HIDE DEF goto, cas, target, casTo
  <1>5. CASE Return(p)
    BY <1>2, <1>3, <1>5 DEF Return
  <1>6. ASSUME NEW goal \in PathwayState,
               goal = "completed" => \E a \in Attempts : ledger[a].status \in {"verified", "unverified"},
               Become(p, target(goal)) \/ Become(p, casTo(goal))
        PROVE  SuccessInv'
    <2>1. Succeeds(target(goal), ledger, applied, dispatched) /\ Succeeds(casTo(goal), ledger, applied, dispatched)
      BY <1>3, <1>6 DEF Succeeds
    <2> QED BY <1>1, <1>6, <2>1
  <1>7. CASE \/ CheckBinding(p) \/ AdmitExecution(p) \/ StartRead(p) \/ StartCas(p) \/ UndoRead(p)
             \/ ObserveUnresolved(p) \/ ReconcileRejected(p)
             \/ (\E actor \in Actors : RepairRead(p, actor) \/ ResumeRead(p, actor))
             \/ RepairCas(p) \/ ResumeNextIsNew(p) \/ ResumeMatchesRepair(p) \/ ResumeCas(p) \/ Crash(p)
             \/ TransitionCas(p)
    <2>1. \/ Return(p)
          \/ \E l \in {"begin", "start_read", "dispatch", "undo", "undo_discard", "rec_fallback",
                       "resume_match", "resume_read"} : Become(p, goto(l))
          \/ \E l \in {"start_cas", "repair_cas", "resume_cas"} : Become(p, cas(l))
      BY <1>7 DEF CheckBinding, AdmitExecution, StartRead, StartCas, UndoRead, ObserveUnresolved,
         ReconcileRejected, RepairRead, ResumeRead, RepairCas, ResumeNextIsNew, ResumeMatchesRepair,
         ResumeCas, Crash, TransitionCas, Goto, goto, cas
    <2> QED BY <1>2, <1>3, <1>4, <1>5, <2>1
  <1>8. CASE TransitionRead(p)
    <2>1. k.pc = "transition" /\ (Return(p) \/ Become(p, cas("cas")))
      BY <1>8 DEF TransitionRead, At, cas
    <2>2. Succeeds(cas("cas"), ledger, applied, dispatched)
      BY <1>0, <1>3, <2>1 DEF Succeeds, Labels
    <2> QED BY <1>1, <1>5, <2>1, <2>2
  <1>9. CASE ReplayUnresolved(p)
    <2>1. Return(p) \/ Become(p, goto("reset")) \/ Become(p, target("write_status_unknown"))
      BY <1>9 DEF ReplayUnresolved, Goto, goto, target
    <2>2. "write_status_unknown" \in PathwayState
      BY DEF PathwayState
    <2> QED BY <1>2, <1>3, <1>4, <1>5, <1>6, <2>1, <2>2
  <1>10. CASE ExecutorReturns(p)
    <2>1. k.pc = "inflight" /\ dispatched[k.att] > 0
      BY <1>0, <1>10 DEF ExecutorReturns, At, Succeeds
    <2>2. PICK result \in Outcomes, shape \in Evidence :
            Truthful(k.att, result) /\ Become(p, WithResult(k, "persist", result, shape))
      BY <1>10 DEF ExecutorReturns
    <2> DEFINE c == WithResult(k, "persist", result, shape)
    <2>3. c.pc = "persist" /\ c.att = k.att /\ c.res = result
      BY <1>3 DEF Labels
    <2> HIDE DEF c
    <2>4. Succeeds(c, ledger, applied, dispatched)
      BY <2>1, <2>2, <2>3 DEF Succeeds, Truthful
    <2> QED BY <1>1, <2>2, <2>4 DEF c
  <1>11. CASE ObserveVerified(p) \/ ProbeObserve(p)
    <2>1. ASSUME NEW l \in {"rec_persist", "probe_persist"}, NEW result \in {Observed(k.att), "unknown"},
                 NEW shape \in Evidence, Become(p, WithResult(k, l, result, shape))
          PROVE  SuccessInv'
      <3> DEFINE c == WithResult(k, l, result, shape)
      <3>1. c.pc = l /\ c.att = k.att /\ c.res = result
        BY <1>3 DEF Labels
      <3> HIDE DEF c
      <3>2. Succeeds(c, ledger, applied, dispatched)
        BY <2>1, <3>1 DEF Succeeds, Observed
      <3> QED BY <1>1, <2>1, <3>2 DEF c
    <2> QED BY <1>5, <1>11, <2>1 DEF ObserveVerified, ProbeObserve
  <1>12. CASE FinishExecution(p) \/ ReconcileFinish(p)
    <2>1. k.pc \in {"finish_read", "rec_finish"} /\ \E a \in Attempts : ledger[a].status = k.res
      BY <1>0, <1>12 DEF FinishExecution, ReconcileFinish, At, Succeeds
    <2>2. /\ FinishTarget(k.res) \in PathwayState /\ ReconcileTarget(k.res) \in PathwayState
          /\ FinishTarget(k.res) = "completed" => k.res \in {"verified", "unverified"}
          /\ ReconcileTarget(k.res) = "completed" => k.res \in {"verified", "unverified"}
      BY DEF FinishTarget, ReconcileTarget, PathwayState
    <2>3. \/ Return(p) \/ Become(p, target(FinishTarget(k.res)))
          \/ Become(p, casTo(FinishTarget(k.res))) \/ Become(p, casTo(ReconcileTarget(k.res)))
      BY <1>12 DEF FinishExecution, ReconcileFinish, target, casTo
    <2> QED BY <1>5, <1>6, <2>1, <2>2, <2>3
  <1> QED BY <1>7, <1>8, <1>9, <1>10, <1>11, <1>12

\* The operations callers begin; no caller asks for COMPLETED.
LEMMA SuccessInvoke ==
  ASSUME OneProcess, "completed" \notin ManualTargets, TypeInv, SuccessInv, NEW p \in Procs, Invoke(p)
  PROVE  SuccessInv'
  <1>1. UNCHANGED <<ledger, worldVars>>
    BY InvokeElsewhere
  <1>2. ASSUME NEW c, Enter(p, c), c.pc \notin SuccessLabels \/ (c.pc = "cas" /\ c.goal # "completed")
        PROVE  SuccessInv'
    BY <1>1, <1>2, NothingCarried, SuccessQuiet DEF Enter
  <1>3. ASSUME NEW r \in Requests, NEW actor \in Actors, Execute(p, r, actor) PROVE SuccessInv'
    BY <1>2, <1>3 DEF Execute, Idle, SuccessLabels
  <1>4. ASSUME NEW r \in Requests, NEW actor \in Actors, Reconcile(p, r, actor) PROVE SuccessInv'
    BY <1>2, <1>4 DEF Reconcile, Idle, SuccessLabels
  <1>5. ASSUME NEW t \in ManualTargets, NEW actor \in Actors, transition(p, t, actor) PROVE SuccessInv'
    BY <1>2, <1>5 DEF transition, Idle
  <1>6. ASSUME NEW r \in Requests, Probe(p, r) PROVE SuccessInv'
    BY <1>2, <1>6 DEF Probe, Idle, SuccessLabels
  <1>7. ASSUME NEW a \in Attempts, CompleteRepair(p, a) PROVE SuccessInv'
    BY <1>2, <1>7 DEF CompleteRepair, Idle, SuccessLabels
  <1>8. ASSUME NEW prior \in Attempts, NEW next \in Attempts, Resume(p, prior, next) PROVE SuccessInv'
    BY <1>2, <1>8 DEF Resume, Idle, SuccessLabels
  <1>9. ASSUME NEW actor \in Actors, AbortWithResiduals(p, actor) PROVE SuccessInv'
    BY <1>2, <1>9 DEF AbortWithResiduals, Idle
  <1> QED BY <1>3, <1>4, <1>5, <1>6, <1>7, <1>8, <1>9 DEF Invoke

\* SuccessInv is inductive for one process.
LEMMA SuccessInvariant ==
  ASSUME OneProcess, "completed" \notin ManualTargets
  PROVE  Spec => []SuccessInv
  <1>1. Init => SuccessInv
    <2> SUFFICES ASSUME Init PROVE SuccessInv OBVIOUS
    <2>1. NoRow.status \notin Results /\ Idle.pc \notin SuccessLabels
      BY RuntimeAssumption DEF NoRow, Idle, SuccessLabels
    <2>2. \A a \in Attempts : ledger[a] = NoRow /\ a \notin applied
      BY DEF Init, LedgerInit
    <2>3. SuccessTrue(ledger, applied, dispatched)
      BY <2>1, <2>2 DEF SuccessTrue, Results
    <2>4. \A p \in Procs : call[p] = Idle
      BY DEF Init
    <2> QED BY <2>1, <2>3, <2>4, NothingCarried DEF SuccessInv
  <1>2. TypeInv /\ SuccessInv /\ [Next]_vars => SuccessInv'
    <2> SUFFICES ASSUME TypeInv, SuccessInv, [Next]_vars PROVE SuccessInv' OBVIOUS
    <2>1. CASE UNCHANGED vars
      BY <2>1 DEF vars, SuccessInv, SuccessTrue, Succeeds
    <2>2. ASSUME NEW p \in Procs, Proceed(p) \/ Invoke(p) \/ Crash(p) PROVE SuccessInv'
      BY OneProcess, "completed" \notin ManualTargets, <2>2, SuccessBegin, SuccessDispatch, SuccessPersist,
         SuccessFallback, SuccessReading, SuccessInvoke DEF Proceed
    <2> QED BY <2>1, <2>2 DEF Next
  <1> QED BY <1>1, <1>2, TypeInvariant, PTL DEF Spec

\* The pathway's row changes in one of the four compare-and-sets.
LEMMA StoreMoves ==
  ASSUME NEW p \in Procs, Proceed(p)
  PROVE  UNCHANGED storeVars \/ TransitionCas(p) \/ StartCas(p) \/ RepairCas(p) \/ ResumeCas(p)
  BY DEF Proceed, TransitionRead, CheckBinding, BeginAttempt, ReplayUnresolved, ResetStarted, BeginAgain,
     AdmitExecution, StartRead, UndoRead, UndoDiscard, Dispatch, ExecutorReturns, PersistResult,
     MarkPersistenceUnknown, FinishExecution, ReconcileBegin, ReconcileDiscard, ObserveVerified,
     ObserveUnresolved, ReconcilePersist, ReconcileRejected, ReconcileFallback, ReconcileFinish,
     ProbeBegin, ProbeObserve, ProbePersist, RepairRead, ResumeRead, ResumeNextIsNew, ResumeMatchesRepair

\* With one process and no caller that sets COMPLETED by hand, a pathway is COMPLETED
\* only when some attempt was handed to the executor and its success is recorded, a
\* verified one having taken effect (CompletedBySuccess): _finish_execution_pathway
\* and _finish_reconciliation_pathway build on what the ledger holds.
THEOREM CompletedBySuccessHolds ==
  ASSUME OneProcess, "completed" \notin ManualTargets
  PROVE  Spec => CompletedBySuccess
  <1>1. TypeInv /\ SuccessInv /\ [Next]_vars =>
          [pstate' = "completed" /\ pstate # "completed" =>
             \E a \in Attempts : /\ dispatched[a] > 0
                                 /\ \/ a \in applied /\ ledger[a].status = "verified"
                                    \/ ledger[a].status = "unverified"]_vars
    <2> SUFFICES ASSUME TypeInv, SuccessInv, Next, pstate' = "completed", pstate # "completed"
                 PROVE  \E a \in Attempts : /\ dispatched[a] > 0
                                            /\ \/ a \in applied /\ ledger[a].status = "verified"
                                               \/ ledger[a].status = "unverified"
      BY DEF vars
    <2>1. PICK p \in Procs : TransitionCas(p) \/ StartCas(p) \/ RepairCas(p) \/ ResumeCas(p)
      BY StoreMoves, InvokeElsewhere DEF Next, storeVars
    <2>2. TransitionCas(p) /\ call[p].pc = "cas" /\ call[p].goal = "completed"
      BY <2>1 DEF TransitionCas, StartCas, RepairCas, ResumeCas, transition_with_event, ConcurrentChange,
         storeVars, At
    <2>3. \E a \in Attempts : ledger[a].status \in {"verified", "unverified"}
      BY <2>2 DEF SuccessInv, Succeeds
    <2> QED BY <2>3 DEF SuccessInv, SuccessTrue
  <1> QED BY OneProcess, "completed" \notin ManualTargets, <1>1, SuccessInvariant, TypeInvariant, PTL
          DEF Spec, CompletedBySuccess
-----------------------------------------------------------------------------
\* With no crash, a started row that was not dispatched has its owner: the process
\* that will dispatch it or discard it.
NoOrphan ==
  crashes = 0 =>
    \A a \in Attempts : ledger[a].status = "started" /\ dispatched[a] = 0 =>
      \E p \in Procs : call[p].pc \in OwnerLabels /\ call[p].att = a

ProbeLabels == {"probe_begin", "probe_observe", "probe_persist"}

\* The exception path of execute is only taken while the pathway is not RUNNING, so
\* that it does discard the row; and no process runs reconcile_started_attempt.
Undoes(c, s) == (c.pc \in {"undo", "undo_discard"} => s # "running") /\ c.pc \notin ProbeLabels

OwnedInv == NoOrphan /\ \A p \in Procs : Undoes(call[p], pstate)

\* What the one process continues with decides who owns the rows.
LEMMA OwnedStep ==
  ASSUME OneProcess, TypeInv, NEW p \in Procs, NEW c, Become(p, c), Undoes(c, pstate'),
         crashes' = 0 => \A a \in Attempts :
           ledger'[a].status = "started" /\ dispatched'[a] = 0 => c.pc \in OwnerLabels /\ c.att = a
  PROVE  OwnedInv'
  <1>1. \A q \in Procs : call'[q] = c
    BY DEF OneProcess, TypeInv, TypeOK, Become
  <1>2. OwnedInv' = (NoOrphan' /\ \A q \in Procs : Undoes(call'[q], pstate'))
    BY DEF OwnedInv, Undoes
  <1>3. NoOrphan'
    BY <1>1 DEF NoOrphan
  <1> QED BY <1>1, <1>2, <1>3

\* With no crash, the one process owns every started row that was not dispatched.
LEMMA OwnerIs ==
  ASSUME OneProcess, OwnedInv, NEW p \in Procs, crashes = 0,
         NEW a \in Attempts, ledger[a].status = "started", dispatched[a] = 0
  PROVE  call[p].pc \in OwnerLabels /\ call[p].att = a
  BY DEF OneProcess, OwnedInv, NoOrphan

\* A process that owns no row adds none.
LEMMA OwnedElsewhere ==
  ASSUME OneProcess, TypeInv, OwnedInv, NEW p \in Procs, NEW c, Become(p, c), Undoes(c, pstate'),
         call[p].pc \notin OwnerLabels, UNCHANGED <<dispatched, crashes>>,
         \A a \in Attempts : ledger'[a].status = "started" => ledger[a].status = "started"
  PROVE  OwnedInv'
  BY OwnedStep, OwnerIs

\* The owner keeps its row.
LEMMA OwnedKept ==
  ASSUME OneProcess, TypeInv, OwnedInv, NEW p \in Procs, NEW c, Become(p, c), Undoes(c, pstate'),
         c.pc \in OwnerLabels, c.att = call[p].att, UNCHANGED <<ledger, dispatched, crashes>>
  PROVE  OwnedInv'
  BY OwnedStep, OwnerIs

\* begin gives the fresh row to the process.
LEMMA OwnedInsert ==
  ASSUME OneProcess, TypeInv, OwnedInv, NEW p \in Procs, NEW l \in {"admit", "rec_discard"}, Goto(p, l),
         call[p].pc \in RequestLabels \ OwnerLabels, begin_insert(call[p].req),
         UNCHANGED <<dispatched, crashes>>
  PROVE  OwnedInv'
  <1> DEFINE k == call[p]
             c == [k EXCEPT !.pc = l]
  <1>1. k \in CallType /\ k.req \in Requests /\ k.att = k.req.attempt
    BY DEF TypeInv, TypeOK, CallShape, Shape
  <1>2. c.pc = l /\ c.att = k.att /\ Become(p, c)
    BY <1>1 DEF CallType, Goto
  <1> HIDE DEF c
  <1>3. c.pc \in OwnerLabels /\ Undoes(c, pstate')
    BY <1>2 DEF OwnerLabels, Undoes, ProbeLabels
  <1>4. \A a \in Attempts \ {k.att} : ledger'[a] = ledger[a]
    BY <1>1, InsertStatus
  <1>5. crashes' = 0 => \A a \in Attempts :
          ledger'[a].status = "started" /\ dispatched'[a] = 0 => c.pc \in OwnerLabels /\ c.att = a
    BY <1>2, <1>3, <1>4, OwnerIs
  <1> QED BY <1>2, <1>3, <1>5, OwnedStep

\* The owner discards its row.
LEMMA OwnedDiscard ==
  ASSUME OneProcess, TypeInv, OwnedInv, NEW p \in Procs, Return(p),
         call[p].pc \in RequestLabels, discard_started(call[p].att), UNCHANGED <<dispatched, crashes>>
  PROVE  OwnedInv'
  <1>1. call[p].att \in Attempts
    BY LedgerAssumption DEF TypeInv, CallShape, Shape
  <1>2. Undoes(Idle, pstate')
    BY DEF Undoes, Idle, ProbeLabels
  <1>3. crashes' = 0 => \A a \in Attempts : ~ (ledger'[a].status = "started" /\ dispatched'[a] = 0)
    BY <1>1, DiscardStatus, OwnerIs
  <1> QED BY <1>2, <1>3, OwnedStep DEF Return

\* The owner's row is dispatched.
LEMMA OwnedDispatch ==
  ASSUME OneProcess, TypeInv, OwnedInv, NEW p \in Procs, Dispatch(p)
  PROVE  OwnedInv'
  <1> DEFINE k == call[p]
             c == [k EXCEPT !.pc = "inflight"]
  <1>1. /\ k \in CallType /\ k.att \in Attempts /\ Become(p, c)
        /\ UNCHANGED <<ledger, crashes>> /\ dispatched' = [dispatched EXCEPT ![k.att] = @ + 1]
    BY LedgerAssumption DEF TypeInv, TypeOK, CallShape, Shape, RequestLabels, Dispatch, At, Goto
  <1>2. c.pc = "inflight"
    BY <1>1 DEF CallType
  <1> HIDE DEF c
  <1>3. dispatched'[k.att] # 0 /\ \A a \in Attempts \ {k.att} : dispatched'[a] = dispatched[a]
    BY <1>1, RuntimeAssumption DEF TypeInv, TypeOK
  <1>4. crashes' = 0 => \A a \in Attempts : ~ (ledger'[a].status = "started" /\ dispatched'[a] = 0)
    BY <1>1, <1>3, OwnerIs
  <1>5. Undoes(c, pstate')
    BY <1>2 DEF Undoes, ProbeLabels
  <1> QED BY <1>1, <1>4, <1>5, OwnedStep

\* The steps of an owner between begin and the dispatch; RepairInv says that the
\* start of an execution read APPROVED.
LEMMA OwnedAdmission ==
  ASSUME OneProcess, TypeInv, RepairInv, OwnedInv, NEW p \in Procs,
         AdmitExecution(p) \/ StartRead(p) \/ StartCas(p) \/ UndoRead(p)
  PROVE  OwnedInv'
  <1> DEFINE k == call[p]
             goto(l) == [k EXCEPT !.pc = l]
             cas == [k EXCEPT !.pc = "start_cas", !.snap = pstate]
  <1>0. /\ k \in CallType /\ Undoes(k, pstate) /\ Remembers(k, ledger, applied, pstate, repaired)
        /\ UNCHANGED <<ledger, dispatched, crashes>>
    BY DEF TypeInv, TypeOK, OwnedInv, RepairInv, AdmitExecution, StartRead, StartCas, UndoRead, worldVars
  <1>1. /\ \A l \in Labels : goto(l).pc = l /\ goto(l).att = k.att
        /\ cas.pc = "start_cas" /\ cas.att = k.att
    BY <1>0 DEF CallType
  <1> HIDE DEF goto, cas
  <1>2. ASSUME NEW l \in {"start_read", "dispatch", "undo", "undo_discard"}, Become(p, goto(l)),
               l \in {"undo", "undo_discard"} => pstate' # "running"
        PROVE  OwnedInv'
    <2>1. goto(l).pc = l /\ goto(l).att = k.att /\ l \in OwnerLabels \ ProbeLabels
      BY <1>1 DEF Labels, OwnerLabels, ProbeLabels
    <2> QED BY <1>0, <1>2, <2>1, OwnedKept DEF Undoes
  <1>3. CASE AdmitExecution(p)
    BY <1>2, <1>3 DEF AdmitExecution, storeVars, Goto, goto
  <1>4. CASE StartRead(p)
    <2>1. pstate' # "running"
      BY <1>0, <1>4 DEF StartRead, At, Remembers, storeVars
    <2>2. cas.pc \in OwnerLabels /\ cas.att = k.att /\ Undoes(cas, pstate')
      BY <1>1 DEF OwnerLabels, Undoes, ProbeLabels
    <2>3. Become(p, cas) \/ Become(p, goto("undo"))
      BY <1>4 DEF StartRead, Goto, goto, cas
    <2> QED BY <1>0, <1>2, <2>1, <2>2, <2>3, OwnedKept
  <1>5. CASE StartCas(p)
    <2>1. pstate = "approved"
      BY <1>0, <1>5 DEF StartCas, At, Remembers
    <2> QED BY <1>2, <1>5, <2>1 DEF StartCas, ConcurrentChange, storeVars, Goto, goto
  <1>6. CASE UndoRead(p)
    <2>1. pstate # "running" /\ Goto(p, "undo_discard") /\ UNCHANGED pstate
      BY <1>0, <1>6 DEF UndoRead, At, Undoes, storeVars
    <2> QED BY <1>2, <2>1 DEF Goto, goto
  <1> QED BY <1>3, <1>4, <1>5, <1>6

\* The transactions of begin and discard_started.
LEMMA OwnedBegin ==
  ASSUME OneProcess, TypeInv, OwnedInv, NEW p \in Procs,
         \/ BeginAttempt(p) \/ BeginAgain(p) \/ ReconcileBegin(p)
         \/ ResetStarted(p) \/ UndoDiscard(p) \/ ReconcileDiscard(p)
  PROVE  OwnedInv'
  <1> DEFINE k == call[p]
             goto(l) == [k EXCEPT !.pc = l]
  <1>0. /\ k \in CallType /\ k.pc \in RequestLabels /\ UNCHANGED <<dispatched, crashes>>
    BY DEF TypeInv, TypeOK, RequestLabels, At, BeginAttempt, BeginAgain, ReconcileBegin,
       ResetStarted, UndoDiscard, ReconcileDiscard, worldVars
  <1>1. /\ Undoes(Idle, pstate')
        /\ \A l \in {"replay", "observe", "rebegin"} : Undoes(goto(l), pstate')
        /\ \A l \in {"finish_read", "rec_finish"} : \A result, shape : Undoes(WithResult(k, l, result, shape), pstate')
    BY <1>0 DEF CallType, Undoes, ProbeLabels, Idle, WithResult
  <1> HIDE DEF goto
  <1>2. CASE BeginAttempt(p) \/ BeginAgain(p) \/ ReconcileBegin(p)
    <2>1. k.pc \notin OwnerLabels
      BY <1>2 DEF BeginAttempt, BeginAgain, ReconcileBegin, At, OwnerLabels
    <2>2. CASE begin_insert(k.req) /\ \E l \in {"admit", "rec_discard"} : Goto(p, l)
      BY <1>0, <2>2, <2>1, OwnedInsert
    <2>3. CASE UNCHANGED ledger /\ \E c : Become(p, c) /\ Undoes(c, pstate')
      BY <1>0, <2>1, <2>3, OwnedElsewhere
    <2>4. CASE BeginAttempt(p)
      BY <1>1, <2>2, <2>3, <2>4 DEF BeginAttempt, Return, Goto, goto
    <2>5. CASE BeginAgain(p)
      BY <1>1, <2>2, <2>3, <2>5 DEF BeginAgain, Return, Goto, goto
    <2>6. CASE ReconcileBegin(p)
      BY <1>1, <2>2, <2>3, <2>6 DEF ReconcileBegin, Return, Goto, goto
    <2> QED BY <1>2, <2>4, <2>5, <2>6
  <1>3. CASE ResetStarted(p)
    <2>1. k.att \in Attempts /\ k.pc \notin OwnerLabels /\ discard_started(k.att)
      BY <1>0, <1>3, LedgerAssumption DEF ResetStarted, At, OwnerLabels, TypeInv, CallShape, Shape
    <2>3. \A a \in Attempts : ledger'[a].status = "started" => ledger[a].status = "started"
      BY <2>1, DiscardStatus
    <2>4. Become(p, Idle) \/ Become(p, goto("rebegin"))
      BY <1>3 DEF ResetStarted, Return, Goto, goto
    <2> QED BY <1>0, <1>1, <2>1, <2>3, <2>4, OwnedElsewhere
  <1>4. CASE UndoDiscard(p) \/ ReconcileDiscard(p)
    BY <1>0, <1>4, OwnedDiscard DEF UndoDiscard, ReconcileDiscard
  <1> QED BY <1>2, <1>3, <1>4

\* The other steps are those of a process that owns no row.
LEMMA OwnedOthers ==
  ASSUME OneProcess, TypeInv, OwnedInv, NEW p \in Procs,
         \/ TransitionRead(p) \/ TransitionCas(p) \/ CheckBinding(p) \/ ReplayUnresolved(p)
         \/ ExecutorReturns(p) \/ PersistResult(p) \/ MarkPersistenceUnknown(p) \/ FinishExecution(p)
         \/ ObserveVerified(p) \/ ObserveUnresolved(p) \/ ReconcilePersist(p) \/ ReconcileRejected(p)
         \/ ReconcileFallback(p) \/ ReconcileFinish(p)
         \/ (\E actor \in Actors : RepairRead(p, actor) \/ ResumeRead(p, actor))
         \/ RepairCas(p) \/ ResumeNextIsNew(p) \/ ResumeMatchesRepair(p) \/ ResumeCas(p)
  PROVE  OwnedInv'
  <1> DEFINE k == call[p]
             calm(l) == l \in Labels \ ({"undo", "undo_discard"} \cup ProbeLabels)
  <1>0. k \in CallType /\ (k.pc \in RequestLabels => k.att \in Attempts)
    BY LedgerAssumption DEF TypeInv, TypeOK, CallShape, Shape
  <1>1. k.pc \notin OwnerLabels /\ UNCHANGED <<dispatched, crashes>>
    BY DEF OwnerLabels, At, TransitionRead, TransitionCas, CheckBinding, ReplayUnresolved, ExecutorReturns,
       PersistResult, MarkPersistenceUnknown, FinishExecution, ObserveVerified, ObserveUnresolved,
       ReconcilePersist, ReconcileRejected, ReconcileFallback, ReconcileFinish, RepairRead, ResumeRead,
       RepairCas, ResumeNextIsNew, ResumeMatchesRepair, ResumeCas, worldVars
  <1>2. \A a \in Attempts : ledger'[a].status = "started" => ledger[a].status = "started"
    <2>1. CASE PersistResult(p) \/ ReconcilePersist(p)
      <3>1. k.att \in Attempts /\ k.res \in Results /\ (finish(k.att, k.res, k.shape) \/ UNCHANGED ledger)
        BY <1>0, <2>1 DEF PersistResult, ReconcilePersist, At, RequestLabels, ResultLabels, TypeInv, CallShape, Shape
      <3> QED BY <3>1, FinishStatus DEF Results
    <2>2. CASE MarkPersistenceUnknown(p) \/ ReconcileFallback(p)
      <3>1. k.att \in Attempts /\ (finish(k.att, "unknown", "plain") \/ UNCHANGED ledger)
        BY <1>0, <2>2 DEF MarkPersistenceUnknown, ReconcileFallback, mark_result_persistence_unknown, At, RequestLabels
      <3> QED BY <3>1, FinishStatus
    <2>3. CASE UNCHANGED ledger
      BY <2>3
    <2> QED BY <2>1, <2>2, <2>3 DEF TransitionRead, TransitionCas, CheckBinding, ReplayUnresolved, ExecutorReturns,
       FinishExecution, ObserveVerified, ObserveUnresolved, ReconcileRejected, ReconcileFinish, RepairRead,
       ResumeRead, RepairCas, ResumeNextIsNew, ResumeMatchesRepair, ResumeCas
  <1>3. /\ Undoes(Idle, pstate')
        /\ \A l \in Labels : calm(l) =>
             /\ Undoes([k EXCEPT !.pc = l], pstate')
             /\ Undoes([k EXCEPT !.pc = l, !.snap = pstate], pstate')
             /\ \A goal : Undoes([k EXCEPT !.pc = l, !.goal = goal], pstate')
             /\ \A goal : Undoes([k EXCEPT !.pc = l, !.snap = pstate, !.goal = goal], pstate')
             /\ \A result, shape : Undoes(WithResult(k, l, result, shape), pstate')
    BY <1>0 DEF CallType, Undoes, ProbeLabels, Idle, WithResult
  <1>4. \A l \in {"begin", "reset", "transition", "cas", "persist", "finish_read", "fallback", "rec_persist",
                  "rec_finish", "rec_fallback", "repair_cas", "resume_match", "resume_read", "resume_cas"} :
          l \in Labels /\ calm(l)
    BY DEF Labels, ProbeLabels
  <1> HIDE DEF calm
  <1>5. ASSUME NEW c, Become(p, c), Undoes(c, pstate') PROVE OwnedInv'
    BY <1>1, <1>2, <1>5, OwnedElsewhere
  <1>6. CASE TransitionRead(p) \/ TransitionCas(p) \/ CheckBinding(p) \/ ReplayUnresolved(p)
    BY <1>3, <1>4, <1>5, <1>6 DEF TransitionRead, TransitionCas, CheckBinding, ReplayUnresolved, Return, Goto
  <1>7. CASE ExecutorReturns(p) \/ PersistResult(p) \/ MarkPersistenceUnknown(p)
    BY <1>3, <1>4, <1>5, <1>7 DEF ExecutorReturns, PersistResult, MarkPersistenceUnknown, Return, Goto
  <1>8. CASE FinishExecution(p)
    BY <1>3, <1>4, <1>5, <1>8 DEF FinishExecution, Return
  <1>9. CASE ObserveVerified(p) \/ ObserveUnresolved(p) \/ ReconcilePersist(p) \/ ReconcileRejected(p)
    BY <1>3, <1>4, <1>5, <1>9 DEF ObserveVerified, ObserveUnresolved, ReconcilePersist, ReconcileRejected, Return, Goto
  <1>10. CASE ReconcileFallback(p) \/ ReconcileFinish(p)
    BY <1>3, <1>4, <1>5, <1>10 DEF ReconcileFallback, ReconcileFinish, Return
  <1>11. CASE \/ (\E actor \in Actors : RepairRead(p, actor) \/ ResumeRead(p, actor))
              \/ RepairCas(p) \/ ResumeCas(p) \/ ResumeNextIsNew(p) \/ ResumeMatchesRepair(p)
    BY <1>3, <1>4, <1>5, <1>11 DEF RepairRead, ResumeRead, RepairCas, ResumeCas, ResumeNextIsNew,
       ResumeMatchesRepair, Return, Goto
  <1> QED BY <1>6, <1>7, <1>8, <1>9, <1>10, <1>11

\* Calls and crashes: no caller uses reconcile_started_attempt, and a crash is counted.
LEMMA OwnedInvoke ==
  ASSUME OneProcess, Probers = {}, TypeInv, OwnedInv, NEW p \in Procs, Invoke(p) \/ Crash(p)
  PROVE  OwnedInv'
  <1>1. UNCHANGED <<storeVars, ledger, worldVars>>
    BY InvokeElsewhere
  <1>2. CASE Crash(p)
    <2>1. crashes' # 0 /\ Become(p, Idle) /\ Undoes(Idle, pstate')
      BY <1>2 DEF Crash, Return, TypeInv, TypeOK, Undoes, Idle, ProbeLabels
    <2> QED BY <2>1, OwnedStep
  <1>3. ASSUME NEW c, Enter(p, c), c.pc \notin {"undo", "undo_discard"} \cup ProbeLabels, UNCHANGED crashes
        PROVE  OwnedInv'
    <2>1. call[p].pc \notin OwnerLabels /\ Become(p, c) /\ Undoes(c, pstate')
      BY <1>3 DEF Enter, At, OwnerLabels, Undoes
    <2> QED BY <1>1, <1>3, <2>1, OwnedElsewhere DEF worldVars
  <1>4. ASSUME NEW r \in Requests, NEW actor \in Actors, Execute(p, r, actor) PROVE OwnedInv'
    BY <1>3, <1>4 DEF Execute, Idle, ProbeLabels
  <1>5. ASSUME NEW r \in Requests, NEW actor \in Actors, Reconcile(p, r, actor) PROVE OwnedInv'
    BY <1>3, <1>5 DEF Reconcile, Idle, ProbeLabels
  <1>6. ASSUME NEW t \in ManualTargets, NEW actor \in Actors, transition(p, t, actor) PROVE OwnedInv'
    BY <1>3, <1>6 DEF transition, Idle, ProbeLabels
  <1>7. ASSUME NEW a \in Attempts, CompleteRepair(p, a) PROVE OwnedInv'
    BY <1>3, <1>7 DEF CompleteRepair, Idle, ProbeLabels
  <1>8. ASSUME NEW prior \in Attempts, NEW next \in Attempts, Resume(p, prior, next) PROVE OwnedInv'
    BY <1>3, <1>8 DEF Resume, Idle, ProbeLabels
  <1>9. ASSUME NEW actor \in Actors, AbortWithResiduals(p, actor) PROVE OwnedInv'
    BY <1>3, <1>9 DEF AbortWithResiduals, Idle, ProbeLabels
  <1>10. ~ \E r \in Requests : Probe(p, r)
    BY DEF Probe
  <1> QED BY <1>2, <1>4, <1>5, <1>6, <1>7, <1>8, <1>9, <1>10 DEF Invoke

\* OwnedInv is inductive for one process, given RepairInv.
LEMMA OwnedInvariant ==
  ASSUME OneProcess, Probers = {}
  PROVE  Spec => []OwnedInv
  <1>1. Init => OwnedInv
    <2> SUFFICES ASSUME Init PROVE OwnedInv OBVIOUS
    <2>1. NoRow.status # "started" /\ Undoes(Idle, pstate)
      BY RuntimeAssumption DEF NoRow, Undoes, Idle, ProbeLabels
    <2> QED BY <2>1 DEF Init, LedgerInit, OwnedInv, NoOrphan
  <1>2. TypeInv /\ RepairInv /\ OwnedInv /\ [Next]_vars => OwnedInv'
    <2> SUFFICES ASSUME TypeInv, RepairInv, OwnedInv, [Next]_vars PROVE OwnedInv' OBVIOUS
    <2>1. CASE UNCHANGED vars
      BY <2>1 DEF vars, OwnedInv, NoOrphan, Undoes
    <2>2. ASSUME NEW p \in Procs PROVE ~ (ProbeBegin(p) \/ ProbeObserve(p) \/ ProbePersist(p))
      BY DEF OwnedInv, Undoes, ProbeLabels, ProbeBegin, ProbeObserve, ProbePersist, At
    <2>3. ASSUME NEW p \in Procs, Proceed(p) \/ Invoke(p) \/ Crash(p) PROVE OwnedInv'
      BY OneProcess, Probers = {}, <2>2, <2>3, OwnedBegin, OwnedDispatch, OwnedAdmission, OwnedOthers,
         OwnedInvoke DEF Proceed
    <2> QED BY <2>1, <2>3 DEF Next
  <1> QED BY OneProcess, <1>1, <1>2, RepairInvariant, TypeInvariant, PTL DEF Spec

\* With one process, and no caller of reconcile_started_attempt, an execute that was
\* refused before it invoked the executor leaves no started row behind, crashes aside
\* (RejectionLeavesNoRow): the exception path of execute is never taken while the
\* pathway is RUNNING.
THEOREM RejectionLeavesNoRowHolds ==
  ASSUME OneProcess, Probers = {}
  PROVE  Spec => []RejectionLeavesNoRow
  <1>1. TypeInv /\ OwnedInv => RejectionLeavesNoRow
    <2> SUFFICES ASSUME TypeInv, OwnedInv, crashes = 0, \A p \in Procs : At(p, "idle"),
                        NEW a \in Attempts, Discardable(a)
                 PROVE  dispatched[a] > 0
      BY DEF RejectionLeavesNoRow
    <2>1. dispatched[a] # 0
      BY DEF OwnedInv, NoOrphan, At, OwnerLabels, Discardable
    <2> QED BY <2>1, RuntimeAssumption DEF TypeInv, TypeOK
  <1> QED BY OneProcess, Probers = {}, <1>1, OwnedInvariant, TypeInvariant, PTL
-----------------------------------------------------------------------------
\* Callers use an attempt id with one idempotency key.
OneKey == \A r, s \in Requests \ Malformed : r.attempt = s.attempt => r.key = s.key

\* The rows a request matches are then its own: no two rows have the same key, and
\* the row of an attempt has the key of its requests.
OwnRows(l) ==
  /\ \A a, b \in Attempts : l[a] # NoRow /\ l[b] # NoRow /\ l[a].key = l[b].key => a = b
  /\ \A r \in Requests \ Malformed : l[r.attempt] # NoRow => l[r.attempt].key = r.key

\* Labels from which a process will write to the row of its attempt, or not return.
UnresolvedLabels ==
  {"inflight", "persist", "fallback", "observe", "rec_persist", "rec_fallback", "probe_observe", "probe_persist"}

FinalInv ==
  /\ OwnRows(ledger)
  /\ \A p \in Procs : call[p].pc \in UnresolvedLabels => ledger[call[p].att].status \notin Classified

\* A step keeps the classified rows.
ClassifiedKept == \A a \in Attempts : ledger[a].status \in Classified => ledger'[a] = ledger[a]

\* What the one process continues with decides which row is unresolved.
LEMMA FinalStep ==
  ASSUME OneProcess, TypeInv, NEW p \in Procs, NEW c, Become(p, c), OwnRows(ledger'),
         c.pc \in UnresolvedLabels => ledger'[c.att].status \notin Classified
  PROVE  FinalInv'
  <1>1. \A q \in Procs : call'[q] = c
    BY DEF OneProcess, TypeInv, TypeOK, Become
  <1> QED BY <1>1 DEF FinalInv, OwnRows

\* A step that leaves the ledger alone.
LEMMA FinalQuiet ==
  ASSUME OneProcess, TypeInv, FinalInv, NEW p \in Procs, NEW c, Become(p, c), UNCHANGED ledger,
         c.pc \in UnresolvedLabels =>
           \/ call[p].pc \in UnresolvedLabels /\ c.att = call[p].att
           \/ ledger[c.att].status \notin Classified
  PROVE  FinalInv' /\ ClassifiedKept
  BY FinalStep DEF FinalInv, ClassifiedKept

\* begin inserts a row whose key no row had.
LEMMA FinalInsert ==
  ASSUME OneProcess, OneKey, TypeInv, FinalInv, NEW p \in Procs, NEW c, Become(p, c),
         c.pc \notin UnresolvedLabels, NEW r \in Requests, begin_insert(r)
  PROVE  FinalInv' /\ ClassifiedKept
  <1>1. /\ r.attempt \in Attempts /\ ledger[r.attempt] = NoRow
        /\ ledger'[r.attempt].key = r.key /\ \A a \in Attempts \ {r.attempt} : ledger'[a] = ledger[a]
    BY InsertStatus
  <1>2. r \in Requests \ Malformed /\ \A a \in Attempts : ledger[a] # NoRow => ledger[a].key # r.key
    BY DEF begin_insert, fingerprint, Matching, Present
  <1>3. \A s \in Requests : s.attempt \in Attempts
    BY LedgerAssumption
  <1>4. OwnRows(ledger')
    BY <1>1, <1>2, <1>3 DEF FinalInv, OwnRows, OneKey
  <1>5. NoRow.status \notin Classified
    BY RuntimeAssumption DEF NoRow, Classified
  <1> QED BY <1>1, <1>4, <1>5, FinalStep DEF ClassifiedKept

\* discard_started deletes no classified row.
LEMMA FinalDiscard ==
  ASSUME OneProcess, TypeInv, FinalInv, NEW p \in Procs, NEW c, Become(p, c),
         c.pc \notin UnresolvedLabels, NEW b \in Attempts, discard_started(b)
  PROVE  FinalInv' /\ ClassifiedKept
  <1>1. \A a \in Attempts : ledger'[a] = ledger[a] \/ ledger'[a] = NoRow
    BY DiscardStatus
  <1>2. \A s \in Requests : s.attempt \in Attempts
    BY LedgerAssumption
  <1>3. OwnRows(ledger')
    BY <1>1, <1>2 DEF FinalInv, OwnRows
  <1>4. ClassifiedKept
    BY DiscardStatus DEF ClassifiedKept, Classified, Results
  <1> QED BY <1>3, <1>4, FinalStep

\* finish is called for an unresolved attempt, whose row keeps its key.
LEMMA FinalFinish ==
  ASSUME OneProcess, TypeInv, FinalInv, NEW p \in Procs, NEW c, Become(p, c),
         c.pc \notin UnresolvedLabels, call[p].pc \in UnresolvedLabels, call[p].att \in Attempts,
         NEW result, NEW shape, finish(call[p].att, result, shape)
  PROVE  FinalInv' /\ ClassifiedKept
  <1> DEFINE b == call[p].att
  <1>1. /\ ledger[b] # NoRow /\ ledger'[b].key = ledger[b].key
        /\ \A a \in Attempts \ {b} : ledger'[a] = ledger[a]
    BY FinishStatus
  <1>2. \A s \in Requests : s.attempt \in Attempts
    BY LedgerAssumption
  <1>3. OwnRows(ledger')
    BY <1>1, <1>2 DEF FinalInv, OwnRows
  <1>4. ledger[b].status \notin Classified
    BY DEF FinalInv
  <1> QED BY <1>1, <1>3, <1>4, FinalStep DEF ClassifiedKept

\* begin finds the row of the request itself, or one of another attempt while the
\* request's has none: if the one it found is not classified, neither is that of the
\* attempt the process goes on with.
LEMMA ReplayIsOwn ==
  ASSUME OneKey, TypeInv, FinalInv, NEW r \in Requests, NEW a \in Attempts, Replays(r, a),
         ledger[a].status \notin Classified
  PROVE  ledger[r.attempt].status \notin Classified
  <1>1. NoRow.status \notin Classified
    BY RuntimeAssumption DEF NoRow, Classified
  <1>2. /\ r \in Requests \ Malformed /\ r.attempt \in Attempts
        /\ ledger[a] # NoRow /\ (a = r.attempt \/ ledger[a].key = r.key)
    BY LedgerAssumption DEF Replays, Matching, Present, fingerprint
  <1>3. CASE ledger[r.attempt] # NoRow
    BY <1>2, <1>3 DEF FinalInv, OwnRows
  <1> QED BY <1>1, <1>3

\* The transactions on the ledger.
LEMMA FinalLedgerActions ==
  ASSUME OneProcess, OneKey, TypeInv, FinalInv, NEW p \in Procs,
         \/ BeginAttempt(p) \/ BeginAgain(p) \/ ReconcileBegin(p) \/ ProbeBegin(p)
         \/ ResetStarted(p) \/ UndoDiscard(p) \/ ReconcileDiscard(p)
         \/ PersistResult(p) \/ ReconcilePersist(p) \/ ProbePersist(p)
         \/ MarkPersistenceUnknown(p) \/ ReconcileFallback(p)
  PROVE  FinalInv' /\ ClassifiedKept
  <1> DEFINE k == call[p]
             goto(l) == [k EXCEPT !.pc = l]
             unknown == [k EXCEPT !.pc = "transition", !.goal = "write_status_unknown"]
  <1>0. /\ k \in CallType /\ k.req \in Requests /\ k.att = k.req.attempt /\ k.att \in Attempts
    BY LedgerAssumption DEF TypeInv, TypeOK, CallShape, Shape, RequestLabels, At, BeginAttempt, BeginAgain,
       ReconcileBegin, ProbeBegin, ResetStarted, UndoDiscard, ReconcileDiscard, PersistResult,
       ReconcilePersist, ProbePersist, MarkPersistenceUnknown, ReconcileFallback
  <1>1. /\ \A l \in Labels : goto(l).pc = l /\ goto(l).att = k.att
        /\ \A l \in {"finish_read", "rec_finish"} : \A result, shape :
             WithResult(k, l, result, shape).pc \notin UnresolvedLabels
        /\ Idle.pc \notin UnresolvedLabels /\ unknown.pc \notin UnresolvedLabels
    BY <1>0 DEF CallType, Idle, UnresolvedLabels, WithResult
  <1>2. /\ \A l \in {"admit", "rec_discard", "replay", "rebegin", "finish_read", "rec_finish"} :
             goto(l).pc \notin UnresolvedLabels
        /\ \A l \in {"observe", "probe_observe", "fallback"} : goto(l).pc = l /\ goto(l).att = k.att
    BY <1>1 DEF Labels, UnresolvedLabels
  <1> HIDE DEF goto, unknown
  <1>3. ASSUME NEW c, Become(p, c), c.pc \notin UnresolvedLabels, begin_insert(k.req)
        PROVE  FinalInv' /\ ClassifiedKept
    BY <1>0, <1>3, FinalInsert
  <1>4. ASSUME NEW c, Become(p, c), c.pc \notin UnresolvedLabels, UNCHANGED ledger
        PROVE  FinalInv' /\ ClassifiedKept
    BY <1>4, FinalQuiet
  <1>5. ASSUME NEW l \in {"observe", "probe_observe"}, Become(p, goto(l)), UNCHANGED ledger,
               NEW a \in Attempts, Replays(k.req, a), ledger[a].status \notin Classified
        PROVE  FinalInv' /\ ClassifiedKept
    <2>1. ledger[k.att].status \notin Classified
      BY <1>0, <1>5, ReplayIsOwn
    <2> QED BY <1>2, <1>5, <2>1, FinalQuiet
  <1>6. CASE BeginAttempt(p) \/ BeginAgain(p)
    BY <1>1, <1>2, <1>3, <1>4, <1>6 DEF BeginAttempt, BeginAgain, Return, Goto, goto
  <1>7. CASE ReconcileBegin(p)
    BY <1>1, <1>2, <1>3, <1>4, <1>5, <1>7 DEF ReconcileBegin, Return, Goto, goto
  <1>8. CASE ProbeBegin(p)
    <2>1. "started" \notin Classified
      BY DEF Classified, Results
    <2> QED BY <1>1, <1>2, <1>3, <1>4, <1>5, <1>8, <2>1 DEF ProbeBegin, Return, Goto, goto
  <1>9. CASE ResetStarted(p) \/ UndoDiscard(p) \/ ReconcileDiscard(p)
    BY <1>0, <1>1, <1>2, <1>9, FinalDiscard
       DEF ResetStarted, UndoDiscard, ReconcileDiscard, Return, Goto, goto
  <1>10. CASE \/ PersistResult(p) \/ ReconcilePersist(p) \/ ProbePersist(p)
              \/ MarkPersistenceUnknown(p) \/ ReconcileFallback(p)
    <2>1. k.pc \in UnresolvedLabels
      BY <1>10 DEF PersistResult, ReconcilePersist, ProbePersist, MarkPersistenceUnknown, ReconcileFallback,
         At, UnresolvedLabels
    <2>2. ASSUME NEW c, Become(p, c), c.pc \notin UnresolvedLabels,
                 \/ finish(k.att, k.res, k.shape) \/ finish(k.att, "unknown", "plain") \/ UNCHANGED ledger
          PROVE  FinalInv' /\ ClassifiedKept
      BY <1>0, <1>4, <2>1, <2>2, FinalFinish
    <2>3. CASE UNCHANGED ledger /\ Become(p, goto("fallback"))
      BY <1>2, <2>1, <2>3, FinalQuiet
    <2>4. CASE PersistResult(p)
      BY <1>1, <1>2, <2>2, <2>3, <2>4 DEF PersistResult, Return, Goto, goto
    <2>5. CASE ReconcilePersist(p) \/ ProbePersist(p)
      BY <1>1, <1>2, <2>2, <2>5 DEF ReconcilePersist, ProbePersist, Return, Goto, goto
    <2>6. CASE MarkPersistenceUnknown(p) \/ ReconcileFallback(p)
      BY <1>1, <2>2, <2>6 DEF MarkPersistenceUnknown, ReconcileFallback, mark_result_persistence_unknown, Return, unknown
    <2> QED BY <1>10, <2>4, <2>5, <2>6
  <1> QED BY <1>6, <1>7, <1>8, <1>9, <1>10

\* The other steps of a process; RepairInv says that what is dispatched is started.
LEMMA FinalOthers ==
  ASSUME OneProcess, TypeInv, RepairInv, FinalInv, NEW p \in Procs,
         \/ TransitionRead(p) \/ TransitionCas(p) \/ CheckBinding(p) \/ ReplayUnresolved(p) \/ AdmitExecution(p)
         \/ StartRead(p) \/ StartCas(p) \/ UndoRead(p) \/ Dispatch(p) \/ ExecutorReturns(p) \/ FinishExecution(p)
         \/ ObserveVerified(p) \/ ObserveUnresolved(p) \/ ReconcileRejected(p) \/ ReconcileFinish(p)
         \/ ProbeObserve(p)
         \/ (\E actor \in Actors : RepairRead(p, actor) \/ ResumeRead(p, actor))
         \/ RepairCas(p) \/ ResumeNextIsNew(p) \/ ResumeMatchesRepair(p) \/ ResumeCas(p)
  PROVE  FinalInv' /\ ClassifiedKept
  <1> DEFINE k == call[p]
             goto(l) == [k EXCEPT !.pc = l]
             target(goal) == [k EXCEPT !.pc = "transition", !.goal = goal]
             cas(l) == [k EXCEPT !.pc = l, !.snap = pstate]
             casTo(goal) == [k EXCEPT !.pc = "cas", !.snap = pstate, !.goal = goal]
  <1>0. /\ k \in CallType /\ UNCHANGED ledger
    BY DEF TypeInv, TypeOK, TransitionRead, TransitionCas, CheckBinding, ReplayUnresolved, AdmitExecution,
       StartRead, StartCas, UndoRead, Dispatch, ExecutorReturns, FinishExecution, ObserveVerified,
       ObserveUnresolved, ReconcileRejected, ReconcileFinish, ProbeObserve, RepairRead, ResumeRead,
       RepairCas, ResumeNextIsNew, ResumeMatchesRepair, ResumeCas
  <1>1. /\ \A l \in Labels : goto(l).pc = l /\ goto(l).att = k.att /\ cas(l).pc = l
        /\ \A goal : target(goal).pc \notin UnresolvedLabels /\ casTo(goal).pc \notin UnresolvedLabels
        /\ Idle.pc \notin UnresolvedLabels
        /\ \A l \in Labels : \A result, shape :
             WithResult(k, l, result, shape).pc = l /\ WithResult(k, l, result, shape).att = k.att
    BY <1>0 DEF CallType, WithResult, Idle, UnresolvedLabels
  <1>2. {"begin", "reset", "start_read", "start_cas", "dispatch", "undo", "undo_discard", "cas",
         "repair_cas", "resume_match", "resume_read", "resume_cas"} \subseteq Labels \ UnresolvedLabels
    BY DEF Labels, UnresolvedLabels
  <1> HIDE DEF goto, target, cas, casTo
  <1>3. ASSUME NEW c, Become(p, c), c.pc \notin UnresolvedLabels PROVE FinalInv' /\ ClassifiedKept
    BY <1>0, <1>3, FinalQuiet
  <1>4. ASSUME NEW c, Become(p, c), k.pc \in UnresolvedLabels, c.att = k.att PROVE FinalInv' /\ ClassifiedKept
    BY <1>0, <1>4, FinalQuiet
  <1>5. CASE Return(p)
    BY <1>1, <1>3, <1>5 DEF Return
  <1>6. CASE \/ CheckBinding(p) \/ AdmitExecution(p) \/ StartRead(p) \/ StartCas(p) \/ UndoRead(p)
             \/ ObserveUnresolved(p) \/ TransitionRead(p) \/ TransitionCas(p)
             \/ (\E actor \in Actors : RepairRead(p, actor) \/ ResumeRead(p, actor))
             \/ RepairCas(p) \/ ResumeNextIsNew(p) \/ ResumeMatchesRepair(p) \/ ResumeCas(p)
    <2>1. \/ Return(p)
          \/ \E l \in {"begin", "start_read", "dispatch", "undo", "undo_discard", "resume_match",
                       "resume_read"} : Become(p, goto(l))
          \/ \E l \in {"start_cas", "cas", "repair_cas", "resume_cas"} : Become(p, cas(l))
      BY <1>6 DEF CheckBinding, AdmitExecution, StartRead, StartCas, UndoRead, ObserveUnresolved,
         TransitionRead, TransitionCas, RepairRead, ResumeRead, RepairCas, ResumeNextIsNew,
         ResumeMatchesRepair, ResumeCas, Goto, goto, cas
    <2> QED BY <1>1, <1>2, <1>3, <1>5, <2>1
  <1>7. CASE ReplayUnresolved(p)
    <2>1. Return(p) \/ Become(p, goto("reset")) \/ Become(p, target("write_status_unknown"))
      BY <1>7 DEF ReplayUnresolved, Goto, goto, target
    <2> QED BY <1>1, <1>2, <1>3, <1>5, <2>1
  <1>8. CASE FinishExecution(p) \/ ReconcileFinish(p)
    BY <1>1, <1>3, <1>5, <1>8 DEF FinishExecution, ReconcileFinish, target, casTo
  <1>9. CASE Dispatch(p)
    <2>1. ledger[k.att].status \notin Classified /\ Become(p, goto("inflight"))
      BY <1>9 DEF Dispatch, At, RepairInv, Remembers, OwnerLabels, Classified, Results, Goto, goto
    <2> QED BY <1>0, <1>1, <2>1, FinalQuiet DEF Labels
  <1>10. CASE ExecutorReturns(p) \/ ObserveVerified(p) \/ ProbeObserve(p)
    <2>1. k.pc \in UnresolvedLabels
      BY <1>10 DEF ExecutorReturns, ObserveVerified, ProbeObserve, At, UnresolvedLabels
    <2>2. \/ Return(p)
          \/ \E l \in {"persist", "rec_persist", "probe_persist"} : \E result, shape :
               Become(p, WithResult(k, l, result, shape))
      BY <1>10 DEF ExecutorReturns, ObserveVerified, ProbeObserve
    <2> QED BY <1>1, <1>4, <1>5, <2>1, <2>2 DEF Labels
  <1>11. CASE ReconcileRejected(p)
    <2>1. k.pc \in UnresolvedLabels /\ (Return(p) \/ Become(p, goto("rec_fallback")))
      BY <1>11 DEF ReconcileRejected, At, UnresolvedLabels, Goto, goto
    <2> QED BY <1>1, <1>4, <1>5, <2>1 DEF Labels
  <1> QED BY <1>6, <1>7, <1>8, <1>9, <1>10, <1>11

\* Calls and crashes.
LEMMA FinalInvoke ==
  ASSUME OneProcess, TypeInv, FinalInv, NEW p \in Procs, Invoke(p) \/ Crash(p)
  PROVE  FinalInv' /\ ClassifiedKept
  <1>1. UNCHANGED ledger
    BY InvokeElsewhere
  <1>2. ASSUME NEW c, Become(p, c), c.pc \notin UnresolvedLabels PROVE FinalInv' /\ ClassifiedKept
    BY <1>1, <1>2, FinalQuiet
  <1>3. CASE Crash(p)
    BY <1>2, <1>3 DEF Crash, Return, Idle, UnresolvedLabels
  <1>4. ASSUME NEW r \in Requests, NEW actor \in Actors, Execute(p, r, actor) PROVE FinalInv' /\ ClassifiedKept
    BY <1>2, <1>4 DEF Execute, Enter, Idle, UnresolvedLabels
  <1>5. ASSUME NEW r \in Requests, NEW actor \in Actors, Reconcile(p, r, actor) PROVE FinalInv' /\ ClassifiedKept
    BY <1>2, <1>5 DEF Reconcile, Enter, Idle, UnresolvedLabels
  <1>6. ASSUME NEW t \in ManualTargets, NEW actor \in Actors, transition(p, t, actor)
        PROVE  FinalInv' /\ ClassifiedKept
    BY <1>2, <1>6 DEF transition, Enter, Idle, UnresolvedLabels
  <1>7. ASSUME NEW r \in Requests, Probe(p, r) PROVE FinalInv' /\ ClassifiedKept
    BY <1>2, <1>7 DEF Probe, Enter, Idle, UnresolvedLabels
  <1>8. ASSUME NEW a \in Attempts, CompleteRepair(p, a) PROVE FinalInv' /\ ClassifiedKept
    BY <1>2, <1>8 DEF CompleteRepair, Enter, Idle, UnresolvedLabels
  <1>9. ASSUME NEW prior \in Attempts, NEW next \in Attempts, Resume(p, prior, next)
        PROVE  FinalInv' /\ ClassifiedKept
    BY <1>2, <1>9 DEF Resume, Enter, Idle, UnresolvedLabels
  <1>10. ASSUME NEW actor \in Actors, AbortWithResiduals(p, actor) PROVE FinalInv' /\ ClassifiedKept
    BY <1>2, <1>10 DEF AbortWithResiduals, Enter, Idle, UnresolvedLabels
  <1> QED BY <1>3, <1>4, <1>5, <1>6, <1>7, <1>8, <1>9, <1>10 DEF Invoke

\* Every step of the one process.
LEMMA FinalNext ==
  ASSUME OneProcess, OneKey, TypeInv, RepairInv, FinalInv, [Next]_vars
  PROVE  FinalInv' /\ ClassifiedKept
  <1>1. CASE UNCHANGED vars
    BY <1>1 DEF vars, FinalInv, OwnRows, ClassifiedKept
  <1>2. ASSUME NEW p \in Procs, Proceed(p) \/ Invoke(p) \/ Crash(p) PROVE FinalInv' /\ ClassifiedKept
    BY <1>2, FinalLedgerActions, FinalOthers, FinalInvoke DEF Proceed
  <1> QED BY <1>1, <1>2 DEF Next

\* FinalInv is inductive for one process, given RepairInv.
LEMMA FinalInvariant ==
  ASSUME OneProcess, OneKey
  PROVE  Spec => []FinalInv
  <1>1. Init => FinalInv
    <2> SUFFICES ASSUME Init PROVE FinalInv OBVIOUS
    <2>1. Idle.pc \notin UnresolvedLabels /\ \A s \in Requests : s.attempt \in Attempts
      BY LedgerAssumption DEF Idle, UnresolvedLabels
    <2> QED BY <2>1 DEF Init, LedgerInit, FinalInv, OwnRows
  <1>2. TypeInv /\ RepairInv /\ FinalInv /\ [Next]_vars => FinalInv'
    BY OneProcess, OneKey, FinalNext
  <1> QED BY OneProcess, <1>1, <1>2, RepairInvariant, TypeInvariant, PTL DEF Spec

\* With one process, and callers that use an attempt id with one idempotency key, a
\* success or failure classification is never rewritten (ClassifiedIsFinal): finish
\* overwrites whatever the row holds, and is only reached for an unresolved attempt.
THEOREM ClassifiedIsFinalHolds ==
  ASSUME OneProcess, OneKey
  PROVE  Spec => ClassifiedIsFinal
  <1>1. TypeInv /\ RepairInv /\ FinalInv /\ [Next]_vars =>
          [\A a \in Attempts : ledger[a].status \in Classified => ledger'[a] = ledger[a]]_vars
    BY OneProcess, OneKey, FinalNext DEF ClassifiedKept
  <1> QED BY OneProcess, OneKey, <1>1, FinalInvariant, RepairInvariant, TypeInvariant, PTL
          DEF Spec, ClassifiedIsFinal

-----------------------------------------------------------------------------
\* Backups.

\* No write-ahead log of a killed process is left beside a restored database.
CleanLogs == StaleLogs = FALSE

\* What a database can hold, and a file of a backup directory.
StoreContents  == PathwayState \X (Attempts \cup {None}) \X (Attempts \cup {None})
LedgerContents == [Attempts -> Rows \cup {NoRow}]
Copies         == StoreContents \cup LedgerContents \cup {Torn, None}

\* No process is in an operation.
Asleep(k) == \A p \in Procs : k[p].pc = "idle"
Down == [p \in Procs |-> Idle]

\* The copies a manifest names are of one moment when no operation was under way, and
\* its attempts are those dispatched until then.
Consistent(m) ==
  LET s == m.digest["store"]
      l == m.digest["ledger"]
  IN  s \in StoreContents /\ l \in LedgerContents /\ Sound(m.ran, s[1], s[2], s[3], l, Down)

\* A manifest is written once, after its copies.
ManifestInv ==
  \A t \in Destinations : manifest[t] # None =>
    /\ manifest[t].ran \in SUBSET Attempts
    /\ Consistent(manifest[t])
    /\ \A db \in Databases : files[t][db] # None

\* The copies a backup has made so far are of what the databases hold, and it makes
\* none in a directory with a complete set.
CopiedSoFar ==
  mode = "backup" =>
    /\ manifest[dest] # None => pending = Databases
    /\ \A db \in Databases \ pending : files[dest][db] = Content(db)

\* The databases a restore has put back are those of the set.
RestoredSoFar ==
  mode = "restore" =>
    manifest[dest] # None /\ \A db \in Databases \ pending : Content(db) = manifest[dest].digest[db]

\* The inductive invariant.  While the runtime is not being restored its databases and
\* processes fit the history they are of.
BackupInv ==
  /\ TypeInv
  /\ known \in SUBSET Attempts
  /\ mode \in {"run", "backup", "restore"} /\ pending \in SUBSET Databases
  /\ files \in [Destinations -> [Databases -> Copies]]
  /\ DOMAIN manifest = Destinations
  /\ mode # "run" => dest \in Destinations /\ Asleep(call)
  /\ mode # "restore" => Held(known)
  /\ ManifestInv /\ CopiedSoFar /\ RestoredSoFar

\* What the databases hold is a content.
LEMMA ContentType ==
  ASSUME TypeInv
  PROVE  /\ Content("store") = <<pstate, bound, repaired>> /\ Content("store") \in StoreContents
         /\ Content("ledger") = ledger /\ Content("ledger") \in LedgerContents
         /\ \A db \in Databases : Content(db) \in Copies /\ Content(db) # None
  <1>1. Content("store") = <<pstate, bound, repaired>> /\ Content("ledger") = ledger
    BY DEF Content, storeVars
  <1>2. Content("store") \in StoreContents /\ Content("ledger") \in LedgerContents
    BY <1>1 DEF TypeInv, TypeOK, LedgerTypeOK, StoreContents, LedgerContents
  <1> QED BY <1>1, <1>2, BackupAssumption DEF Databases, Copies, StoreContents, LedgerContents

\* A runtime that is down has the types and the shape of calls.
LEMMA DownType ==
  /\ Down \in [Procs -> CallType]
  /\ \A p \in Procs : Shape(Down[p])
  /\ Asleep(Down)
  BY IdleType DEF Down, Asleep, Shape, Idle, RequestLabels, ResultLabels

\* Processes that are asleep own nothing.
LEMMA SoundAsleep ==
  ASSUME NEW ran, NEW s, NEW b, NEW r, NEW l, NEW k, Sound(ran, s, b, r, l, k), NEW n, Asleep(n)
  PROVE  Sound(ran, s, b, r, l, n)
  BY DEF Sound, RowInv, LocalInv, Asleep, OwnerLabels, ExecuteLabels

\* A step that leaves the runtime alone keeps what is said of it.
LEMMA RuntimeKept ==
  ASSUME BackupInv, UNCHANGED <<vars, known>>
  PROVE  /\ TypeInv' /\ known' \in SUBSET Attempts
         /\ \A db \in Databases : Content(db)' = Content(db)
         /\ mode # "restore" => Held(known)'
         /\ Asleep(call) => Asleep(call')
  BY DEF BackupInv, vars, storeVars, worldVars, TypeInv, TypeOK, LedgerTypeOK, CallShape, Held, Content

\* Steps that leave databases and processes alone and change no copy and no manifest.
LEMMA OnlyModes ==
  ASSUME BackupInv, UNCHANGED <<vars, known, files, manifest>>,
         mode' \in {"run", "backup", "restore"}, pending' \in SUBSET Databases,
         mode' # "run" => dest' \in Destinations /\ Asleep(call),
         mode' # "restore" => mode # "restore",
         CopiedSoFar', RestoredSoFar'
  PROVE  BackupInv'
  <1>1. ManifestInv'
    BY DEF BackupInv, ManifestInv
  <1> QED BY <1>1, RuntimeKept DEF BackupInv, vars

\* A step of the runtime: what it dispatches was not dispatched in this history.
LEMMA RunningStep ==
  ASSUME OneExecutor, BackupInv, Running
  PROVE  BackupInv' /\ \A a \in known : dispatched'[a] = dispatched[a]
  <1>1. TypeInv /\ known \in SUBSET Attempts /\ Held(known) /\ [Next]_vars /\ mode = "run"
    BY DEF BackupInv, Running
  <1>2. TypeInv'
    BY <1>1, TypeStep
  <1>3. ManifestInv' /\ CopiedSoFar' /\ RestoredSoFar'
    BY <1>1 DEF BackupInv, Running, ManifestInv, CopiedSoFar, RestoredSoFar
  <1>4. ASSUME known' \in SUBSET Attempts, HeldNext(known') PROVE BackupInv'
    <2>1. Held(known)'
      BY <1>4 DEF Held, HeldNext
    <2> QED BY <1>1, <1>2, <1>3, <1>4, <2>1 DEF BackupInv, Running
  <1>5. known' = known \cup {a \in Attempts : dispatched'[a] # dispatched[a]}
    BY DEF Running
  <1>6. CASE HeldNext(known) /\ UNCHANGED dispatched
    <2>1. known' = known
      BY <1>5, <1>6
    <2> QED BY <1>1, <1>4, <1>6, <2>1
  <1>7. ASSUME NEW x \in Attempts \ known, HeldNext(known \cup {x}),
               dispatched' = [dispatched EXCEPT ![x] = @ + 1]
        PROVE  BackupInv' /\ \A a \in known : dispatched'[a] = dispatched[a]
    <2>1. /\ \A a \in Attempts \ {x} : dispatched'[a] = dispatched[a]
          /\ dispatched'[x] # dispatched[x]
      BY <1>1, <1>7 DEF TypeInv, TypeOK
    <2>2. known' = known \cup {x}
      BY <1>5, <2>1
    <2> QED BY <1>1, <1>4, <1>7, <2>1, <2>2
  <1> QED BY <1>1, <1>6, <1>7, SoundNext

\* A copy is of what the database holds; it does not touch a complete set.
LEMMA CopyStep ==
  ASSUME BackupInv, NEW db \in Databases, CopyDatabase(db)
  PROVE  BackupInv'
  <1>1. /\ mode = "backup" /\ dest \in Destinations /\ files[dest][db] = None
        /\ files \in [Destinations -> [Databases -> Copies]]
        /\ files' = [files EXCEPT ![dest][db] = Content(db)]
        /\ UNCHANGED <<vars, known, mode, dest, manifest>> /\ pending' = pending \ {db}
    BY DEF BackupInv, CopyDatabase
  <1>2. Content(db) \in Copies
    BY ContentType DEF BackupInv
  <1>3. manifest[dest] = None
    BY <1>1 DEF BackupInv, ManifestInv
  <1>4. /\ files' \in [Destinations -> [Databases -> Copies]]
        /\ files'[dest][db] = Content(db)
        /\ \A d \in Databases \ {db} : files'[dest][d] = files[dest][d]
        /\ \A t \in Destinations \ {dest} : files'[t] = files[t]
    BY <1>1, <1>2
  <1>5. ManifestInv'
    BY <1>1, <1>3, <1>4 DEF BackupInv, ManifestInv
  <1>6. CopiedSoFar'
    BY <1>1, <1>3, <1>4, RuntimeKept DEF BackupInv, CopiedSoFar
  <1>7. RestoredSoFar'
    BY <1>1 DEF RestoredSoFar
  <1> QED BY <1>1, <1>4, <1>5, <1>6, <1>7, RuntimeKept DEF BackupInv

\* What is torn is neither absent nor, while a backup works with it, one of its copies.
LEMMA TornStep ==
  ASSUME BackupInv, NEW t \in Destinations, NEW db \in Databases,
         files' = [files EXCEPT ![t][db] = Torn], UNCHANGED <<vars, known, manifest>>,
         \/ manifest[t] # None /\ UNCHANGED <<mode, dest, pending>>
         \/ mode = "backup" /\ EndBackup
  PROVE  BackupInv'
  <1>1. /\ files' \in [Destinations -> [Databases -> Copies]]
        /\ files'[t][db] = Torn
        /\ \A d \in Databases \ {db} : files'[t][d] = files[t][d]
        /\ \A u \in Destinations \ {t} : files'[u] = files[u]
    BY DEF BackupInv, Copies
  <1>2. ManifestInv'
    BY <1>1, BackupAssumption DEF BackupInv, ManifestInv
  <1>3. CASE manifest[t] # None /\ UNCHANGED <<mode, dest, pending>>
    <2>1. CopiedSoFar'
      BY <1>1, <1>3, RuntimeKept DEF BackupInv, CopiedSoFar
    <2>2. RestoredSoFar'
      BY <1>3, RuntimeKept DEF BackupInv, RestoredSoFar
    <2> QED BY <1>1, <1>2, <1>3, <2>1, <2>2, RuntimeKept DEF BackupInv
  <1>4. CASE mode = "backup" /\ EndBackup
    BY <1>1, <1>2, <1>4, RuntimeKept DEF BackupInv, EndBackup, CopiedSoFar, RestoredSoFar
  <1> QED BY <1>3, <1>4

\* The manifest names copies of one moment: the databases did not change since the
\* backup began.
LEMMA ManifestStep ==
  ASSUME BackupInv, WriteManifest
  PROVE  BackupInv'
  <1>1. /\ mode = "backup" /\ pending = {} /\ dest \in Destinations
        /\ manifest' = [manifest EXCEPT ![dest] = Manifest] /\ EndBackup
        /\ UNCHANGED <<vars, known, files>> /\ TypeInv /\ Held(known) /\ known \in SUBSET Attempts
    BY DEF BackupInv, WriteManifest
  <1>2. \A db \in Databases : files[dest][db] = Content(db) /\ files[dest][db] # None
    BY <1>1, ContentType DEF BackupInv, CopiedSoFar
  <1>3. Manifest.ran = known /\ Manifest.digest = files[dest]
    BY DEF Manifest
  <1>4. Consistent(Manifest)
    <2>1. Sound(known, pstate, bound, repaired, ledger, Down)
      BY <1>1, SoundAsleep, DownType DEF Held
    <2>2. files[dest]["store"] = <<pstate, bound, repaired>> /\ files[dest]["ledger"] = ledger
      BY <1>1, <1>2, ContentType DEF Databases
    <2>3. files[dest]["store"] \in StoreContents /\ files[dest]["ledger"] \in LedgerContents
      BY <1>1, <1>2, ContentType DEF Databases
    <2> QED BY <1>3, <2>1, <2>2, <2>3 DEF Consistent
  <1>5. /\ manifest'[dest] = Manifest /\ DOMAIN manifest' = Destinations
        /\ \A t \in Destinations \ {dest} : manifest'[t] = manifest[t]
    BY <1>1 DEF BackupInv
  <1>6. ManifestInv'
    <2> SUFFICES ASSUME NEW t \in Destinations, manifest'[t] # None
                 PROVE  /\ manifest'[t].ran \in SUBSET Attempts
                        /\ Consistent(manifest'[t])
                        /\ \A db \in Databases : files'[t][db] # None
      BY DEF ManifestInv, Consistent
    <2>1. CASE t = dest
      BY <1>1, <1>2, <1>3, <1>4, <1>5, <2>1
    <2>2. CASE t # dest
      BY <1>1, <1>5, <2>2 DEF BackupInv, ManifestInv
    <2> QED BY <2>1, <2>2
  <1> QED BY <1>1, <1>5, <1>6, RuntimeKept DEF BackupInv, EndBackup, CopiedSoFar, RestoredSoFar

\* The runtime is taken down: what it was doing is gone.
LEMMA TakenDown ==
  ASSUME BackupInv, NEW t \in Destinations, StartRestore(t)
  PROVE  BackupInv'
  <1>1. /\ manifest[t] # None /\ call' = Down /\ mode' = "restore" /\ dest' = t /\ pending' = Databases
        /\ UNCHANGED <<pstate, bound, repaired, ledger, dispatched, applied, crashes, files, manifest, known>>
    BY DEF StartRestore, Down, storeVars, worldVars
  <1>2. TypeInv'
    <2>1. TypeInv
      BY DEF BackupInv
    <2> QED BY <1>1, <2>1, DownType DEF TypeInv, TypeOK, LedgerTypeOK, CallShape
  <1>3. ManifestInv'
    BY <1>1 DEF BackupInv, ManifestInv
  <1> QED BY <1>1, <1>2, <1>3, DownType DEF BackupInv, CopiedSoFar, RestoredSoFar

\* A database that is put back holds what the manifest names, since its copy has that
\* digest; the other one is left alone.
LEMMA RestoreStep ==
  ASSUME CleanLogs, BackupInv, NEW db \in Databases, RestoreDatabase(db)
  PROVE  BackupInv'
  <1> DEFINE d == manifest[dest].digest
  <1>1. /\ mode = "restore" /\ dest \in Destinations /\ Asleep(call) /\ manifest[dest] # None
        /\ pending \in SUBSET Databases /\ pending' = pending \ {db}
        /\ UNCHANGED <<call, dispatched, applied, crashes, mode, dest, files, manifest, known>>
    BY DEF BackupInv, RestoreDatabase, RestoredSoFar, worldVars
  <1>2. d["store"] \in StoreContents /\ d["ledger"] \in LedgerContents
    BY <1>1 DEF BackupInv, ManifestInv, Consistent
  <1>3. Replace(db, d[db])
    BY DEF RestoreDatabase, AfterRestore, Verified, CleanLogs
  <1> HIDE DEF d
  <1>4. TypeInv' /\ \A x \in Databases \ pending' : Content(x)' = d[x]
    <2>1. TypeInv
      BY DEF BackupInv
    <2>2. \A x \in Databases \ pending : Content(x) = d[x]
      BY <1>1 DEF BackupInv, RestoredSoFar, d
    <2>3. CASE db = "store"
      <3>1. /\ UNCHANGED ledger /\ <<pstate', bound', repaired'>> = d["store"]
            /\ pstate' \in PathwayState /\ bound' \in Attempts \cup {None} /\ repaired' \in Attempts \cup {None}
        BY <1>2, <1>3, <2>3 DEF Replace, StoreContents
      <3>2. TypeInv'
        BY <1>1, <2>1, <3>1 DEF TypeInv, TypeOK, LedgerTypeOK, CallShape
      <3>3. Content("store")' = d["store"] /\ Content("ledger")' = Content("ledger")
        BY <3>1 DEF Content, storeVars
      <3> QED BY <1>1, <2>2, <2>3, <3>2, <3>3 DEF Databases
    <2>4. CASE db = "ledger"
      <3>1. UNCHANGED <<pstate, bound, repaired>> /\ ledger' = d["ledger"]
        BY <1>3, <2>4 DEF Replace, storeVars
      <3>2. TypeInv'
        BY <1>1, <1>2, <2>1, <3>1 DEF TypeInv, TypeOK, LedgerTypeOK, CallShape, LedgerContents
      <3>3. Content("ledger")' = d["ledger"] /\ Content("store")' = Content("store")
        BY <3>1 DEF Content, storeVars
      <3> QED BY <1>1, <2>2, <2>4, <3>2, <3>3 DEF Databases
    <2> QED BY <2>3, <2>4 DEF Databases
  <1>5. RestoredSoFar'
    BY <1>1, <1>4 DEF RestoredSoFar, d
  <1>6. ManifestInv'
    BY <1>1 DEF BackupInv, ManifestInv
  <1> QED BY <1>1, <1>4, <1>5, <1>6 DEF BackupInv, CopiedSoFar

\* The runtime is opened on databases of one moment, with the history of that moment.
LEMMA ReopenStep ==
  ASSUME BackupInv, Reopen
  PROVE  BackupInv'
  <1>1. /\ mode = "restore" /\ pending = {} /\ dest \in Destinations /\ Asleep(call)
        /\ manifest[dest] # None /\ mode' = "run" /\ known' = manifest[dest].ran
        /\ UNCHANGED <<vars, pending, files, manifest>> /\ TypeInv
    BY DEF BackupInv, Reopen, RestoredSoFar
  <1>2. Consistent(manifest[dest]) /\ known' \in SUBSET Attempts
    BY <1>1 DEF BackupInv, ManifestInv
  <1>3. <<pstate, bound, repaired>> = manifest[dest].digest["store"] /\ ledger = manifest[dest].digest["ledger"]
    BY <1>1, ContentType DEF BackupInv, RestoredSoFar, Databases
  <1>4. Sound(known', pstate, bound, repaired, ledger, call)
    <2> DEFINE s == manifest[dest].digest["store"]
    <2>1. Sound(known', s[1], s[2], s[3], ledger, Down)
      BY <1>1, <1>2, <1>3 DEF Consistent
    <2>2. s = <<pstate, bound, repaired>>
      BY <1>3
    <2> HIDE DEF s
    <2>3. s[1] = pstate /\ s[2] = bound /\ s[3] = repaired
      BY <2>2
    <2> QED BY <1>1, <2>1, <2>3, SoundAsleep
  <1>5. Held(known)'
    BY <1>1, <1>4 DEF Held, vars
  <1>6. TypeInv'
    BY <1>1 DEF TypeInv, TypeOK, LedgerTypeOK, CallShape, vars
  <1>7. ManifestInv'
    BY <1>1 DEF BackupInv, ManifestInv
  <1> QED BY <1>1, <1>2, <1>5, <1>6, <1>7 DEF BackupInv, CopiedSoFar, RestoredSoFar

\* The inductive step, and what it means for dispatches.
LEMMA BackupStep ==
  ASSUME OneExecutor, CleanLogs, BackupInv, [BackupNext]_allVars
  PROVE  BackupInv' /\ [\A a \in known : dispatched'[a] = dispatched[a]]_allVars
  <1>1. CASE Running
    BY <1>1, RunningStep
  <1>2. ASSUME NEW t \in Destinations, StartBackup(t) PROVE BackupInv' /\ UNCHANGED dispatched
    <2>1. BackupInv'
      <3>1. Asleep(call)
        BY <1>2 DEF StartBackup, At, Asleep, BackupInv
      <3> QED BY <1>2, <3>1, OnlyModes DEF StartBackup, CopiedSoFar, RestoredSoFar
    <2> QED BY <1>2, <2>1 DEF StartBackup, vars
  <1>3. ASSUME NEW t \in Destinations, StartRestore(t) PROVE BackupInv' /\ UNCHANGED dispatched
    BY <1>3, TakenDown DEF StartRestore, worldVars
  <1>4. ASSUME NEW t \in Destinations, NEW db \in Databases, Decay(t, db)
        PROVE  BackupInv' /\ UNCHANGED dispatched
    BY <1>4, TornStep DEF Decay, vars
  <1>5. ASSUME NEW db \in Databases, CopyDatabase(db) PROVE BackupInv' /\ UNCHANGED dispatched
    BY <1>5, CopyStep DEF CopyDatabase, vars
  <1>6. ASSUME NEW db \in Databases, CopyRefused(db) PROVE BackupInv' /\ UNCHANGED dispatched
    <2>1. BackupInv'
      BY <1>6, OnlyModes DEF CopyRefused, EndBackup, CopiedSoFar, RestoredSoFar
    <2> QED BY <1>6, <2>1 DEF CopyRefused, vars
  <1>7. ASSUME NEW db \in Databases, RestoreDatabase(db) PROVE BackupInv' /\ UNCHANGED dispatched
    BY <1>7, RestoreStep DEF RestoreDatabase, worldVars
  <1>8. CASE BackupInterrupted
    <2>1. UNCHANGED <<vars, manifest, known>> /\ mode = "backup" /\ EndBackup /\ dest \in Destinations
      BY <1>8 DEF BackupInterrupted, BackupInv
    <2>2. CASE files' = files
      BY <2>1, <2>2, OnlyModes DEF EndBackup, CopiedSoFar, RestoredSoFar, vars
    <2>3. ASSUME NEW db \in Databases, files' = [files EXCEPT ![dest][db] = Torn]
          PROVE  BackupInv'
      BY <2>1, <2>3, TornStep
    <2>4. pending \subseteq Databases
      BY DEF BackupInv
    <2> QED BY <1>8, <2>1, <2>2, <2>3, <2>4 DEF BackupInterrupted, vars
  <1>9. CASE WriteManifest
    BY <1>9, ManifestStep DEF WriteManifest, vars
  <1>10. CASE Reopen
    BY <1>10, ReopenStep DEF Reopen, vars
  <1>11. CASE UNCHANGED allVars
    <2>1. BackupInv'
      <3>1. UNCHANGED <<vars, known, files, manifest, mode, dest, pending>>
        BY <1>11 DEF allVars, backupVars
      <3>2. CopiedSoFar' /\ RestoredSoFar'
        BY <3>1, RuntimeKept DEF BackupInv, CopiedSoFar, RestoredSoFar
      <3> QED BY <3>1, <3>2, OnlyModes DEF BackupInv
    <2> QED BY <1>11, <2>1
  <1>12. UNCHANGED dispatched => \A a \in known : dispatched'[a] = dispatched[a]
    OBVIOUS
  <1> QED BY <1>1, <1>2, <1>3, <1>4, <1>5, <1>6, <1>7, <1>8, <1>9, <1>10, <1>11, <1>12 DEF BackupNext

\* At first nothing was dispatched and nothing copied.
LEMMA BackupInitial == BackupInit => BackupInv
  <1> SUFFICES ASSUME BackupInit PROVE BackupInv
    OBVIOUS
  <1>1. TypeInv /\ Held({})
    <2>1. TypeInv /\ DispatchInv
      BY TypeInit, DispatchInit DEF BackupInit
    <2>2. Ran = {}
      BY DEF BackupInit, Init, Ran
    <2> QED BY <2>1, <2>2, DispatchInvIsHeld
  <1>2. files \in [Destinations -> [Databases -> Copies]]
    BY DEF BackupInit, NoFiles, Copies
  <1>3. ManifestInv
    BY DEF BackupInit, ManifestInv
  <1> QED BY <1>1, <1>2, <1>3 DEF BackupInit, BackupInv, CopiedSoFar, RestoredSoFar

\* What was dispatched in the history the databases are of is not dispatched again
\* after a restore (RestoredDispatchesOnce), for any number of directories, attempts,
\* backups and restores that are refused, interrupted, repeated or mixed, and copies that
\* decay, as long as one process executes and no write-ahead log is left behind.
THEOREM RestoredDispatchesOnceHolds ==
  ASSUME OneExecutor, CleanLogs
  PROVE  BackupSpec => RestoredDispatchesOnce
  <1>1. BackupInit => BackupInv
    BY BackupInitial
  <1>2. BackupInv /\ [BackupNext]_allVars
          => BackupInv' /\ [\A a \in known : dispatched'[a] = dispatched[a]]_allVars
    BY OneExecutor, CleanLogs, BackupStep
  <1> QED BY <1>1, <1>2, PTL DEF BackupSpec, RestoredDispatchesOnce

=============================================================================
