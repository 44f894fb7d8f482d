--------------------------- MODULE LifecycleProofs ---------------------------
(***************************************************************************)
(* Whatever fails and however often, a shutdown reports only what is true  *)
(* and always tries to close the pipes, and a failed constructor leaves a  *)
(* process behind in two cases only.                                       *)
(***************************************************************************)
EXTENDS McpLifecycle, TLAPS

\* Where shutdown is once close_stdin has set its flag.
PastStdin == {"wait_graceful", "terminate", "wait_terminate", "kill", "wait_kill"}

\* An exit is noted for a process that has exited, with stdin closed, and after it
\* only the pipes remain to be closed.
NotedExit == pending # None => proc = "exited" /\ stdin_closed /\ pc \in {"close_pipes", "idle"}

\* An error leads to the finally clause, and a result ends the shutdown.
ErrorLeadsOut == (error => pc \in {"close_pipes", "idle"}) /\ (result # None => pc = "idle")

\* The inductive invariant.
LifecycleInv ==
  /\ TypeOK
  /\ ResultIsTrue
  /\ PipesAlwaysClosed
  /\ NoOrphan
  /\ pc = "spawn" => proc = "none"
  /\ pc = "reap" => "kill" \in signals
  /\ pc \in PastStdin => stdin_closed
  /\ NotedExit
  /\ ErrorLeadsOut

\* A subprocess that is yet to be spawned satisfies the invariant.
LEMMA LifecycleInitially == Init => LifecycleInv
  <1> SUFFICES ASSUME Init PROVE LifecycleInv
    OBVIOUS
  <1>1. obeys \subseteq {"eof", "term"} /\ faults \in 0..MaxFaults
    BY LifecycleAssumption DEF Init
  <1>2. TypeOK
    BY <1>1 DEF Init, TypeOK
  <1> QED
    BY <1>2 DEF Init, LifecycleInv, ResultIsTrue, PipesAlwaysClosed, NoOrphan, PastStdin, NotedExit,
                ErrorLeadsOut, Causes

\* A failing operation is within the bound.
LEMMA FaultType ==
  ASSUME faults \in 0..MaxFaults, Fault
  PROVE  faults' \in 0..MaxFaults
  BY LifecycleAssumption DEF Fault

\* Every step of the owner and of the process keeps the invariant.
LEMMA LifecycleStep == LifecycleInv /\ [Next]_vars => LifecycleInv'
  <1> SUFFICES ASSUME LifecycleInv, [Next]_vars PROVE LifecycleInv'
    OBVIOUS
  <1> USE FaultType
  <1> USE DEF LifecycleInv, TypeOK, ResultIsTrue, PipesAlwaysClosed, NoOrphan, PastStdin, NotedExit,
              ErrorLeadsOut, handle, Causes, Fail
  <1>1. CASE Spawn         BY <1>1 DEF Spawn
  <1>2. CASE Register
    <2>1. faults' \in 0..MaxFaults   BY <1>2, LifecycleAssumption DEF Register
    <2>2. TypeOK'                    BY <1>2, <2>1 DEF Register
    <2> QED                          BY <1>2, <2>2 DEF Register
  <1>3. CASE Reap          BY <1>3 DEF Reap
  <1>14. CASE Selector     BY <1>14 DEF Selector
  <1>4. CASE Shutdown      BY <1>4 DEF Shutdown
  <1>5. CASE CloseStdin
    <2>1. faults' \in 0..MaxFaults   BY <1>5 DEF CloseStdin, Raise
    <2>2. TypeOK'                    BY <1>5, <2>1 DEF CloseStdin, Raise
    <2> QED                          BY <1>5, <2>2 DEF CloseStdin, Raise
  <1>6. CASE WaitGraceful
    <2>1. faults' \in 0..MaxFaults   BY <1>6 DEF WaitGraceful, Wait, Raise, Exits
    <2>2. TypeOK'                    BY <1>6, <2>1 DEF WaitGraceful, Wait, Raise, Exits
    <2> QED                          BY <1>6, <2>2 DEF WaitGraceful, Wait, Raise, Exits
  <1>7. CASE WaitTerminate
    <2>1. faults' \in 0..MaxFaults   BY <1>7 DEF WaitTerminate, Wait, Raise, Exits
    <2>2. TypeOK'                    BY <1>7, <2>1 DEF WaitTerminate, Wait, Raise, Exits
    <2> QED                          BY <1>7, <2>2 DEF WaitTerminate, Wait, Raise, Exits
  <1>8. CASE WaitKill
    <2>1. faults' \in 0..MaxFaults   BY <1>8 DEF WaitKill, Wait, Raise, Exits
    <2>2. TypeOK'                    BY <1>8, <2>1 DEF WaitKill, Wait, Raise, Exits
    <2> QED                          BY <1>8, <2>2 DEF WaitKill, Wait, Raise, Exits
  <1>9. CASE Terminate
    <2>1. faults' \in 0..MaxFaults   BY <1>9 DEF Terminate, Signal, Raise
    <2>2. TypeOK'                    BY <1>9, <2>1 DEF Terminate, Signal, Raise
    <2> QED                          BY <1>9, <2>2 DEF Terminate, Signal, Raise
  <1>10. CASE Kill
    <2>1. faults' \in 0..MaxFaults   BY <1>10 DEF Kill, Signal, Raise
    <2>2. TypeOK'                    BY <1>10, <2>1 DEF Kill, Signal, Raise
    <2> QED                          BY <1>10, <2>2 DEF Kill, Signal, Raise
  <1>11. CASE ClosePipes
    <2>1. faults' \in 0..MaxFaults   BY <1>11 DEF ClosePipes, Exits
    <2>2. TypeOK'                    BY <1>11, <2>1 DEF ClosePipes, Exits
    <2> QED                          BY <1>11, <2>2 DEF ClosePipes, Exits
  <1>12. CASE Exit         BY <1>12 DEF Exit
  <1>13. CASE UNCHANGED vars BY <1>13 DEF vars
  <1> QED BY <1>1, <1>2, <1>3, <1>4, <1>5, <1>6, <1>7, <1>8, <1>9, <1>10, <1>11, <1>12, <1>13, <1>14
          DEF Next, OwnerStep

\* LifecycleInv holds in every behaviour of the subprocess and its owner.
THEOREM LifecycleInvHolds == Spec => []LifecycleInv
  BY LifecycleInitially, LifecycleStep, PTL DEF Spec

\* A shutdown result is reported and kept only for a process that has exited and
\* whose stdin and pipes are closed (McpSubprocessLifecycle.shutdown).
THEOREM ResultIsTrueHolds == Spec => []ResultIsTrue
  BY LifecycleInvHolds, PTL DEF LifecycleInv

\* However a shutdown ends, its finally clause has tried to close the pipes.
THEOREM PipesAlwaysClosedHolds == Spec => []PipesAlwaysClosed
  BY LifecycleInvHolds, PTL DEF LifecycleInv

\* A constructor that raises leaves a process running only after DefaultSelector or a
\* kill that failed, or a process it has killed after a wait that failed.
THEOREM NoOrphanHolds == Spec => []NoOrphan
  BY LifecycleInvHolds, PTL DEF LifecycleInv

=============================================================================
