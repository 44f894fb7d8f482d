---------------------------- MODULE McpLifecycle ----------------------------
(***************************************************************************)
(* Starting and stopping the subprocess of an MCP server: the constructor  *)
(* and the process operations of McpLocalSubprocessStdio                   *)
(* (mcp_local_subprocess_stdio.py) under the bounded shutdown of           *)
(* McpSubprocessLifecycle (mcp_subprocess_lifecycle.py).  The process runs *)
(* on its own meanwhile; every operation on it may fail.                   *)
(***************************************************************************)
EXTENDS Naturals

CONSTANTS
  MaxFaults,  \* bound on failing operations
  None

ASSUME LifecycleAssumption == MaxFaults \in Nat

VARIABLES
  pc,        \* what the owner of the handle does next
  proc,      \* the process: "none", "running" or "exited"
  obeys,     \* what makes it exit, besides a kill: "eof" of stdin, "term"
  signals,   \* the signals sent to it
  stdin_closed, pipes_closed,   \* the flags of the handle
  pending,   \* the McpProcessExit of this shutdown so far
  error,     \* primary_error is set
  result,    \* McpSubprocessLifecycle._result
  cause,     \* the operation whose exception the constructor raised
  attempted, \* close_pipes was called since the latest shutdown began
  faults

handle == <<stdin_closed, pipes_closed>>
vars == <<pc, proc, obeys, signals, handle, pending, error, result, cause, attempted, faults>>

\* The operations of the constructor that may raise: _register, with its cleanup by
\* kill and wait, is called for stdout and for stderr.
Causes == {"Popen", "DefaultSelector", "register", "kill", "wait"}

\* graceful, terminated, or terminated and killed
Exits == {"graceful", "terminated", "killed"}

TypeOK ==
  /\ pc \in {"spawn", "selector", "register", "reap", "failed", "idle", "close_stdin", "wait_graceful",
             "terminate", "wait_terminate", "kill", "wait_kill", "close_pipes"}
  /\ proc \in {"none", "running", "exited"}
  /\ obeys \subseteq {"eof", "term"} /\ signals \subseteq {"term", "kill"}
  /\ stdin_closed \in BOOLEAN /\ pipes_closed \in BOOLEAN
  /\ error \in BOOLEAN /\ attempted \in BOOLEAN
  /\ pending \in Exits \cup {None} /\ result \in Exits \cup {None}
  /\ cause \in Causes \cup {None}
  /\ faults \in 0..MaxFaults

Init ==
  /\ pc = "spawn" /\ proc = "none" /\ signals = {}
  /\ obeys \in SUBSET {"eof", "term"}
  /\ stdin_closed = FALSE /\ pipes_closed = FALSE
  /\ pending = None /\ error = FALSE /\ result = None /\ cause = None /\ attempted = FALSE
  /\ faults = 0

Fault == faults < MaxFaults /\ faults' = faults + 1

-----------------------------------------------------------------------------
\* The constructor

Fail(operation) == pc' = "failed" /\ cause' = operation

Spawn ==
  /\ pc = "spawn"
  /\ \/ proc' = "running" /\ pc' = "selector" /\ UNCHANGED <<cause, faults>>
     \/ Fault /\ Fail("Popen") /\ UNCHANGED proc
  /\ UNCHANGED <<obeys, signals, handle, pending, error, result, attempted>>

\* selectors.DefaultSelector() is called outside every try, with the process running.
Selector ==
  /\ pc = "selector"
  /\ \/ pc' = "register" /\ UNCHANGED <<cause, faults>>
     \/ Fault /\ Fail("DefaultSelector")
  /\ UNCHANGED <<proc, obeys, signals, handle, pending, error, result, attempted>>

\* Mutant: the constructor raises and leaves the process alone.
RegisterAndForget ==
  /\ pc = "register"
  /\ \/ pc' = "idle" /\ UNCHANGED <<signals, cause, faults>>
     \/ Fault /\ Fail("register") /\ UNCHANGED signals
  /\ UNCHANGED <<proc, obeys, handle, pending, error, result, attempted>>

\* The selector takes both pipes, or the process is killed, unless that fails too.
Register ==
  /\ pc = "register"
  /\ \/ pc' = "idle" /\ UNCHANGED <<signals, cause, faults>>
     \/ Fault /\ pc' = "reap" /\ signals' = signals \cup {"kill"} /\ UNCHANGED cause
     \/ faults + 1 < MaxFaults /\ faults' = faults + 2 /\ Fail("kill") /\ UNCHANGED signals
  /\ UNCHANGED <<proc, obeys, handle, pending, error, result, attempted>>

\* process.wait() without a timeout, then the exception of register; or wait fails.
Reap ==
  /\ pc = "reap"
  /\ \/ proc = "exited" /\ Fail("register") /\ UNCHANGED faults
     \/ Fault /\ Fail("wait")
  /\ UNCHANGED <<proc, obeys, signals, handle, pending, error, result, attempted>>

-----------------------------------------------------------------------------
\* shutdown; with a result from an earlier call it only returns that.

Shutdown ==
  /\ pc = "idle" /\ result = None
  /\ pc' = "close_stdin"
  /\ pending' = None /\ error' = FALSE /\ attempted' = FALSE
  /\ UNCHANGED <<proc, obeys, signals, handle, result, cause, faults>>

\* An operation raised: the finally clause comes next.
Raise == pc' = "close_pipes" /\ error' = TRUE

\* Mutant: the flag is set after the pipe is closed, and a broken pipe stays.
CloseStdinLate ==
  /\ pc = "close_stdin"
  /\ \/ pc' = "wait_graceful" /\ stdin_closed' = TRUE /\ UNCHANGED <<error, faults>>
     \/ ~ stdin_closed /\ Raise /\ UNCHANGED <<stdin_closed, faults>>
  /\ UNCHANGED <<proc, obeys, signals, pipes_closed, pending, result, cause, attempted>>

\* The flag is set before the pipe is closed.
CloseStdin ==
  /\ pc = "close_stdin"
  /\ stdin_closed' = TRUE
  /\ \/ pc' = "wait_graceful" /\ UNCHANGED <<error, faults>>
     \/ ~ stdin_closed /\ Fault /\ Raise
  /\ UNCHANGED <<proc, obeys, signals, pipes_closed, pending, result, cause, attempted>>

\* handle.wait: the exit, a TimeoutError that leads on, or another exception.
Wait(here, exit, onTimeout) ==
  /\ pc = here
  /\ \/ proc = "exited" /\ pending' = exit /\ pc' = "close_pipes" /\ UNCHANGED <<error, faults>>
     \/ proc = "running" /\ onTimeout /\ UNCHANGED <<pending, faults>>
     \/ Fault /\ Raise /\ UNCHANGED pending
  /\ UNCHANGED <<proc, obeys, signals, handle, result, cause, attempted>>

WaitGraceful  == Wait("wait_graceful", "graceful", pc' = "terminate" /\ UNCHANGED error)
WaitTerminate == Wait("wait_terminate", "terminated", pc' = "kill" /\ UNCHANGED error)
WaitKill      == Wait("wait_kill", "killed", Raise)

\* terminate and kill; signalling a process that is gone does nothing.
Signal(here, signal, next) ==
  /\ pc = here
  /\ \/ signals' = signals \cup {signal} /\ pc' = next /\ UNCHANGED <<error, faults>>
     \/ Fault /\ Raise /\ UNCHANGED signals
  /\ UNCHANGED <<proc, obeys, handle, pending, result, cause, attempted>>

Terminate == Signal("terminate", "term", "wait_terminate")
Kill      == Signal("kill", "kill", "wait_kill")

\* Mutant: a failing cleanup is ignored, and so is an earlier error.
ClosePipesQuietly ==
  /\ pc = "close_pipes"
  /\ pipes_closed' = TRUE /\ attempted' = TRUE
  /\ UNCHANGED <<error, faults>>
  /\ result' = IF pending = None THEN "killed" ELSE pending
  /\ pc' = "idle"
  /\ UNCHANGED <<proc, obeys, signals, stdin_closed, pending, cause>>

\* The finally clause and the end of shutdown: a result is kept only when nothing
\* failed.  The flag is set before the pipes are closed.
ClosePipes ==
  /\ pc = "close_pipes"
  /\ pipes_closed' = TRUE /\ attempted' = TRUE
  /\ \/ UNCHANGED <<error, faults>>
     \/ ~ pipes_closed /\ Fault /\ error' = TRUE
  /\ result' = IF error' THEN None ELSE pending
  /\ pc' = "idle"
  /\ UNCHANGED <<proc, obeys, signals, stdin_closed, pending, cause>>

OwnerStep ==
  \/ Spawn \/ Selector \/ Register \/ Reap
  \/ CloseStdin \/ WaitGraceful \/ Terminate \/ WaitTerminate \/ Kill \/ WaitKill \/ ClosePipes

-----------------------------------------------------------------------------
\* The process: it exits when told in a way it obeys, or on its own.
Obeyed == ("eof" \in obeys /\ stdin_closed) \/ (signals \cap (obeys \cup {"kill"}) # {})

Exit ==
  /\ proc = "running" /\ proc' = "exited"
  /\ UNCHANGED <<pc, obeys, signals, handle, pending, error, result, cause, attempted, faults>>

Next == OwnerStep \/ Shutdown \/ Exit

Spec == Init /\ [][Next]_vars

\* The owner's thread runs on, a killed process dies, and a caller whose shutdown
\* raised calls it again.
FairSpec ==
  /\ Spec
  /\ WF_vars(OwnerStep) /\ WF_vars(Shutdown)
  /\ WF_vars(Obeyed /\ Exit)

-----------------------------------------------------------------------------
\* A shutdown result is only reported, and kept, for a process that has exited
\* and whose stdin and pipes are closed.
ResultIsTrue == result # None => proc = "exited" /\ stdin_closed /\ pipes_closed

\* Whichever way a shutdown ends, it tried to close the pipes.
PipesAlwaysClosed == pc = "idle" /\ (error \/ result # None) => attempted /\ pipes_closed

\* A constructor that raises leaves a process running only when DefaultSelector
\* raised, which nothing guards, or when kill did; after a failed wait it was killed.
NoOrphan ==
  pc = "failed" /\ proc = "running" =>
    cause \in {"DefaultSelector", "kill"} \/ (cause = "wait" /\ "kill" \in signals)

\* However many operations fail, the constructor raises or repeated shutdowns come
\* to a result: an error in one step never blocks the next call.
RetriesSucceed == <>(pc = "failed" \/ result # None)

=============================================================================
