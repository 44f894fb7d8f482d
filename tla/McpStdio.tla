------------------------------ MODULE McpStdio ------------------------------
(***************************************************************************)
(* A tool call over the stdio of a local MCP server: the executor of       *)
(* mcp_tool_executor.py, the JSON-RPC session of mcp_jsonrpc_session.py,   *)
(* the channel of mcp_stdio_channel.py, the line codec of                  *)
(* mcp_stdio_framing.py and the pipes of mcp_local_subprocess_stdio.py.    *)
(* Each pipe carries tokens: a line is the head of a message and the tail  *)
(* that ends it, and a write or a read may stop between the two.           *)
(***************************************************************************)
EXTENDS Integers, Sequences, FiniteSets

CONSTANTS
  Modes,            \* the values of the executor's require_readback
  MaxCalls,         \* bound on the calls made through the session
  MaxEvents,        \* max_events_per_exchange
  MaxLine,          \* max_message_bytes, in tokens
  MaxNoise,         \* bound on the lines the server emits unasked
  PipeSize,         \* what the pipe to the server holds, in tokens
  None

\* Request ids; first_request_id is 1.
Ids == 1..MaxCalls

\* What a response holds: a result with or without isError, a JSON-RPC error, or
\* something that is no response.
Bodies   == {"ok", "tool_error", "rpc_error", "malformed"}
Messages == [id : Ids \cup {None}, body : Bodies \cup {"request", "junk"}]
Tokens   == [msg : Messages, tail : BOOLEAN]

Statuses == {"succeeded", "failed", "write_status_unknown"}

ASSUME StdioAssumption ==
  /\ Modes \subseteq BOOLEAN
  /\ MaxCalls \in Nat /\ MaxEvents \in Nat \ {0} /\ MaxLine \in Nat \ {0, 1} /\ MaxNoise \in Nat
  /\ PipeSize \in Nat \ {0}
  /\ None \notin Ids /\ None \notin Bodies \cup Statuses \cup {"request", "junk"}

Msg(id, body) == [id |-> id, body |-> body]
Head_(m) == [msg |-> m, tail |-> FALSE]
Tail_(m) == [msg |-> m, tail |-> TRUE]
Line(m)  == <<Head_(m), Tail_(m)>>

VARIABLES
  require_readback,  \* of the executor, for good
  next_id,   \* McpJsonRpcSession._next_request_id
  pc,        \* where the client is: "idle", "write", "read" or "observe"
  unsent,    \* tokens of the current message still to be written
  used,      \* events read in this exchange
  codec,     \* McpStdioLineCodec: its buffer and whether it is poisoned
  eof,       \* McpStdioChannel._stdout_eof
  stdin, stdout, stderr,   \* what each end has not handled; of stderr only whether there is data
  drained,   \* how much of stdin the server has taken out of the pipe
  server,    \* the subprocess: alive, and the requests it has not answered
  noise,     \* lines it emitted unasked
  applied,   \* requests whose effect took place
  answered,  \* request -> the body the server answered it with
  outcome,   \* request -> the status execute returned
  garbled    \* a framing error has been seen

client == <<require_readback, next_id, pc, unsent, used, codec, eof>>
world  == <<server, noise, drained, applied, answered>>
pipes  == <<stdin, stdout, stderr>>
vars   == <<client, pipes, world, outcome, garbled>>

TypeOK ==
  /\ require_readback \in Modes
  /\ next_id \in 1..(MaxCalls + 1)
  /\ pc \in {"idle", "write", "read", "observe"}
  /\ unsent \in Seq(Tokens) /\ stdin \in Seq(Tokens) /\ stdout \in Seq(Tokens)
  /\ used \in 0..MaxEvents
  /\ codec \in [buffer : Seq(Tokens), poisoned : BOOLEAN]
  /\ eof \in BOOLEAN /\ stderr \in BOOLEAN /\ garbled \in BOOLEAN
  /\ server \in [alive : BOOLEAN, pending : Seq(Ids)]
  /\ noise \in 0..MaxNoise /\ drained \in 0..Len(stdin)
  /\ applied \subseteq Ids
  /\ answered \in [Ids -> Bodies \cup {None}]
  /\ outcome \in [Ids -> Statuses \cup {None}]

Init ==
  /\ require_readback \in Modes
  /\ next_id = 1 /\ pc = "idle" /\ unsent = <<>> /\ used = 0
  /\ codec = [buffer |-> <<>>, poisoned |-> FALSE]
  /\ eof = FALSE
  /\ stdin = <<>> /\ drained = 0 /\ stdout = <<>> /\ stderr = FALSE
  /\ server = [alive |-> TRUE, pending |-> <<>>]
  /\ noise = 0 /\ applied = {}
  /\ answered = [i \in Ids |-> None] /\ outcome = [i \in Ids |-> None]
  /\ garbled = FALSE

-----------------------------------------------------------------------------
\* The client

\* The request in progress, or the latest one.
current == next_id - 1

Return(status) ==
  /\ outcome' = [outcome EXCEPT ![current] = status]
  /\ pc' = "idle" /\ unsent' = <<>> /\ used' = 0

\* Mutant: _fail clears the buffer and leaves the codec in use.
fail_softly == codec' = [buffer |-> <<>>, poisoned |-> FALSE] /\ garbled' = TRUE

\* _fail
fail == codec' = [buffer |-> <<>>, poisoned |-> TRUE] /\ garbled' = TRUE

\* execute, session.request, and channel.exchange up to the first write: stdout
\* closed, a poisoned codec and a message that encode refuses raise an
\* McpTransportError.  (A request that execute refuses, for its action or its
\* envelope, never gets here and changes nothing.)
Execute ==
  /\ pc = "idle" /\ next_id <= MaxCalls
  /\ next_id' = next_id + 1
  /\ \/ /\ outcome' = [outcome EXCEPT ![next_id] = "write_status_unknown"]
        /\ IF eof \/ codec.poisoned THEN UNCHANGED <<codec, garbled>> ELSE fail
        /\ UNCHANGED <<pc, unsent>>
     \/ /\ ~ eof /\ ~ codec.poisoned
        /\ pc' = "write" /\ unsent' = Line(Msg(next_id, "request"))
        /\ UNCHANGED <<outcome, codec, garbled>>
  /\ UNCHANGED <<require_readback, used, eof, pipes, world>>

\* Room in the pipe to a live server.
Room == PipeSize - (Len(stdin) - drained)

\* write_stdin waits, without a timeout, for room; it takes some of the tokens, and
\* _write_message goes on with the rest.
Write ==
  /\ pc = "write"
  /\ server.alive
  /\ \E n \in 1..Len(unsent) :
       /\ n <= Room
       /\ stdin' = stdin \o SubSeq(unsent, 1, n)
       /\ unsent' = SubSeq(unsent, n + 1, Len(unsent))
  /\ IF unsent' = <<>> THEN pc' = "read" ELSE UNCHANGED pc
  /\ UNCHANGED <<require_readback, next_id, used, codec, eof, stdout, stderr, world, outcome, garbled>>

\* write_stdin raises, or returns no or an impossible count.
WriteFails ==
  /\ pc = "write"
  /\ Return("write_status_unknown")
  /\ UNCHANGED <<require_readback, next_id, codec, eof, pipes, world, garbled>>

\* The server is gone and its end of the pipe with it.
BrokenPipe == ~ server.alive /\ WriteFails

\* Every event of the exchange counts, whatever stream it is from.
MayRead == pc = "read" /\ used < MaxEvents

\* The buffer cut into lines: the positions where a line ends, and the line there.
Ends(buf) == {k \in 1..Len(buf) : buf[k].tail}
LineAt(buf, k) ==
  LET before == {j \in Ends(buf) : j < k}
      start  == IF before = {} THEN 1 ELSE 1 + CHOOSE j \in before : \A i \in before : i <= j
  IN  SubSeq(buf, start, k)
Rest(buf) ==
  LET after == {k \in 1..Len(buf) : \A j \in k..Len(buf) : ~ buf[j].tail}
  IN  SubSeq(buf, Len(buf) - Cardinality(after) + 1, Len(buf))

\* _decode_line: a line is one whole message, or it is refused.
Decodes(line) == Len(line) = 2 /\ line = Line(line[1].msg)

\* feed raises: a bad line, or too long a message without an end.
FeedFails(buf) ==
  \/ \E k \in Ends(buf) : ~ Decodes(LineAt(buf, k))
  \/ Len(Rest(buf)) > MaxLine

\* Mutant: whatever comes next is the response.
validate_nothing(m) == m.body \in {"ok", "tool_error"}

\* _validate_response returns a result; it raises otherwise.
validate_response(m) == m.id = current /\ m.body \in {"ok", "tool_error"}

\* The rest of execute once the session has answered with m or raised.
Respond(m) ==
  IF ~ validate_response(m) THEN Return("write_status_unknown")
  ELSE IF m.body = "tool_error" THEN Return("failed")
  ELSE IF ~ require_readback THEN Return("succeeded")
  ELSE pc' = "observe" /\ UNCHANGED <<unsent, used, outcome>>

\* A read of stdout, codec.feed and what follows from the messages it yields.
ReadStdout ==
  /\ MayRead
  /\ \E n \in 1..Len(stdout) :
       LET buf == codec.buffer \o SubSeq(stdout, 1, n)
           messages == {buf[k].msg : k \in Ends(buf)}
       IN  /\ stdout' = SubSeq(stdout, n + 1, Len(stdout))
           /\ IF FeedFails(buf) THEN fail /\ Return("write_status_unknown")
              ELSE /\ codec' = [codec EXCEPT !.buffer = Rest(buf)]
                   /\ UNCHANGED garbled
                   /\ CASE Ends(buf) = {} -> used' = used + 1 /\ UNCHANGED <<pc, unsent, outcome>>
                        [] Cardinality(Ends(buf)) = 1 -> \E m \in messages : Respond(m)
                        [] OTHER -> Return("write_status_unknown")
  /\ UNCHANGED <<require_readback, next_id, eof, stdin, stderr, world>>

\* Mutant: diagnostics do not count as events.
ReadStderrFree ==
  /\ MayRead /\ stderr
  /\ stderr' = FALSE
  /\ UNCHANGED <<client, stdin, stdout, world, outcome, garbled>>

ReadStderr ==
  /\ MayRead /\ stderr
  /\ stderr' = FALSE
  /\ used' = used + 1
  /\ UNCHANGED <<require_readback, next_id, pc, unsent, codec, eof, stdin, stdout, world, outcome, garbled>>

\* End of stdout: codec.finish rejects a buffered half, and the exchange fails.
ReadEof ==
  /\ MayRead /\ ~ server.alive /\ stdout = <<>> /\ ~ eof
  /\ eof' = TRUE
  /\ IF codec.buffer # <<>> THEN fail ELSE UNCHANGED <<codec, garbled>>
  /\ Return("write_status_unknown")
  /\ UNCHANGED <<require_readback, next_id, pipes, world>>

\* Nothing to read within read_timeout_seconds.
ReadTimeout ==
  /\ MayRead /\ server.alive /\ stdout = <<>> /\ ~ stderr
  /\ Return("write_status_unknown")
  /\ UNCHANGED <<require_readback, next_id, codec, eof, pipes, world, garbled>>

\* os.read raises.
ReadFails ==
  /\ MayRead
  /\ Return("write_status_unknown")
  /\ UNCHANGED <<require_readback, next_id, codec, eof, pipes, world, garbled>>

\* max_events_per_exchange is used up.
TooManyEvents ==
  /\ pc = "read" /\ used = MaxEvents
  /\ Return("write_status_unknown")
  /\ UNCHANGED <<require_readback, next_id, codec, eof, pipes, world, garbled>>

\* readback_observer.observe: it verifies only what it sees; it may also be
\* missing, fail or see nothing.
Observe ==
  /\ pc = "observe"
  /\ \/ current \in applied /\ Return("succeeded")
     \/ Return("write_status_unknown")
  /\ UNCHANGED <<require_readback, next_id, codec, eof, pipes, world, garbled>>

\* What a client that is not waiting for the pipe does next.
Progress ==
  \/ Write \/ BrokenPipe
  \/ ReadStdout \/ ReadStderr \/ ReadEof \/ ReadTimeout \/ TooManyEvents
  \/ Observe

ClientStep == Progress \/ WriteFails \/ ReadFails

-----------------------------------------------------------------------------
\* The server: takes its input out of the pipe when it likes or never, handles it
\* line by line, answers in order and late, and now and then emits something else.

ServerDrain ==
  /\ server.alive
  /\ \E n \in 1..Len(stdin) : drained < n /\ drained' = n
  /\ UNCHANGED <<client, pipes, server, noise, applied, answered, outcome, garbled>>

ServerRead ==
  /\ server.alive
  /\ \E k \in Ends(stdin) :
       /\ k <= drained /\ \A j \in Ends(stdin) : k <= j
       /\ drained' = drained - k
       /\ stdin' = SubSeq(stdin, k + 1, Len(stdin))
       /\ server' = IF Decodes(SubSeq(stdin, 1, k))
                    THEN [server EXCEPT !.pending = Append(@, stdin[k].msg.id)] ELSE server
  /\ UNCHANGED <<client, stdout, stderr, noise, applied, answered, outcome, garbled>>

ServerAnswer ==
  /\ server.alive /\ server.pending # <<>>
  /\ \E body \in Bodies :
       LET i == Head(server.pending)
       IN  /\ stdout' = stdout \o Line(Msg(i, body))
           /\ answered' = [answered EXCEPT ![i] = body]
           /\ \/ applied' = applied \cup {i}
              \/ body # "ok" /\ applied' = applied
  /\ server' = [server EXCEPT !.pending = Tail(@)]
  /\ UNCHANGED <<client, stdin, stderr, noise, drained, outcome, garbled>>

\* A notification, a line that is no JSON, or bytes without an end.
ServerNoise ==
  /\ server.alive /\ noise < MaxNoise
  /\ noise' = noise + 1
  /\ \E tokens \in {Line(Msg(None, "malformed")), <<Tail_(Msg(None, "junk"))>>,
                    <<Head_(Msg(None, "junk"))>>} : stdout' = stdout \o tokens
  /\ UNCHANGED <<client, stdin, stderr, server, drained, applied, answered, outcome, garbled>>

ServerStderr ==
  /\ server.alive
  /\ stderr' = TRUE
  /\ UNCHANGED <<client, stdin, stdout, world, outcome, garbled>>

\* The process ends, in the middle of a line or not.
ServerExit ==
  /\ server.alive
  /\ server' = [server EXCEPT !.alive = FALSE]
  /\ \/ UNCHANGED stdout
     \/ server.pending # <<>> /\ stdout' = Append(stdout, Head_(Msg(Head(server.pending), "ok")))
  /\ UNCHANGED <<client, stdin, stderr, noise, drained, applied, answered, outcome, garbled>>

Next ==
  \/ Execute \/ ClientStep
  \/ ServerDrain \/ ServerRead \/ ServerAnswer \/ ServerNoise \/ ServerStderr \/ ServerExit

\* A call that has begun runs on wherever it need not wait: the thread is not stopped
\* inside execute, and the observer returns.  Nothing obliges the server to do anything,
\* and no operation to fail.
Spec == Init /\ [][Next]_vars /\ WF_vars(Progress)

-----------------------------------------------------------------------------
\* execute reports success or a tool error only on the server's own answer to
\* this very request, however late, split, joined or interspersed the answers
\* arrive; a request whose answer is anybody's guess is unknown.
OwnAnswer ==
  \A i \in Ids :
    /\ outcome[i] = "succeeded" => answered[i] = "ok" /\ i \in applied
    /\ outcome[i] = "failed" => answered[i] = "tool_error"

\* Once a framing error has been seen no call of this session yields a result
\* again: the codec stays poisoned.
PoisonIsFinal ==
  [][garbled => /\ garbled' /\ codec'.poisoned
                /\ \A i \in Ids : outcome'[i] = "succeeded" => outcome[i] = "succeeded"]_vars

\* write_stdin waits for a live server that has stopped reading its input.
Blocked == pc = "write" /\ server.alive /\ Room = 0

\* Every call comes to an end, even when the server floods stderr, goes silent or
\* dies (the read timeout and max_events_per_exchange), unless the server lives on
\* and never again empties the full pipe a write waits for: write_stdin has no timeout.
ExchangeEnds == []<>(pc = "idle") \/ <>[]Blocked

=============================================================================
