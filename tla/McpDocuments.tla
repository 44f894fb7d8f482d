----------------------------- MODULE McpDocuments -----------------------------
(***************************************************************************)
(* The tool calls of McpCall with arguments and evidence that are object   *)
(* graphs: what admission accepts is what the strict walk of JsonWalks     *)
(* accepts, and the walks run when the call comes to them.                 *)
(***************************************************************************)
EXTENDS McpCall, JsonWalks

ASSUME DocumentAssumption ==
  /\ Documents \subseteq Graphs
  /\ StrictDocuments = {d \in Documents : strict_json_plain(d).ok}

\* When admission is about to walk the caller's arguments, whatever they have become, the
\* strict walks accept exactly the documents that, written out in full, are strict JSON
\* within the bounds: a shared container counts once per occurrence and is no cycle.
\* They copy all of an accepted document, and stop at the first value over the budget,
\* also for a cyclic or exponentially shared one (_strict_json_plain).
WalksAreRight == pc = "announced" => Misjudged = {}

\* When a call has a result, whose evidence may be any document, redaction lets through
\* exactly the documents that fit once their sensitive items are taken out, with
\* everything else in place and nothing that only a sensitive key leads to, and its work
\* is bounded by the budget (RedactionPolicy.redact).
RedactionIsRight == (\E a \in Attempts : result[a] # None) => Misredacted = {}

=============================================================================
