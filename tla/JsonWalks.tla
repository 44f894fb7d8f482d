------------------------------ MODULE JsonWalks ------------------------------
(***************************************************************************)
(* The bounded walks over Python object graphs: _strict_json_plain         *)
(* (mcp_admission.py) and _strict_json_identity (attempts.py), which       *)
(* accept strict JSON only, and RedactionPolicy.redact (redaction.py),     *)
(* which every evidence event passes.  Containers may be shared and may    *)
(* contain themselves.  The walks are recursive as in the code; what a     *)
(* call changes is a record that is handed on.  The references, Acceptable *)
(* and Presentable, count the walks of the graph instead.                  *)
(***************************************************************************)
EXTENDS Integers, Sequences, FiniteSets

CONSTANTS
  Nodes,              \* 1..n; node 1 is the document
  Graphs,             \* the documents: node -> value, see IsGraph
  AdmissionLimits,    \* MAX_JSON_NESTING, MAX_JSON_NODES, MAX_JSON_STRING_BYTES
  FingerprintLimits,  \* MAX_FINGERPRINT_JSON_NESTING, ..._NODES, ..._STRING_BYTES
  MaxDepth,           \* RedactionPolicy.max_depth
  MaxItems            \* RedactionPolicy.max_items

Root == 1

\* A "long" string has two bytes and is over RedactionPolicy.max_string_length, a string
\* and a key have one byte; "invalid" is a non-finite number, a string that is not UTF-8
\* or a value of another type.  The last key of a "badkey" object is no string, that of
\* a "secret" object is one of the sensitive keys.
Scalars    == {"scalar", "string", "long", "invalid"}
Objects    == {"object", "badkey", "secret"}
Containers == {"list"} \cup Objects

IsGraph(g) ==
  /\ DOMAIN g = Nodes
  /\ \A n \in Nodes :
       /\ g[n].kind \in Scalars \cup Containers
       /\ \A i \in DOMAIN g[n].kids : g[n].kids[i] \in Nodes
       /\ g[n].kind \in Scalars => g[n].kids = << >>
       /\ g[n].kind \in {"badkey", "secret"} => g[n].kids # << >>

ASSUME JsonAssumption ==
  /\ Nodes = 1..Cardinality(Nodes) /\ Root \in Nodes
  /\ \A g \in Graphs : IsGraph(g)
  /\ {AdmissionLimits, FingerprintLimits} \subseteq [nesting : Nat, nodes : Nat, bytes : Nat]
  /\ MaxDepth \in Nat /\ MaxItems \in Nat

\* A walk so far: whether it has raised, its budget, active_containers, and the values
\* that are in the copy it returns.
Fresh    == [ok |-> TRUE, nodes |-> 0, bytes |-> 0, active |-> {}, copied |-> {}]
Raise(s) == [s EXCEPT !.ok = FALSE]

StringBytes(kind) == CASE kind = "string" -> 1 [] kind = "long" -> 2 [] OTHER -> 0
KeyBytes(kind)    == IF kind \in Objects THEN 1 ELSE 0

-----------------------------------------------------------------------------
(* The strict walks.                                                       *)

\* Mutant: the last node the budget has room for is refused.
ExceedsTight(limits, s) == s.nodes >= limits.nodes \/ s.bytes > limits.bytes

\* _consume_json_budget and _FingerprintBudget.consume raise.
Exceeds(limits, s) == s.nodes > limits.nodes \/ s.bytes > limits.bytes

\* Mutant: a container that was visited stays active.
NotRemoved(s, v) == s

\* finally: active.remove(container_id).
Removed(s, v) == [s EXCEPT !.active = @ \ {v}]

\* One value at some depth: the budget, then the scalars, then the nesting and the
\* cycle of a container, then its items.
RECURSIVE Visit(_, _, _, _, _), VisitItems(_, _, _, _, _, _)
Visit(limits, g, v, depth, s) ==
  LET kind == g[v].kind
      c == [s EXCEPT !.nodes = @ + 1, !.bytes = @ + StringBytes(kind), !.copied = @ \cup {v}]
  IN  CASE Exceeds(limits, c) \/ kind = "invalid" -> Raise(c)
        [] ~Exceeds(limits, c) /\ kind \in Scalars \ {"invalid"} -> c
        [] ~Exceeds(limits, c) /\ kind \in Containers ->
             IF depth >= limits.nesting \/ v \in s.active THEN Raise(c)
             ELSE Removed(VisitItems(limits, g, v, 1, depth, [c EXCEPT !.active = @ \cup {v}]), v)

\* The items of container v from the i-th on: a key must be a string and fit.
VisitItems(limits, g, v, i, depth, s) ==
  LET kids == g[v].kids
      k == [s EXCEPT !.bytes = @ + KeyBytes(g[v].kind)]
      next == Visit(limits, g, kids[i], depth + 1, k)
  IN  CASE i > Len(kids) -> s
        [] i <= Len(kids) /\ ((g[v].kind = "badkey" /\ i = Len(kids)) \/ k.bytes > limits.bytes) -> Raise(k)
        [] OTHER -> IF next.ok THEN VisitItems(limits, g, v, i + 1, depth, next) ELSE next

strict_json_plain(g)    == Visit(AdmissionLimits, g, Root, 0, Fresh)
strict_json_identity(g) == Visit(FingerprintLimits, g, Root, 0, Fresh)

-----------------------------------------------------------------------------
(* Redaction.                                                              *)

\* Mutant: the comparison is never true, as for keys that are not folded.
SensitiveNever(value, i) == FALSE

\* key.casefold() in sensitive_keys: the item is replaced and not visited.
Sensitive(value, i) == value.kind = "secret" /\ i = Len(value.kids)

\* The depth, the budget, the length of a string; a value of any other type becomes its
\* string, and so does a key.  There is no set of active containers: a cycle is too deep.
RECURSIVE Redact(_, _, _, _), RedactItems(_, _, _, _, _)
Redact(g, v, depth, s) ==
  LET c == [s EXCEPT !.nodes = @ + 1, !.copied = @ \cup {v}]
  IN  CASE depth > MaxDepth -> Raise(s)
        [] depth <= MaxDepth /\ (c.nodes > MaxItems \/ g[v].kind = "long") -> Raise(c)
        [] OTHER -> RedactItems(g, v, 1, depth, c)

RedactItems(g, v, i, depth, s) ==
  LET next == IF Sensitive(g[v], i) THEN s ELSE Redact(g, g[v].kids[i], depth + 1, s)
  IN  CASE i > Len(g[v].kids) -> s
        [] OTHER -> IF next.ok THEN RedactItems(g, v, i + 1, depth, next) ELSE next

redact(g) == Redact(g, Root, 0, Fresh)

-----------------------------------------------------------------------------
(* The references: what a document is, without walking it in order.        *)

\* How often the items of container m name n, in graph g.
Occurrences(g, m, n) == Cardinality({i \in DOMAIN g[m].kids : g[m].kids[i] = n})

\* The sum of a function over the nodes.
Size == Cardinality(Nodes)
Total(f) == LET upto[k \in 0..Size] == IF k = 0 THEN 0 ELSE upto[k - 1] + f[k] IN upto[Size]

\* How many walks of k - 1 edges lead from the root to n is Walks(g)[k][n], for walks of
\* up to as many edges as there are nodes; Times counts them all.
RECURSIVE Longer(_, _)
Longer(g, ws) ==
  LET w == ws[Len(ws)]
  IN  IF Len(ws) > Size THEN ws
      ELSE Longer(g, Append(ws, [n \in Nodes |-> Total([m \in Nodes |-> w[m] * Occurrences(g, m, n)])]))
Walks(g)  == Longer(g, << [n \in Nodes |-> IF n = Root THEN 1 ELSE 0] >>)
Times(ws) == [n \in Nodes |-> ws[1][n] + Total([k \in Nodes |-> ws[k + 1][n]])]

\* The bytes of a value itself: of a string, of the keys of an object.
Weight(v) == StringBytes(v.kind) + KeyBytes(v.kind) * Len(v.kids)

\* A document with these walks is acyclic (no walk is as long as the graph is large), holds
\* no invalid value or key, nests no deeper than the bound and, written out, is within the
\* budgets.
Acceptable(limits, g, ws, times) ==
  /\ \A n \in Nodes : ws[Size + 1][n] = 0
  /\ \A n \in Nodes : times[n] > 0 => g[n].kind \notin {"invalid", "badkey"}
  /\ \A k \in limits.nesting..Size, n \in Nodes : g[n].kind \in Containers => ws[k + 1][n] = 0
  /\ Total(times) <= limits.nodes
  /\ Total([n \in Nodes |-> times[n] * Weight(g[n])]) <= limits.bytes

\* The document without what its sensitive keys lead to.
Hidden(g) ==
  [n \in Nodes |-> IF g[n].kind = "secret" THEN [g[n] EXCEPT !.kids = SubSeq(@, 1, Len(@) - 1)] ELSE g[n]]

\* What is left is no deeper and no larger than the policy allows and holds no long string.
Presentable(g, ws, times) ==
  /\ \A k \in (MaxDepth + 1)..Size, n \in Nodes : ws[k + 1][n] = 0
  /\ Total(times) <= MaxItems
  /\ \A n \in Nodes : times[n] > 0 => g[n].kind # "long"

Reached(times) == {n \in Nodes : times[n] > 0}

\* The documents a strict walk judges or copies wrongly, or works on beyond its budget.
Misjudged ==
  {g \in Graphs :
     LET ws == Walks(g)
         times == Times(ws)
         Right(limits, s) ==
           /\ s.ok = Acceptable(limits, g, ws, times)
           /\ s.ok => s.copied = Reached(times) /\ s.active = {}
           /\ s.nodes <= limits.nodes + 1
     IN  ~ (Right(AdmissionLimits, strict_json_plain(g)) /\ Right(FingerprintLimits, strict_json_identity(g)))}

\* The documents redaction refuses or lets through wrongly, or works on beyond its budget.
Misredacted ==
  {g \in Graphs :
     LET ws == Walks(Hidden(g))
         times == Times(ws)
         s == redact(g)
     IN  ~ (/\ s.ok = Presentable(g, ws, times)
            /\ s.ok => s.copied = Reached(times)
            /\ s.nodes <= MaxItems + 1)}

=============================================================================
