------------------------------ MODULE MCMcpCall ------------------------------
(***************************************************************************)
(* Instances of McpCall: a server with its tool, an upgrade of it with     *)
(* another schema, and generations that each break one rule.               *)
(***************************************************************************)
EXTENDS McpDocuments, TLC

CONSTANTS stable, draft, tool, other, s1, s2, v1, v2, caps1, caps2

Offer(name, schema) == [name |-> name, schema |-> schema]
Server(identity, protocol, caps, declares, tools) ==
  [identity |-> identity, protocol |-> protocol, caps |-> caps, declares |-> declares,
   tools |-> tools]

\* Two generations that can be admitted.
GoodGenerations ==
  {Server(v1, stable, caps1, TRUE, <<Offer(tool, s1), Offer(other, s2)>>),
   Server(v2, stable, caps2, TRUE, <<Offer(other, s1), Offer(tool, s2)>>)}

\* Another protocol, no identity, no tools capability, no list, the tool twice, the
\* tool missing, a tool without schema.
BadGenerations ==
  {Server(v2, draft, caps2, TRUE, <<Offer(tool, s2)>>),
   Server(None, stable, caps1, TRUE, <<Offer(tool, s1)>>),
   Server(v2, stable, caps2, FALSE, <<Offer(tool, s2)>>),
   Server(v2, stable, caps2, TRUE, None),
   Server(v2, stable, caps2, TRUE, <<Offer(tool, s1), Offer(tool, s2)>>),
   Server(v2, stable, caps2, TRUE, <<Offer(other, s2)>>),
   Server(v2, stable, caps2, TRUE, <<Offer(tool, s1), Offer(other, None)>>)}

AllGenerations == GoodGenerations \cup BadGenerations

\* The contract knows the stable version, lists it as experimental, or does not know it.
AllContracts ==
  {(stable :> [lifecycle |-> "stable", flag |-> FALSE]),
   (stable :> [lifecycle |-> "experimental", flag |-> FALSE]),
   (draft :> [lifecycle |-> "stable", flag |-> FALSE])}

\* Object graphs of three values: the document has items, the second value any that one
\* or two names can make, the third at most one; sharing and cycles included.
ThreeNodes == 1..3
Items(n) == {s \in {<< >>} \cup {<<m>> : m \in ThreeNodes} \cup {<<l, m>> : l, m \in ThreeNodes} :
               Len(s) <= n /\ (Len(s) = 2 => s[1] <= s[2])}
Containing(n) ==
  [kind : {"list", "object"}, kids : Items(n)] \cup [kind : {"badkey", "secret"}, kids : Items(n) \ {<< >>}]
Values(n) == [kind : Scalars, kids : {<< >>}] \cup Containing(n)
AllGraphs == {<<a, b, c>> : a \in {v \in Containing(2) : v.kids # << >>}, b \in Values(2), c \in Values(1)}

Document(root, second) == <<root, second, [kind |-> "scalar", kids |-> << >>]>>
Object(kids) == [kind |-> "object", kids |-> kids]

\* Two documents that are strict JSON, one of them with a shared value, and a cyclic one.
Docs == {Document(Object(<<2>>), [kind |-> "string", kids |-> << >>]),
         Document(Object(<<2, 2>>), [kind |-> "scalar", kids |-> << >>]),
         Document(Object(<<2>>), [kind |-> "list", kids |-> <<1>>])}

\* Those that the strict walk accepts.
StrictDocs == {d \in Docs : strict_json_plain(d).ok}

Small == [nesting |-> 3, nodes |-> 5, bytes |-> 3]
Tiny  == [nesting |-> 2, nodes |-> 4, bytes |-> 4]
=============================================================================
