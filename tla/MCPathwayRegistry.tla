------------------------- MODULE MCPathwayRegistry -------------------------
(***************************************************************************)
(* Small instances of PathwayRegistry for TLC.                             *)
(***************************************************************************)
EXTENDS PathwayRegistry, TLC

CONSTANTS agent, owner1, i1, i2, t1, t2, issuer, stranger

\* One person executes, another holds every other role.
MCDefinition == [r \in Roles |-> IF r = "execution_actor" THEN agent ELSE owner1]

Plain == [class |-> "observe_only", trust |-> "trusted_internal", approval |-> "none",
          complete |-> TRUE, route |-> "none", returns |-> TRUE, separated |-> TRUE]

Def(id, tenant, f) == [id |-> id, tenant |-> tenant, features |-> f]

High == [Plain EXCEPT !.class = "high_impact", !.approval = "named"]

\* For one id: a definition that runs at once, one that needs approval, one that
\* starts at a Human Gate and an invalid one.
MCOne == [id : {i1}, tenant : {None},
          features : {Plain, [Plain EXCEPT !.class = "approval_required", !.approval = "named"],
                      High, [High EXCEPT !.separated = FALSE]}]

\* Two ids: one that needs approval and an invalid one, and one that runs at once
\* and names a tenant.
MCTwo == {Def(i1, None, [Plain EXCEPT !.class = "approval_required", !.approval = "named"]),
          Def(i1, None, [High EXCEPT !.separated = FALSE]), Def(i2, t2, Plain)}

\* The identity provider knows both persons; a stranger's subject is bound to nobody.
MCBindings == [i \in {issuer} |-> [s \in {agent, owner1} |-> s]]

Principal(kind, subject) ==
  [kind |-> kind, issuer |-> issuer, subject |-> subject, audience |-> {ExpectedAudience},
   exp |-> {3}, nbf |-> {}, iat |-> {1}, malformed |-> FALSE, verified |-> TRUE]

\* Credentials that are accepted, and ones that are unbound, not verified, for another
\* audience, from another issuer, without an expiry, or accepted at some times only.
MCCredentials ==
  {Principal("principal", agent), Principal("claims", owner1), Principal("token", owner1),
   Principal("principal", stranger), Principal("claims", NoSubject),
   [Principal("token", owner1) EXCEPT !.verified = FALSE],
   [Principal("claims", owner1) EXCEPT !.audience = {}],
   [Principal("claims", owner1) EXCEPT !.issuer = stranger],
   [Principal("claims", owner1) EXCEPT !.malformed = TRUE],
   [Principal("claims", owner1) EXCEPT !.exp = {}],
   [Principal("claims", owner1) EXCEPT !.nbf = {3}]}

Perms == Permutations(Procs)

=============================================================================
