----------------------------- MODULE Principals -----------------------------
(***************************************************************************)
(* How a credential becomes a declared actor: the resolvers of identity.py *)
(* and principal.py and the static binding.  Everything here is a constant *)
(* operator.  Claims are numbers or absent; a claim that is present and is *)
(* no number makes the credential malformed.                               *)
(***************************************************************************)
EXTENDS Integers

CONSTANTS
  AllowedIssuers, ExpectedAudience,
  Skew,       \* clock_skew_seconds
  NoSubject,  \* a subject that is missing or blank
  Bindings    \* issuer -> subject -> actor; the bindings of StaticActorBinding

ASSUME PrincipalAssumption == AllowedIssuers # {} /\ Skew \in Nat

\* A credential: the object that is passed (a Principal, VerifiedTokenClaims or a
\* token for the external verifier) and what it says.  An absent numeric claim is
\* {}, a present one the set of its value.
CredentialKinds == {"principal", "claims", "token"}

\* exp is required; each bound is widened by the clock skew.
WithinWindow(c, now) ==
  /\ \E t \in c.exp : now - Skew < t
  /\ \A t \in c.nbf : t <= now + Skew
  /\ \A t \in c.iat : t <= now + Skew

\* VerifiedClaimsPrincipalResolver.resolve returns a principal.
ClaimsAccepted(c, now) ==
  /\ c.issuer \in AllowedIssuers
  /\ c.subject # NoSubject
  /\ ExpectedAudience \in c.audience
  /\ ~ c.malformed
  /\ WithinWindow(c, now)

\* One of the three resolvers accepts the credential: the trusted one takes a
\* Principal as it is, the external one asks its verifier for the claims first.
Resolves(c, now) ==
  CASE c.kind = "principal" -> c.subject # NoSubject
    [] c.kind = "claims"    -> ClaimsAccepted(c, now)
    [] c.kind = "token"     -> c.verified /\ ClaimsAccepted(c, now)

\* StaticActorBinding.actor_for finds an actor.
Bound(c) == c.issuer \in DOMAIN Bindings /\ c.subject \in DOMAIN Bindings[c.issuer]

actor_for(c) == Bindings[c.issuer][c.subject]

=============================================================================
