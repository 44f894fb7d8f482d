CONSTANTS
  agent = agent owner1 = owner1 i1 = i1 i2 = i2 t1 = t1 t2 = t2 issuer = issuer stranger = stranger
  Actors = {agent, owner1}
  NoActor = NoActor
  Definition <- MCDefinition
  Procs = {p1, p2}
  Scopes = {None}
  Tenants = {t1, t2}
  Definitions <- MCOne
  Ids = {i1}
  Keys = {k1, k2}
  BlankKey = BlankKey
  Answers = {"allow"}
  ManualTargets = {"approved", "held"}
  Credentials <- MCCredentials
  Times = {0, 5}
  AllowedIssuers = {issuer}
  ExpectedAudience = rpr
  Skew = 1
  NoSubject = NoSubject
  Bindings <- MCBindings
  MaxCalls = 3
  MaxCrashes = 0
  None = None
SPECIFICATION Spec
INVARIANTS
  ChainVerifies
CHECK_DEADLOCK FALSE
