CONSTANTS
  agent = agent owner1 = owner1 i1 = i1 i2 = i2 t1 = t1 t2 = t2 issuer = issuer stranger = stranger
  Actors = {agent, owner1}
  NoActor = NoActor
  Definition <- MCDefinition
  Procs = {p1, p2}
  Scopes = {t1, t2, None}
  Tenants = {t1, t2}
  Definitions <- MCTwo
  Ids = {i1, i2}
  Keys = {k1, k2}
  BlankKey = BlankKey
  Answers = {"allow", "human_gate"}
  ManualTargets = {"approved", "denied"}
  Credentials <- MCCredentials
  Times = {0, 5}
  AllowedIssuers = {issuer}
  ExpectedAudience = rpr
  Skew = 1
  NoSubject = NoSubject
  Bindings <- MCBindings
  MaxCalls = 3
  MaxCrashes = 1
  None = None
  Limits = {1}
SPECIFICATION ServerSpec
INVARIANTS
  StateTrail
  RegistrationsAreRecorded
  PrincipalMadeTheMove
  ApprovalWasGiven
  TenantBoundary
  NoFalseEscalation
  StatusHidesNothing
  DiagnosisIsSound
SYMMETRY Perms
CHECK_DEADLOCK FALSE
