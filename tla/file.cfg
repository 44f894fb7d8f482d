SPECIFICATION Spec
CONSTANTS
  Executors = {e1, e2}
  Keys = {k1, k2}
  Texts = {t1, t2}
  k1 = k1
  k2 = k2
  t1 = t1
  t2 = t2
  None = None
  Requests <- AllRequests
  MaxCalls = 4
  MaxCrashes = 1
  MaxOthers = 1
INVARIANTS
  PreconditionHonoured
PROPERTIES
  ImplementsExecutor
SYMMETRY Perms
