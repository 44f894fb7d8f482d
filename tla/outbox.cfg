CONSTANTS
  k1 = k1 k2 = k2
  d1 = d1 d2 = d2 d3 = d3
  Procs = {p1, p2}
  Keys = {k1, k2}
  Prints = {d1, d2, d3}
  Requests <- MCRequests
  Faults = {"transport", "storage"}
  MaxCrashes = 1
  None = None
SPECIFICATION Spec
INVARIANTS
  SentAtMostOnce
  FailedIsUnsent
PROPERTIES
  ImplementsExecutor
SYMMETRY Perms
