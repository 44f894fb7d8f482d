CONSTANTS
  a1 = a1 a2 = a2
  k1 = k1 k2 = k2
  d1 = d1 d2 = d2
  exec = exec appr = appr stop = stop steward = steward
  Actors = {exec, appr, stop, steward}
  NoActor = NoActor
  None = None
  Definition <- MCDefinition
  Attempts = {a1}
  Keys = {k1}
  Malformed <- MCMalformed
  Prints = {d1}
  Requests <- MCRequests1
  Procs = {p1, p2}
  Executors = {p1, p2}
  Probers = {}
  Stewards = {}
  InitialStates = {"approved"}
  ManualTargets = {}
  Outcomes = {"verified", "failed", "unknown"}
  Evidence = {"plain", "foreign"}
  MaxDispatch = 2
  MaxCrashes = 0
SPECIFICATION Spec
INVARIANTS
  AtMostOnceDispatch
