CONSTANTS
  a1 = a1 a2 = a2
  k1 = k1 k2 = k2
  d1 = d1 d2 = d2
  exec = exec appr = appr stop = stop steward = steward
  Actors = {exec, appr, stop, steward}
  NoActor = NoActor
  None = None
  Definition <- MCDefinition
  Attempts = {a1, a2}
  Keys = {k1, k2}
  Malformed <- MCMalformed
  Prints = {d1}
  Requests <- MCRequests2
  Procs = {p1, p2}
  Executors = {p1}
  Probers = {p2}
  Stewards = {p2}
  InitialStates = {"approved"}
  ManualTargets = {"write_status_unknown", "stopped", "repair_required"}
  Outcomes = {"verified", "unverified", "failed", "unknown"}
  Evidence = {"plain", "foreign"}
  MaxDispatch = 2
  MaxCrashes = 1
SPECIFICATION Spec
INVARIANTS
  TypeOK
  DispatchInv
PROPERTIES
  TableSteps
  ResultsAreKept
  ImplementsContract
