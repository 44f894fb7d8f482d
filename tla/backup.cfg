CONSTANTS
  a1 = a1 a2 = a2
  k1 = k1 k2 = k2
  d1 = d1
  exec = exec appr = appr stop = stop steward = steward
  Actors = {exec, appr, stop, steward}
  NoActor = NoActor
  None = None
  Definition <- MCDefinition
  Attempts = {a1, a2}
  Keys = {k1, k2}
  Malformed = {}
  Prints = {d1}
  Requests <- MCRequests
  Procs = {p1}
  Executors = {p1}
  Probers = {}
  Stewards = {p1}
  InitialStates = {"approved"}
  ManualTargets = {}
  Outcomes = {"failed"}
  Evidence = {"plain"}
  MaxDispatch = 2
  MaxCrashes = 0
  Destinations = {t1, t2}
  Torn = Torn
  StaleLogs = FALSE
SPECIFICATION BackupSpec
SYMMETRY MCDirectories
CHECK_DEADLOCK FALSE
PROPERTIES
  RestoredDispatchesOnce
