CONSTANTS
  a1 = a1 a2 = a2
  k1 = k1 k2 = k2
  d1 = d1 d2 = d2
  exec = exec appr = appr stop = stop steward = steward
  Actors = {exec, appr, stop, steward}
  NoActor = NoActor
  None = None
  Definition <- MCDefinition
  Attempts = {a1, a2}
  Keys = {k1, k2}
  Malformed <- MCMalformed
  Prints = {d1, d2}
  Requests <- MCRequestsMixed
  Procs = {p1}
  Executors = {p1}
  Probers = {}
  Stewards = {p1}
  InitialStates = {"approved", "awaiting_approval"}
  ManualTargets = {"approved", "held", "human_gate", "stopped", "partially_completed", "repair_required", "denied"}
  Outcomes = {"verified", "unverified", "failed", "unknown"}
  Evidence = {"plain", "large", "foreign"}
  MaxDispatch = 2
  MaxCrashes = 2
SPECIFICATION FairSpec
INVARIANTS
  AtMostOnceDispatch
  RejectionLeavesNoRow
  ResumedAfterFailure
PROPERTIES
  DispatchIsBound
  CompletedBySuccess
  ClassifiedIsFinal
  RunningResolves
  UnknownResolves
