SPECIFICATION Spec
CONSTANTS
  Keys = {k1, k2}
  k1 = k1
  k2 = k2
  None = None
  Requests <- AllRequests
  Faults = {"protocol_error", "redirect_error", "verify_raises"}
  MaxCalls = 5
  MaxCrashes = 1
INVARIANTS
  SentOnceUnlessRaised
PROPERTIES
  ImplementsExecutor
