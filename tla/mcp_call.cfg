SPECIFICATION Spec
CONSTANTS
  stable = stable
  draft = draft
  tool = tool
  other = other
  s1 = s1
  s2 = s2
  v1 = v1
  v2 = v2
  caps1 = caps1
  caps2 = caps2
  None = None
  Stable = stable
  Tool = tool
  Experimental = FALSE
  Documents <- Docs
  StrictDocuments <- StrictDocs
  Nodes <- ThreeNodes
  Graphs <- AllGraphs
  AdmissionLimits <- Small
  FingerprintLimits <- Tiny
  MaxDepth = 2
  MaxItems = 4
  Generations <- AllGenerations
  Contracts <- AllContracts
  MaxAttempts = 2
  MaxUpgrades = 1
INVARIANTS
  DispatchAsBound
  ArgumentsAsAdmitted
  PreDispatchIsPure
  WalksAreRight
  RedactionIsRight
