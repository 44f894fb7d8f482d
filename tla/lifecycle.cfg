CONSTANTS
  MaxFaults = 4
  None = None
SPECIFICATION FairSpec
INVARIANTS
  ResultIsTrue
  NoOrphan
PROPERTIES
  RetriesSucceed
CHECK_DEADLOCK FALSE
