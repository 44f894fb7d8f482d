CONSTANTS
  Modes = {TRUE, FALSE}
  MaxCalls = 2
  MaxEvents = 2
  MaxLine = 2
  MaxNoise = 2
  PipeSize = 2
  None = None
SPECIFICATION Spec
CHECK_DEADLOCK FALSE
INVARIANTS
  OwnAnswer
PROPERTIES
  PoisonIsFinal
  ExchangeEnds
