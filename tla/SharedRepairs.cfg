SPECIFICATION Spec
CONSTANTS
  CallId = {c1}
  ToolName = {t1}
  UnknownName = unknown
  Missing = missing
  Responses <- SomeResponses
  RepairRetries = 2
  MaxTurns = 5
PROPERTIES
  ExhaustionIsTold
CHECK_DEADLOCK FALSE
