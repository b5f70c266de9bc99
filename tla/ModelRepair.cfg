SPECIFICATION Spec
CONSTANTS
  CallId = {c1, c2}
  ToolName = {t1}
  UnknownName = unknown
  Missing = missing
  Responses <- AllResponses
  RepairRetries = 2
  MaxTurns = 4
INVARIANTS
  TurnsAreUnambiguous
PROPERTIES
  ProtectedEndsRun
  ExhaustionIsTrue
CHECK_DEADLOCK FALSE
