SPECIFICATION RunSpec
CONSTANTS
  Task = task
  Run = run
  Node = {n1}
  FirstNode = n1
  Invocation = {i1}
  Artifact = {a1}
  LateCommit = TRUE
  Outcomes = {"succeeded", "failed", "cancelled", "timed_out"}
  MaxArtifacts = 1
  MaxFaults = 2
  MaxEvents = 0
  MaxTurns = 2
  RepairRetries = 1
  ArtifactBudget = 1
  RequestsFit = FALSE
  AfterInterrupt = "dead"
INVARIANTS
  PersistedMeansDurable
  SuccessIsConsistent
  QuietRunIsConsistent
PROPERTIES
  OneFaultRecovers
  TerminalRunIsSilent
  ExecuteEnds
CHECK_DEADLOCK FALSE
