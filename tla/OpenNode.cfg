SPECIFICATION ChatSpec
CONSTANTS
  Task = task
  Run = run
  Node = {n1, n2}
  FirstNode = n1
  Invocation = {i1}
  Artifact = {a1}
  LateCommit = FALSE
  Outcomes = {"succeeded", "failed", "cancelled", "timed_out"}
  MaxArtifacts = 1
  MaxFaults = 0
  MaxEvents = 0
  MaxTurns = 1
  RepairRetries = 1
  ArtifactBudget = 1
  RequestsFit = TRUE
  AfterInterrupt = "interrupt"
  MaxInputs = 2
INVARIANTS
  NodesEndWithRun
CHECK_DEADLOCK FALSE
