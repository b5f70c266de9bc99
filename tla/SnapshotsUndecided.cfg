SPECIFICATION PortSpec
CONSTANTS
  Task = task
  Run = run
  Node = {n1}
  FirstNode = n1
  Invocation = {i1}
  Artifact = {a1}
  LateCommit = TRUE
  Outcomes = {"succeeded", "failed", "cancelled", "timed_out"}
  MaxArtifacts = 1
  MaxFaults = 1
  MaxEvents = 0
INVARIANTS
  ArtifactHasBytes
CHECK_DEADLOCK FALSE
