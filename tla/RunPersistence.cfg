SPECIFICATION PSpec
CONSTANTS
  Task = task
  Run = run
  Node = {n1}
  FirstNode = n1
  Invocation = {i1}
  Artifact = {a1}
  LateCommit = TRUE
  Outcomes = {"succeeded", "failed"}
  MaxArtifacts = 1
  MaxFaults = 2
  MaxEvents = 4
INVARIANTS
  PTypeOK
  EventNumbering
  ArtifactsAreTold
PROPERTIES
  ImplementsLedger
CHECK_DEADLOCK FALSE
