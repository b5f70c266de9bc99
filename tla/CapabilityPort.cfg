SPECIFICATION PortSpec
CONSTANTS
  Task = task
  Run = run
  Node = {n1}
  FirstNode = n1
  Invocation = {i1, i2}
  Artifact = {a1, a2}
  LateCommit = TRUE
  Outcomes = {"succeeded", "failed", "cancelled", "timed_out"}
  MaxArtifacts = 2
  MaxFaults = 2
  MaxEvents = 0
INVARIANTS
  EffectIsRecorded
  ExposedIsDurable
  FailureIsSettledOrExplicit
PROPERTIES
  CommittedBytesStay
  CancellationEnds
CHECK_DEADLOCK FALSE
