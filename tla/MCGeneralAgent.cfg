SPECIFICATION Spec
CONSTANTS
  CallId = {c1, c2, c3, c4}
  Signature = {s1, s2}
  Observation = {o1, o2}
  MaxTurns = 5
  MaxCalls = 5
  RepeatLimit = 3
  RepairRetries = 2
  MaxMessages = 13
  MaxBatch = 2
SYMMETRY Identities
INVARIANTS
  TypeOK
  RequestsArePaired
  NoReplayAfterRepair
  NoLongRepetition
  ConversationIsBounded
  RequestsAreShort
CHECK_DEADLOCK FALSE
