SPECIFICATION Spec
CONSTANTS
  Leader <- TheLeader
  Child <- OneChild
INVARIANTS
  LeaderIsGone
  StopIsTold
PROPERTIES
  NoLateSignal
  InvokeEnds
CHECK_DEADLOCK FALSE
