SPECIFICATION Spec
CONSTANTS
  Leader <- TheLeader
  Child <- OneChild
INVARIANTS
  GroupIsTerminated
CHECK_DEADLOCK FALSE
