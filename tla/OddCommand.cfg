SPECIFICATION Spec
CONSTANTS
  None = None
  Reserved <- ReservedNames
  UnsafeName <- UnsafeNames
  MaxArguments = 2
  DefaultTimeout = 30
  MaxTimeout = 30
  MaxStdin = 4
  MaxDeclared = 2
  StreamLimit = 65536
  Caller <- TwoCallers
  Context <- ThreeContexts
  Wirings <- TheWirings
  Request <- TheRequests
  Outputs <- TheOutputs
  UnsafeSkill = {"odd_root"}
INVARIANTS
  SnapshotsKnown
CHECK_DEADLOCK FALSE
