SPECIFICATION Spec
CONSTANTS
  None = None
  TailSize = 1
  MaxLen = 3
  MaxOpens = 2
  MaxTurns = 2
  MaxFailures = 1
INVARIANTS
  TypeOK
  LogContiguous
PROPERTY LogCompletes
CHECK_DEADLOCK FALSE
