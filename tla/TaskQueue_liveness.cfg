SPECIFICATION FairSpec
CONSTANTS
  r1 = r1
  r2 = r2
  r3 = r3
  a = a
  b = b
  Request <- MCRequest
  TaskId <- MCTaskId
  IdOf <- MCIdOf
  Prio <- MCPrio
  MaxInflight = 2
  MaxPending = 2
  MaxCallers = 1
  DepthRange = 8
  StoreMayFail = FALSE
  MaxCrashes = 0
INVARIANTS RowSettles
PROPERTIES AcceptedRuns
CHECK_DEADLOCK FALSE
