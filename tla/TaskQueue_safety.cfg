SPECIFICATION Spec
CONSTANTS
  r1 = r1
  r2 = r2
  r3 = r3
  a = a
  b = b
  Request <- MCRequest
  TaskId <- MCTaskId
  IdOf <- MCIdOf
  Prio <- MCPrio
  MaxInflight = 1
  MaxPending = 1
  MaxCallers = 2
  DepthRange = 8
  StoreMayFail = TRUE
  MaxCrashes = 1
INVARIANTS TypeOK PermitsConserved DepthExact OverrunBound BucketsHoldWaiting NoOvertaking RowNeverAhead
PROPERTIES ImplementsPool
CHECK_DEADLOCK FALSE
