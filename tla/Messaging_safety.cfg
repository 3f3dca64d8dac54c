SPECIFICATION Spec
CONSTANTS
  m1 = m1
  m2 = m2
  n1 = n1
  o1 = o1
  d = d
  e = e
  g = g
  Free = Free
  Pruner = Pruner
  Inbound <- MeetInbound
  Outbound <- MeetOutbound
  Conv <- MeetConv
  ConvOf <- MeetConvOf
  Policy <- MeetPolicy
  Unaddressed <- MeetUnaddressed
  MaxUpdates = 1
  MaxPrunes = 1
  MaxCrashes = 1
  MaxFaults = 1
INVARIANTS TypeOK CountMatches AnswersLogged GateExact
PROPERTIES ApprovalUndoneExplained
CHECK_DEADLOCK FALSE
