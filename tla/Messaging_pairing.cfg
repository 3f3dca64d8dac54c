SPECIFICATION FairSpec
CONSTANTS
  m1 = m1
  m2 = m2
  n1 = n1
  o1 = o1
  d = d
  e = e
  g = g
  Free = Free
  Pruner = Pruner
  Inbound <- EachInbound
  Outbound <- EachOutbound
  Conv <- EachConv
  ConvOf <- EachConvOf
  Policy <- EachPolicy
  Unaddressed <- EachUnaddressed
  MaxUpdates = 0
  MaxPrunes = 0
  MaxCrashes = 0
  MaxFaults = 0
PROPERTIES MessageAnswered
CHECK_DEADLOCK FALSE
