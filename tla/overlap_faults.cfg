SPECIFICATION Spec
CONSTANTS
  c1 = c1
  c2 = c2
  p1 = p1
  r1 = r1
  w1 = w1
  CounterCap = 1
  Checker <- TwoCheckers
  Pinger = {}
  Heartbeat = FALSE
  Request = {}
  ApiOps = {}
  Window = {}
  Thresholds <- One
  Policies <- OnlyWith
  FlapThreshold = 1
  MaxIncidents = 2
  MaxFaults = 2
  Lookback = 0
CHECK_DEADLOCK FALSE
SYMMETRY Symmetry
INVARIANTS ToldAtMostOnce FlappingIsSilent
PROPERTY BoardSpec
