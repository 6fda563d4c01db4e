SPECIFICATION Spec
CONSTANTS
  c1 = c1
  c2 = c2
  p1 = p1
  r1 = r1
  w1 = w1
  CounterCap = 1
  Checker <- OneChecker
  Pinger = {}
  Heartbeat = FALSE
  Request <- OneRequest
  ApiOps <- OnlyAck
  Window = {}
  Thresholds <- One
  Policies <- WithAndWithout
  FlapThreshold = 3
  MaxIncidents = 2
  MaxFaults = 0
  Lookback = 0
CHECK_DEADLOCK FALSE
INVARIANT AtMostOneActive
