SPECIFICATION FairSpec
CONSTANTS
  c1 = c1
  c2 = c2
  p1 = p1
  r1 = r1
  w1 = w1
  CounterCap = 1
  Checker <- OneChecker
  Pinger = {}
  Heartbeat = FALSE
  Request = {}
  ApiOps = {}
  Window = {}
  Thresholds <- One
  Policies <- WithAndWithout
  FlapThreshold = 3
  MaxIncidents = 2
  MaxFaults = 1
  Lookback = 0
CHECK_DEADLOCK FALSE
PROPERTY OutageIsRecorded
