SPECIFICATION FairSpec
CONSTANTS
  c1 = c1
  c2 = c2
  p1 = p1
  r1 = r1
  w1 = w1
  CounterCap = 2
  Checker <- TwoCheckers
  Pinger = {}
  Heartbeat = FALSE
  Request = {}
  ApiOps = {}
  Window = {}
  Thresholds <- Two
  Policies <- OnlyWithout
  FlapThreshold = 9
  MaxIncidents = 2
  MaxFaults = 0
  Lookback = 0
CHECK_DEADLOCK FALSE
PROPERTIES OutageSurfaces RecoverySurfaces
