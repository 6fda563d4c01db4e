SPECIFICATION FairSpec
CONSTANTS
  c1 = c1
  c2 = c2
  p1 = p1
  r1 = r1
  w1 = w1
  CounterCap = 2
  Checker <- OneChecker
  Pinger = {}
  Heartbeat = FALSE
  Request <- OneRequest
  ApiOps <- OnlyUpdate
  Window <- OneWindow
  Thresholds <- OneTwo
  Policies <- OnlyWith
  FlapThreshold = 9
  MaxIncidents = 2
  MaxFaults = 0
  Lookback = 2
CHECK_DEADLOCK FALSE
INVARIANTS HealthMatchesIncidents EndIsAnnounced
PROPERTIES BlipNeverOpens IncidentsEnd
