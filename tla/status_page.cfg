SPECIFICATION Spec
CONSTANTS
  c1 = c1
  c2 = c2
  c3 = c3
  m1 = m1
  e1 = e1
  e2 = e2
  i1 = i1
  p1 = p1
  p2 = p2
  p3 = p3
  a1 = a1
  v1 = v1
  v2 = v2
  v3 = v3
  v4 = v4
  d1 = d1
  l1 = l1
  l2 = l2
  None = None
  Component <- Components
  Monitor <- Monitors
  Editor <- Editors
  Chosen <- Kinds
  Manual <- Statuses
  Reported <- Healths
  Place <- Places
  MaxOrders = 1
  Incident <- Incidents
  Post <- Posts
  Address <- Addresses
  Told <- Reports
  Visit <- Visits
  Domain <- Hostnames
  Lookup <- Lookups
  MaxChanges = 3
CHECK_DEADLOCK FALSE
INVARIANTS NoTies OneStory Consent ResolvedIsProven
