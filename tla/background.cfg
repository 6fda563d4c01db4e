\* Every part of it may come to rest at its bounds.
CHECK_DEADLOCK FALSE
CONSTANTS
  Monitors = {m1}
  Regions = {r1, r2}
  AllRegions = all
  Replicas = {w1}
  Backfill = backfill
  LastDay = 2
  Lookback = 1
  ChunkDays = 1
  MaxChecks = 2
  MaxFailures = 1
  MaxBackfills = 1
  Checks = {c1}
  Targets <- MCTargets
  Mirrors = 2
  MaxRedirects = 1
  MaxRuns = 3
  na = na
  eu = eu
  ch = ch
  Monitor = {m1}
  Request = {q1, q2}
  Region = {na, eu}
  Config <- Configs
  Update <- Updates
  Owned = {ch}
  Sync = {s1, s2}
  Serves <- RegionsServed
  MaxSyncFailures = 1
SPECIFICATION MCSpec
INVARIANTS ReadersAgree AlarmIsUnanimous ConfigIsCoherent
PROPERTIES RowsCatchUp Converges
