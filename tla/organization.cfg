\* Every part of it may come to rest at its bounds.
CHECK_DEADLOCK FALSE
CONSTANTS
  Checkout = {k1, k2}
  Paid = {"STARTER", "GROWTH"}
  None = None
  MaxEvents = 6
  MaxRedeliveries = 1
  Plans <- Tier
  FirstTier = "FREE"
  Resource = {"monitor", "seat"}
  Limit <- Catalog
  Unlimited = Unlimited
  Creator = {c1, c2}
  Inviter = {i1}
  MaxUsed = 3
  Users = {u1, u2, u3}
  Nobody = nobody
  Periods = {1, 2}
  Handoffs = {0, 1}
  LastInstant = 3
  MaxChanges = 2
  Editors = {e1, e2}
  Offsets = {0, 1}
  Queries <- QueriesNamed
  Away = "newStatusPage"
  NewRoles = {"viewer"}
  MaxWrites = 2
  MaxRoleChanges = 1
SPECIFICATION MCSpec
INVARIANTS RowAgreesWithStripe LimitsHold NothingOfferedIsRefused ScreenIsCurrent
PROPERTIES HandoffGoesToBackup
