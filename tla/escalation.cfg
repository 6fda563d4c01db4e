SPECIFICATION FairSpec
CONSTANTS
  w1 = w1
  ann = ann
  chat = chat
  rota = rota
  NoWorker = NoWorker
  Nobody = Nobody
  Worker <- OneWorker
  Attempts = 3
  MaxStalls = 2
  User <- OneUser
  Channel <- OneChannel
  Schedule <- rota
  MaxSteps = 2
  MaxRepeat = 1
  Policies <- SomePolicies
  MaxTicks = 8
  MaxMishaps = 1
CHECK_DEADLOCK FALSE
INVARIANTS PagesAreHonest ChainIsInOrder
PROPERTIES ClosedIsQuiet EveryStepFires ChainDies
