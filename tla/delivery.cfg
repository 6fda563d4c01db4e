SPECIFICATION MCSpec
CONSTANTS
  NoWorker = NoWorker
  Worker = {w1, w2}
  Attempts = 2
  MaxStalls = 1
  Channel = {mail, pigeon}
  Transportless = {pigeon}
  Call = {k1}
  MaxMishaps = 2
  Target = {t1}
  Event = {e1}
  Told = {k1, k2}
  Test = {x1}
  MaxTroubles = 1
\* Calls, messages and mishaps come to an end.
CHECK_DEADLOCK FALSE
INVARIANTS HonestRow CountsAreHonest HonestHistory SentOncePerEvent NobodyForgotten
PROPERTIES DeliveredSurvivesCrashes DeliveriesSettle
