CONSTANTS
  Posts = {p1}
  Reruns = {}
  Askers = {a1}
  Runners = {r1, r2}
  RetryMax = 2
  MaxData = 2
  MaxQueue = 2
  MaxHands = 0
  MaxFaults = 1
  MaxCrashes = 1
  Gids = {g1}
  Own = {e1}
  Reqs = {q1, q2}
  FirstRequest = {q1}
  Workers = {w1, w2}
  FirstWorker = {w1}
  Admins = {m1}
  None = None
  MaxEdition = 3
  MaxModes = 1
  MaxRegisters = 1
  MaxFailures = 1
SPECIFICATION Upkeep
INVARIANTS
  TypesOK
PROPERTIES
  RequestsAreServed
  CalendarFollows
CHECK_DEADLOCK FALSE
