CONSTANTS
  Posts = {p1}
  Reruns = {u1}
  Askers = {a1, a2}
  Runners = {r1, r2}
  RetryMax = 2
  MaxData = 2
  MaxQueue = 2
  MaxHands = 1
  MaxFaults = 2
  MaxCrashes = 1
SPECIFICATION Runs
INVARIANTS
  TypeOK
  KeyIsBacked
  RequestsAreMerged
  NoChangeIsMissed
  TabIsTrue
SYMMETRY Symmetry
CHECK_DEADLOCK FALSE
