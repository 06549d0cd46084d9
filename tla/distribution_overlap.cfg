CONSTANTS
  Posts = {}
  Reruns = {}
  Askers = {a1}
  Runners = {r1, r2}
  RetryMax = 2
  MaxData = 2
  MaxQueue = 2
  MaxHands = 0
  MaxFaults = 0
  MaxCrashes = 0
SPECIFICATION Spec
INVARIANTS
  WrittenIsWhatWasRead
CHECK_DEADLOCK FALSE
