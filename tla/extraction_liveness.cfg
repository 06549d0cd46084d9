CONSTANTS
  Jobs = {j1}
  Workers = {w1, w2}
  Operators = {}
  EmptyText = {}
  NoJob = NoJob
  ApiRetryMax = 2
  MaxAttempts = 3
  MaxQueue = 1
  MaxFaults = 1
  MaxManual = 0
  MaxRules = 0
SPECIFICATION FairSpec
PROPERTIES
  NothingIsForgotten
