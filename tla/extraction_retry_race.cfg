CONSTANTS
  Jobs = {j1}
  Workers = {w1, w2}
  Operators = {o1, o2}
  EmptyText = {}
  NoJob = NoJob
  ApiRetryMax = 2
  MaxAttempts = 4
  MaxQueue = 2
  MaxFaults = 0
  MaxManual = 2
  MaxRules = 0
SPECIFICATION Spec
PROPERTIES
  OnlyFailedJobsLoseItems
SYMMETRY Symmetry
