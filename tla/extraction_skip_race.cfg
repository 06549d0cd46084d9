CONSTANTS
  Jobs = {j1}
  Workers = {w1, w2}
  Operators = {}
  EmptyText = {}
  NoJob = NoJob
  ApiRetryMax = 2
  MaxAttempts = 3
  MaxQueue = 2
  MaxFaults = 0
  MaxManual = 0
  MaxRules = 1
SPECIFICATION Spec
PROPERTIES
  OnlyPendingIsSkipped
SYMMETRY Symmetry
