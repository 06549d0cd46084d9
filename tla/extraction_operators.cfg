CONSTANTS
  Jobs = {j1}
  Workers = {w1, w2}
  Operators = {o1, o2}
  EmptyText = {}
  NoJob = NoJob
  ApiRetryMax = 2
  MaxAttempts = 5
  MaxQueue = 2
  MaxFaults = 0
  MaxManual = 2
  MaxRules = 1
SPECIFICATION Spec
INVARIANTS
  ExtractedOnce
SYMMETRY Symmetry
