CONSTANTS
  Jobs = {j1}
  Workers = {w1, w2}
  Operators = {}
  EmptyText = {}
  NoJob = NoJob
  ApiRetryMax = 3
  MaxAttempts = 5
  MaxQueue = 2
  MaxFaults = 2
  MaxManual = 0
  MaxRules = 0
SPECIFICATION Spec
INVARIANTS
  TypeOK
  JobMatchesLatestAttempt
  CallsAreLimited
PROPERTIES
  KeepsPromise
  EndedAttemptsStay
  StatusesStay
SYMMETRY Symmetry
