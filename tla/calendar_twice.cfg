CONSTANTS
  Gids = {g1}
  Own = {a1}
  Reqs = {}
  Workers = {w1}
  Admins = {}
  None = None
  MaxEdition = 1
  MaxModes = 0
  MaxRegisters = 1
  MaxFaults = 0
SPECIFICATION Spec
INVARIANTS
  ShownOnce
CHECK_DEADLOCK FALSE
