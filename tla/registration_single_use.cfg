CONSTANTS
  Tokens = {k1}
  Customers = {c1, c2}
  Editors = {}
  None = None
  MaxFaults = 0
SPECIFICATION Spec
INVARIANTS
  SingleUse
CHECK_DEADLOCK FALSE
