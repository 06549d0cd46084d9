CONSTANTS
  Tokens = {t1, t2, t3}
  Families = {f1, f2}
  Devices = {d1}
  Reqs = {r1, r2}
  None = None
  TTL = 2
  MaxTime = 2
  MaxPasswords = 1
  MaxAborts = 0
SPECIFICATION Spec
PROPERTIES
  PasswordEndsSessions
CHECK_DEADLOCK FALSE
