CONSTANTS
  Tokens = {t1, t2, t3}
  Families = {f1, f2}
  Devices = {d1}
  Reqs = {r1, r2}
  None = None
  TTL = 1
  MaxTime = 1
  MaxPasswords = 1
  MaxAborts = 1
  Requests = {l1}
  Codes = {c1, c2}
  FirstCodes = {c1}
  Procs = {p1, p2}
  OneProc = {p1}
  HourlyLimit = 1
  MaxWrong = 2
  MaxLoginFaults = 0
  Translated = {m1}
  MaxCalls = 4
  Invites = {i1, i2}
  Emails = {m1, m2}
  Members = {u1, u2}
  Rooms = {o1, o2}
  Sweepers = {s1}
  Ann = Ann
  Bob = Bob
  Hello = Hello
  Again = Again
  Order = Order
  Reply = Reply
  Note = Note
  OnInstagram = {Bob}
  Deliveries = {d1, d2}
  Staff = {f1}
SPECIFICATION Access
INVARIANTS
  TypesOK
  OneLiveToken
  FamiliesEnd
  BudgetHolds
  JoinsHold
  AnswersReachTheirCustomer
PROPERTIES
  KeepsPromise
  EntriesAreEarned
SYMMETRY Symmetry
CHECK_DEADLOCK FALSE
