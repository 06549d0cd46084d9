CONSTANTS
  Tenants = {1, 2, 3}
  d1 = d1
  d2 = d2
  Disputes = {d1, d2}
  Owner <- TwoOwners
  Hooks = {h1}
  MaxEvent = 2
  MaxErrors = 2
  MaxRepeats = 1
  Invoices = {i1}
  PPInvoices = {p1, p2}
  NoLink = NoLink
  Users = {u1}
  Requests = {r1}
  Codes = {c1}
  Procs = {s1}
  None = None
  Tabs = {t1}
  Others = others
  OwnWrites = TRUE
  Connected = TRUE
  Guarded = TRUE
  QueueMax = 2
  MaxConn = 1
  MaxWrites = 2
  MaxInFlight = 2
  MaxHides = 1
  MaxDrops = 1
  MaxOutages = 0
  MaxLost = 0
  Uploads = {v1, v2}
  Dora = Dora
  Lea = Lea
  ViewerCodes = {k1, k2}
  Rooms = {o1}
  Bot = Bot
  Signup = Signup
  Purge = Purge
SPECIFICATION Progress
INVARIANTS
  TypesOK
PROPERTIES
  EventsAreHeard
  ScreensFollow
  WaitsEnd
CHECK_DEADLOCK FALSE
