CONSTANTS
  Quotes = {q1}
  Users = {u1, u2}
  Fees = {0, 1}
  Subtotal = 1
  NoQuote = NoQuote
  MaxEdits = 2
  MaxId = 2
  Invoices = {i1}
  PPInvoices = {p1, p2}
  NoLink = NoLink
  Hooks = {h1, h2}
  o1 = o1
  o2 = o2
  o3 = o3
  PaidOrders = {o3}
  MaxLapses = 1
  MaxMute = 1
  MaxPayEdits = 1
  SalesOrders <- ThreeOrders
  Quantity <- Quantities
  MaxStock = 5
  Repeats = {}
  Links = {k1, k2}
  OneLink = {k1}
  Customers = {c1, c2}
  Editors = {e1, e2}
  OneEditor = {e1}
  MaxVisitFaults = 1
SPECIFICATION Documents
INVARIANTS
  TypesOK
  ApprovalsBind
  ReservationsHold
PROPERTIES
  MoneySettlesOnce
  AddressesHold
SYMMETRY Symmetry
CHECK_DEADLOCK FALSE
