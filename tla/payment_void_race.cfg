CONSTANTS
  Invoices = {i1}
  Orders = {}
  PPInvoices = {p1}
  NoLink = NoLink
  Users = {u1}
  Hooks = {h1}
  MaxLapses = 0
  MaxMute = 0
  MaxEdits = 0
SPECIFICATION Spec
PROPERTIES
  PaidIsNotVoided
CHECK_DEADLOCK FALSE
