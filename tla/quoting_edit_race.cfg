CONSTANTS
  Quotes = {q1}
  Users = {u1, u2}
  Fees = {0, 1}
  Subtotal = 1
  NoQuote = NoQuote
  MaxEdits = 2
  MaxId = 1
SPECIFICATION Spec
PROPERTIES
  DecidedIsNotEdited
CHECK_DEADLOCK FALSE
