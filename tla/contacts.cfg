CONSTANTS
  Ann = Ann
  Bob = Bob
  Hello = Hello
  Again = Again
  Order = Order
  Reply = Reply
  Note = Note
  Deliveries = {d1, d2}
  Invites = {i1}
  Emails = {x1}
  Guests = {u1, u2}
  Procs = {s1, s2}
  Sweepers = {b1}
  None = None
  Accounts = {Dora, Emil}
  Dora = Dora
  Emil = Emil
  Members = {Lea, Mia}
  Mia = Mia
  Codes = {c1, c2, c3}
  Channels = {o1, o2}
  Handlers = {Bot, Bot2}
  Bot = Bot
  Bot2 = Bot2
  Requests = {Signup, Signup2}
  Signup2 = Signup2
  Purge = Purge
  MaxFaults = 1
SPECIFICATION Contacts
PROPERTIES
  ConversationsAreKept
  RoomsAreSwept
  ViewersHold
CHECK_DEADLOCK FALSE
