CONSTANTS
  N = 3
  A1 = A1
  A2 = A2
  B1 = B1
  Pairs <- PairsOfAB
  ProductOf <- ProductAB
  Unresolved = Unresolved
  NoRow = NoRow
  Outcomes <- ResolvedOrNot
  Processes = {w1, w2}
  Alone = {w1}
  Free = Free
  MaxRuns = 5
  MaxFaults = 1
  Postings <- KnownFiles
  Uploads = {u1, u2, u3}
  Known = {1, 2}
  ChannelIds = {1, 2}
  MaxAborts = 1
  Codes = {c1, c2}
  Values = {v1, v2}
  Excluding = {v2}
  ExcludedCode = c2
  NoValue = NoValue
  Requests = {r1, r2, r3}
  Workers = {w1, w2}
  Together = 3
  MaxRetries = 1
  MaxFailures = 2
  MaxLost = 1
SPECIFICATION Catalogue
INVARIANTS
  TypesOK
  DecisionsAreKept
PROPERTIES
  ImportsAreInOrder
  NewerPostsWin
SYMMETRY Symmetry
CHECK_DEADLOCK FALSE
