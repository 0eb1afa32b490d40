SPECIFICATION MCSpec
CONSTANTS
  c = c
  d = d
  h1 = h1
  h2 = h2
  w1 = w1
  w2 = w2
  p1 = p1
  p2 = p2
  q1 = q1
  q2 = q2
  r1 = r1
  r2 = r2
  u1 = u1
  u2 = u2
  x = x
  y = y
  Writers = {w1, w2}
  Choices = {c, d}
  MaxRev = 2
  MaxTokens = 2
  MaxSaves = 2
  Handlers = {h1, h2}
  MaxCeremonies = 3
  MaxPending = 2
  MaxUsers = 2
  NoUser = NoUser
  Accounts = 2
  MaxCrashes = 2
  Stacked = {1, 2, 3}
  Branches = {"a", "b", "c"}
  MaxForgeMoves = 1
  Repos = {r1, r2}
  RowSets = {x, y}
  NoRows = NoRows
  Publishers = {p1, p2}
  MaxMoves = 2
  MaxReboots = 1
  Urls = {u1, u2}
  Requests = {q1, q2}
  MaxContent = 3
  MaxBody = 3
  MaxEntries = 2
  MaxBytes = 4
  TableCap = 2
  MaxTurns = 2
INVARIANTS
  SettingsAreKept
  RowsTellTheTruth
  BranchesAreSafe
PROPERTIES
  
  OwnerKeepsTheAccount
CHECK_DEADLOCK FALSE
