SPECIFICATION MCSpec
CONSTANTS
  r1 = r1
  u1 = u1
  u2 = u2
  h1 = h1
  Repos = {r1}
  MaxSeq = 3
  MaxVersion = 2
  Pulls = {u1, u2}
  Readers = {h1}
  MaxBoards = 2
  MaxJobSteps = 7
  FullTTL = 1
  MaxHeads = 1
  MaxCheckTurns = 5
  MaxPush = 1
  MaxFetches = 3
  MaxAsks = 1
INVARIANTS
  TypeOK
  OnlyALateMarkIsUndone
  
  ColoursAreEarned
PROPERTIES
  NewerReadIsNotUndone
  OnlyAPollHidesARefresh
  RequestsAreShown
CHECK_DEADLOCK FALSE
