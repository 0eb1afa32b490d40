SPECIFICATION MCSpec
CONSTANTS
  c1 = c1
  t1 = t1
  Clients = {c1}
  Targets = {t1}
  MaxItems = 2
  MaxRestarts = 1
  MaxReset = 1
  Buffer = 1
  Minute = 1
  Retry = 1
  GiveUp = 1
  Keep = 0
  Day = 2
  UMaxVer = 1
  UMaxRestarts = 1
  UMaxEdits = 1
  Base = 2
  Cap = 8
  Overdue = 4
  MaxLate = 1
  Limit = 14
  Floor = 3
  MaxCost = 4
  StretchRoof = 8
  BackoffBuffer = 1
  MaxBackoff = 10
INVARIANTS
  QueueIsHonest
  PollsAreRationed
PROPERTIES
  NotAskedTwice
  UpdatesAreWanted
CHECK_DEADLOCK FALSE
