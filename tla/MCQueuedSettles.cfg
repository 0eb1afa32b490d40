SPECIFICATION FairSpec
CONSTANTS
  c1 = c1
  c2 = c2
  t1 = t1
  Clients = {c1}
  Targets = {t1}
  MaxItems = 1
  MaxRestarts = 1
  MaxReset = 1
  Buffer = 0
  Minute = 1
  Retry = 1
  GiveUp = 1
  Keep = 0
  Day = 2
PROPERTIES
  EveryRowSettles
