SPECIFICATION MCSpec
CONSTANTS
  r1 = r1
  r2 = r2
  r3 = r3
  p1 = p1
  p2 = p2
  s1 = s1
  s2 = s2
  NoCheck = NoCheck
  Quiet = 2
  MaxHold = 5
  MaxGen = 4
  HookedRepos = {r1}
  Neighbours = {r2}
  Setters = {s1, s2}
  MaxHookTurns = 4
  WriteInterval = 2
  MaxTime = 4
  MaxHookRestarts = 1
  HookRepos = {r1, r2, r3}
  Passes = {p1, p2}
  Workers = 2
  MaxPasses = 3
INVARIANTS
  BurstsAreServed
  HooksAreRemembered
  DeliveriesAreBooked
PROPERTIES
  OnlyALeftoverFiresEarly
  RefusalIsForgotten
CHECK_DEADLOCK FALSE
