SPECIFICATION MCSpec
CONSTANTS
  c1 = c1
  c2 = c2
  c3 = c3
  Refreshers = {c1, c2, c3}
  MaxSnaps = 5
  MaxVer = 1
  MaxRestarts = 1
INVARIANTS
  PassesAreInOrder
PROPERTIES
  EverySnapshotGetsAPass
  EveryRefreshMovesOn
  MergesAreWanted
  EveryArmedPullIsTried
CHECK_DEADLOCK FALSE
