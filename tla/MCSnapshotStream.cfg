SPECIFICATION FairSpec
CONSTANTS
  p1 = p1
  p2 = p2
  s1 = s1
  s2 = s2
  Nobody = Nobody
  Publishers = {p1, p2}
  Channels = {s1, s2}
  MaxVersion = 3
INVARIANTS
  SendsAreSafe
  OnlyOvertakingLeavesAStreamBehind
PROPERTIES
  EveryStreamCatchesUp
CHECK_DEADLOCK FALSE
