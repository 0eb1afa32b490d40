SPECIFICATION MCSpec
CONSTANTS
  c1 = c1
  c2 = c2
  c3 = c3
  s1 = s1
  s2 = s2
  t1 = t1
  Callers = {c1, c2, c3}
  MaxCalls = 5
  Saves = {s1, s2}
  Tabs = {t1}
  MaxViewers = 1
  MaxGen = 2
INVARIANTS
  GateIsSound
PROPERTIES
  ImplementsGate
  
  ServiceHolds
  ReturnIsAnswered
CHECK_DEADLOCK FALSE
