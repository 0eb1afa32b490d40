SPECIFICATION FairSpec
CONSTANTS
  r1 = r1
  u1 = u1
  u2 = u2
  Repos = {r1}
  Users = {u1, u2}
  FullPassEvery = 3
  MaxVersion = 2
INVARIANTS
  TypeOK
  ClickShortensPass
  
PROPERTIES
  UserRefreshIsFull
  
