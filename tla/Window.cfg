SPECIFICATION FairWindow
CONSTANTS
  None = None
  Users = {u1}
  MaxSaves = 2
  MaxTroubles = 2
  Targets = {t1, t2}
  Words = {1, 2}
  PerDay = 2
  PerTarget = 2
  Ttl = 1
  Most = 3
  LastDay = 2
INVARIANT WindowInv
PROPERTIES SetupEnds CarriedStays
