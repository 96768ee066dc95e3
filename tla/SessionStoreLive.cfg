CONSTANTS
  None = None
  Refresher = Refresher
  Users = {u1}
  Calls = {c1, c2}
  RestoreFirst = FALSE
  MaxGeneration = 1
  MaxToken = 2
SPECIFICATION FairSpec
PROPERTY CallsEnd
