CONSTANTS
  None = None
  Refresher = Refresher
  Users = {u1, u2}
  Calls = {c1, c2}
  RestoreFirst = TRUE
  MaxGeneration = 2
  MaxToken = 3
SPECIFICATION Spec
SYMMETRY Symmetry
PROPERTY RefreshStaysWithIdentity
