SPECIFICATION Spec
CONSTANTS
  None = None
  Users = {u1, u2}
  MaxSaves = 1
  MaxFaults = 0
  MaxTurns = 3
INVARIANT ChoicesAreOnesOwn
CHECK_DEADLOCK FALSE
