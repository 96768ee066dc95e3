SPECIFICATION Spec
CONSTANTS
  None = None
  Users = {u1, u2}
  MaxSaves = 2
  MaxFaults = 0
  MaxTurns = 2
INVARIANT OnlyIfStarted
CHECK_DEADLOCK FALSE
