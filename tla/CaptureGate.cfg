SPECIFICATION FairSpec
CONSTANTS
  None = None
  Users = {u1, u2}
  MaxSaves = 2
  MaxFaults = 1
  MaxTurns = 2
INVARIANTS GateInv ReadsByConsent
CHECK_DEADLOCK FALSE
PROPERTY CaptureFollows
