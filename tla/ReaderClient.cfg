SPECIFICATION FairSpec
CONSTANTS
  None = None
  Helpers = {h1, h2, h3}
  Calls = {c1, c2}
  ExitLimit = 2
INVARIANT ReaderInv
PROPERTIES OwnCuresAreFree SupervisionGoesOn PortSpec
CHECK_DEADLOCK FALSE
