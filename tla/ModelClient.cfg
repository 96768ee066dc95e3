SPECIFICATION FairSpec
CONSTANTS
  None = None
  Users = {p, t}
  Tests = {t}
  MaxIds = 2
INVARIANTS HostInv RightConversation

CHECK_DEADLOCK FALSE
PROPERTIES RunsEnd
