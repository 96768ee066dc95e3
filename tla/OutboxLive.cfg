SPECIFICATION FairSpec
CONSTANTS
  None = None
  A = A
  B = B
  Users = {A, B}
  Items = {a1}
  BItems = {}
  Ownerless = {}
  OwnerOf <- Owners
  SwitchDirectly = TRUE
  Deletes = TRUE
  MaxFaults = 1
  MaxTurns = 1
INVARIANT PendingIsTheUsers
PROPERTY OutboxDrains
