SPECIFICATION Spec
CONSTANTS
  None = None
  A = A
  B = B
  Users = {A}
  Items = {a1}
  BItems = {}
  Ownerless = {}
  OwnerOf <- Owners
  SwitchDirectly = FALSE
  Deletes = FALSE
  MaxFaults = 1
  MaxTurns = 1
PROPERTY LockedFileIsLeftAlone
