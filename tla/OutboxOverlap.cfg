SPECIFICATION Spec
CONSTANTS
  None = None
  A = A
  B = B
  Users = {A}
  Items = {a1, a2}
  BItems = {}
  Ownerless = {}
  OwnerOf <- Owners
  SwitchDirectly = FALSE
  Deletes = FALSE
  MaxFaults = 0
  MaxTurns = 1
INVARIANT NeverDroppedSilently
