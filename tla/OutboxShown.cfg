SPECIFICATION Spec
CONSTANTS
  None = None
  A = A
  B = B
  Users = {A, B}
  Items = {a1}
  BItems = {}
  Ownerless = {}
  OwnerOf <- Owners
  SwitchDirectly = TRUE
  Deletes = FALSE
  MaxFaults = 0
  MaxTurns = 1
INVARIANT NothingOfThePreviousShown
