SPECIFICATION Spec
CONSTANTS
  None = None
  A = A
  B = B
  Users = {A, B}
  Items = {a1, b1}
  BItems = {b1}
  Ownerless = {a1}
  OwnerOf <- Owners
  SwitchDirectly = FALSE
  Deletes = FALSE
  MaxFaults = 1
  MaxTurns = 2
INVARIANTS LogIsTrue PendingIsTheUsers NeverToAnotherAccount NothingDropped
