\* One note along both paths.
SPECIFICATION FairSpec
CONSTANTS
  n1 = n1
  n2 = n2
  l1 = l1
  SharedWithMe = SharedWithMe
  Notes = {n1}
  Notebooks = {l1, SharedWithMe}
  Home <- MCHome
  None = None
  MaxClock = 5
  MaxFaults = 1
INVARIANTS
  TypeOK
  LinkedCursorSound
  SharedCursorSound
PROPERTY EventuallyHeld
