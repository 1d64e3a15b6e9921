\* Two notes of one notebook, an account that changes five times, one fault.
SPECIFICATION FairSpec
CONSTANTS
  Notes = {n1, n2}
  Notebooks = {b1}
  None = None
  MaxUSN = 5
  MaxFaults = 1
  MaxEdits = 0
INVARIANTS
  TypeOK
  CursorSound
  InFlightSound
PROPERTIES
  WipedOnlyWhenChanged
  KeepsContract
  EventuallyMirrored
