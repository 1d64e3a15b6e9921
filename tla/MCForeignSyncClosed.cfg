\* A note of a linked notebook and a singly shared one; no faults.
SPECIFICATION FairSpec
CONSTANTS
  n1 = n1
  n2 = n2
  l1 = l1
  SharedWithMe = SharedWithMe
  Notes = {n1, n2}
  Notebooks = {l1, SharedWithMe}
  Home <- MCHome
  None = None
  MaxClock = 6
  MaxFaults = 0
PROPERTY InaccessibleSkipped
