\* A note that moves between two notebooks, one of them expunged, and that is
\* put on the blacklist, by its guid or by its notebook, and taken off it again.
SPECIFICATION FairSpec
CONSTANTS
  Notes = {n1}
  Notebooks = {b1, b2}
  None = None
  MaxUSN = 5
  MaxFaults = 0
  MaxEdits = 2
INVARIANT CursorSound
PROPERTIES
  BlacklistHonoured
  OnlyExpungedDeleted
  EventuallyMirrored
