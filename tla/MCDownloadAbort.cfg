\* The same pool with an interrupt only.
SPECIFICATION FairSpec
CONSTANTS
  Workers = {w1, w2}
  n1 = n1
  n2 = n2
  n3 = n3
  n4 = n4
  Notes <- MCNotes
  Size <- MCSize
  memory_limit = 2
  ChunkSize = 3
  MaxFailures = 0
  MaxInterrupts = 1
  None = None
PROPERTY AbortEnds
\* The download phase ends.
CHECK_DEADLOCK FALSE
