\* Two workers, two chunks, a failed download and an interrupt.
SPECIFICATION FairSpec
CONSTANTS
  Workers = {w1, w2}
  n1 = n1
  n2 = n2
  n3 = n3
  n4 = n4
  Notes <- MCNotes
  Size <- MCSize
  memory_limit = 2
  ChunkSize = 3
  MaxFailures = 1
  MaxInterrupts = 1
  None = None
INVARIANTS
  TypeOK
  MemoryAccounted
  MemoryBounded
  NoneLost
PROPERTY Completes
\* The download phase ends.
CHECK_DEADLOCK FALSE
