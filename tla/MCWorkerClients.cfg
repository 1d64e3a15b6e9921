\* One worker (--max-download-workers 1).
SPECIFICATION Spec
CONSTANTS
  Workers = {w1}
  own = own
  single = single
  linked = linked
  linked2 = linked2
  Notes <- MCNotes
  Auth <- MCAuth
  HomeShard <- MCHomeShard
  NoShard = "none"
  MaxAttempts = 2
INVARIANTS
  RightClient
  CacheExact
\* The notes run out.
CHECK_DEADLOCK FALSE
