\* Two workers: the default is five.
SPECIFICATION Spec
CONSTANTS
  Workers = {w1, w2}
  own = own
  single = single
  linked = linked
  linked2 = linked2
  Notes <- MCNotes
  Auth <- MCAuth
  HomeShard <- MCHomeShard
  NoShard = "none"
  MaxAttempts = 2
INVARIANT
  RightClient
\* The notes run out.
CHECK_DEADLOCK FALSE
