CONSTANTS
  c1 = c1
  c2 = c2
  k1 = k1
  k2 = k2
  NoWait = NoWait
  Chan <- Chans2
  Wait <- Waits2
  N = 4
  Met <- Chans1
  Kinds = {"routed", "own"}
  Filter <- Filters
  Deletable <- Chans1
  ScanLimit = 2
  BurstCap = 2
  ReadLimit = 1
SPECIFICATION Spec
INVARIANT BacklogEndsWaits
CHECK_DEADLOCK FALSE
