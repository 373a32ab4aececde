CONSTANTS
  s1 = s1
  s2 = s2
  NoSup = NoSup
  Sup <- Sups2
  MaxRestarts = 2
  SlowProbe = TRUE
  SlowStart = TRUE
SPECIFICATION FairSpec
INVARIANTS
  Inv
PROPERTIES
  StaysStopped
  StopsForGood
  
CHECK_DEADLOCK FALSE
