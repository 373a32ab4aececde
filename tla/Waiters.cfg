CONSTANTS
  w1 = w1
  w2 = w2
  c1 = c1
  c2 = c2
  k1 = k1
  k2 = k2
  k3 = k3
  NoConn = NoConn
  NoCall = NoCall
  Worker <- Workers1
  Conn <- Conns2
  Call <- Calls3
  Batched <- Batched1
CONSTRAINT NewsOfOneKind
SPECIFICATION FairSpec
INVARIANTS
  Inv
  NobodySleepsOverTasks
PROPERTIES
  ForeignWaitersSurvive
  WaitsEnd
