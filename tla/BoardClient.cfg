CONSTANTS
  AutoConnect = TRUE
  MaxAttempts = 10
SPECIFICATION FairSpec
INVARIANTS
  Inv
PROPERTIES
  DisconnectStays
  AttemptsEnd
