CONSTANTS
  N = 6
  Batch <- Batches
  Oversized <- TooLong
  QueueCap = 2
SPECIFICATION FairSpec
INVARIANTS
  Inv
  SentInOrder
PROPERTIES
  AnswersOnce
  RequestsEnd
CHECK_DEADLOCK FALSE
