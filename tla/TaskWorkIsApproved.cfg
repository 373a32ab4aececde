CONSTANTS
  w1 = w1
  w2 = w2
  s1 = s1
  s2 = s2
  d1 = d1
  Nobody = Nobody
  Worker <- OneWorker
  Step <- OneStep
  DodItem <- OneItem
  Modes <- AllModes
  MaxReopens = 2
  MaxCritiqueBlocks = 1
  RefusalThreshold = 1
SPECIFICATION Spec
INVARIANTS
  WorkIsApproved
