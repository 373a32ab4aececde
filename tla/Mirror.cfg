CONSTANTS
  f1 = f1
  f2 = f2
  Project = Project
  NoFile = NoFile
  MaxLoads = 2
  File <- TwoFiles
SPECIFICATION MirrorFairSpec
INVARIANTS
  MirrorInv
PROPERTIES
  EditsAreSeen
