CONSTANTS
  c1 = c1
  c2 = c2
  c3 = c3
  channel = channel
  Context <- Contexts3
  Leaf <- Leaves
  StateMutex = StateMutex
  activity = activity
  NoLock = NoLock
  MaxCalls = 2
SPECIFICATION FairSpec
INVARIANTS
  MutualExclusion
  LockIsInUse
PROPERTIES
  NoOvertaking
  EveryoneIsServed
