CONSTANTS
  t1 = t1
  t2 = t2
  w1 = w1
  w2 = w2
  e1 = e1
  Nobody = Nobody
  NoTask = NoTask
  Task <- Tasks2
  Worker <- Workers2
  Epic <- Epics
  EpicOf <- OneEpic
  FaultyDisk = TRUE
SPECIFICATION FairSpec
INVARIANTS
  AssignedIsActive
PROPERTIES
  DanglingIsHealed
CONSTRAINTS
  FewColumns
  FewRoles
