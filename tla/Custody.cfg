SPECIFICATION Spec
CONSTANTS
  t1 = t1
  t2 = t2
  None = None
  Wiped = Wiped
  Cached = Cached
  Tasks <- MCTasks
  MaxKeys = 3
  MaxTasks = 4
  MaxFaults = 1
  MaxCrashes = 1
SYMMETRY MCSymmetry
INVARIANTS
  TypeOK
  NeverLockedOut
  FilesHold
PROPERTY DeletionErases
CHECK_DEADLOCK FALSE
