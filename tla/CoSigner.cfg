SPECIFICATION Spec
CONSTANTS
  u1 = u1
  u2 = u2
  u3 = u3
  anon = anon
  t1 = t1
  t2 = t2
  NoThread = NoThread
  Uids <- MCUids
  Threads <- MCThreads
  Requested <- MCRequested
  PerUserLimit = 1
  TotalLimit = 2
  SignLimit = 1
  RewrapLimit = 1
  DistinctLimit = 2
  Window = 1
  DistinctWindow = 0
  AllowRetention = 2
  DenyRetention = 2
  MaxTime = 3
  MaxRows = 3
SYMMETRY MCSymmetry
INVARIANTS
  TypeOK
  WrapOnce
  Ceilings
  LimiterExact
  KillSwitchStops
PROPERTY ImplementsLedger
