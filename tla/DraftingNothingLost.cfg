SPECIFICATION Spec
CONSTANTS
  Requests = {r1}
  Mail = {m1, m2}
  Sent = {s1, s2}
  MaxArrivals = 2
  MAX_ITERATIONS = 1
  MAX_EM_DASH_RETRIES = 1
  SHARING_TTL = 1
  AclScope = FALSE
  Delay = 1
  LastTime = 2
  MaxCrashes = 1
  None = None
INVARIANTS
  NothingLost
CHECK_DEADLOCK FALSE
