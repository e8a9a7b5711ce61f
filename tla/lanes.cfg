SPECIFICATION FairSpec
CONSTANTS
  u1 = u1
  u2 = u2
  j1 = j1
  j2 = j2
  j3 = j3
  j4 = j4
  l1 = l1
  l2 = l2
  l3 = l3
  User <- Users
  Job <- Jobs
  Owner <- Owners
  Lane <- Lanes3
  None = None
  MaxDepth = 2
INVARIANTS
  TypeOK
  OneAtATime
  Reachable
  LanesReleased
PROPERTIES
  ImplementsJobQueue
  AcceptedJobsEnd
CHECK_DEADLOCK FALSE
