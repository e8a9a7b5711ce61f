SPECIFICATION FairSpec
CONSTANTS
  alice = alice
  bob = bob
  carol = carol
  cron = cron
  j1 = j1
  j2 = j2
  j3 = j3
  j4 = j4
  s1 = s1
  c1 = c1
  l1 = l1
  l2 = l2
  l3 = l3
  l4 = l4
  None = None
  User <- Keys
  Owner <- Keyed
  Chat <- TwoChats
  Scheduled <- OneScheduled
  Lane <- TwoLanes
  Client <- OneClient
  Councils <- FirstChat
  Unwanted <- FirstChat
  MaxDepth = 1
  MaxConcurrent = 2
  MaxEvents = 1
INVARIANTS
  TypeOK
  StreamIsTheRun
PROPERTIES
  StreamsEnd
  RunsForgotten
CHECK_DEADLOCK FALSE
