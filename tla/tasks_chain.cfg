SPECIFICATION FairSpec
CONSTANTS
  a1 = a1
  a2 = a2
  Action <- TwoActions
  Steps = 1
  Gates <- NoGate
  Requests <- OnlySchedule
  Faults <- NoFaults
  FlowBatch = 1
  WaitingBatch = 2
  MaxRequests = 1
  MaxTasks = 4
PROPERTIES
  EveryRunResumed
CHECK_DEADLOCK FALSE
