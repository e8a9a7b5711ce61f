SPECIFICATION Spec
CONSTANTS
  a1 = a1
  a2 = a2
  Action <- OneAction
  Steps = 2
  Gates <- EveryGate
  Requests <- AnyWork
  Faults <- AnyFault
  FlowBatch = 1
  WaitingBatch = 1
  MaxRequests = 1
  MaxTasks = 5
INVARIANTS
  TypeOK
PROPERTIES
  ResumedWhenResolved
CHECK_DEADLOCK FALSE
