SPECIFICATION FairSpec
CONSTANTS
  a1 = a1
  a2 = a2
  Action <- TwoActions
  Steps = 2
  Gates <- FirstGate
  Requests <- WorkAndRetry
  Faults <- OnlyAgent
  FlowBatch = 1
  WaitingBatch = 1
  MaxRequests = 2
  MaxTasks = 8
INVARIANTS
  GateHolds
  NoStepSkipped
  ResumedOnce
PROPERTIES
  FinalIsFinal
  FlowsProgress
  TasksResumed
CHECK_DEADLOCK FALSE
