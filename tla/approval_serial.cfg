SPECIFICATION Spec
CONSTANTS
  a1 = a1
  a2 = a2
  r1 = r1
  r2 = r2
  h1 = h1
  h2 = h2
  h3 = h3
  NoReviewer = NoReviewer
  Action <- TwoActions
  Reviewer <- TwoReviewers
  Handler <- TwoHandlers
  Retrier <- OneRetrier
  Executable <- OneAction
  Faults <- BothFaults
  MaxRounds = 2
INVARIANTS
  TypeOK
  OneEffectPerApproval
  ExecutedOnlyWhileApproved
  AuditTrail
PROPERTY ImplementsLifecycle
CHECK_DEADLOCK FALSE
