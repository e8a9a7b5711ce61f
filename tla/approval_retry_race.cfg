SPECIFICATION Spec
CONSTANTS
  a1 = a1
  a2 = a2
  r1 = r1
  r2 = r2
  h1 = h1
  h2 = h2
  h3 = h3
  NoReviewer = NoReviewer
  Action <- OneAction
  Reviewer <- TwoReviewers
  Handler <- ThreeHandlers
  Retrier <- TwoHandlers
  Executable <- OneAction
  Faults <- NoFaults
  MaxRounds = 3
PROPERTY OnlyFailedIsRetried
CHECK_DEADLOCK FALSE
