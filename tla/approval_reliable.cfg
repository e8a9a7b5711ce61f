SPECIFICATION FairSpec
CONSTANTS
  a1 = a1
  a2 = a2
  r1 = r1
  r2 = r2
  h1 = h1
  h2 = h2
  h3 = h3
  NoReviewer = NoReviewer
  Action <- OneAction
  Reviewer <- TwoReviewers
  Handler <- TwoHandlers
  Retrier <- OneRetrier
  Executable <- OneAction
  Faults <- NoFaults
  MaxRounds = 3
INVARIANT AppliedAtMostOnce
PROPERTY ApprovedSettles
CHECK_DEADLOCK FALSE
