CONSTANTS
  Creators = {c1, c2}
  Nobody = Nobody
SPECIFICATION FairSpec
INVARIANT CreateAlive
INVARIANT ErrorMeansNeverRun
INVARIANT NothingLeaks
PROPERTY CreatorReturns
PROPERTY TaskStarts
PROPERTY StopReturns
\* Once every creator has its error or has stopped its thread, nothing is left to do.
CHECK_DEADLOCK FALSE
