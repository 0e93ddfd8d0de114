CONSTANTS
  Mounts <- StrictModeMounts
  NULL = NULL
  MaxLoads = 2
SPECIFICATION FairSpec
INVARIANT ChartsComplete
PROPERTY StaysShown
PROPERTY PageSettles
