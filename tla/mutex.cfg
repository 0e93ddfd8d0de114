CONSTANTS
  Tasks = {t1, t2, t3}
  Interruptible = {t1, t2}
  Nobody = Nobody
SPECIFICATION FairSpec
INVARIANT NoWarning
INVARIANT HandoffNotLost
PROPERTY ImplementsLock
PROPERTY LockReturns
