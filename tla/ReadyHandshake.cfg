SPECIFICATION FairSpec
CONSTANTS
  MaxLosses = 2
  MaxRestarts = 1
  MaxDups = 2
INVARIANTS
  ReadyClosedOnce
  ReadyAfterRetainedIfOrdered
PROPERTY EventuallyReady
CHECK_DEADLOCK FALSE
