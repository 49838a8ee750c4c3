SPECIFICATION Spec
CONSTANTS
  MaxLosses = 0
  MaxRestarts = 0
  MaxDups = 0
INVARIANT ReadyAfterRetained
CHECK_DEADLOCK FALSE
