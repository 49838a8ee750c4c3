SPECIFICATION Spec
CONSTANTS
  drv = drv
  rpc = rpc
  x = x
  y = y
  Threads = {drv}
  Topics = {x}
  UsedBy <- OneThread
  Payloads = {p1, p2}
  Empty = Empty
  None = None
  TOKEN_QUEUE_LEN = 1
  MaxCalls = 2
  MaxLosses = 2
  MaxStarts = 2
INVARIANTS
  TypeOK
  SubscriptionsRestored
  RetainedRestored
  ClearedStaysCleared
CHECK_DEADLOCK FALSE
