SPECIFICATION FairSpec
CONSTANTS
  drv = drv
  rpc = rpc
  x = x
  y = y
  Threads = {drv}
  Topics = {x}
  UsedBy <- OneThread
  Payloads = {p1}
  Empty = Empty
  None = None
  TOKEN_QUEUE_LEN = 1
  MaxCalls = 2
  MaxLosses = 1
  MaxStarts = 1
PROPERTIES
  CallsReturn
  Reconnects
CHECK_DEADLOCK FALSE
