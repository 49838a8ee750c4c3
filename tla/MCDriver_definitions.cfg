SPECIFICATION Spec
CONSTANTS
  c1 = c1
  c2 = c2
  v1 = v1
  v2 = v2
  Devices = {d1}
  Controls = {c1, c2}
  NoCtl = NoCtl
  Values = {v1}
  Empty = Empty
  Text = Text
  BadNumber = BadNumber
  ControlDefs <- TwoControls
  ModelOps = {"remove", "newext", "error"}
  MaxObjects = 2
  MaxList = 2
  MaxPending = 0
INVARIANTS
  SubscriptionsOwned
  OrdersBelowNext
CHECK_DEADLOCK FALSE
