SPECIFICATION Spec
CONSTANTS
  c1 = c1
  c2 = c2
  v1 = v1
  v2 = v2
  Devices = {d1}
  Controls = {c1}
  NoCtl = NoCtl
  Values = {v1, v2}
  Empty = Empty
  Text = Text
  BadNumber = BadNumber
  ControlDefs <- OneControl
  ModelOps = {"remove"}
  MaxObjects = 2
  MaxList = 1
  MaxPending = 2
INVARIANT OnDeviceIsLocal
CHECK_DEADLOCK FALSE
