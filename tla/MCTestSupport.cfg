SPECIFICATION MCSpec
CONSTANTS
  tst = tst
  drv = drv
  x = x
  y = y
  any = any
  Threads = {tst, drv}
  Tester = tst
  Nobody = Nobody
  Patterns <- SomePatterns
  Topics <- SomeTopics
  TopicLists <- SomeLists
  EVENT_QUEUE_LEN = 1
  REC_LEN = 2
  MaxCalls <- FewCalls
  Texts = {x, y, any}
  Items = {x, y}
  Expectations <- SomeSlices
  OwnSlice <- KeptSlice
  Keys = {x, y}
  MaxFires = 3
  MaxOwnerCalls = 5
  MaxItems = 4
  MaxVerifies = 2
  MaxContents = 2
  MaxWrites = 3
  MaxTracks = 2
  MaxSets = 2
CHECK_DEADLOCK FALSE
INVARIANTS
  DeliveredAsPublished
  TablesAgree
  TicksAreDue
  VerifyTells
  ReportsFollowWrites
  FlagAndLoggerAgree
PROPERTIES
  CallsReturn
  TimerCallsReturn
