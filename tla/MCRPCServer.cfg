SPECIFICATION FairSpec
CONSTANTS
  Arith = Arith
  hidden = hidden
  Multiply = Multiply
  Divide = Divide
  NoName = NoName
  Names = {Arith, hidden}
  ExportedNames = {Arith}
  Scenarios <- BothScenarios
  FLOAT_EXACT = 4
  RPC_MESSAGE_QUEUE_LEN = 2
  TOKEN_QUEUE_LEN = 1
  MaxStops = 2
CHECK_DEADLOCK FALSE
INVARIANTS
  ReplyFits
  AdvertisedIsCallable
  HandledOnceInOrder
PROPERTIES
  EveryRequestAnswered
  StopEnds
