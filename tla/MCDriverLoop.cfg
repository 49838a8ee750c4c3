SPECIFICATION FairSpec
CONSTANTS
  a = a
  b = b
  t1 = t1
  t2 = t2
  t3 = t3
  t4 = t4
  None = None
  Callers = {a, b}
  Program <- CallerProgram
  Child <- ThunkChild
  Meta = {t1, t3}
  AutoPoll = TRUE
  EVENT_QUEUE_LEN = 2
  MaxMessages = 1
  MaxPolls = 1
INVARIANTS
  TypeOK
  NothingLost
  CleanupLeavesOnlyLate
PROPERTIES
  ImplementsReadyQueue
  EverythingRuns
  StopTerminates
CHECK_DEADLOCK FALSE
