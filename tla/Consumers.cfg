SPECIFICATION FairSpec
CONSTANTS
  Priorities = {3}
  MaxMsgs = 2
  NumMsgs = 2
  MaxCount = 2
  AutoAck = TRUE
  HasErrorHandler = TRUE
  CanFail = TRUE
  CanPanic = TRUE
  CanLose = TRUE
  CanCrash = TRUE
  SDKs = {"py", "go", "rust", "java", "js", "cs"}
INVARIANTS
  TypeOK
  NothingSkipped
  AckedWasHandled
  CountedIsAcked
  HandleIsExact
PROPERTIES
  ImplementsContract
  CountedOnce
  StopLetsNoneThrough
  Delivered
  StopReturns
