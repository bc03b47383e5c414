SPECIFICATION Spec
CONSTANTS
  Priorities = {3}
  MaxMsgs = 2
  NumMsgs = 2
  MaxCount = 2
  AutoAck = TRUE
  HasErrorHandler = TRUE
  CanFail = FALSE
  CanPanic = FALSE
  CanLose = FALSE
  CanCrash = FALSE
INVARIANTS StopDrains
