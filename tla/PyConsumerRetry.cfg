SPECIFICATION Spec
CONSTANTS
  Priorities = {3}
  MaxMsgs = 3
  NumMsgs = 2
  MaxCount = 4
  AutoAck = TRUE
  HasErrorHandler = TRUE
  CanFail = TRUE
  CanPanic = FALSE
  CanLose = FALSE
  CanCrash = FALSE
INVARIANTS StaysForRetry
