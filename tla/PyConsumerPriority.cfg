SPECIFICATION Spec
CONSTANTS
  Priorities = {1, 3}
  MaxMsgs = 3
  NumMsgs = 3
  MaxCount = 4
  AutoAck = TRUE
  HasErrorHandler = TRUE
  CanFail = FALSE
  CanPanic = FALSE
  CanLose = FALSE
  CanCrash = FALSE
INVARIANTS NothingLost
