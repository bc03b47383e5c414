SPECIFICATION Spec
CONSTANTS
  Priorities = {3}
  MaxMsgs = 2
  NumMsgs = 1
  MaxCount = 3
  AutoAck = TRUE
  HasErrorHandler = TRUE
  CanFail = TRUE
  CanPanic = TRUE
  CanLose = FALSE
  CanCrash = FALSE
INVARIANTS RunningIsAlive
