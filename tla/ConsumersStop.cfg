SPECIFICATION Spec
CONSTANTS
  Priorities = {1, 3}
  MaxMsgs = 3
  NumMsgs = 2
  MaxCount = 1
  AutoAck = TRUE
  HasErrorHandler = TRUE
  CanFail = TRUE
  CanPanic = TRUE
  CanLose = FALSE
  CanCrash = FALSE
  SDKs = {"go", "rust", "java", "js"}
INVARIANTS HandledOnce
