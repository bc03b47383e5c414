SPECIFICATION Spec
CONSTANTS
  Priorities = {1, 3}
  MaxMsgs = 2
  NumMsgs = 2
  Tasks = {"t1"}
  Callers = {"c1"}
  Headers = {TRUE}
  CanFail = TRUE
  MaxRequests = 2
  MaxCalls = 1
  MaxFaults = 0
CHECK_DEADLOCK FALSE
INVARIANTS
  LastIsLast
