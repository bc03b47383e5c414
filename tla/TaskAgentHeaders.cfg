SPECIFICATION FairSpec
CONSTANTS
  Priorities = {1, 3}
  MaxMsgs = 1
  NumMsgs = 2
  Tasks = {"t1"}
  Callers = {"c1"}
  Headers = {FALSE}
  CanFail = TRUE
  MaxRequests = 1
  MaxCalls = 2
  MaxFaults = 0
CHECK_DEADLOCK FALSE
PROPERTY MessageReceived
