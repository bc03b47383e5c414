SPECIFICATION FairSpec
CONSTANTS
  Priorities = {1, 3}
  MaxMsgs = 4
  NumMsgs = 2
  Tasks = {"t1"}
  Callers = {"c1"}
  Headers = {TRUE, FALSE}
  CanFail = TRUE
  MaxRequests = 3
  MaxCalls = 2
  MaxFaults = 1
CHECK_DEADLOCK FALSE
INVARIANTS
  TypeOK
  AnswerIsFresh
  AckedIsAnswered
  OneStream
PROPERTY
  RequestAnswered
