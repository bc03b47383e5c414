SPECIFICATION FairSpec
CONSTANTS
  Priorities = {1, 2, 3}
  MaxMsgs = 2
  NumMsgs = 2
  Users = {"a", "b"}
  Owner = "a"
  Words = {"critical", "high"}
  MaxReplies = 2
INVARIANTS TypeOK NothingVanishes
PROPERTIES RegisteredAgain PollFinds
