SPECIFICATION FairSpec
CHECK_DEADLOCK FALSE
PROPERTY EverythingIsSent
CONSTANTS
  Users = {"ann", "nobody"}
  Aborted = "aborted"
  MaxPending = 2
  MaxWrites = 3
  MaxTasks = 2
  MaxChanges = 1
  MaxLosses = 1
  MaxKills = 0
