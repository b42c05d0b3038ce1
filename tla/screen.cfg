SPECIFICATION Spec
CONSTANTS
  Lines = {1, 2}
  NoLine = 0
  Cost <- Prices
  MaxCount = 1
  MaxDays = 2
  MaxChanges = 1
  MaxRemovals = 1
  MaxWrites = 3
  MaxBlocks = 3
INVARIANTS TypeOK OrderIsShown ConfirmedIndexStands BlockingAlertsClose
CHECK_DEADLOCK FALSE
