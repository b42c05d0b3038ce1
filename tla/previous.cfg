SPECIFICATION Spec
CONSTANTS
  Orders = {1, 2}
  ItemsOf <- Singles
  NoName = 0
  MaxChanges = 1
  MaxAppear = 2
  MaxBlocks = 1
INVARIANTS TypeOK TableIsComplete AnswersFindTheirItems LoadingCloses
CHECK_DEADLOCK FALSE
