SPECIFICATION Spec
CHECK_DEADLOCK FALSE
INVARIANTS PipelineIsTheQueue AnswersMatch StreamIsNeeded LastWriteWins AppliedAsAuthor OwnResultOnce
PROPERTY QueueSpec
CONSTANTS
  Users = {"ann", "nobody"}
  Aborted = "aborted"
  MaxPending = 2
  MaxWrites = 3
  MaxTasks = 2
  MaxChanges = 1
  MaxLosses = 1
  MaxKills = 1
