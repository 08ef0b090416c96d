CONSTANTS
  MaxMessages = 3
  MaxCommands = 3
  ConsumerIds = {1, 2}
  ConsumerLimit = 2
  RetainedMessageLimit = 2
  FailedByScenario = {2}
  NoOne = NoOne
SPECIFICATION Spec
INVARIANTS
  TypeOK
  ProcessedOnce
  ReceivedIsPending
  NothingSkipped
CHECK_DEADLOCK FALSE
