CONSTANTS
  MaxMessages = 4
  RetainedMessageLimit = 3
  PartitionCount = 2
  ConsumerIds = {1, 2, 3}
  NoConsumer = NoConsumer
  ConsumerLimit = 3
  Latencies = {1, 2}
  ScenarioIds = {"partitioning", "acl-least-privilege"}
  MaxChanges = 3
  MaxExperiments <- MCMaxExperiments
  Null = Null
SPECIFICATION FairSpec
INVARIANTS
  TypeOK
  NothingStranded
  ReceivedIsPending
  ReprocessedOnlyIfUncommitted
PROPERTIES
  EveryMessageSettles
CHECK_DEADLOCK FALSE
