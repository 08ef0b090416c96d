CONSTANTS
  MaxMessages = 2
  RetainedMessageLimit = 2
  PartitionCount = 2
  ConsumerIds = {1, 2}
  NoConsumer = NoConsumer
  ConsumerLimit = 2
  Latencies = {1}
  ScenarioIds = {"partitioning"}
  MaxChanges = 3
  MaxExperiments <- MCNoExperiments
  Null = Null
SPECIFICATION Spec
PROPERTIES
  ProcessedInOrder
CHECK_DEADLOCK FALSE
