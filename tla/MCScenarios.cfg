CONSTANTS
  Null = Null
  MaxExperiments = 4
  MaxCommands = 2
SPECIFICATION Spec
INVARIANTS
  SchemaHolds
  GroupsAgree
  TimesFollowTransitions
  LogsAgree
  FrameNamesItsGraph
CHECK_DEADLOCK FALSE
