CONSTANTS
  Null = Null
  e1 = e1
  e2 = e2
  ExperimentIds = {e1, e2}
  PrerequisiteOf <- MCPrerequisiteOf
  Observing = {e1}
  Transitions <- MCTransitions
  MaxMessages = 2
  Loads <- MCLoads
  EventHistoryLimit = 6
  TimelineDisplayLimit = 3
  EventWindow = 4
SPECIFICATION FairSpec
INVARIANTS
  AllOrNothing
  NothingStrandedByExperiment
  StaleIsTold
PROPERTY ClientCatchesUp
CHECK_DEADLOCK FALSE
