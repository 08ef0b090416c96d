CONSTANTS
  Runs = {r1, r2, r3}
  Sessions = {s1, s2}
  NoRun = NoRun
  NoSession = NoSession
  SlowDeletion = FALSE
SPECIFICATION Spec
INVARIANTS
  RegistryAgrees
  OneActiveRun
  NoOrphanTopic
PROPERTIES
  DropsRetiredRunsOnly
SYMMETRY Symmetry
CHECK_DEADLOCK FALSE
