CONSTANTS
  Runs = {r1, r2, r3}
  Sessions = {s1}
  NoRun = NoRun
  NoSession = NoSession
  SlowDeletion = TRUE
SPECIFICATION Spec
INVARIANTS
  OneActiveRun
CHECK_DEADLOCK FALSE
