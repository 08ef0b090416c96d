CONSTANTS
  Ticks = {t1, t2}
  NoTimer = NoTimer
  MaxGeneration = 12
SPECIFICATION FairSpec
INVARIANTS
  OneTick
  NoStaleTimer
  RunningIsArmed
  QuietAfterCleanup
PROPERTIES
  KeepsProducing
CHECK_DEADLOCK FALSE
