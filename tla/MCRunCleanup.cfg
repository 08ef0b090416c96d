CONSTANTS
  add1 = add1
  add2 = add2
  stop1 = stop1
  crash1 = crash1
  produce1 = produce1
  process1 = process1
  w1 = w1
  c1 = c1
  c2 = c2
  Mutations = {add1, add2, stop1, crash1, process1}
  Works = {w1}
  Cleanups = {c1, c2}
  NoOne = NoOne
  ConsumerIds = {1, 2, 3}
  ConsumerLimit = 2
  Loads <- CleanupLoads
  Kind <- MCKind
  Behavior <- MCBehavior
  ProcessOf <- MCProcessOf
SPECIFICATION FairSpec
INVARIANTS
  DeleteOnlyWhenQuiet
  CleanMeansClean
  NoConsumerLost
  StoppedRunIsEmpty
PROPERTIES
  NothingStartsAfterCleanup
  CleanupTerminates
  RetryReleases
CHECK_DEADLOCK FALSE
