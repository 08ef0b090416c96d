CONSTANTS
  add1 = add1
  add2 = add2
  stop1 = stop1
  crash1 = crash1
  produce1 = produce1
  process1 = process1
  w1 = w1
  c1 = c1
  c2 = c2
  Mutations = {produce1}
  Works = {}
  Cleanups = {c1, c2}
  NoOne = NoOne
  ConsumerIds = {1, 2}
  ConsumerLimit = 1
  Loads <- LateDeletionLoads
  Kind <- MCKind
  Behavior <- MCBehavior
  ProcessOf <- MCProcessOf
SPECIFICATION FairSpec
PROPERTIES
  RetryReleases
CHECK_DEADLOCK FALSE
