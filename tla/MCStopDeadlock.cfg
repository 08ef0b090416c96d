CONSTANTS
  add1 = add1
  add2 = add2
  stop1 = stop1
  crash1 = crash1
  produce1 = produce1
  process1 = process1
  w1 = w1
  c1 = c1
  c2 = c2
  Mutations = {add1, stop1, process1}
  Works = {w1}
  Cleanups = {c1}
  NoOne = NoOne
  ConsumerIds = {1, 2}
  ConsumerLimit = 1
  Loads <- StopLoads
  Kind <- MCKind
  Behavior <- MCBehavior
  ProcessOf <- MCProcessOf
SPECIFICATION FairSpec
PROPERTIES
  StopReturns
CHECK_DEADLOCK FALSE
