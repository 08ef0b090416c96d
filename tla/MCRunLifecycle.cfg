CONSTANTS
  m1 = m1
  m2 = m2
  m3 = m3
  Mutations = {m1, m2, m3}
  Cleanups = {c1, c2}
  Works = {w1}
  NoOne = NoOne
  Behavior <- MCBehavior
SPECIFICATION FairSpec
INVARIANTS
  ChainIsQueue
  OneMutationAtATime
  ClosedWhileOwed
PROPERTIES
  ImplementsGate
  EveryMutationSettles
  RunReopens
