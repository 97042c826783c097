CONSTANTS
  c1 = c1
  c2 = c2
  c3 = c3
  l1 = l1
  l2 = l2
  l3 = l3
  Calls <- ThreeCalls
  Keys = {1, 2}
  Locks <- ThreeLocks
  SweepThreshold = 0
  None = None
SPECIFICATION FairSpec
INVARIANTS TypeOK MutualExclusion
PROPERTIES GrowthIsSwept EveryCallProceeds ImplementsMutex
