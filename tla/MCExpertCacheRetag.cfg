CONSTANTS
  Keys = {k1, k2}
  StableSlots = 1
  SpillSlots = 1
  PrefetchSlots = 1
  GrantSizes = {1}
  Components = {gate}
  MaxLocks = 1
  MaxZones = 1
  MaxGeneration = 2
  MaxListed = 2
SPECIFICATION Spec
INVARIANT SlotsExclusive
