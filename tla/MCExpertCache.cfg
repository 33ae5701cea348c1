CONSTANTS
  Keys = {k1, k2}
  StableSlots = 0
  SpillSlots = 1
  PrefetchSlots = 0
  GrantSizes = {1}
  Components = {gate}
  MaxLocks = 1
  MaxZones = 2
  MaxGeneration = 3
  MaxListed = 1
SYMMETRY KeySymmetry
SPECIFICATION Spec
INVARIANTS CacheInv ElasticSlotsExact BoardMirrorsStable ZonesOutliveResidents CapacityFresh
PROPERTIES LockedStays
