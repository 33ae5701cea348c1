CONSTANTS
  SlotBytes = 8
  SlabBytes = 6
  Align = 4
  WasteNum = 1
  WasteDen = 2
  Ranks = 2
  Slabs = 6
  StateGpus = {2}
  MaxState = 1
  Prompts = {4, 5}
  Transient = 0
  Growth = 1
  Concurrency = 1
  FracLow = 0
  FracHigh = 0
  MainReserved = 0
  MaxSlots = 1
  CooldownTicks = 1
  StreamDepth = 1
SPECIFICATION FairSpec
INVARIANTS ZoneInv HandbackQuiet
PROPERTIES DemandMet
