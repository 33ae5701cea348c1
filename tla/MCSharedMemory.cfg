CONSTANTS
  SlotCount = 2
  MaxDrain = 2
  Data = {a, b}
  NoData = NoData
  Torn = Torn
  MaxSeq = 5
  loop = loop
  elm = elm
  cycle = cycle
  stats = stats
  tier = tier
  Transactions = {loop, elm}
  Fields = {cycle, stats, tier}
  Owner <- MCOwner
  Values = {0, 1}
  InitialValue = 0
  MaxRetries = 2
  MaxDepth = 2
  MaxLock = 4
SPECIFICATION MCSpec
INVARIANTS CallbackSlotStable ReadsAreAtomic
PROPERTIES IsFifoQueue EverySlotConsumed EveryReadEnds
