CONSTANTS
  NumSeqs = 3
  NumLayers = 2
  PageSize = 2
  MaxPages = 3
  VramPages = 5
  ColdPages = 2
  SpillCap = 1
  Retention = 2
  Growth = 0
  Chunk = 2
  Superchunk = 2
  Roots = {1}
  PrefixLens = {1}
  RewindTo = {2, 3}
  MaxRewinds = 1
  AnyFork = FALSE
  AnyRewind = FALSE
SPECIFICATION Spec
INVARIANTS KvNeverFailsLoud KvContentKept KvAccountsExact
CHECK_DEADLOCK FALSE
