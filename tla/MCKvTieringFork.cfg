CONSTANTS
  NumSeqs = 3
  NumLayers = 1
  PageSize = 2
  MaxPages = 2
  VramPages = 6
  ColdPages = 2
  SpillCap = 1
  Retention = 2
  Growth = 1
  Chunk = 2
  Superchunk = 2
  Roots = {1}
  PrefixLens = {1}
  RewindTo = {0, 1, 2, 3}
  MaxRewinds = 1
  AnyFork = TRUE
  AnyRewind = FALSE
SPECIFICATION Spec
INVARIANT KvContentKept
CHECK_DEADLOCK FALSE
