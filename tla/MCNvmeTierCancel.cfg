CONSTANTS
  Experts = {0, 1}
  Layers = {0}
  Borrowed = {}
  QueueDepth = 2
  RingSize = 2
  MaxTokens = 3
  MaxSeqs = 2
  MaxBoots = 1
SPECIFICATION FairSpec
PROPERTIES EveryWriteReaped
CHECK_DEADLOCK FALSE
