CONSTANTS
  Experts = {0, 1, 2}
  Layers = {0}
  Borrowed = {1}
  QueueDepth = 2
  RingSize = 1
  MaxTokens = 3
  MaxSeqs = 3
  MaxBoots = 2
SPECIFICATION FairSpec
INVARIANTS BufferLifetime InflightExact AcceptedNotForgotten
PROPERTY WritesSettle
CHECK_DEADLOCK FALSE
