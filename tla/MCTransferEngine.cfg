CONSTANTS
  Experts = {e1, e2}
  Gpus = {0, 1}
  Priorities = {0, 1}
  Thresholds = {1}
  MinDispatch = 1
  MaxInflight = 1
  PoolSize = 1
  NeedsStaging = {e1, e2}
  Oversized = {e2}
  FarGateDispatch = TRUE
  MaxTokens = 2
SPECIFICATION FairSpec
INVARIANTS StagingSlotExclusive StagedIndexExact TransferInv
PROPERTIES IsTransferService EveryTransferSettles
