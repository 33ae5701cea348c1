SPECIFICATION FairSpec
CONSTANTS
  k1 = k1
  k2 = k2
  g1 = g1
  Keys = {k1, k2}
  Gpus = {g1}
  Slots = 2
  ArenaSlots = 1
  OnNvme = {k1}
  Clients = {{"direct", "evict", "cancel", "lock"},
             {"direct", "late_cancel", "cache_evict"},
             {"direct", "cancel", "atomic"},
             {"evict", "cancel", "lock", "ring_full"},
             {"nvme", "evict", "cancel", "drain", "nvme_write", "ring_full"},
             {"nvme", "cancel", "nvme_write", "nvme_cancel"}}
  MaxTokens = 3
  MaxCopies = 2
CHECK_DEADLOCK FALSE
INVARIANTS ReadyMeansContent LifecycleInv WaitedForIsDriven SourceStable
PROPERTIES Service EveryRequestCloses
