SPECIFICATION FairSpec
CONSTANTS
  k1 = k1
  k2 = k2
  g1 = g1
  Keys = {k1, k2}
  Gpus = {g1}
  Slots = 2
  ArenaSlots = 1
  OnNvme = {k1}
  Clients = {{"direct"}}
  MaxTokens = 3
  MaxCopies = 1
CHECK_DEADLOCK FALSE
PROPERTIES ParkedProgress
