CONSTANTS
  Keys = {k1, k2, k3}
  Ddr = {1}
  Hbm = {2}
  Size <- MCSize
  Readers = {r1, r2}
  RingDepth = 1
  Replaced = {k1}
  MaxVersion = 2
SYMMETRY KeySymmetry
SPECIFICATION Spec
CHECK_DEADLOCK FALSE
INVARIANTS ArenaInv RecordTruthful ReadyIsWhole ReadsAreStable WritersOwnTheirSlot
PROPERTIES MigrationKeepsResident WarmRestartKeeps
