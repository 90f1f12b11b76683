\* Five cells, fragmented by removals; batches of two graphs, which may fail.
SPECIFICATION Spec
CONSTANTS
  Size = 5
  Seqs = {0}
  UBatch = 2
  MaxBatch = 3
  MaxTokens = 5
  MaxPos = 4
  MaxMoves = 3
  Ops = {"rm", "div", "defrag"}
  Faults = {"decode", "shift", "noshift"}
INVARIANTS
  NothingOwed
  HoleCanBeFilled
  ScanFindsSlot
PROPERTIES
  DefragCompacts
  ImplementsStoreInPlace
